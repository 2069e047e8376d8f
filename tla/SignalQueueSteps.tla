-------------------------- MODULE SignalQueueSteps --------------------------
(***************************************************************************)
(* What each step of the signal queue changes, field by field, and that it *)
(* keeps the types of the variables.  SignalQueueProofs rests on these     *)
(* lemmas and never expands an action.                                     *)
(***************************************************************************)
EXTENDS SignalQueue, SequenceFacts

(* The other senders stay as they are. *)
Others(s) == \A t \in Senders \ {s} : snd'[t] = snd[t]

(* Nothing of a sender changes but where it is. *)
SndKeeps(s) ==
  /\ snd'[s].n = snd[s].n /\ snd'[s].array = snd[s].array /\ snd'[s].sync = snd[s].sync
  /\ snd'[s].restarted = snd[s].restarted /\ snd'[s].mark = snd[s].mark

(* A sender does not start its announcement again. *)
NoRestart(s) == snd'[s].restarted => snd[s].restarted

(* Nothing of the receiver changes but where it is. *)
RcvKeeps ==
  /\ rcv'.want = rcv.want /\ rcv'.after = rcv.after /\ rcv'.flags = rcv.flags
  /\ rcv'.due = rcv.due /\ rcv'.buffers = rcv.buffers

(* A sender takes on the state x. *)
LEMMA SenderSet ==
  ASSUME TypeOK, NEW s \in Senders, NEW x \in Sender, snd' = [snd EXCEPT ![s] = x]
  PROVE  snd' \in [Senders -> Sender] /\ Others(s) /\ snd'[s] = x
BY Zenon DEF TypeOK, Others

(* A sender goes to pc. *)
LEMMA GotoEffect ==
  ASSUME TypeOK, NEW s \in Senders, NEW pc \in SenderPcs, Goto(s, pc)
  PROVE  snd' \in [Senders -> Sender] /\ Others(s) /\ snd'[s].pc = pc /\ SndKeeps(s) /\ NoRestart(s)
<1> DEFINE x == [snd[s] EXCEPT !.pc = pc]
<1>1. snd[s] \in Sender  BY DEF TypeOK
<1>2. x \in Sender  BY <1>1, Zenon DEF Sender
<1>3. snd' \in [Senders -> Sender] /\ Others(s) /\ snd'[s] = x
  BY <1>2, SenderSet, Zenon DEF Goto
<1> QED BY <1>1, <1>3, Zenon DEF Sender, SndKeeps, NoRestart

(* A sender returns from queue_messages. *)
LEMMA ReturnEffect ==
  ASSUME TypeOK, NEW s \in Senders, Return(s)
  PROVE  snd' \in [Senders -> Sender] /\ Others(s) /\ snd'[s].pc = "idle" /\ NoRestart(s)
<1>1. snd[s].n \in Nat  BY DEF TypeOK, Sender
<1>2. Idle(snd[s].n) \in Sender  BY <1>1, Zenon DEF Sender, SenderPcs, Idle
<1>3. Idle(snd[s].n).pc = "idle" /\ Idle(snd[s].n).restarted = FALSE  BY DEF Idle
<1> QED BY <1>2, <1>3, SenderSet, Zenon DEF Return, NoRestart

(* The receiver goes to pc. *)
LEMMA RGotoEffect ==
  ASSUME TypeOK, NEW pc \in ProcessPcs, RGoto(pc)
  PROVE  rcv' \in Process /\ rcv'.pc = pc /\ RcvKeeps
BY Zenon DEF TypeOK, Process, RGoto, RcvKeeps

(* The receiver leaves a receive. *)
LEMMA LeftEffect ==
  ASSUME TypeOK, rcv' = Left
  PROVE  /\ rcv' \in Process /\ rcv'.pc = "idle" /\ rcv'.want = {} /\ rcv'.after = "none"
         /\ rcv'.flags = {} /\ rcv'.due = {} /\ rcv'.buffers = rcv.buffers
BY Zenon DEF TypeOK, Process, ProcessPcs, Left

(* A flag of the process is set or cleared. *)
LEMMA FlagTypes ==
  ASSUME TypeOK, NEW F \in SUBSET Flags
  PROVE  state \cup F \subseteq Flags /\ state \ F \subseteq Flags
BY DEF TypeOK

(* A notification makes the process ACTIVE, and puts it into a run queue unless it has been freed. *)
LEMMA ActivateEffect ==
  ASSUME TypeOK, Activate
  PROVE  /\ state' \subseteq Flags
         /\ "FREE" \in state /\ "ACTIVE" \notin state => state' = state
         /\ ~("FREE" \in state /\ "ACTIVE" \notin state) =>
              /\ "ACTIVE" \in state'
              /\ state \cap {"RUNNING", "IN_RUNQ"} # {} =>
                   ("IN_RUNQ" \in state' <=> "IN_RUNQ" \in state)
         /\ \A f \in Flags \ {"ACTIVE", "IN_RUNQ"} : f \in state' <=> f \in state
BY DEF TypeOK, Activate, Flags

(* queue_messages begins. *)
LEMMA queue_messagesEffect ==
  ASSUME TypeOK, NEW s \in Senders, queue_messages(s)
  PROVE  /\ TypeOK' /\ Others(s) /\ NoRestart(s)
         /\ snd[s].pc = "idle" /\ "FREE" \notin state
         /\ snd'[s].pc \in {"slot", "lock"}
         /\ UNCHANGED <<state, lock, queues, buf, fl, rcv, timer, tpc, onHeap>>
<1>1. snd[s] \in Sender /\ snd[s].n + 1 \in Nat /\ buf.installed \in BOOLEAN /\ buf.array \in Nat
  BY DEF TypeOK, Sender, BufferArray
<1> DEFINE pc == IF buf.installed THEN "slot" ELSE "lock"
           array == IF buf.installed THEN buf.array ELSE 0
           x == [snd[s] EXCEPT !.pc = pc, !.n = @ + 1, !.array = array, !.sync = buf.installed]
<1>2. pc \in SenderPcs /\ array \in Nat  BY <1>1 DEF SenderPcs
<1>3. snd' = [snd EXCEPT ![s] = x]  BY Zenon DEF queue_messages
<1> HIDE DEF pc, array
<1>4. x \in Sender /\ x.pc = pc /\ x.restarted = snd[s].restarted  BY <1>1, <1>2, Zenon DEF Sender
<1> HIDE DEF x
<1>5. snd' \in [Senders -> Sender] /\ Others(s) /\ snd'[s] = x  BY <1>3, <1>4, SenderSet
<1> QED BY <1>4, <1>5 DEF queue_messages, TypeOK, lock, queues, pc, At, NoRestart

BufKeeps == /\ buf'.installed = buf.installed /\ buf'.array = buf.array
            /\ buf'.alive = buf.alive /\ buf'.queue = buf.queue

(* The lock of a live slot is taken, or the array turns out to be gone. *)
LEMMA LockSlotEffect ==
  ASSUME TypeOK, NEW s \in Senders, LockSlot(s)
  PROVE  /\ TypeOK' /\ Others(s) /\ NoRestart(s)
         /\ snd[s].pc = "slot" /\ SlotFree(SlotOf[s], snd[s].array)
         /\ \/ /\ snd[s].array = buf.array /\ SlotOf[s] \in buf.alive
               /\ snd'[s].pc = "nonempty" /\ SndKeeps(s)
               /\ BufKeeps /\ buf'.nonempty = buf.nonempty /\ buf'.msgs = TRUE
            \/ snd'[s].pc = "lock" /\ UNCHANGED buf
         /\ UNCHANGED <<state, lock, queues, fl, rcv, timer, tpc, onHeap>>
<1> USE DEF LockSlot
<1>1. CASE /\ snd[s].array = buf.array /\ SlotOf[s] \in buf.alive
           /\ buf' = [buf EXCEPT !.msgs = TRUE] /\ Goto(s, "nonempty")
  <2>1. /\ buf' \in BufferArray /\ BufKeeps
        /\ buf'.nonempty = buf.nonempty /\ buf'.msgs = TRUE
    BY <1>1, Zenon DEF TypeOK, BufferArray, BufKeeps
  <2>2. /\ snd' \in [Senders -> Sender] /\ Others(s)
        /\ snd'[s].pc = "nonempty" /\ SndKeeps(s) /\ NoRestart(s)
    BY <1>1, GotoEffect DEF SenderPcs
  <2> QED BY <1>1, <2>1, <2>2, Zenon DEF TypeOK, lock, queues, At
<1>2. CASE snd' = [snd EXCEPT ![s] = [Idle(@.n) EXCEPT !.pc = "lock"]] /\ UNCHANGED buf
  <2> DEFINE x == [Idle(snd[s].n) EXCEPT !.pc = "lock"]
  <2>1. snd[s].n \in Nat  BY DEF TypeOK, Sender
  <2>2. x \in Sender /\ x.pc = "lock" /\ x.restarted = FALSE
    BY <2>1, Zenon DEF Sender, SenderPcs, Idle
  <2>3. snd' \in [Senders -> Sender] /\ Others(s) /\ snd'[s] = x
    BY <1>2, <2>2, SenderSet, Zenon
  <2> QED BY <1>2, <2>2, <2>3, Zenon DEF TypeOK, lock, queues, At, NoRestart
<1> QED BY <1>1, <1>2

(* A sender announces its slot, unless a flush is about to empty it. *)
LEMMA MarkNonemptyEffect ==
  ASSUME TypeOK, NEW s \in Senders, MarkNonempty(s)
  PROVE  /\ TypeOK' /\ Others(s)
         /\ snd[s].pc = "nonempty"
         /\ BufKeeps /\ buf'.msgs = buf.msgs
         /\ buf'.nonempty = (IF buf.queue[SlotOf[s]] = <<>> THEN buf.nonempty \cup {SlotOf[s]}
                                                            ELSE buf.nonempty)
         /\ snd'[s].array = snd[s].array /\ snd'[s].restarted = snd[s].restarted
         /\ \/ /\ buf.queue[SlotOf[s]] # <<>> /\ SlotOf[s] \notin buf.nonempty
               /\ snd'[s].pc = "state" /\ snd'[s].sync = snd[s].sync
            \/ /\ buf.queue[SlotOf[s]] = <<>> \/ SlotOf[s] \in buf.nonempty
               /\ snd'[s].pc = "recheck"
               /\ snd'[s].sync = (IF snd[s].restarted THEN snd[s].sync ELSE buf.nonempty = {})
         /\ UNCHANGED <<state, lock, queues, fl, rcv, timer, tpc, onHeap>>
<1> DEFINE i == SlotOf[s]
           flushing == buf.queue[i] # <<>> /\ i \notin buf.nonempty
           pc == IF flushing THEN "state" ELSE "recheck"
           sync == IF flushing \/ snd[s].restarted THEN snd[s].sync ELSE buf.nonempty = {}
           x == [snd[s] EXCEPT !.pc = pc, !.sync = sync]
<1>1. snd[s] \in Sender /\ i \in Slots  BY SlotsAssumption DEF TypeOK
<1>2. snd[s].sync \in BOOLEAN /\ snd[s].restarted \in BOOLEAN  BY <1>1 DEF Sender
<1>3. pc \in SenderPcs /\ sync \in BOOLEAN  BY <1>2 DEF SenderPcs
<1>4. snd' = [snd EXCEPT ![s] = x]  BY Zenon DEF MarkNonempty
<1>5. /\ x \in Sender /\ x.pc = pc /\ x.sync = sync
      /\ x.array = snd[s].array /\ x.restarted = snd[s].restarted
  <2> HIDE DEF pc, sync
  <2> QED BY <1>1, <1>3, Zenon DEF Sender
<1>6. snd' \in [Senders -> Sender] /\ Others(s) /\ snd'[s] = x
  <2> HIDE DEF x
  <2> QED BY <1>4, <1>5, SenderSet
<1>7. /\ buf' \in BufferArray /\ BufKeeps /\ buf'.msgs = buf.msgs
      /\ buf'.nonempty = (IF buf.queue[i] = <<>> THEN buf.nonempty \cup {i} ELSE buf.nonempty)
  <2>1. buf \in BufferArray /\ buf.nonempty \cup {i} \in SUBSET Slots
    BY <1>1 DEF TypeOK, BufferArray
  <2>2. CASE buf.queue[i] = <<>>
    <3>1. buf' = [buf EXCEPT !.nonempty = buf.nonempty \cup {i}]
      BY <2>2, Zenon DEF MarkNonempty
    <3> QED BY <2>1, <2>2, <3>1, Zenon DEF BufferArray, BufKeeps
  <2>3. CASE buf.queue[i] # <<>>
    <3>1. buf' = buf  BY <2>3, Zenon DEF MarkNonempty
    <3> QED BY <2>1, <2>3, <3>1, Zenon DEF BufKeeps
  <2> QED BY <2>2, <2>3
<1>8. /\ snd[s].pc = "nonempty"
      /\ UNCHANGED <<state, lock, queues, fl, rcv, timer, tpc, onHeap>>
  BY Zenon DEF MarkNonempty, At
<1>9. TypeOK'  BY <1>6, <1>7, <1>8, Zenon DEF TypeOK, lock, queues
<1>10. CASE flushing
  <2>1. pc = "state" /\ sync = snd[s].sync  BY <1>10
  <2> HIDE DEF x, pc, sync
  <2> QED BY <1>5, <1>6, <1>7, <1>8, <1>9, <1>10, <2>1, Zenon
<1>11. CASE ~flushing
  <2>1. pc = "recheck" /\ sync = (IF snd[s].restarted THEN snd[s].sync ELSE buf.nonempty = {})
    BY <1>11
  <2> HIDE DEF x, pc, sync
  <2> QED BY <1>5, <1>6, <1>7, <1>8, <1>9, <1>11, <2>1, Zenon
<1> QED BY <1>10, <1>11

(* A sender finds its announcement in place, or starts again. *)
LEMMA RecheckMsgsEffect ==
  ASSUME TypeOK, NEW s \in Senders, RecheckMsgs(s)
  PROVE  /\ TypeOK' /\ Others(s)
         /\ snd[s].pc = "recheck"
         /\ snd'[s].array = snd[s].array /\ snd'[s].sync = snd[s].sync
         /\ \/ buf.msgs /\ snd'[s].pc = "state" /\ UNCHANGED buf
            \/ /\ snd'[s].pc = "nonempty" /\ snd'[s].restarted = TRUE
               /\ BufKeeps /\ buf'.nonempty = buf.nonempty /\ buf'.msgs = TRUE
         /\ UNCHANGED <<state, lock, queues, fl, rcv, timer, tpc, onHeap>>
<1> USE DEF RecheckMsgs
<1>1. CASE buf.msgs /\ Goto(s, "state") /\ UNCHANGED buf
  <2>1. snd' \in [Senders -> Sender] /\ Others(s) /\ snd'[s].pc = "state" /\ SndKeeps(s)
    BY <1>1, GotoEffect DEF SenderPcs
  <2> QED BY <1>1, <2>1, Zenon DEF TypeOK, lock, queues, At, SndKeeps
<1>2. CASE /\ buf' = [buf EXCEPT !.msgs = TRUE]
           /\ snd' = [snd EXCEPT ![s].pc = "nonempty", ![s].restarted = TRUE]
  <2> DEFINE x == [snd[s] EXCEPT !.pc = "nonempty", !.restarted = TRUE]
  <2>1. snd[s] \in Sender  BY DEF TypeOK
  <2>2. /\ x \in Sender /\ x.pc = "nonempty" /\ x.restarted = TRUE
        /\ x.array = snd[s].array /\ x.sync = snd[s].sync
    BY <2>1, Zenon DEF Sender, SenderPcs
  <2>3. snd' = [snd EXCEPT ![s] = x]  BY <1>2, Zenon
  <2>4. snd' \in [Senders -> Sender] /\ Others(s) /\ snd'[s] = x
    <3> HIDE DEF x
    <3> QED BY <2>2, <2>3, SenderSet
  <2>5. /\ buf' \in BufferArray /\ BufKeeps
        /\ buf'.nonempty = buf.nonempty /\ buf'.msgs = TRUE
    BY <1>2, Zenon DEF TypeOK, BufferArray, BufKeeps
  <2> HIDE DEF x
  <2> QED BY <2>2, <2>4, <2>5, Zenon DEF TypeOK, lock, queues, At
<1> QED BY <1>1, <1>2

(* A sender decides whether it will set the flag. *)
LEMMA ReadStateEffect ==
  ASSUME TypeOK, NEW s \in Senders, ReadState(s)
  PROVE  /\ TypeOK' /\ Others(s)
         /\ snd[s].pc = "state" /\ snd'[s].pc = "enqueue"
         /\ snd'[s].array = snd[s].array /\ snd'[s].sync = snd[s].sync
         /\ snd'[s].mark = ("MSG_SIG_IN_Q" \notin state)
         /\ UNCHANGED <<state, lock, queues, buf, fl, rcv, timer, tpc, onHeap>>
<1> DEFINE mark == "MSG_SIG_IN_Q" \notin state
           x == [snd[s] EXCEPT !.pc = "enqueue", !.mark = mark]
<1>1. snd[s] \in Sender /\ mark \in BOOLEAN  BY DEF TypeOK
<1>2. /\ x \in Sender /\ x.pc = "enqueue" /\ x.mark = mark
      /\ x.array = snd[s].array /\ x.sync = snd[s].sync
  <2> HIDE DEF mark
  <2> QED BY <1>1, Zenon DEF Sender, SenderPcs
<1>3. snd' = [snd EXCEPT ![s] = x]  BY Zenon DEF ReadState
<1>4. snd' \in [Senders -> Sender] /\ Others(s) /\ snd'[s] = x
  <2> HIDE DEF x
  <2> QED BY <1>2, <1>3, SenderSet
<1> HIDE DEF x
<1> QED BY <1>2, <1>4, Zenon DEF ReadState, TypeOK, lock, queues, At

(* A message is put into a slot. *)
LEMMA EnqueueToSlotEffect ==
  ASSUME TypeOK, NEW s \in Senders, EnqueueToSlot(s)
  PROVE  /\ TypeOK' /\ Others(s) /\ ~snd'[s].restarted
         /\ snd[s].pc = "enqueue"
         /\ snd'[s].pc = (IF snd[s].sync THEN "released" ELSE "notify")
         /\ buf'.installed = buf.installed /\ buf'.array = buf.array
         /\ buf'.alive = buf.alive /\ buf'.nonempty = buf.nonempty /\ buf'.msgs = buf.msgs
         /\ \A i \in Slots \ {SlotOf[s]} : buf'.queue[i] = buf.queue[i]
         /\ buf'.queue[SlotOf[s]] # <<>>
         /\ buf'.queue[SlotOf[s]] = Append(buf.queue[SlotOf[s]], Message(s))
         /\ state' = (IF snd[s].mark THEN state \cup {"MSG_SIG_IN_Q"} ELSE state)
         /\ UNCHANGED <<lock, queues, fl, rcv, timer, tpc, onHeap>>
<1> DEFINE i == SlotOf[s]
           q == Append(buf.queue[i], Message(s))
           pc == IF snd[s].sync THEN "released" ELSE "notify"
           x == [Idle(snd[s].n) EXCEPT !.pc = pc, !.array = snd[s].array]
<1>1. /\ snd[s] \in Sender /\ i \in Slots /\ buf \in BufferArray
      /\ snd[s].n \in Nat /\ snd[s].array \in Nat /\ pc \in SenderPcs
  BY SlotsAssumption DEF TypeOK, Sender, SenderPcs
<1>2. Message(s) \in Messages /\ buf.queue \in [Slots -> Seq(Messages)]
  BY <1>1 DEF Message, Messages, BufferArray
<1>3. q \in Seq(Messages) /\ q # <<>>
  <2> HIDE DEF i
  <2>1. buf.queue[i] \in Seq(Messages)  BY <1>1, <1>2
  <2>2. Len(q) = Len(buf.queue[i]) + 1 /\ q \in Seq(Messages) /\ Len(buf.queue[i]) \in Nat
    BY <1>2, <2>1, AppendSeq
  <2> QED BY <2>2
<1>4. x \in Sender /\ x.pc = pc /\ x.restarted = FALSE
  <2> HIDE DEF pc
  <2> QED BY <1>1, Zenon DEF Sender, SenderPcs, Idle
<1>5. snd' = [snd EXCEPT ![s] = x]  BY Zenon DEF EnqueueToSlot
<1>6. snd' \in [Senders -> Sender] /\ Others(s) /\ snd'[s] = x
  <2> HIDE DEF x
  <2> QED BY <1>4, <1>5, SenderSet
<1>7. /\ buf' \in BufferArray
      /\ buf'.installed = buf.installed /\ buf'.array = buf.array
      /\ buf'.alive = buf.alive /\ buf'.nonempty = buf.nonempty /\ buf'.msgs = buf.msgs
      /\ \A j \in Slots \ {i} : buf'.queue[j] = buf.queue[j]
      /\ buf'.queue[i] = q
  <2> DEFINE qs == [buf.queue EXCEPT ![i] = q]
  <2>1. buf' = [buf EXCEPT !.queue = qs]  BY Zenon DEF EnqueueToSlot
  <2>2. /\ qs \in [Slots -> Seq(Messages)] /\ qs[i] = q
        /\ \A j \in Slots \ {i} : qs[j] = buf.queue[j]
    <3> HIDE DEF i, q
    <3> QED BY <1>1, <1>2, <1>3
  <2> HIDE DEF qs, i, q
  <2>3. /\ buf' \in BufferArray /\ buf'.queue = qs
        /\ buf'.installed = buf.installed /\ buf'.array = buf.array
        /\ buf'.alive = buf.alive /\ buf'.nonempty = buf.nonempty /\ buf'.msgs = buf.msgs
    BY <1>1, <2>1, <2>2, Zenon DEF BufferArray
  <2> QED BY <2>2, <2>3, Zenon
<1>8. state' \subseteq Flags  BY DEF EnqueueToSlot, TypeOK, Flags
<1>9. /\ snd[s].pc = "enqueue"
      /\ state' = (IF snd[s].mark THEN state \cup {"MSG_SIG_IN_Q"} ELSE state)
      /\ UNCHANGED <<lock, queues, fl, rcv, timer, tpc, onHeap>>
  BY Zenon DEF EnqueueToSlot, At
<1>10. TypeOK'  BY <1>6, <1>7, <1>8, <1>9, Zenon DEF TypeOK, lock, queues
<1> HIDE DEF x
<1> QED BY <1>3, <1>4, <1>6, <1>7, <1>9, <1>10, Zenon

(* The steps of a sender that change nothing but where it is. *)
LEMMA SenderMovesEffect ==
  ASSUME TypeOK, NEW s \in Senders,
         \/ WaitUntilReleased(s) \/ WaitForMsgq(s) \/ NotifyPremises(s)
         \/ erts_proc_notify_new_message(s)
  PROVE  /\ TypeOK' /\ Others(s) /\ NoRestart(s)
         /\ \/ snd[s].pc = "released" /\ msgq = NoOne /\ snd'[s].pc = "notify"
            \/ snd[s].pc = "lock" /\ snd'[s].pc = "blocked"
            \/ snd[s].pc = "premises" /\ snd'[s].pc = "idle"
            \/ snd[s].pc = "notify" /\ "ACTIVE" \in state /\ snd'[s].pc \in {"premises", "idle"}
            \/ snd[s].pc = "notify" /\ "ACTIVE" \notin state /\ snd'[s].pc = "schedule"
         /\ UNCHANGED <<state, lock, queues, buf, fl, rcv, timer, tpc, onHeap>>
<1>1. UNCHANGED <<state, lock, queues, buf, fl, rcv, timer, tpc, onHeap>>
  BY Zenon DEF WaitUntilReleased, WaitForMsgq, NotifyPremises, erts_proc_notify_new_message
<1>2. ASSUME snd' \in [Senders -> Sender]  PROVE TypeOK'
  BY <1>1, <1>2, Zenon DEF TypeOK, lock, queues
<1>3. CASE WaitUntilReleased(s)
  BY <1>1, <1>2, <1>3, GotoEffect DEF WaitUntilReleased, At, SenderPcs
<1>4. CASE WaitForMsgq(s)
  BY <1>1, <1>2, <1>4, GotoEffect DEF WaitForMsgq, At, SenderPcs
<1>5. CASE NotifyPremises(s)
  BY <1>1, <1>2, <1>5, ReturnEffect DEF NotifyPremises, At
<1>6. CASE erts_proc_notify_new_message(s)
  <2>1. CASE Notified(s) /\ "ACTIVE" \in state
    BY <1>1, <1>2, <1>6, <2>1, GotoEffect, ReturnEffect
    DEF erts_proc_notify_new_message, Notified, At, SenderPcs
  <2>2. CASE Goto(s, "schedule") /\ "ACTIVE" \notin state
    BY <1>1, <1>2, <1>6, <2>2, GotoEffect DEF erts_proc_notify_new_message, At, SenderPcs
  <2> QED BY <1>6, <2>1, <2>2 DEF erts_proc_notify_new_message
<1> QED BY <1>3, <1>4, <1>5, <1>6

(* A sender makes the receiver ACTIVE. *)
LEMMA erts_schedule_processEffect ==
  ASSUME TypeOK, NEW s \in Senders, erts_schedule_process(s)
  PROVE  /\ TypeOK' /\ Others(s) /\ NoRestart(s) /\ Activate
         /\ snd[s].pc = "schedule" /\ snd'[s].pc \in {"premises", "idle"}
         /\ UNCHANGED <<lock, queues, buf, fl, rcv, timer, tpc, onHeap>>
<1>1. /\ snd' \in [Senders -> Sender] /\ Others(s) /\ NoRestart(s)
      /\ snd'[s].pc \in {"premises", "idle"}
  BY GotoEffect, ReturnEffect DEF erts_schedule_process, Notified, SenderPcs
<1>2. state' \subseteq Flags  BY ActivateEffect DEF erts_schedule_process
<1> QED BY <1>1, <1>2, Zenon DEF erts_schedule_process, TypeOK, lock, queues, At

(* The contention counter stays a natural number. *)
LEMMA ContentionType ==
  ASSUME TypeOK, NEW waited \in BOOLEAN  PROVE Contention(waited) \in Nat
BY DEF TypeOK, Contention

(* A new array of buffers. *)
LEMMA NewArrayFields ==
  ASSUME TypeOK
  PROVE  /\ NewArray \in BufferArray
         /\ NewArray.installed = TRUE /\ NewArray.alive = Slots /\ NewArray.nonempty = {}
         /\ NewArray.msgs = FALSE /\ \A i \in Slots : NewArray.queue[i] = <<>>
<1>1. buf.array + 1 \in Nat  BY DEF TypeOK, BufferArray
<1>2. <<>> \in Seq(Messages)  OBVIOUS
<1>3. [i \in Slots |-> <<>>] \in [Slots -> Seq(Messages)]  BY <1>2, Zenon
<1>4. MIN_FLUSH_ALL_OPS_BEFORE_CHANGE \in Nat /\ 0 \in Nat  BY LimitsAssumption
<1>5. NewArray \in BufferArray  BY <1>1, <1>3, <1>4, Zenon DEF NewArray, BufferArray
<1>6. /\ NewArray.installed = TRUE /\ NewArray.alive = Slots /\ NewArray.nonempty = {}
      /\ NewArray.msgs = FALSE /\ NewArray.queue = [i \in Slots |-> <<>>]
  BY Zenon DEF NewArray
<1> QED BY <1>5, <1>6, Zenon

(* A sender gets the message queue lock. *)
LEMMA LockMsgqEffect ==
  ASSUME TypeOK, NEW s \in Senders, LockMsgq(s)
  PROVE  /\ TypeOK' /\ Others(s) /\ NoRestart(s)
         /\ snd[s].pc \in {"lock", "blocked"} /\ msgq = NoOne
         /\ \/ snd'[s].pc = "idle" /\ UNCHANGED <<msgq, buf, fl>>
            \/ /\ snd'[s].pc = "link" /\ msgq' = s
               /\ buf' = buf \/ (~buf.installed /\ buf' = NewArray)
               /\ \/ fl'.pc = "off"
                  \/ fl'.pc = "msgs" /\ buf'.installed
               /\ fl'.slots = {}
         /\ UNCHANGED <<state, queues, rcv, timer, tpc, onHeap>>
<1>1. /\ snd[s].pc \in {"lock", "blocked"}
      /\ UNCHANGED <<state, queues, rcv, timer, tpc, onHeap>>
  BY Zenon DEF LockMsgq
<1>2. ASSUME erts_proc_sig_queue_lock(NoOne, At(s, "blocked")), Return(s), UNCHANGED <<buf, fl>>
      PROVE  /\ TypeOK' /\ Others(s) /\ NoRestart(s) /\ msgq = NoOne
             /\ snd'[s].pc = "idle" /\ UNCHANGED <<msgq, buf, fl>>
  <2>1. contention' \in Nat /\ msgq = NoOne /\ msgq' = NoOne
    BY <1>2, ContentionType DEF erts_proc_sig_queue_lock, At
  <2>2. snd' \in [Senders -> Sender] /\ Others(s) /\ NoRestart(s) /\ snd'[s].pc = "idle"
    BY <1>2, ReturnEffect
  <2> QED BY <1>1, <1>2, <2>1, <2>2, Zenon DEF TypeOK, queues
<1>3. ASSUME NEW install \in BOOLEAN, install => ~buf.installed, NEW cond \in BOOLEAN,
             msgq = NoOne, msgq' = s,
             buf' = IF install THEN NewArray ELSE buf,
             contention' = IF install THEN 0 ELSE Contention(At(s, "blocked")),
             FlushIf(cond /\ buf'.installed), Goto(s, "link")
      PROVE  /\ TypeOK' /\ Others(s) /\ NoRestart(s)
             /\ snd'[s].pc = "link"
             /\ buf' = buf \/ (~buf.installed /\ buf' = NewArray)
             /\ \/ fl'.pc = "off"
                \/ fl'.pc = "msgs" /\ buf'.installed
             /\ fl'.slots = {}
  <2>1. contention' \in Nat  BY <1>3, ContentionType DEF At
  <2>2. snd' \in [Senders -> Sender] /\ Others(s) /\ NoRestart(s) /\ snd'[s].pc = "link"
    BY <1>3, GotoEffect DEF SenderPcs
  <2>3. buf' \in BufferArray /\ (buf' = buf \/ (~buf.installed /\ buf' = NewArray))
    BY <1>3, NewArrayFields DEF TypeOK
  <2>4. CASE fl' = [pc |-> "msgs", slots |-> {}] /\ buf'.installed
    BY <1>1, <1>3, <2>1, <2>2, <2>3, <2>4 DEF TypeOK, FlushState, queues
  <2>5. CASE fl' = [pc |-> "off", slots |-> {}]
    BY <1>1, <1>3, <2>1, <2>2, <2>3, <2>5 DEF TypeOK, FlushState, queues
  <2> QED BY <1>3, <2>4, <2>5 DEF FlushIf, NoFlush
<1>4. CASE "EXITING" \in state
  BY <1>1, <1>2, <1>4 DEF LockMsgq
<1>5. CASE "EXITING" \notin state
  <2> DEFINE count == Contention(At(s, "blocked"))
             off == "OFF_HEAP_MSGQ" \in state
             install == off /\ ~buf.installed /\ count > CONTENTION_INSTALL_LIMIT
  <2>1. /\ msgq = NoOne /\ msgq' = s
        /\ buf' = IF install THEN NewArray ELSE buf
        /\ contention' = IF install THEN 0 ELSE count
        /\ FlushIf(off /\ buf'.installed)
        /\ Goto(s, "link")
    BY <1>5, Zenon DEF LockMsgq
  <2>2. install \in BOOLEAN /\ off \in BOOLEAN /\ (install => ~buf.installed)
    BY DEF TypeOK, BufferArray
  <2> HIDE DEF install, off
  <2> QED BY <1>1, <1>3, <2>1, <2>2
<1> QED BY <1>4, <1>5

(* A message is linked to the outer queue. *)
LEMMA LINK_MESSAGEEffect ==
  ASSUME TypeOK, NEW s \in Senders, LINK_MESSAGE(s)
  PROVE  /\ TypeOK' /\ Others(s) /\ NoRestart(s)
         /\ snd[s].pc = "link" /\ fl.pc = "off" /\ snd'[s].pc = "notify"
         /\ inq' = Append(inq, Message(s)) /\ inq' # <<>>
         /\ state' = state \cup {"MSG_SIG_IN_Q"}
         /\ msgq' = NoOne
         /\ UNCHANGED <<inner, save, buf, fl, rcv, timer, tpc, onHeap>>
<1>1. snd' \in [Senders -> Sender] /\ Others(s) /\ NoRestart(s) /\ snd'[s].pc = "notify"
  BY GotoEffect DEF LINK_MESSAGE, SenderPcs
<1>2. Message(s) \in Messages  BY DEF Message, Messages, TypeOK, Sender
<1>3. inq' \in Seq(Messages) /\ inq' # <<>>
  <2>1. /\ inq' \in Seq(Messages) /\ Len(inq') = Len(inq) + 1 /\ Len(inq) \in Nat
    BY <1>2, AppendSeq DEF LINK_MESSAGE, TypeOK
  <2> QED BY <2>1
<1>4. state' \subseteq Flags  BY DEF LINK_MESSAGE, TypeOK, Flags
<1>5. fl.pc = "off"  BY DEF LINK_MESSAGE, NoFlush
<1>6. /\ snd[s].pc = "link" /\ inq' = Append(inq, Message(s))
      /\ state' = state \cup {"MSG_SIG_IN_Q"} /\ msgq' = NoOne
      /\ UNCHANGED <<contention, inner, save, buf, fl, rcv, timer, tpc, onHeap>>
  BY Zenon DEF LINK_MESSAGE, At
<1>7. TypeOK'
  BY <1>1, <1>3, <1>4, <1>6, Zenon DEF TypeOK
<1> QED BY <1>1, <1>3, <1>5, <1>6, <1>7, Zenon

(* A flush clears msgs_in_slots, then takes nonempty_slots. *)
LEMMA ClearMsgsEffect ==
  ASSUME TypeOK, ClearMsgs
  PROVE  /\ TypeOK' /\ fl.pc = "msgs" /\ fl'.pc = "take" /\ fl'.slots = fl.slots
         /\ BufKeeps /\ buf'.nonempty = buf.nonempty /\ buf'.msgs = FALSE
         /\ UNCHANGED <<state, lock, queues, snd, rcv, timer, tpc, onHeap>>
<1>1. buf' \in BufferArray /\ BufKeeps /\ buf'.nonempty = buf.nonempty /\ buf'.msgs = FALSE
  BY Zenon DEF ClearMsgs, TypeOK, BufferArray, BufKeeps
<1>2. /\ fl' \in FlushState
      /\ fl'.pc = "take" /\ fl'.slots = fl.slots
  BY Zenon DEF ClearMsgs, TypeOK, FlushState
<1> QED BY <1>1, <1>2, Zenon DEF ClearMsgs, TypeOK, lock, queues

(* nonempty_slots is exchanged for zero; the flush works on what it held. *)
LEMMA TakeNonemptyEffect ==
  ASSUME TypeOK, TakeNonempty
  PROVE  /\ TypeOK' /\ fl.pc = "take" /\ fl'.pc = "slots" /\ fl'.slots = buf.nonempty
         /\ BufKeeps /\ buf'.nonempty = {} /\ buf'.msgs = buf.msgs
         /\ UNCHANGED <<state, lock, queues, snd, rcv, timer, tpc, onHeap>>
<1>1. buf' \in BufferArray /\ BufKeeps /\ buf'.nonempty = {} /\ buf'.msgs = buf.msgs
  BY Zenon DEF TakeNonempty, TypeOK, BufferArray, BufKeeps
<1>2. buf.nonempty \in SUBSET Slots  BY DEF TypeOK, BufferArray
<1>3. /\ fl' \in FlushState
      /\ fl'.pc = "slots" /\ fl'.slots = buf.nonempty
  BY <1>2, Zenon DEF TakeNonempty, FlushState
<1> QED BY <1>1, <1>3, Zenon DEF TakeNonempty, TypeOK, lock, queues

(* A slot is emptied into the outer queue, by a flush or for good. *)
Emptied(i) ==
  /\ i \in fl.slots /\ SlotFree(i, buf.array)
  /\ fl'.pc = fl.pc /\ fl'.slots = fl.slots \ {i}
  /\ inq' = inq \o buf.queue[i]
  /\ buf'.queue[i] = <<>> /\ \A j \in Slots \ {i} : buf'.queue[j] = buf.queue[j]
  /\ buf'.installed = buf.installed /\ buf'.array = buf.array
  /\ buf'.nonempty = buf.nonempty /\ buf'.msgs = buf.msgs

(* A flush moves the messages of one slot to the outer queue. *)
LEMMA FlushSlotEffect ==
  ASSUME TypeOK, proc_sig_queue_flush_buffer
  PROVE  /\ TypeOK' /\ fl.pc = "slots" /\ buf'.alive = buf.alive
         /\ \E i \in Slots : Emptied(i)
         /\ UNCHANGED <<state, lock, inner, save, snd, rcv, timer, tpc, onHeap>>
<1>1. PICK i \in fl.slots :
             /\ SlotFree(i, buf.array)
             /\ inq' = inq \o buf.queue[i]
             /\ buf' = [buf EXCEPT !.queue[i] = <<>>, !.enqueues = @ + Len(buf.queue[i])]
             /\ fl' = [fl EXCEPT !.slots = @ \ {i}]
  BY Zenon DEF proc_sig_queue_flush_buffer
<1>2. i \in Slots /\ fl.slots \ {i} \in SUBSET Slots /\ buf.enqueues \in Nat
  BY DEF TypeOK, BufferArray, FlushState
<1>3. buf.queue \in [Slots -> Seq(Messages)] /\ buf.queue[i] \in Seq(Messages)
  BY <1>2 DEF TypeOK, BufferArray
<1>4. buf.enqueues + Len(buf.queue[i]) \in Nat  BY <1>2, <1>3
<1>5. inq' \in Seq(Messages)  BY <1>1, <1>3 DEF TypeOK
<1>6. /\ fl' \in FlushState
      /\ fl'.pc = fl.pc /\ fl'.slots = fl.slots \ {i}
  BY <1>1, <1>2, Zenon DEF TypeOK, FlushState
<1> DEFINE qs == [buf.queue EXCEPT ![i] = <<>>]
           n == buf.enqueues + Len(buf.queue[i])
<1>7. /\ qs \in [Slots -> Seq(Messages)] /\ qs[i] = <<>>
      /\ \A j \in Slots \ {i} : qs[j] = buf.queue[j]
  BY <1>2, <1>3
<1>8. buf' = [buf EXCEPT !.queue = qs, !.enqueues = n]  BY <1>1, Zenon
<1> HIDE DEF qs, n
<1>9. /\ buf' \in BufferArray /\ buf'.queue = qs /\ buf'.alive = buf.alive
      /\ buf'.installed = buf.installed /\ buf'.array = buf.array
      /\ buf'.nonempty = buf.nonempty /\ buf'.msgs = buf.msgs
  BY <1>4, <1>7, <1>8, Zenon DEF TypeOK, BufferArray, n
<1>10. Emptied(i)  BY <1>1, <1>6, <1>7, <1>9, Zenon DEF Emptied
<1> QED BY <1>2, <1>5, <1>6, <1>9, <1>10, Zenon
    DEF proc_sig_queue_flush_buffer, TypeOK, lock

(* A removal of the buffers does so too, and marks the slot dead. *)
LEMMA KillSlotEffect ==
  ASSUME TypeOK, KillSlot
  PROVE  /\ TypeOK' /\ fl.pc = "kill"
         /\ \E i \in Slots : Emptied(i) /\ buf'.alive = buf.alive \ {i}
         /\ UNCHANGED <<state, lock, inner, save, snd, rcv, timer, tpc, onHeap>>
<1>1. PICK i \in fl.slots :
             /\ SlotFree(i, buf.array)
             /\ inq' = inq \o buf.queue[i]
             /\ buf' = [buf EXCEPT !.queue[i] = <<>>, !.alive = @ \ {i}]
             /\ fl' = [fl EXCEPT !.slots = @ \ {i}]
  BY Zenon DEF KillSlot
<1>2. i \in Slots /\ fl.slots \ {i} \in SUBSET Slots /\ buf.alive \ {i} \in SUBSET Slots
  BY DEF TypeOK, BufferArray, FlushState
<1>3. buf.queue \in [Slots -> Seq(Messages)] /\ buf.queue[i] \in Seq(Messages)
  BY <1>2 DEF TypeOK, BufferArray
<1>4. inq' \in Seq(Messages)  BY <1>1, <1>3 DEF TypeOK
<1>5. /\ fl' \in FlushState
      /\ fl'.pc = fl.pc /\ fl'.slots = fl.slots \ {i}
  BY <1>1, <1>2, Zenon DEF TypeOK, FlushState
<1> DEFINE qs == [buf.queue EXCEPT ![i] = <<>>]
<1>6. /\ qs \in [Slots -> Seq(Messages)] /\ qs[i] = <<>>
      /\ \A j \in Slots \ {i} : qs[j] = buf.queue[j]
  BY <1>2, <1>3
<1>7. buf' = [buf EXCEPT !.queue = qs, !.alive = buf.alive \ {i}]  BY <1>1, Zenon
<1> HIDE DEF qs
<1>8. /\ buf' \in BufferArray /\ buf'.queue = qs /\ buf'.alive = buf.alive \ {i}
      /\ buf'.installed = buf.installed /\ buf'.array = buf.array
      /\ buf'.nonempty = buf.nonempty /\ buf'.msgs = buf.msgs
  BY <1>2, <1>6, <1>7, Zenon DEF TypeOK, BufferArray
<1>9. Emptied(i)  BY <1>1, <1>5, <1>6, <1>8, Zenon DEF Emptied
<1> QED BY <1>2, <1>4, <1>5, <1>8, <1>9, Zenon DEF KillSlot, TypeOK, lock

(* The buffers are about to be removed, or nothing is flushed. *)
LEMMA DeinstallEffect ==
  ASSUME TypeOK, NEW cond \in BOOLEAN, Deinstall(cond)
  PROVE  /\ contention' \in Nat
         /\ fl' \in FlushState
         /\ cond => fl'.pc = "kill" /\ fl'.slots = Slots
         /\ ~cond => fl'.pc = "off" /\ fl'.slots = {}
<1>1. contention' \in Nat  BY DEF Deinstall, TypeOK
<1>2. CASE cond
  <2>1. fl' = [pc |-> "kill", slots |-> Slots]  BY <1>2 DEF Deinstall
  <2> QED BY <1>1, <1>2, <2>1 DEF FlushState
<1>3. CASE ~cond
  <2>1. fl' = [pc |-> "off", slots |-> {}]  BY <1>3 DEF Deinstall, NoFlush
  <2> QED BY <1>1, <1>3, <2>1 DEF FlushState
<1> QED BY <1>2, <1>3

(* A flush ends, or goes on to remove the buffers. *)
LEMMA FlushRoundEffect ==
  ASSUME TypeOK, FlushRound
  PROVE  /\ TypeOK' /\ fl.pc = "slots" /\ fl.slots = {}
         /\ BufKeeps /\ buf'.nonempty = buf.nonempty /\ buf'.msgs = buf.msgs
         /\ \/ fl'.pc = "off" /\ fl'.slots = {}
            \/ fl'.pc = "kill" /\ fl'.slots = Slots
         /\ UNCHANGED <<state, msgq, queues, snd, rcv, timer, tpc, onHeap>>
<1> DEFINE Kept == /\ buf' \in BufferArray /\ BufKeeps
                   /\ buf'.nonempty = buf.nonempty /\ buf'.msgs = buf.msgs
<1>1. PICK c \in BOOLEAN : Deinstall(c)  BY DEF FlushRound
<1>2. Kept
  <2>1. buf \in BufferArray /\ buf.rounds \in Nat  BY DEF TypeOK, BufferArray
  <2>2. CASE buf.rounds > 1 /\ buf' = [buf EXCEPT !.rounds = @ - 1]
    <3>1. buf.rounds - 1 \in Nat  BY <2>1, <2>2
    <3> QED BY <2>1, <2>2, <3>1, Zenon DEF BufferArray, BufKeeps
  <2>3. CASE buf' = [buf EXCEPT !.rounds = 0]
    <3>1. 0 \in Nat  OBVIOUS
    <3> QED BY <2>1, <2>3, <3>1, Zenon DEF BufferArray, BufKeeps
  <2>4. CASE buf' = [buf EXCEPT !.rounds = MIN_FLUSH_ALL_OPS_BEFORE_CHANGE, !.enqueues = 0]
    <3>1. 0 \in Nat /\ MIN_FLUSH_ALL_OPS_BEFORE_CHANGE \in Nat  BY LimitsAssumption
    <3> QED BY <2>1, <2>4, <3>1, Zenon DEF BufferArray, BufKeeps
  <2> QED BY <2>2, <2>3, <2>4, Zenon DEF FlushRound
<1>3. /\ fl.pc = "slots" /\ fl.slots = {}
      /\ UNCHANGED <<state, msgq, queues, snd, rcv, timer, tpc, onHeap>>
  BY Zenon DEF FlushRound
<1>4. /\ contention' \in Nat
      /\ fl' \in FlushState
      /\ \/ fl'.pc = "off" /\ fl'.slots = {}
         \/ fl'.pc = "kill" /\ fl'.slots = Slots
  BY <1>1, DeinstallEffect
<1> QED BY <1>2, <1>3, <1>4, Zenon DEF TypeOK, queues

(* The last slot is dead: the array is no longer installed. *)
LEMMA UninstallEffect ==
  ASSUME TypeOK, Uninstall
  PROVE  /\ TypeOK' /\ fl.pc = "kill" /\ fl.slots = {}
         /\ fl'.pc = "off" /\ fl'.slots = {}
         /\ buf'.installed = FALSE /\ buf'.nonempty = {} /\ buf'.msgs = FALSE
         /\ buf'.array = buf.array /\ buf'.alive = buf.alive /\ buf'.queue = buf.queue
         /\ UNCHANGED <<state, lock, queues, snd, rcv, timer, tpc, onHeap>>
<1>1. 0 \in Nat  OBVIOUS
<1>2. /\ buf' \in BufferArray
      /\ buf'.installed = FALSE /\ buf'.nonempty = {} /\ buf'.msgs = FALSE
      /\ buf'.array = buf.array /\ buf'.alive = buf.alive /\ buf'.queue = buf.queue
  BY <1>1, Zenon DEF Uninstall, TypeOK, BufferArray
<1>3. /\ fl' \in FlushState
      /\ fl'.pc = "off" /\ fl'.slots = {}
  BY Zenon DEF Uninstall, NoFlush, FlushState
<1> QED BY <1>2, <1>3, Zenon DEF Uninstall, TypeOK, lock, queues

(* The steps of the receiver that change nothing but where it is. *)
LEMMA ReceiverMovesEffect ==
  ASSUME TypeOK, Preempt \/ i_loop_rec \/ RWaitForMsgq \/ ReadNonempty
  PROVE  /\ TypeOK' /\ RcvKeeps
         /\ \/ rcv.pc = "loop" /\ rcv'.pc \in {"out", "lock"}
            \/ rcv.pc = "loop" /\ Peek /\ rcv'.pc = "match"
            \/ rcv.pc = "lock" /\ rcv'.pc = "blocked"
            \/ rcv.pc = "raced" /\ buf.nonempty = {} /\ rcv'.pc = "peek"
            \/ rcv.pc = "raced" /\ rcv'.pc = "reset"
         /\ UNCHANGED <<state, lock, queues, buf, fl, snd, timer, tpc, onHeap>>
<1>1. UNCHANGED <<state, lock, queues, buf, fl, snd, timer, tpc, onHeap>>
  BY Zenon DEF Preempt, i_loop_rec, RWaitForMsgq, ReadNonempty
<1>2. ASSUME rcv' \in Process  PROVE TypeOK'
  BY <1>1, <1>2, Zenon DEF TypeOK, lock, queues
<1>3. CASE Preempt
  BY <1>1, <1>2, <1>3, RGotoEffect DEF Preempt, RAt, ProcessPcs
<1>4. CASE i_loop_rec
  <2>1. CASE Peek
    BY <1>1, <1>2, <1>4, <2>1, RGotoEffect DEF i_loop_rec, RAt, ProcessPcs
  <2>2. CASE ~Peek
    BY <1>1, <1>2, <1>4, <2>2, RGotoEffect DEF i_loop_rec, RAt, ProcessPcs
  <2> QED BY <2>1, <2>2
<1>5. CASE RWaitForMsgq
  BY <1>1, <1>2, <1>5, RGotoEffect DEF RWaitForMsgq, RAt, ProcessPcs
<1>6. CASE ReadNonempty
  <2>1. CASE buf.nonempty = {}
    BY <1>1, <1>2, <1>6, <2>1, RGotoEffect DEF ReadNonempty, RAt, ProcessPcs
  <2>2. CASE buf.nonempty # {}
    BY <1>1, <1>2, <1>6, <2>2, RGotoEffect DEF ReadNonempty, RAt, ProcessPcs
  <2> QED BY <2>1, <2>2
<1> QED BY <1>3, <1>4, <1>5, <1>6

(* What is in a queue is a message. *)
LEMMA QueuedMessages ==
  ASSUME TypeOK, NEW s \in Senders
  PROVE  /\ Queued(s) \subseteq Messages
         /\ \A m \in Queued(s) :
              /\ m[1] = s
              /\ m \in Range(inner) \/ m \in Range(inq) \/ m \in Range(buf.queue[SlotOf[s]])
<1> DEFINE q == buf.queue[SlotOf[s]]
<1>1. /\ inner \in Seq(Messages) /\ inq \in Seq(Messages) /\ q \in Seq(Messages)
  BY SlotsAssumption DEF TypeOK, BufferArray
<1> HIDE DEF q
<1>2. /\ inner \o inq \in Seq(Messages)
      /\ Range(inner \o inq) = Range(inner) \cup Range(inq)
  BY <1>1, ConcatRange
<1>3. /\ inner \o inq \o q \in Seq(Messages)
      /\ Range(inner \o inq \o q) = Range(inner) \cup Range(inq) \cup Range(q)
  <2> DEFINE p == inner \o inq
  <2> HIDE DEF p
  <2>1. p \in Seq(Messages)  BY <1>2 DEF p
  <2>2. p \o q \in Seq(Messages) /\ Range(p \o q) = Range(p) \cup Range(q)
    BY <1>1, <2>1, ConcatRange
  <2> QED BY <1>2, <2>2 DEF p
<1>4. \A m \in Queued(s) : m[1] = s /\ m \in Range(inner \o inq \o q)  BY DEF Queued, q
<1>5. \A m \in Range(inner \o inq \o q) : m \in Messages  BY <1>3, RangeSeq
<1> QED BY <1>3, <1>4, <1>5 DEF q

(* A receive begins. *)
LEMMA ReceiveEffect ==
  ASSUME TypeOK, Receive
  PROVE  /\ TypeOK' /\ rcv.pc = "idle" /\ rcv'.pc = "loop"
         /\ rcv'.flags = rcv.flags /\ rcv'.buffers = rcv.buffers
         /\ rcv'.after \in {"infinity", "finite", "zero", "wrong"}
         /\ rcv'.after # "zero" => rcv'.due = {}
         /\ \A m \in rcv'.due :
              /\ m[1] \in rcv'.want
              /\ m \in Range(inner) \/ m \in Range(inq) \/ m \in Range(buf.queue[SlotOf[m[1]]])
         /\ UNCHANGED <<state, lock, queues, buf, fl, snd, timer, tpc, onHeap>>
<1> DEFINE due(r) == IF r.after = "zero" THEN UNION {Queued(s) : s \in r.want} ELSE {}
<1>1. PICK r \in Receives :
        rcv' = [rcv EXCEPT !.pc = "loop", !.want = r.want, !.after = r.after, !.due = due(r)]
  BY Zenon DEF Receive
<1>2. r.want \in SUBSET Senders /\ r.after \in {"infinity", "finite", "zero", "wrong"}
  BY ReceivesAssumption
<1>3. \A m \in due(r) :
        /\ m \in Messages /\ m[1] \in r.want
        /\ m \in Range(inner) \/ m \in Range(inq) \/ m \in Range(buf.queue[SlotOf[m[1]]])
  <2> SUFFICES ASSUME NEW s \in r.want, NEW m \in Queued(s)
               PROVE  /\ m \in Messages /\ m[1] \in r.want
                      /\ \/ m \in Range(inner) \/ m \in Range(inq)
                         \/ m \in Range(buf.queue[SlotOf[m[1]]])
    BY Zenon
  <2> QED BY <1>2, QueuedMessages
<1>4. due(r) \in SUBSET Messages /\ (r.after # "zero" => due(r) = {})  BY <1>3
<1> HIDE DEF due
<1>5. /\ rcv' \in Process /\ rcv'.pc = "loop" /\ rcv'.want = r.want /\ rcv'.after = r.after
      /\ rcv'.due = due(r) /\ rcv'.flags = rcv.flags /\ rcv'.buffers = rcv.buffers
  BY <1>1, <1>2, <1>4, Zenon DEF TypeOK, Process, ProcessPcs
<1>6. TypeOK'  BY <1>5, Zenon DEF Receive, TypeOK, lock, queues
<1> QED BY <1>2, <1>3, <1>4, <1>5, <1>6, Zenon DEF Receive, RAt

(* The receiver gets the message queue lock. *)
LEMMA FetchEffect ==
  ASSUME TypeOK, erts_proc_sig_fetch
  PROVE  /\ TypeOK' /\ rcv.pc \in {"lock", "blocked"}
         /\ msgq = NoOne /\ msgq' = Receiver
         /\ \/ (buf.installed \/ inq # <<>>) /\ rcv'.pc = "splice"
            \/ ~buf.installed /\ inq = <<>> /\ rcv'.pc = "peek"
         /\ rcv'.buffers = buf.installed
         /\ rcv'.want = rcv.want /\ rcv'.after = rcv.after /\ rcv'.flags = rcv.flags
         /\ rcv'.due = rcv.due
         /\ fl'.slots = {} /\ fl'.pc = (IF buf.installed THEN "msgs" ELSE "off")
         /\ UNCHANGED <<state, queues, buf, snd, timer, tpc, onHeap>>
<1> DEFINE pc == IF buf.installed \/ inq # <<>> THEN "splice" ELSE "peek"
<1>1. rcv' = [rcv EXCEPT !.pc = pc, !.buffers = buf.installed]  BY Zenon DEF erts_proc_sig_fetch
<1>2. pc \in ProcessPcs /\ buf.installed \in BOOLEAN  BY DEF ProcessPcs, TypeOK, BufferArray
<1>3. /\ \/ (buf.installed \/ inq # <<>>) /\ pc = "splice"
         \/ ~buf.installed /\ inq = <<>> /\ pc = "peek"
  BY <1>2
<1> HIDE DEF pc
<1>4. /\ rcv' \in Process /\ rcv'.pc = pc /\ rcv'.buffers = buf.installed
      /\ rcv'.want = rcv.want /\ rcv'.after = rcv.after /\ rcv'.flags = rcv.flags
      /\ rcv'.due = rcv.due
  BY <1>1, <1>2, Zenon DEF TypeOK, Process
<1>5. /\ fl' \in FlushState /\ fl'.slots = {}
      /\ fl'.pc = (IF buf.installed THEN "msgs" ELSE "off")
  <2>1. CASE buf.installed
    <3>1. fl' = [pc |-> "msgs", slots |-> {}]  BY <2>1 DEF erts_proc_sig_fetch, FlushIf
    <3> QED BY <2>1, <3>1 DEF FlushState
  <2>2. CASE ~buf.installed
    <3>1. fl' = [pc |-> "off", slots |-> {}]
      BY <2>2 DEF erts_proc_sig_fetch, FlushIf, NoFlush
    <3> QED BY <2>2, <3>1 DEF FlushState
  <2> QED BY <2>1, <2>2
<1>6. contention' \in Nat /\ msgq = NoOne /\ msgq' = Receiver
  BY ContentionType DEF erts_proc_sig_fetch, erts_proc_sig_queue_lock, RAt
<1>7. /\ rcv.pc \in {"lock", "blocked"}
      /\ UNCHANGED <<state, queues, buf, snd, timer, tpc, onHeap>>
  BY Zenon DEF erts_proc_sig_fetch
<1>8. TypeOK'  BY <1>4, <1>5, <1>6, <1>7, Zenon DEF TypeOK, queues
<1> QED BY <1>3, <1>4, <1>5, <1>6, <1>7, <1>8, Zenon

(* The outer queue is appended to the inner one. *)
LEMMA SpliceEffect ==
  ASSUME TypeOK, Splice
  PROVE  /\ TypeOK' /\ RcvKeeps /\ rcv.pc = "splice" /\ fl.pc = "off"
         /\ \/ inq = <<>> /\ "MSG_SIG_IN_Q" \notin state /\ rcv'.pc = "peek"
            \/ rcv'.pc = "clear"
         /\ inner' = inner \o inq /\ inq' = <<>>
         /\ UNCHANGED <<state, lock, save, buf, fl, snd, timer, tpc, onHeap>>
<1>1. /\ rcv' \in Process /\ RcvKeeps
      /\ \/ inq = <<>> /\ "MSG_SIG_IN_Q" \notin state /\ rcv'.pc = "peek"
         \/ rcv'.pc = "clear"
  <2>1. CASE inq = <<>> /\ "MSG_SIG_IN_Q" \notin state
    BY <2>1, RGotoEffect DEF Splice, ProcessPcs
  <2>2. CASE ~(inq = <<>> /\ "MSG_SIG_IN_Q" \notin state)
    BY <2>2, RGotoEffect DEF Splice, ProcessPcs
  <2> QED BY <2>1, <2>2
<1>2. /\ inner' \in Seq(Messages) /\ inq' \in Seq(Messages) /\ save \in 1 .. (Len(inner') + 1)
  BY DEF Splice, TypeOK
<1>3. fl.pc = "off"  BY DEF Splice, NoFlush
<1>4. /\ rcv.pc = "splice" /\ inner' = inner \o inq /\ inq' = <<>>
      /\ UNCHANGED <<state, lock, save, buf, fl, snd, timer, tpc, onHeap>>
  BY Zenon DEF Splice, RAt
<1>5. TypeOK'  BY <1>1, <1>2, <1>4, Zenon DEF TypeOK, lock
<1> QED BY <1>1, <1>3, <1>4, <1>5, Zenon

(* The flag is cleared, and set again if a slot has been announced. *)
LEMMA ClearFlagEffect ==
  ASSUME TypeOK, ClearFlag
  PROVE  /\ TypeOK' /\ RcvKeeps /\ rcv.pc = "clear"
         /\ rcv'.pc = (IF rcv.buffers THEN "raced" ELSE "peek")
         /\ state' = state \ {"MSG_SIG_IN_Q"}
         /\ UNCHANGED <<lock, queues, buf, fl, snd, timer, tpc, onHeap>>
<1>1. rcv' \in Process /\ RcvKeeps /\ rcv'.pc = (IF rcv.buffers THEN "raced" ELSE "peek")
  <2>1. CASE rcv.buffers  BY <2>1, RGotoEffect DEF ClearFlag, ProcessPcs
  <2>2. CASE ~rcv.buffers  BY <2>2, RGotoEffect DEF ClearFlag, ProcessPcs
  <2> QED BY <2>1, <2>2
<1>2. state' \subseteq Flags  BY DEF ClearFlag, TypeOK
<1> QED BY <1>1, <1>2, Zenon DEF ClearFlag, RAt, TypeOK, lock, queues

(* The flag is set again. *)
LEMMA ResetFlagEffect ==
  ASSUME TypeOK, ResetFlag
  PROVE  /\ TypeOK' /\ RcvKeeps /\ rcv.pc = "reset" /\ rcv'.pc = "peek"
         /\ state' = (IF buf.msgs THEN state \cup {"MSG_SIG_IN_Q"} ELSE state)
         /\ UNCHANGED <<lock, queues, buf, fl, snd, timer, tpc, onHeap>>
<1>1. rcv' \in Process /\ RcvKeeps /\ rcv'.pc = "peek"
  BY RGotoEffect DEF ResetFlag, ProcessPcs
<1>2. state' \subseteq Flags  BY DEF ResetFlag, TypeOK, Flags
<1> QED BY <1>1, <1>2, Zenon DEF ResetFlag, RAt, TypeOK, lock, queues

(* The receiver looks at what it has fetched. *)
LEMMA PeekFetchedEffect ==
  ASSUME TypeOK, PeekFetched
  PROVE  /\ TypeOK' /\ rcv.pc = "peek"
         /\ \/ Peek /\ rcv'.pc = "match" /\ msgq' = NoOne
            \/ ~Peek /\ rcv'.pc = "wait" /\ msgq' = msgq
         /\ rcv'.want = rcv.want /\ rcv'.after = rcv.after /\ rcv'.flags = rcv.flags
         /\ rcv'.due = rcv.due
         /\ UNCHANGED <<state, contention, queues, buf, fl, snd, timer, tpc, onHeap>>
<1> DEFINE pc == IF Peek THEN "match" ELSE "wait"
<1>1. rcv' = [rcv EXCEPT !.pc = pc, !.buffers = FALSE]  BY Zenon DEF PeekFetched
<1>2. pc \in ProcessPcs  BY DEF ProcessPcs
<1>3. /\ rcv' \in Process /\ rcv'.pc = pc
      /\ rcv'.want = rcv.want /\ rcv'.after = rcv.after /\ rcv'.flags = rcv.flags
      /\ rcv'.due = rcv.due
  <2> HIDE DEF pc
  <2> QED BY <1>1, <1>2, Zenon DEF TypeOK, Process
<1>4. \/ Peek /\ pc = "match" /\ msgq' = NoOne
      \/ ~Peek /\ pc = "wait" /\ msgq' = msgq
  BY DEF PeekFetched
<1> HIDE DEF pc
<1>5. msgq' \in Senders \cup {Receiver, NoOne}  BY <1>4 DEF TypeOK
<1>6. /\ rcv.pc = "peek"
      /\ UNCHANGED <<state, contention, queues, buf, fl, snd, timer, tpc, onHeap>>
  BY Zenon DEF PeekFetched, RAt
<1>7. TypeOK'  BY <1>3, <1>5, <1>6, Zenon DEF TypeOK, queues
<1> QED BY <1>3, <1>4, <1>6, <1>7, Zenon

(* A matching message is taken out of the inner queue. *)
LEMMA remove_messageEffect ==
  ASSUME TypeOK, remove_message
  PROVE  /\ TypeOK' /\ rcv.pc = "match" /\ rcv' = Left /\ save' = 1
         /\ timer' = (IF "F_INSLPQUEUE" \in rcv.flags THEN "none" ELSE timer)
         /\ UNCHANGED <<state, lock, inq, buf, fl, snd, tpc, onHeap>>
<1>1. /\ rcv.pc = "match" /\ inner' = Removed /\ save' = 1 /\ rcv' = Left
      /\ timer' = (IF "F_INSLPQUEUE" \in rcv.flags THEN "none" ELSE timer)
      /\ UNCHANGED <<state, lock, inq, buf, fl, snd, tpc, onHeap>>
  BY Zenon DEF remove_message, CANCEL_TIMER, RAt
<1>2. /\ inner \in Seq(Messages) /\ Len(inner) \in Nat /\ save \in 1 .. (Len(inner) + 1)
  BY DEF TypeOK
<1>3. inner' \in Seq(Messages) /\ save' \in 1 .. (Len(inner') + 1)
  <2>1. SubSeq(inner, 1, save - 1) \in Seq(Messages)  BY <1>2
  <2>2. SubSeq(inner, save + 1, Len(inner)) \in Seq(Messages)  BY <1>2
  <2>3. inner' \in Seq(Messages)  BY <1>1, <2>1, <2>2 DEF Removed
  <2> QED BY <1>1, <2>3
<1>4. rcv' \in Process  BY <1>1, LeftEffect
<1>5. timer' \in {"none", "set", "timedout"}  BY <1>1 DEF TypeOK
<1>6. TypeOK'  BY <1>1, <1>3, <1>4, <1>5, Zenon DEF TypeOK, lock
<1> QED BY <1>1, <1>6, Zenon

(* A message that does not match is stepped over. *)
LEMMA loop_rec_endEffect ==
  ASSUME TypeOK, Peek, loop_rec_end
  PROVE  /\ TypeOK' /\ RcvKeeps /\ rcv.pc = "match" /\ rcv'.pc = "loop"
         /\ ~Matches /\ save' = save + 1
         /\ UNCHANGED <<state, lock, inq, inner, buf, fl, snd, timer, tpc, onHeap>>
<1>1. rcv' \in Process /\ RcvKeeps /\ rcv'.pc = "loop"
  BY RGotoEffect DEF loop_rec_end, ProcessPcs
<1>2. save' \in 1 .. (Len(inner) + 1)  BY DEF TypeOK, Peek, loop_rec_end
<1>3. /\ rcv.pc = "match" /\ ~Matches /\ save' = save + 1
      /\ UNCHANGED <<state, lock, inq, inner, buf, fl, snd, timer, tpc, onHeap>>
  BY Zenon DEF loop_rec_end, RAt
<1>4. TypeOK'  BY <1>1, <1>2, <1>3, Zenon DEF TypeOK, lock
<1> QED BY <1>1, <1>3, <1>4, Zenon

(* The receiver prepares to sleep, or times out at once. *)
LEMMA waitEffect ==
  ASSUME TypeOK, wait
  PROVE  /\ TypeOK' /\ rcv.pc = "wait"
         /\ rcv'.want = rcv.want /\ rcv'.after = rcv.after /\ rcv'.due = rcv.due
         /\ rcv'.buffers = rcv.buffers
         /\ \/ /\ rcv'.pc = "sleep" /\ rcv.flags # {} /\ rcv'.flags = rcv.flags
               /\ UNCHANGED <<msgq, timer>>
            \/ /\ rcv'.pc = "timeout" /\ rcv.after = "zero" /\ rcv.flags = {}
               /\ rcv'.flags = rcv.flags /\ msgq' = NoOne /\ UNCHANGED timer
            \/ /\ rcv'.pc = "sleep" /\ rcv.after = "infinity" /\ rcv.flags = {}
               /\ rcv'.flags = {"F_TIMO"} /\ UNCHANGED <<msgq, timer>>
            \/ /\ rcv'.pc = "sleep" /\ rcv.after = "finite" /\ rcv.flags = {}
               /\ rcv'.flags = {"F_INSLPQUEUE"} /\ timer' = "set" /\ UNCHANGED msgq
         /\ UNCHANGED <<state, contention, queues, buf, fl, snd, tpc, onHeap>>
<1>1. rcv.pc = "wait" /\ UNCHANGED <<state, contention, queues, buf, fl, snd, tpc, onHeap>>
  BY Zenon DEF wait, RAt
<1>2. ASSUME rcv' \in Process, msgq' = NoOne \/ msgq' = msgq, timer' = "set" \/ timer' = timer
      PROVE  TypeOK'
  <2>1. msgq' \in Senders \cup {Receiver, NoOne} /\ timer' \in {"none", "set", "timedout"}
    BY <1>2 DEF TypeOK
  <2> QED BY <1>1, <1>2, <2>1, Zenon DEF TypeOK, queues
<1>3. CASE rcv.flags # {} /\ RGoto("sleep") /\ UNCHANGED <<msgq, timer>>
  BY <1>1, <1>2, <1>3, RGotoEffect DEF ProcessPcs, RcvKeeps
<1>4. CASE /\ rcv.flags = {} /\ rcv.after = "zero"
           /\ msgq' = NoOne /\ RGoto("timeout") /\ UNCHANGED timer
  BY <1>1, <1>2, <1>4, RGotoEffect DEF ProcessPcs, RcvKeeps
<1>5. CASE /\ rcv.flags = {} /\ rcv.after = "infinity"
           /\ rcv' = [rcv EXCEPT !.pc = "sleep", !.flags = {"F_TIMO"}]
           /\ UNCHANGED <<msgq, timer>>
  <2>1. /\ rcv' \in Process /\ rcv'.pc = "sleep" /\ rcv'.flags = {"F_TIMO"}
        /\ rcv'.want = rcv.want /\ rcv'.after = rcv.after /\ rcv'.due = rcv.due
        /\ rcv'.buffers = rcv.buffers
    BY <1>5, Zenon DEF TypeOK, Process, ProcessPcs
  <2> QED BY <1>1, <1>2, <1>5, <2>1, Zenon
<1>6. CASE /\ rcv.flags = {} /\ rcv.after = "finite"
           /\ set_proc_timer_common /\ UNCHANGED msgq
  <2>1. /\ rcv' \in Process /\ rcv'.pc = "sleep" /\ rcv'.flags = {"F_INSLPQUEUE"}
        /\ rcv'.want = rcv.want /\ rcv'.after = rcv.after /\ rcv'.due = rcv.due
        /\ rcv'.buffers = rcv.buffers /\ timer' = "set"
    BY <1>6, Zenon DEF set_proc_timer_common, TypeOK, Process, ProcessPcs
  <2> QED BY <1>1, <1>2, <1>6, <2>1, Zenon
<1> QED BY <1>3, <1>4, <1>5, <1>6, Zenon DEF wait

(* A receive fails on its time limit. *)
LEMMA WrongTimeEffect ==
  ASSUME TypeOK, WrongTime
  PROVE  /\ TypeOK' /\ rcv.pc = "wait" /\ rcv.flags = {} /\ rcv' = Left
         /\ msgq' = NoOne /\ save' = 1
         /\ UNCHANGED <<state, contention, inq, inner, buf, fl, snd, timer, tpc, onHeap>>
<1>1. rcv' \in Process  BY LeftEffect DEF WrongTime
<1>2. save' \in 1 .. (Len(inner) + 1) /\ msgq' \in Senders \cup {Receiver, NoOne}
  BY DEF WrongTime, TypeOK
<1> QED BY <1>1, <1>2, Zenon DEF WrongTime, RAt, TypeOK

(* The receiver that prepares to sleep looks at its timer. *)
LEMMA TestTimerEffect ==
  ASSUME TypeOK, TestTimer
  PROVE  /\ TypeOK' /\ RcvKeeps /\ rcv.pc = "sleep"
         /\ \/ rcv'.pc = "out" /\ msgq' = NoOne
            \/ rcv'.pc = "deactivate" /\ msgq' = msgq
         /\ UNCHANGED <<state, contention, queues, buf, fl, snd, timer, tpc, onHeap>>
<1>1. /\ rcv' \in Process /\ RcvKeeps
      /\ \/ rcv'.pc = "out" /\ msgq' = NoOne
         \/ rcv'.pc = "deactivate" /\ msgq' = msgq
  BY RGotoEffect DEF TestTimer, ProcessPcs
<1>2. msgq' \in Senders \cup {Receiver, NoOne}  BY <1>1 DEF TypeOK
<1>3. /\ rcv.pc = "sleep"
      /\ UNCHANGED <<state, contention, queues, buf, fl, snd, timer, tpc, onHeap>>
  BY Zenon DEF TestTimer, RAt
<1>4. TypeOK'  BY <1>1, <1>2, <1>3, Zenon DEF TypeOK, queues
<1> QED BY <1>1, <1>3, <1>4, Zenon

(* The receiver stops being ACTIVE and releases the lock. *)
LEMMA DeactivateEffect ==
  ASSUME TypeOK, Deactivate
  PROVE  /\ TypeOK' /\ RcvKeeps /\ rcv.pc = "deactivate" /\ rcv'.pc = "out"
         /\ state' = state \ {"ACTIVE"} /\ msgq' = NoOne
         /\ UNCHANGED <<contention, queues, buf, fl, snd, timer, tpc, onHeap>>
<1>1. rcv' \in Process /\ RcvKeeps /\ rcv'.pc = "out"
  BY RGotoEffect DEF Deactivate, ProcessPcs
<1>2. state' \subseteq Flags /\ msgq' \in Senders \cup {Receiver, NoOne}
  BY DEF Deactivate, TypeOK
<1> QED BY <1>1, <1>2, Zenon DEF Deactivate, RAt, TypeOK, queues

(* A receive times out. *)
LEMMA timeoutEffect ==
  ASSUME TypeOK, timeout
  PROVE  /\ TypeOK' /\ rcv.pc = "timeout" /\ rcv' = Left /\ save' = 1
         /\ UNCHANGED <<state, lock, inq, inner, buf, fl, snd, timer, tpc, onHeap>>
<1>1. rcv' \in Process  BY LeftEffect DEF timeout
<1>2. save' \in 1 .. (Len(inner) + 1)  BY DEF timeout, TypeOK
<1> QED BY <1>1, <1>2, Zenon DEF timeout, RAt, TypeOK, lock

(* The receiver is scheduled out, and in again. *)
LEMMA schedule_out_processEffect ==
  ASSUME TypeOK, schedule_out_process
  PROVE  /\ TypeOK' /\ RcvKeeps /\ rcv.pc = "out" /\ rcv'.pc = "off"
         /\ "RUNNING" \notin state' /\ ("ACTIVE" \in state => "IN_RUNQ" \in state')
         /\ "IN_RUNQ" \in state' => "IN_RUNQ" \in state \/ "ACTIVE" \in state
         /\ \A f \in Flags \ {"RUNNING", "IN_RUNQ"} : f \in state' <=> f \in state
         /\ UNCHANGED <<lock, queues, buf, fl, snd, timer, tpc, onHeap>>
<1>1. rcv' \in Process /\ RcvKeeps /\ rcv'.pc = "off"
  BY RGotoEffect DEF schedule_out_process, RGoto, ProcessPcs
<1>2. /\ state' \subseteq Flags
      /\ "RUNNING" \notin state' /\ ("ACTIVE" \in state => "IN_RUNQ" \in state')
      /\ "IN_RUNQ" \in state' => "IN_RUNQ" \in state \/ "ACTIVE" \in state
      /\ \A f \in Flags \ {"RUNNING", "IN_RUNQ"} : f \in state' <=> f \in state
  BY DEF schedule_out_process, TypeOK, Flags
<1> QED BY <1>1, <1>2, Zenon DEF schedule_out_process, TypeOK, lock, queues

(* The receiver is scheduled in. *)
LEMMA ScheduleInEffect ==
  ASSUME TypeOK, ScheduleIn
  PROVE  /\ TypeOK' /\ rcv.pc = "off" /\ "IN_RUNQ" \in state
         /\ state' = (state \ {"IN_RUNQ"}) \cup {"RUNNING"}
         /\ rcv'.want = rcv.want /\ rcv'.after = rcv.after /\ rcv'.due = rcv.due
         /\ rcv'.buffers = rcv.buffers
         /\ \/ /\ timer = "timedout" /\ timer' = "none"
               /\ rcv'.pc = "timeout" /\ rcv'.flags = {"F_TIMO"}
            \/ rcv'.pc = "loop" /\ rcv'.flags = rcv.flags /\ UNCHANGED timer
         /\ UNCHANGED <<lock, queues, buf, fl, snd, tpc, onHeap>>
<1>1. /\ rcv.pc = "off" /\ "IN_RUNQ" \in state
      /\ state' = (state \ {"IN_RUNQ"}) \cup {"RUNNING"}
      /\ UNCHANGED <<lock, queues, buf, fl, snd, tpc, onHeap>>
  BY Zenon DEF ScheduleIn
<1>2. state' \subseteq Flags  BY <1>1 DEF TypeOK, Flags
<1>3. ASSUME rcv' \in Process, timer' = "none" \/ timer' = timer  PROVE TypeOK'
  <2>1. timer' \in {"none", "set", "timedout"}  BY <1>3 DEF TypeOK
  <2> QED BY <1>1, <1>2, <1>3, <2>1, Zenon DEF TypeOK, lock, queues
<1>4. CASE /\ timer = "timedout" /\ timer' = "none"
           /\ rcv' = [rcv EXCEPT !.pc = "timeout", !.flags = {"F_TIMO"}]
  <2>1. /\ rcv' \in Process /\ rcv'.pc = "timeout" /\ rcv'.flags = {"F_TIMO"}
        /\ rcv'.want = rcv.want /\ rcv'.after = rcv.after /\ rcv'.due = rcv.due
        /\ rcv'.buffers = rcv.buffers
    BY <1>4, Zenon DEF TypeOK, Process, ProcessPcs
  <2> QED BY <1>1, <1>3, <1>4, <2>1, Zenon
<1>5. CASE rcv' = [rcv EXCEPT !.pc = "loop"] /\ UNCHANGED timer
  <2>1. rcv' \in Process /\ RcvKeeps /\ rcv'.pc = "loop"
    BY <1>5, RGotoEffect DEF RGoto, ProcessPcs
  <2> QED BY <1>1, <1>3, <1>5, <2>1, Zenon DEF RcvKeeps
<1> QED BY <1>4, <1>5, Zenon DEF ScheduleIn, Resume

(* The timer fires and wakes the receiver. *)
LEMMA TimingEffect ==
  ASSUME TypeOK, Timing
  PROVE  /\ TypeOK'
         /\ \/ state' = state
            \/ Activate
         /\ \/ timer' = timer
            \/ timer = "set" /\ timer' = "timedout"
         /\ UNCHANGED <<lock, queues, buf, fl, snd, rcv, onHeap>>
<1>1. CASE TimerFires
  <2>1. timer = "set" /\ timer' = "timedout" /\ tpc' = "lock"  BY <1>1 DEF TimerFires
  <2> QED BY <1>1, <2>1, Zenon DEF TimerFires, TypeOK, lock, queues
<1>2. CASE TimerReads
  <2>1. tpc' \in {"off", "lock", "schedule"}  BY <1>2 DEF TimerReads
  <2> QED BY <1>2, <2>1, Zenon DEF TimerReads, TypeOK, lock, queues
<1>3. CASE TimerSchedules
  <2>1. state' \subseteq Flags  BY <1>3, ActivateEffect DEF TimerSchedules
  <2> QED BY <1>3, <2>1, Zenon DEF TimerSchedules, TypeOK, lock, queues
<1> QED BY <1>1, <1>2, <1>3 DEF Timing

(* The process exits. *)
LEMMA ExitBeginsEffect ==
  ASSUME TypeOK, set_self_exiting \/ SetFree
  PROVE  /\ TypeOK' /\ RcvKeeps /\ msgq = NoOne
         /\ \/ /\ rcv.pc = "idle" /\ rcv'.pc = "exiting"
               /\ state' = state \cup {"EXITING", "ACTIVE"}
            \/ /\ rcv.pc = "exiting" /\ rcv'.pc = "free" /\ state' = state \cup {"FREE"}
         /\ UNCHANGED <<lock, queues, buf, fl, snd, timer, tpc, onHeap>>
<1>1. CASE set_self_exiting
  <2>1. rcv' \in Process /\ RcvKeeps /\ rcv'.pc = "exiting"
    BY <1>1, RGotoEffect DEF set_self_exiting, ProcessPcs
  <2>2. state' \subseteq Flags  BY <1>1 DEF set_self_exiting, TypeOK, Flags
  <2> QED BY <1>1, <2>1, <2>2, Zenon DEF set_self_exiting, RAt, TypeOK, lock, queues
<1>2. CASE SetFree
  <2>1. rcv' \in Process /\ RcvKeeps /\ rcv'.pc = "free"
    BY <1>2, RGotoEffect DEF SetFree, ProcessPcs
  <2>2. state' \subseteq Flags  BY <1>2 DEF SetFree, TypeOK, Flags
  <2> QED BY <1>2, <2>1, <2>2, Zenon DEF SetFree, RAt, TypeOK, lock, queues
<1> QED BY <1>1, <1>2

(* The process takes the lock to exit, or to change to on-heap messages. *)
LEMMA TakesLockEffect ==
  ASSUME TypeOK, ExitLocks \/ ChangeLocks
  PROVE  /\ TypeOK' /\ RcvKeeps /\ msgq = NoOne /\ msgq' = Receiver
         /\ \/ rcv.pc = "free" /\ rcv'.pc = "last fetch"
            \/ rcv.pc = "idle" /\ rcv'.pc = "change"
         /\ buf.installed => fl'.pc = "kill" /\ fl'.slots = Slots
         /\ ~buf.installed => fl'.pc = "off" /\ fl'.slots = {}
         /\ UNCHANGED <<state, queues, buf, snd, timer, tpc, onHeap>>
<1>1. buf.installed \in BOOLEAN /\ Deinstall(buf.installed)
  BY DEF TypeOK, BufferArray, ExitLocks, ChangeLocks
<1>2. /\ contention' \in Nat /\ fl' \in FlushState
      /\ buf.installed => fl'.pc = "kill" /\ fl'.slots = Slots
      /\ ~buf.installed => fl'.pc = "off" /\ fl'.slots = {}
  BY <1>1, DeinstallEffect
<1>3. /\ rcv' \in Process /\ RcvKeeps
      /\ \/ rcv.pc = "free" /\ rcv'.pc = "last fetch"
         \/ rcv.pc = "idle" /\ rcv'.pc = "change"
  BY RGotoEffect DEF ExitLocks, ChangeLocks, RAt, ProcessPcs
<1>4. /\ msgq = NoOne /\ msgq' = Receiver
      /\ UNCHANGED <<state, queues, buf, snd, timer, tpc, onHeap>>
  BY Zenon DEF ExitLocks, ChangeLocks
<1>5. TypeOK'  BY <1>2, <1>3, <1>4, Zenon DEF TypeOK, queues
<1> QED BY <1>2, <1>3, <1>4, <1>5, Zenon

(* The exiting process fetches what is left, with its buffers gone. *)
LEMMA ExitFetchesEffect ==
  ASSUME TypeOK, ExitFetches
  PROVE  /\ TypeOK' /\ RcvKeeps /\ rcv.pc = "last fetch" /\ rcv'.pc = "links"
         /\ fl.pc = "off" /\ inq' = <<>> /\ msgq' = NoOne
         /\ state' = (IF inq = <<>> THEN state ELSE state \ {"MSG_SIG_IN_Q"})
         /\ UNCHANGED <<save, buf, fl, snd, timer, tpc, onHeap>>
<1>1. rcv' \in Process /\ RcvKeeps /\ rcv'.pc = "links"
  BY RGotoEffect DEF ExitFetches, ProcessPcs
<1>2. /\ inner' \in Seq(Messages) /\ inq' \in Seq(Messages) /\ save \in 1 .. (Len(inner') + 1)
  <2>1. inner' = inner \o inq /\ inq' = <<>>  BY DEF ExitFetches
  <2> QED BY <2>1 DEF TypeOK
<1>3. fl.pc = "off"  BY DEF ExitFetches, NoFlush
<1>4. /\ rcv.pc = "last fetch" /\ inq' = <<>> /\ msgq' = NoOne
      /\ state' = (IF inq = <<>> THEN state ELSE state \ {"MSG_SIG_IN_Q"})
      /\ UNCHANGED <<contention, save, buf, fl, snd, timer, tpc, onHeap>>
  BY Zenon DEF ExitFetches, RAt
<1>5. state' \subseteq Flags /\ msgq' \in Senders \cup {Receiver, NoOne}
  BY <1>4 DEF TypeOK
<1>6. TypeOK'  BY <1>1, <1>2, <1>4, <1>5, Zenon DEF TypeOK
<1> QED BY <1>1, <1>3, <1>4, <1>6, Zenon

(* Nothing of the process is left.  Its save pointer is back at the first message. *)
LEMMA delete_processEffect ==
  ASSUME TypeOK, save = 1, delete_process
  PROVE  /\ TypeOK' /\ RcvKeeps /\ rcv.pc = "links" /\ rcv'.pc = "gone"
         /\ state' = state \ {"ACTIVE", "RUNNING"} /\ inner' = <<>>
         /\ UNCHANGED <<lock, inq, save, buf, fl, snd, timer, tpc, onHeap>>
<1>1. rcv' \in Process /\ RcvKeeps /\ rcv'.pc = "gone"
  BY RGotoEffect DEF delete_process, ProcessPcs
<1>2. inner' \in Seq(Messages) /\ save \in 1 .. (Len(inner') + 1) /\ state' \subseteq Flags
  BY DEF delete_process, Inactivate, TypeOK
<1> QED BY <1>1, <1>2, Zenon DEF delete_process, Inactivate, RAt, TypeOK, lock

(* The rest of the change to on-heap messages. *)
LEMMA ChangeEffect ==
  ASSUME TypeOK, ChangeSets \/ ChangeClears
  PROVE  /\ TypeOK' /\ RcvKeeps
         /\ \/ /\ rcv.pc = "change" /\ rcv'.pc = "changed" /\ fl.pc = "off"
               /\ msgq' = NoOne /\ state' = state
            \/ /\ rcv.pc = "changed" /\ rcv'.pc = "idle"
               /\ msgq' = msgq /\ state' = state \ {"OFF_HEAP_MSGQ"}
         /\ UNCHANGED <<queues, buf, fl, snd, timer, tpc>>
<1>1. CASE ChangeSets
  <2>1. rcv' \in Process /\ RcvKeeps /\ rcv'.pc = "changed"
    BY <1>1, RGotoEffect DEF ChangeSets, ProcessPcs
  <2>2. fl.pc = "off"  BY <1>1 DEF ChangeSets, NoFlush
  <2> QED BY <1>1, <2>1, <2>2, Zenon DEF ChangeSets, RAt, TypeOK, queues
<1>2. CASE ChangeClears
  <2>1. rcv' \in Process /\ RcvKeeps /\ rcv'.pc = "idle"
    BY <1>2, RGotoEffect DEF ChangeClears, ProcessPcs
  <2>2. state' \subseteq Flags  BY <1>2 DEF ChangeClears, TypeOK
  <2> QED BY <1>2, <2>1, <2>2, Zenon DEF ChangeClears, RAt, TypeOK, lock, queues
<1> QED BY <1>1, <1>2

============================================================================
