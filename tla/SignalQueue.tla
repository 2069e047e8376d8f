---------------------------- MODULE SignalQueue ----------------------------
(***************************************************************************)
(* How a message gets from queue_messages() (erl_message.c) through the    *)
(* outer signal queue and its buffers (erl_proc_sig_queue.c) to a receive  *)
(* expression, and how the receiver sleeps and is woken (msg_instrs.tab,   *)
(* erl_process.c, the process timers of erl_hl_timer.c).  One receiving    *)
(* process with an off-heap message queue; every atomic access, and every  *)
(* critical section that nobody can look into, is a step.                  *)
(*                                                                         *)
(* Only message signals are sent, and receive is not traced, so the middle *)
(* queue stays empty.  A message is the pair of its sender and a number.   *)
(***************************************************************************)
EXTENDS Integers, Sequences, Functions

CONSTANTS
  Senders, Receiver, NoOne,
  Slots,                    \* 0 .. n-1: the buffers of an array
  SlotOf,                   \* the hash of the sender, modulo their number
  Quota,                    \* bound: how many messages each sender sends
  Receives,                 \* the receives: the senders matched, and the after clause
  Ops,                      \* what else the process does; see OpsAssumption
  CONTENTION_INSTALL_LIMIT, MIN_FLUSH_ALL_OPS_BEFORE_CHANGE,
  MIN_NO_ENQUEUES_TO_KEEP

ASSUME ThreadsAssumption == Receiver # NoOne /\ {Receiver, NoOne} \cap Senders = {}
ASSUME SlotsAssumption == Slots \subseteq Nat /\ SlotOf \in [Senders -> Slots]
ASSUME QuotaAssumption == Quota \in [Senders -> Nat]
ASSUME LimitsAssumption ==
  /\ CONTENTION_INSTALL_LIMIT \in Nat /\ MIN_NO_ENQUEUES_TO_KEEP \in Nat
  /\ MIN_FLUSH_ALL_OPS_BEFORE_CHANGE \in Nat \ {0}
ASSUME OpsAssumption == Ops \subseteq {"exit", "on_heap"}
ASSUME ReceivesAssumption ==
  \A r \in Receives :
    r.want \in (SUBSET Senders) \ {{}} /\ r.after \in {"infinity", "finite", "zero", "wrong"}

VARIABLES
  state,       \* the flags of p->state
  msgq,        \* the owner of ERTS_PROC_LOCK_MSGQ
  contention,  \* sig_inq_contention_counter
  inq,         \* sig_inq, the outer queue
  inner,       \* sig_qs, the inner queue ...
  save,        \* ... and the position of its save pointer
  buf,         \* the last buffer array, and whether it is installed
  fl,          \* the flush of the buffers that the owner of msgq is in
  snd,         \* the senders: pc and locals of queue_messages
  rcv,         \* the receiver: pc, the receive it is in, p->flags
  timer,       \* common.timer
  tpc,         \* the scheduler thread on which that timer fires
  onHeap       \* FS_ON_HEAP_MSGQ

lock == <<msgq, contention>>
queues == <<inq, inner, save>>

vars == <<state, lock, queues, buf, fl, snd, rcv, timer, tpc, onHeap>>

Message(s) == <<s, snd[s].n>>

At(s, pc) == snd[s].pc = pc
Goto(s, pc) == snd' = [snd EXCEPT ![s].pc = pc]

Idle(n) == [pc |-> "idle", n |-> n, array |-> 0, sync |-> FALSE,
            restarted |-> FALSE, mark |-> FALSE]
Return(s) == snd' = [snd EXCEPT ![s] = Idle(@.n)]

InSlot_Long(s) == snd[s].pc \in {"nonempty", "recheck", "state", "enqueue", "released"}

\* The sender holds the lock of its slot.
InSlot(s) == snd[s].pc \in {"nonempty", "recheck", "state", "enqueue"}

SlotFree(i, array) ==
  \A s \in Senders : InSlot(s) /\ SlotOf[s] = i => snd[s].array # array

(***************************************************************************)
(* Scheduling.                                                             *)
(***************************************************************************)
Activate_Free ==
  state' = state \cup {"ACTIVE"}
             \cup (IF state \cap {"RUNNING", "IN_RUNQ"} = {} THEN {"IN_RUNQ"} ELSE {})

\* change_proc_schedule_state with ERTS_PSFLG_ACTIVE to set
Activate ==
  state' = IF "FREE" \in state /\ "ACTIVE" \notin state THEN state
           ELSE state \cup {"ACTIVE"}
                  \cup (IF state \cap {"RUNNING", "IN_RUNQ"} = {} THEN {"IN_RUNQ"} ELSE {})

schedule_out_process ==
  /\ rcv.pc = "out"
  /\ state' = (state \ {"RUNNING"})
                \cup (IF "ACTIVE" \in state THEN {"IN_RUNQ"} ELSE {})
  /\ rcv' = [rcv EXCEPT !.pc = "off"]
  /\ UNCHANGED <<lock, queues, buf, fl, snd, timer, tpc, onHeap>>

\* A timer that has fired moves the process to the timeout instruction.
Resume ==
  \/ /\ timer = "timedout"
     /\ timer' = "none"
     /\ rcv' = [rcv EXCEPT !.pc = "timeout", !.flags = {"F_TIMO"}]
  \/ /\ timer # "timedout"
     /\ rcv' = [rcv EXCEPT !.pc = "loop"]
     /\ UNCHANGED timer

ScheduleIn ==
  /\ rcv.pc = "off" /\ "IN_RUNQ" \in state
  /\ state' = (state \ {"IN_RUNQ"}) \cup {"RUNNING"}
  /\ Resume
  /\ UNCHANGED <<lock, queues, buf, fl, snd, tpc, onHeap>>

(***************************************************************************)
(* Sending: first to a buffer, if the receiver has any.                    *)
(***************************************************************************)
\* A process that is no longer in the process table is not found by a sender.
queue_messages(s) ==
  /\ At(s, "idle") /\ snd[s].n < Quota[s] /\ "FREE" \notin state
  /\ snd' = [snd EXCEPT ![s].pc = IF buf.installed THEN "slot" ELSE "lock",
                        ![s].n = @ + 1,
                        ![s].array = IF buf.installed THEN buf.array ELSE 0,
                        ![s].sync = buf.installed]
  /\ UNCHANGED <<state, lock, queues, buf, fl, rcv, timer, tpc, onHeap>>

LockSlot_Dead(s) ==
  /\ At(s, "slot") /\ SlotFree(SlotOf[s], snd[s].array)
  /\ buf' = [buf EXCEPT !.msgs = TRUE]
  /\ Goto(s, "nonempty")
  /\ UNCHANGED <<state, lock, queues, fl, rcv, timer, tpc, onHeap>>

\* The buffers of an array that has been uninstalled are dead.
LockSlot(s) ==
  /\ At(s, "slot") /\ SlotFree(SlotOf[s], snd[s].array)
  /\ \/ /\ snd[s].array = buf.array /\ SlotOf[s] \in buf.alive
        /\ buf' = [buf EXCEPT !.msgs = TRUE]
        /\ Goto(s, "nonempty")
     \/ /\ snd[s].array # buf.array \/ SlotOf[s] \notin buf.alive
        /\ snd' = [snd EXCEPT ![s] = [Idle(@.n) EXCEPT !.pc = "lock"]]
        /\ UNCHANGED buf
  /\ UNCHANGED <<state, lock, queues, fl, rcv, timer, tpc, onHeap>>

MarkNonempty_NoSync(s) ==
  LET i == SlotOf[s]
      flushing == buf.queue[i] # <<>> /\ i \notin buf.nonempty
  IN  /\ At(s, "nonempty")
      /\ buf' = IF buf.queue[i] = <<>> THEN [buf EXCEPT !.nonempty = @ \cup {i}] ELSE buf
      /\ snd' = [snd EXCEPT ![s].pc = IF flushing THEN "state" ELSE "recheck",
                            ![s].sync = FALSE]
      /\ UNCHANGED <<state, lock, queues, fl, rcv, timer, tpc, onHeap>>

\* sync: nonempty_slots_before is zero.  A slot that is not empty and not in
\* nonempty_slots is about to be emptied by a flush.
MarkNonempty(s) ==
  LET i == SlotOf[s]
      flushing == buf.queue[i] # <<>> /\ i \notin buf.nonempty
  IN  /\ At(s, "nonempty")
      /\ buf' = IF buf.queue[i] = <<>> THEN [buf EXCEPT !.nonempty = @ \cup {i}] ELSE buf
      /\ snd' = [snd EXCEPT ![s].pc = IF flushing THEN "state" ELSE "recheck",
                            ![s].sync = IF flushing \/ snd[s].restarted THEN @
                                        ELSE buf.nonempty = {}]
      /\ UNCHANGED <<state, lock, queues, fl, rcv, timer, tpc, onHeap>>

RecheckMsgs_Skip(s) ==
  /\ At(s, "recheck")
  /\ Goto(s, "state")
  /\ UNCHANGED <<state, lock, queues, buf, fl, rcv, timer, tpc, onHeap>>

\* If a flush has cleared msgs_in_slots, start again.
RecheckMsgs(s) ==
  /\ At(s, "recheck")
  /\ \/ /\ buf.msgs
        /\ Goto(s, "state")
        /\ UNCHANGED buf
     \/ /\ ~buf.msgs
        /\ buf' = [buf EXCEPT !.msgs = TRUE]
        /\ snd' = [snd EXCEPT ![s].pc = "nonempty", ![s].restarted = TRUE]
  /\ UNCHANGED <<state, lock, queues, fl, rcv, timer, tpc, onHeap>>

ReadState(s) ==
  /\ At(s, "state")
  /\ snd' = [snd EXCEPT ![s].pc = "enqueue", ![s].mark = "MSG_SIG_IN_Q" \notin state]
  /\ UNCHANGED <<state, lock, queues, buf, fl, rcv, timer, tpc, onHeap>>

\* enqueue_signals to the slot; the lock of the slot is released.
EnqueueToSlot(s) ==
  /\ At(s, "enqueue")
  /\ buf' = [buf EXCEPT !.queue[SlotOf[s]] = Append(@, Message(s))]
  /\ state' = IF snd[s].mark THEN state \cup {"MSG_SIG_IN_Q"} ELSE state
  /\ snd' = [snd EXCEPT ![s] = [Idle(@.n) EXCEPT !.pc = IF snd[s].sync THEN "released" ELSE "notify",
                                                !.array = snd[s].array]]
  /\ UNCHANGED <<lock, queues, fl, rcv, timer, tpc, onHeap>>

WaitUntilReleased(s) ==
  /\ At(s, "released") /\ msgq = NoOne
  /\ Goto(s, "notify")
  /\ UNCHANGED <<state, lock, queues, buf, fl, rcv, timer, tpc, onHeap>>

\* The direct path goes on to the Premises; the buffered one returns.
Notified(s) == IF snd[s].array = 0 THEN Goto(s, "premises") ELSE Return(s)

erts_proc_notify_new_message(s) ==
  /\ At(s, "notify")
  /\ IF "ACTIVE" \in state THEN Notified(s) ELSE Goto(s, "schedule")
  /\ UNCHANGED <<state, lock, queues, buf, fl, rcv, timer, tpc, onHeap>>

erts_schedule_process(s) ==
  /\ At(s, "schedule")
  /\ Activate
  /\ Notified(s)
  /\ UNCHANGED <<lock, queues, buf, fl, rcv, timer, tpc, onHeap>>

(***************************************************************************)
(* Sending: without buffers, under the lock of the message queue.          *)
(* erts_proc_sig_queue_lock counts how often the lock was contended.       *)
(***************************************************************************)
\* sig_inq_contention_counter, when the lock is taken
Contention(waited) == IF waited THEN contention + 1 ELSE IF contention > 0 THEN contention - 1 ELSE 0

erts_proc_sig_queue_lock(thread, waited) ==
  /\ msgq = NoOne /\ msgq' = thread
  /\ contention' = Contention(waited)

WaitForMsgq(s) ==
  /\ At(s, "lock") /\ msgq # NoOne
  /\ Goto(s, "blocked")
  /\ UNCHANGED <<state, lock, queues, buf, fl, rcv, timer, tpc, onHeap>>

NewArray ==
  [installed |-> TRUE, array |-> buf.array + 1, alive |-> Slots,
   queue |-> [i \in Slots |-> <<>>], nonempty |-> {}, msgs |-> FALSE,
   rounds |-> MIN_FLUSH_ALL_OPS_BEFORE_CHANGE, enqueues |-> 0]

NoFlush == [pc |-> "off", slots |-> {}]
FlushIf(cond) == fl' = IF cond THEN [pc |-> "msgs", slots |-> {}] ELSE NoFlush

\* Drop the message of a receiver that is exiting; or install buffers, and flush
\* them before the message is linked.
LockMsgq(s) ==
  /\ snd[s].pc \in {"lock", "blocked"}
  /\ \/ /\ "EXITING" \in state
        /\ erts_proc_sig_queue_lock(NoOne, At(s, "blocked"))
        /\ Return(s)
        /\ UNCHANGED <<buf, fl>>
     \/ /\ "EXITING" \notin state
        /\ msgq = NoOne /\ msgq' = s
        /\ LET count == Contention(At(s, "blocked"))
               install == "OFF_HEAP_MSGQ" \in state /\ ~buf.installed
                            /\ count > CONTENTION_INSTALL_LIMIT
           IN  /\ buf' = IF install THEN NewArray ELSE buf
               /\ contention' = IF install THEN 0 ELSE count
               /\ FlushIf("OFF_HEAP_MSGQ" \in state /\ buf'.installed)
        /\ Goto(s, "link")
  /\ UNCHANGED <<state, queues, rcv, timer, tpc, onHeap>>

LINK_MESSAGE(s) ==
  /\ At(s, "link") /\ fl = NoFlush
  /\ inq' = Append(inq, Message(s))
  /\ state' = state \cup {"MSG_SIG_IN_Q"}
  /\ msgq' = NoOne
  /\ Goto(s, "notify")
  /\ UNCHANGED <<contention, inner, save, buf, fl, rcv, timer, tpc, onHeap>>

\* The PON block of queue_messages: the tag of the message is read, and, if the
\* receiver has premises, its term, which erts_pon_notify_premises ignores.
NotifyPremises(s) ==
  /\ At(s, "premises")
  /\ Return(s)
  /\ UNCHANGED <<state, lock, queues, buf, fl, rcv, timer, tpc, onHeap>>

(***************************************************************************)
(* Flushing the buffers: the owner of the message queue lock, a sender or  *)
(* the receiver, is in proc_sig_queue_flush_buffers.                       *)
(***************************************************************************)
ClearMsgs ==
  /\ fl.pc = "msgs"
  /\ buf' = [buf EXCEPT !.msgs = FALSE]
  /\ fl' = [fl EXCEPT !.pc = "take"]
  /\ UNCHANGED <<state, lock, queues, snd, rcv, timer, tpc, onHeap>>

TakeNonempty ==
  /\ fl.pc = "take"
  /\ buf' = [buf EXCEPT !.nonempty = {}]
  /\ fl' = [pc |-> "slots", slots |-> buf.nonempty]
  /\ UNCHANGED <<state, lock, queues, snd, rcv, timer, tpc, onHeap>>

proc_sig_queue_flush_buffer ==
  /\ fl.pc = "slots"
  /\ \E i \in fl.slots :
         /\ \A j \in fl.slots : i <= j
         /\ SlotFree(i, buf.array)
         /\ inq' = inq \o buf.queue[i]
         /\ buf' = [buf EXCEPT !.queue[i] = <<>>,
                               !.enqueues = @ + Len(buf.queue[i])]
         /\ fl' = [fl EXCEPT !.slots = @ \ {i}]
  /\ UNCHANGED <<state, lock, inner, save, snd, rcv, timer, tpc, onHeap>>

\* flush_and_deinstall_buffers begins
Deinstall(cond) ==
  /\ fl' = IF cond THEN [pc |-> "kill", slots |-> Slots] ELSE NoFlush
  /\ contention' = IF cond THEN 0 ELSE contention

FlushRound ==
  LET few == buf.enqueues < MIN_NO_ENQUEUES_TO_KEEP
  IN  /\ fl.pc = "slots" /\ fl.slots = {}
      /\ \/ /\ buf.rounds > 1
            /\ buf' = [buf EXCEPT !.rounds = @ - 1]
            /\ Deinstall(FALSE)
         \/ /\ buf.rounds = 1 /\ few
            /\ buf' = [buf EXCEPT !.rounds = 0]
            /\ Deinstall(TRUE)
         \/ /\ buf.rounds = 1 /\ ~few
            /\ buf' = [buf EXCEPT !.rounds = MIN_FLUSH_ALL_OPS_BEFORE_CHANGE,
                                  !.enqueues = 0]
            /\ Deinstall(FALSE)
      /\ UNCHANGED <<state, msgq, queues, snd, rcv, timer, tpc, onHeap>>

KillSlot ==
  /\ fl.pc = "kill"
  /\ \E i \in fl.slots :
         /\ \A j \in fl.slots : i <= j
         /\ SlotFree(i, buf.array)
         /\ inq' = inq \o buf.queue[i]
         /\ buf' = [buf EXCEPT !.queue[i] = <<>>, !.alive = @ \ {i}]
         /\ fl' = [fl EXCEPT !.slots = @ \ {i}]
  /\ UNCHANGED <<state, lock, inner, save, snd, rcv, timer, tpc, onHeap>>

Uninstall ==
  /\ fl.pc = "kill" /\ fl.slots = {}
  /\ buf' = [buf EXCEPT !.msgs = FALSE, !.nonempty = {}, !.installed = FALSE,
                        !.rounds = 0, !.enqueues = 0]
  /\ fl' = NoFlush
  /\ UNCHANGED <<state, lock, queues, snd, rcv, timer, tpc, onHeap>>

Flush ==
  ClearMsgs \/ TakeNonempty \/ proc_sig_queue_flush_buffer \/ FlushRound \/ KillSlot \/ Uninstall

(***************************************************************************)
(* Receiving: loop_rec, erts_proc_sig_receive_helper, remove_message,      *)
(* loop_rec_end, wait and timeout.                                         *)
(***************************************************************************)
RAt(pc) == rcv.pc = pc
RGoto(pc) == rcv' = [rcv EXCEPT !.pc = pc]

Queued(s) ==   \* the messages of s that are in a queue
  {m \in Range(inner \o inq \o buf.queue[SlotOf[s]]) : m[1] = s}

\* due is a history variable: what an after 0 receive must not miss.
Receive ==
  /\ RAt("idle")
  /\ \E r \in Receives :
       rcv' = [rcv EXCEPT !.pc = "loop", !.want = r.want, !.after = r.after,
                          !.due = IF r.after = "zero" THEN UNION {Queued(s) : s \in r.want} ELSE {}]
  /\ UNCHANGED <<state, lock, queues, buf, fl, snd, timer, tpc, onHeap>>

Peek == save <= Len(inner)

\* The process has no reductions left.
Preempt ==
  /\ RAt("loop")
  /\ RGoto("out")
  /\ UNCHANGED <<state, lock, queues, buf, fl, snd, timer, tpc, onHeap>>

i_loop_rec ==
  /\ RAt("loop")
  /\ RGoto(IF Peek THEN "match" ELSE "lock")
  /\ UNCHANGED <<state, lock, queues, buf, fl, snd, timer, tpc, onHeap>>

RWaitForMsgq ==
  /\ RAt("lock") /\ msgq # NoOne
  /\ RGoto("blocked")
  /\ UNCHANGED <<state, lock, queues, buf, fl, snd, timer, tpc, onHeap>>

erts_proc_sig_fetch_NoFlush ==
  /\ rcv.pc \in {"lock", "blocked"}
  /\ erts_proc_sig_queue_lock(Receiver, RAt("blocked"))
  /\ rcv' = [rcv EXCEPT !.pc = IF inq # <<>> THEN "splice" ELSE "peek"]
  /\ UNCHANGED <<state, queues, buf, fl, snd, timer, tpc, onHeap>>

erts_proc_sig_fetch ==
  /\ rcv.pc \in {"lock", "blocked"}
  /\ erts_proc_sig_queue_lock(Receiver, RAt("blocked"))
  /\ rcv' = [rcv EXCEPT !.pc = IF buf.installed \/ inq # <<>> THEN "splice" ELSE "peek",
                        !.buffers = buf.installed]
  /\ FlushIf(buf.installed)
  /\ UNCHANGED <<state, queues, buf, snd, timer, tpc, onHeap>>

Splice ==
  /\ RAt("splice") /\ fl = NoFlush
  /\ inner' = inner \o inq /\ inq' = <<>>
  /\ RGoto(IF inq = <<>> /\ "MSG_SIG_IN_Q" \notin state THEN "peek" ELSE "clear")
  /\ UNCHANGED <<state, lock, save, buf, fl, snd, timer, tpc, onHeap>>

ClearFlag ==
  /\ RAt("clear")
  /\ state' = state \ {"MSG_SIG_IN_Q"}
  /\ RGoto(IF rcv.buffers THEN "raced" ELSE "peek")
  /\ UNCHANGED <<lock, queues, buf, fl, snd, timer, tpc, onHeap>>

ReadNonempty_Skip ==
  /\ RAt("raced")
  /\ RGoto("peek")
  /\ UNCHANGED <<state, lock, queues, buf, fl, snd, timer, tpc, onHeap>>

\* A signal may have been put into a buffer since the flush.  (The process is
\* running and ACTIVE, so that no notification is scheduled.)
ReadNonempty ==
  /\ RAt("raced")
  /\ RGoto(IF buf.nonempty = {} THEN "peek" ELSE "reset")
  /\ UNCHANGED <<state, lock, queues, buf, fl, snd, timer, tpc, onHeap>>

ResetFlag ==
  /\ RAt("reset")
  /\ state' = IF buf.msgs THEN state \cup {"MSG_SIG_IN_Q"} ELSE state
  /\ RGoto("peek")
  /\ UNCHANGED <<lock, queues, buf, fl, snd, timer, tpc, onHeap>>

PeekFetched_Unlock ==
  /\ RAt("peek")
  /\ msgq' = NoOne
  /\ rcv' = [rcv EXCEPT !.pc = IF Peek THEN "match" ELSE "wait", !.buffers = FALSE]
  /\ UNCHANGED <<state, contention, queues, buf, fl, snd, timer, tpc, onHeap>>

\* Without a message the lock is kept on the way to the wait instruction.
PeekFetched ==
  /\ RAt("peek")
  /\ msgq' = IF Peek THEN NoOne ELSE msgq
  /\ rcv' = [rcv EXCEPT !.pc = IF Peek THEN "match" ELSE "wait", !.buffers = FALSE]
  /\ UNCHANGED <<state, contention, queues, buf, fl, snd, timer, tpc, onHeap>>

Matches == inner[save][1] \in rcv.want

\* the inner queue without the message at the save pointer
Removed == SubSeq(inner, 1, save - 1) \o SubSeq(inner, save + 1, Len(inner))

CANCEL_TIMER == timer' = IF "F_INSLPQUEUE" \in rcv.flags THEN "none" ELSE timer

Left == [rcv EXCEPT !.pc = "idle", !.want = {}, !.after = "none", !.flags = {},
                    !.due = {}]

remove_message_NoCancel ==
  /\ RAt("match") /\ Matches
  /\ inner' = Removed /\ save' = 1
  /\ rcv' = Left
  /\ UNCHANGED <<state, lock, inq, buf, fl, snd, timer, tpc, onHeap>>

remove_message ==
  /\ RAt("match") /\ Matches
  /\ inner' = Removed /\ save' = 1
  /\ CANCEL_TIMER
  /\ rcv' = Left
  /\ UNCHANGED <<state, lock, inq, buf, fl, snd, tpc, onHeap>>

loop_rec_end ==
  /\ RAt("match") /\ ~Matches
  /\ save' = save + 1
  /\ RGoto("loop")
  /\ UNCHANGED <<state, lock, inq, inner, buf, fl, snd, timer, tpc, onHeap>>

set_proc_timer_common ==
  /\ rcv' = [rcv EXCEPT !.pc = "sleep", !.flags = {"F_INSLPQUEUE"}]
  /\ timer' = "set"

\* The timer is set the first time only.
wait ==
  /\ RAt("wait")
  /\ \/ /\ rcv.flags # {}
        /\ RGoto("sleep")
        /\ UNCHANGED <<msgq, timer>>
     \/ /\ rcv.flags = {} /\ rcv.after = "zero"
        /\ msgq' = NoOne
        /\ RGoto("timeout")
        /\ UNCHANGED timer
     \/ /\ rcv.flags = {} /\ rcv.after = "infinity"
        /\ rcv' = [rcv EXCEPT !.pc = "sleep", !.flags = {"F_TIMO"}]
        /\ UNCHANGED <<msgq, timer>>
     \/ /\ rcv.flags = {} /\ rcv.after = "finite"
        /\ set_proc_timer_common
        /\ UNCHANGED msgq
  /\ UNCHANGED <<state, contention, queues, buf, fl, snd, tpc, onHeap>>

\* A time limit that is none is an error: the receive is left as if it had not begun.
WrongTime ==
  /\ RAt("wait") /\ rcv.flags = {} /\ rcv.after = "wrong"
  /\ msgq' = NoOne /\ save' = 1
  /\ rcv' = Left
  /\ UNCHANGED <<state, contention, inq, inner, buf, fl, snd, timer, tpc, onHeap>>

\* wait.execute; the test of the timer and the change of the state are two steps.
TestTimer ==
  /\ RAt("sleep")
  /\ IF timer = "timedout" THEN RGoto("out") /\ msgq' = NoOne
                           ELSE RGoto("deactivate") /\ UNCHANGED msgq
  /\ UNCHANGED <<state, contention, queues, buf, fl, snd, timer, tpc, onHeap>>

Deactivate ==
  /\ RAt("deactivate")
  /\ state' = state \ {"ACTIVE"}
  /\ msgq' = NoOne
  /\ RGoto("out")
  /\ UNCHANGED <<contention, queues, buf, fl, snd, timer, tpc, onHeap>>

timeout ==
  /\ RAt("timeout")
  /\ save' = 1
  /\ rcv' = Left
  /\ UNCHANGED <<state, lock, inq, inner, buf, fl, snd, timer, tpc, onHeap>>

(***************************************************************************)
(* The timer of a receive (proc_timeout_common).                           *)
(***************************************************************************)
TimerFires ==
  /\ tpc = "off" /\ timer = "set"
  /\ timer' = "timedout"
  /\ tpc' = "lock"
  /\ UNCHANGED <<state, lock, queues, buf, fl, snd, rcv, onHeap>>

TimerReads ==
  /\ tpc = "lock" /\ msgq = NoOne
  /\ tpc' = IF state \cap {"ACTIVE", "EXITING"} = {} THEN "schedule" ELSE "off"
  /\ UNCHANGED <<state, lock, queues, buf, fl, snd, rcv, timer, onHeap>>

TimerSchedules ==
  /\ tpc = "schedule"
  /\ Activate
  /\ tpc' = "off"
  /\ UNCHANGED <<lock, queues, buf, fl, snd, rcv, timer, onHeap>>

(***************************************************************************)
(* Exiting: erts_do_exit_process, continue_exit and delete_process.        *)
(***************************************************************************)
\* All locks of the process are taken to set these two flags.
set_self_exiting ==
  /\ "exit" \in Ops /\ RAt("idle") /\ msgq = NoOne
  /\ state' = state \cup {"EXITING", "ACTIVE"}
  /\ RGoto("exiting")
  /\ UNCHANGED <<lock, queues, buf, fl, snd, timer, tpc, onHeap>>

SetFree ==
  /\ RAt("exiting") /\ msgq = NoOne
  /\ state' = state \cup {"FREE"}
  /\ RGoto("free")
  /\ UNCHANGED <<lock, queues, buf, fl, snd, timer, tpc, onHeap>>

ExitLocks ==
  /\ RAt("free") /\ msgq = NoOne /\ msgq' = Receiver
  /\ Deinstall(buf.installed)
  /\ RGoto("last fetch")
  /\ UNCHANGED <<state, queues, buf, snd, timer, tpc, onHeap>>

ExitFetches ==
  /\ RAt("last fetch") /\ fl = NoFlush
  /\ inner' = inner \o inq /\ inq' = <<>>
  /\ state' = IF inq = <<>> THEN state ELSE state \ {"MSG_SIG_IN_Q"}
  /\ msgq' = NoOne
  /\ RGoto("links")
  /\ UNCHANGED <<contention, save, buf, fl, snd, timer, tpc, onHeap>>

Inactivate == state' = state \ {"ACTIVE", "RUNNING"}

\* The process is made inactive, scheduled out and freed.
delete_process ==
  /\ RAt("links")
  /\ Inactivate
  /\ inner' = <<>>
  /\ RGoto("gone")
  /\ UNCHANGED <<lock, inq, save, buf, fl, snd, timer, tpc, onHeap>>

(***************************************************************************)
(* process_flag(message_queue_data, on_heap).                              *)
(***************************************************************************)
ChangeLocks ==
  /\ "on_heap" \in Ops /\ RAt("idle") /\ ~onHeap
  /\ msgq = NoOne /\ msgq' = Receiver
  /\ Deinstall(buf.installed)
  /\ RGoto("change")
  /\ UNCHANGED <<state, queues, buf, snd, timer, tpc, onHeap>>

ChangeSets ==
  /\ RAt("change") /\ fl = NoFlush
  /\ onHeap' = TRUE
  /\ msgq' = NoOne
  /\ RGoto("changed")
  /\ UNCHANGED <<state, contention, queues, buf, fl, snd, timer, tpc>>

ChangeClears ==
  /\ RAt("changed")
  /\ state' = state \ {"OFF_HEAP_MSGQ"}
  /\ RGoto("idle")
  /\ UNCHANGED <<lock, queues, buf, fl, snd, timer, tpc, onHeap>>

(***************************************************************************)
(* The specification.                                                      *)
(***************************************************************************)
Init ==
  /\ state = {"ACTIVE", "RUNNING", "OFF_HEAP_MSGQ"}
  /\ msgq = NoOne /\ contention = 0
  /\ inq = <<>> /\ inner = <<>> /\ save = 1
  /\ buf = [installed |-> FALSE, array |-> 0, alive |-> {},
            queue |-> [i \in Slots |-> <<>>], nonempty |-> {}, msgs |-> FALSE,
            rounds |-> 0, enqueues |-> 0]
  /\ fl = NoFlush
  /\ snd = [s \in Senders |-> Idle(0)]
  /\ rcv = [pc |-> "idle", want |-> {}, after |-> "none", flags |-> {},
            due |-> {}, buffers |-> FALSE]
  /\ timer = "none" /\ tpc = "off"
  /\ onHeap = FALSE

Sending(s) ==
  \/ LockSlot(s) \/ MarkNonempty(s) \/ RecheckMsgs(s) \/ ReadState(s) \/ EnqueueToSlot(s)
  \/ WaitUntilReleased(s) \/ erts_proc_notify_new_message(s) \/ erts_schedule_process(s)
  \/ WaitForMsgq(s) \/ LockMsgq(s) \/ LINK_MESSAGE(s) \/ NotifyPremises(s)

Receiving ==
  \/ i_loop_rec \/ RWaitForMsgq \/ erts_proc_sig_fetch \/ Splice \/ ClearFlag
  \/ ReadNonempty \/ ResetFlag \/ PeekFetched \/ remove_message \/ loop_rec_end
  \/ wait \/ WrongTime \/ TestTimer \/ Deactivate \/ timeout

Scheduling == schedule_out_process \/ ScheduleIn

Timing == TimerFires \/ TimerReads \/ TimerSchedules
Exiting == set_self_exiting \/ SetFree \/ ExitLocks \/ ExitFetches \/ delete_process
Changing == ChangeLocks \/ ChangeSets \/ ChangeClears

Next ==
  \/ \E s \in Senders : queue_messages(s) \/ Sending(s)
  \/ Receive \/ Preempt \/ Receiving \/ Scheduling
  \/ Flush \/ Timing \/ Exiting \/ Changing

Spec == Init /\ [][Next]_vars

\* The locks of ERTS serve their waiters in turn, and a process is scheduled in
\* with reductions to spend.
FairSpec ==
  /\ Spec
  /\ \A s \in Senders : SF_vars(Sending(s))
  /\ SF_vars(Receiving) /\ WF_vars(Scheduling) /\ SF_vars(Timing) /\ SF_vars(Flush)
  /\ WF_vars(SetFree \/ ExitLocks \/ ExitFetches \/ delete_process \/ ChangeSets \/ ChangeClears)

(***************************************************************************)
(* Properties.                                                             *)
(***************************************************************************)
Messages == Senders \X Nat

Flags ==
  {"ACTIVE", "RUNNING", "IN_RUNQ", "MSG_SIG_IN_Q", "OFF_HEAP_MSGQ", "EXITING", "FREE"}

BufferArray ==
  [installed : BOOLEAN, array : Nat, alive : SUBSET Slots, queue : [Slots -> Seq(Messages)],
   nonempty : SUBSET Slots, msgs : BOOLEAN, rounds : Nat, enqueues : Nat]

FlushState == [pc : {"off", "msgs", "take", "slots", "kill"}, slots : SUBSET Slots]

SenderPcs ==
  {"idle", "slot", "nonempty", "recheck", "state", "enqueue", "released", "notify",
   "schedule", "lock", "blocked", "link", "premises"}

Sender ==
  [pc : SenderPcs, n : Nat, array : Nat, sync : BOOLEAN, restarted : BOOLEAN, mark : BOOLEAN]

ProcessPcs ==
  {"idle", "loop", "lock", "blocked", "splice", "clear", "raced", "reset", "peek", "match",
   "wait", "sleep", "deactivate", "timeout", "out", "off", "exiting", "free", "last fetch",
   "links", "gone", "change", "changed"}

Process ==
  [pc : ProcessPcs, want : SUBSET Senders,
   after : {"none", "infinity", "finite", "zero", "wrong"},
   flags : SUBSET {"F_TIMO", "F_INSLPQUEUE"}, due : SUBSET Messages, buffers : BOOLEAN]

\* The variables have their types.
TypeOK ==
  /\ state \subseteq Flags
  /\ msgq \in Senders \cup {Receiver, NoOne} /\ contention \in Nat
  /\ inq \in Seq(Messages) /\ inner \in Seq(Messages) /\ save \in 1 .. (Len(inner) + 1)
  /\ buf \in BufferArray /\ fl \in FlushState
  /\ snd \in [Senders -> Sender] /\ rcv \in Process
  /\ timer \in {"none", "set", "timedout"} /\ tpc \in {"off", "lock", "schedule"}
  /\ onHeap \in BOOLEAN

InReceive ==
  rcv.pc \notin {"idle", "exiting", "free", "last fetch", "links", "gone", "change", "changed"}

\* A buffer that holds a message is announced in nonempty_slots, and messages
\* are in msgs_in_slots, so that the next flush finds it; a flush under way
\* may have taken the announcement.
SlotsAnnounced ==
  \A i \in Slots : buf.queue[i] # <<>> =>
    \/ i \in buf.nonempty /\ (buf.msgs \/ fl.pc = "take")
    \/ i \in fl.slots

\* ERTS_PSFLG_MSG_SIG_IN_Q covers the outer queue and its buffers: unless the
\* owner of the lock is at work, it is set while a message is in one of them,
\* although a sender that has seen it set does not set it again and the
\* receiver clears it.
FlagCovers ==
  msgq = NoOne /\ (inq # <<>> \/ \E i \in Slots : buf.queue[i] # <<>>)
    => "MSG_SIG_IN_Q" \in state

QueuesEmpty == inq = <<>> /\ \A i \in Slots : buf.queue[i] = <<>>

\* s was the first to announce a slot since the last flush.
First(s) ==
  /\ snd[s].sync
  /\ \/ snd[s].pc \in {"recheck", "state", "enqueue"}
     \/ At(s, "nonempty") /\ snd[s].restarted

\* A process that has gone to sleep on a receive is not forgotten: if a message
\* it has not looked at is in a queue, a sender is still about to wake it.  It
\* need not be the sender of that message: only the first one to announce a
\* slot waits for the receiver to let go of its lock before it notifies it.
NotForgotten ==
  RAt("off") /\ state \cap {"ACTIVE", "IN_RUNQ"} = {} =>
    \/ QueuesEmpty
    \/ \E s \in Senders : First(s) \/ snd[s].pc \in {"released", "notify", "schedule"}

\* receive ... after 0 does not time out on a message that was in a queue when
\* it began.
ZeroSees == RAt("timeout") => rcv.due = {}

\* A timer belongs to one receive: none is left behind for a later one, and a
\* receive without a time limit never times out.
TimerOwned ==
  /\ RAt("idle") => timer = "none" /\ rcv.flags = {}
  /\ RAt("timeout") => rcv.after # "infinity"

\* A message that a receive matches ends the receive, wherever in the queues and
\* buffers it is and however the receiver went to sleep.
Wakes == InReceive /\ (\E s \in rcv.want : Queued(s) # {}) ~> ~InReceive

\* queue_messages returns: neither the lock of a buffer nor that of the queue is
\* waited for in a circle.
SendReturns == \A s \in Senders : ~At(s, "idle") ~> At(s, "idle")

\* A process that has been freed is not put into a run queue, however late the
\* notification of a message is.
DeadStaysDead == RAt("gone") => state \cap {"ACTIVE", "IN_RUNQ", "RUNNING"} = {}

\* What the PON block of queue_messages looks at is a message that is still in a
\* queue.  The comment on that block says that after LINK_MESSAGE it is "na fila
\* principal".
PremiseMessageQueued ==
  \A s \in Senders : At(s, "premises") => Message(s) \in Range(inq \o inner)

\* The comment on the change to on-heap messages guarantees that no message is in
\* a buffer while FS_ON_HEAP_MSGQ is set and the message queue lock is held.
OnHeapUnbuffered ==
  onHeap /\ msgq # NoOne => \A i \in Slots : buf.queue[i] = <<>>

=============================================================================
