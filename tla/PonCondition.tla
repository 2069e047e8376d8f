---------------------------- MODULE PonCondition ----------------------------
(***************************************************************************)
(* pon_condition.c: the ErtsCondition by which any thread hands a ready    *)
(* process to a scheduler.  The ready_list is a lock-free stack linked     *)
(* through the first word of each process; `satisfied' is a plain int that *)
(* decides whether notify writes the eventfd; the scheduler sleeps in      *)
(* epoll_wait on it.                                                       *)
(*                                                                         *)
(* Every access to shared memory, every CAS and every system call is a     *)
(* step of its own and the steps of all threads interleave.  `queue' and   *)
(* `batch' are history: the list the pointers stand for.  `idle' is the    *)
(* caller's side of the contract: a process is not notified again before   *)
(* the previous notification of it has been consumed.                      *)
(***************************************************************************)
EXTENDS Integers, Sequences, Functions

CONSTANTS Process,     \* nodes a notification can carry
          Notifier,    \* threads that call pon_condition_notify
          Consumer,    \* threads that call wait, try_dequeue, is_satisfied
          NULL,
          MaxNotify    \* bound on the number of notifications of a behaviour

ASSUME ConditionAssumption ==
  /\ NULL \notin Process
  /\ MaxNotify \in Nat

VARIABLES cond,                      \* the ErtsCondition
          next,                      \* first word of each process
          npc, nproc, nold, ncount,  \* locals of pon_condition_notify
          cpc, chead, cnext,         \* locals of the consumer calls
          idle, queue, batch,
          calls                      \* notifications begun so far

notVars == <<npc, nproc, nold, ncount>>
conVars == <<cpc, chead, cnext>>
hisVars == <<idle, queue, batch, calls>>
condVars == <<cond, next, notVars, conVars, hisVars>>

pon_condition_create ==
  [ready_list |-> NULL, satisfied |-> FALSE, wake_fd |-> 0,
   notify_count |-> 0, wakeup_count |-> 0]

CondInit ==
  /\ cond = pon_condition_create
  /\ next = [p \in Process |-> NULL]
  /\ npc = [n \in Notifier |-> "idle"] /\ ncount = [n \in Notifier |-> 0]
  /\ nproc = [n \in Notifier |-> NULL] /\ nold = [n \in Notifier |-> NULL]
  /\ cpc = [c \in Consumer |-> "idle"]
  /\ chead = [c \in Consumer |-> NULL] /\ cnext = [c \in Consumer |-> NULL]
  /\ idle = Process /\ queue = <<>> /\ batch = [c \in Consumer |-> <<>>]
  /\ calls = 0

NGoto(n, from, to) == npc[n] = from /\ npc' = [npc EXCEPT ![n] = to]
CGoto(c, from, to) == cpc[c] = from /\ cpc' = [cpc EXCEPT ![c] = to]

(* steps that touch at most cond and the thread's own pc *)
NStep(n, from, to) ==
  NGoto(n, from, to) /\ UNCHANGED <<next, nproc, nold, ncount, conVars, hisVars>>
CStep(c, from, to) ==
  CGoto(c, from, to) /\ UNCHANGED <<next, chead, cnext, notVars, hisVars>>

-----------------------------------------------------------------------------
(* pon_condition_notify *)

NotifyCall(n, p) ==
  /\ NGoto(n, "idle", "load")
  /\ p \in idle /\ calls < MaxNotify
  /\ nproc' = [nproc EXCEPT ![n] = p]
  /\ idle' = idle \ {p}
  /\ calls' = calls + 1
  /\ UNCHANGED <<cond, next, nold, ncount, conVars, queue, batch>>

NotifyLoad(n) ==
  /\ NGoto(n, "load", "link")
  /\ nold' = [nold EXCEPT ![n] = cond.ready_list]
  /\ UNCHANGED <<cond, next, nproc, ncount, conVars, hisVars>>

NotifyLink(n) ==
  /\ NGoto(n, "link", "cas")
  /\ next' = [next EXCEPT ![nproc[n]] = nold[n]]
  /\ UNCHANGED <<cond, nproc, nold, ncount, conVars, hisVars>>

(* mutant: the head is stored without comparing it *)
NotifyCas_Store(n) ==
  /\ NGoto(n, "cas", "count")
  /\ cond' = [cond EXCEPT !.ready_list = nproc[n]]
  /\ queue' = <<nproc[n]>> \o queue
  /\ UNCHANGED <<next, nproc, nold, ncount, conVars, idle, batch, calls>>

NotifyCas(n) ==
  /\ NGoto(n, "cas", "count")
  /\ cond.ready_list = nold[n]
  /\ cond' = [cond EXCEPT !.ready_list = nproc[n]]
  /\ queue' = <<nproc[n]>> \o queue
  /\ UNCHANGED <<next, nproc, nold, ncount, conVars, idle, batch, calls>>

(* mutant: a failed CAS gives up *)
NotifyRetry_GiveUp(n) ==
  NStep(n, "cas", "idle") /\ cond.ready_list # nold[n] /\ UNCHANGED cond

NotifyRetry(n) ==
  NStep(n, "cas", "load") /\ cond.ready_list # nold[n] /\ UNCHANGED cond

(* notify_count++ on a plain uint64_t: a load and a store *)
NotifyCountLoad(n) ==
  /\ NGoto(n, "count", "inc")
  /\ ncount' = [ncount EXCEPT ![n] = cond.notify_count]
  /\ UNCHANGED <<cond, next, nproc, nold, conVars, hisVars>>

NotifyCountStore(n) ==
  NStep(n, "inc", "check") /\ cond' = [cond EXCEPT !.notify_count = ncount[n] + 1]

NotifyCheck(n) ==
  NStep(n, "check", IF cond.satisfied THEN "idle" ELSE "set") /\ UNCHANGED cond

NotifySet(n) ==
  NStep(n, "set", "write") /\ cond' = [cond EXCEPT !.satisfied = TRUE]

(* mutant: the eventfd is not written *)
NotifyWrite_Skip(n) == NStep(n, "write", "idle") /\ UNCHANGED cond

NotifyWrite(n) ==
  NStep(n, "write", "idle") /\ cond' = [cond EXCEPT !.wake_fd = @ + 1]

Notify(n) ==
  \/ NotifyLoad(n) \/ NotifyLink(n) \/ NotifyCas(n) \/ NotifyRetry(n)
  \/ NotifyCountLoad(n) \/ NotifyCountStore(n)
  \/ NotifyCheck(n) \/ NotifySet(n) \/ NotifyWrite(n)

-----------------------------------------------------------------------------
(* pon_condition_wait; "idle" is a consumer outside any call *)

WaitLoad(c) ==
  /\ cpc[c] \in {"idle", "w_load"}
  /\ cpc' = [cpc EXCEPT ![c] = IF cond.ready_list = NULL THEN "w_check" ELSE "w_cas"]
  /\ chead' = [chead EXCEPT ![c] = cond.ready_list]
  /\ UNCHANGED <<cond, next, cnext, notVars, hisVars>>

(* mutant: the list is taken without comparing its head *)
WaitCas_Store(c) ==
  /\ CGoto(c, "w_cas", "w_reset")
  /\ cond' = [cond EXCEPT !.ready_list = NULL]
  /\ queue' = <<>>
  /\ batch' = [batch EXCEPT ![c] = queue]
  /\ UNCHANGED <<next, chead, cnext, notVars, idle, calls>>

WaitCas(c) ==
  /\ CGoto(c, "w_cas", "w_reset")
  /\ cond.ready_list = chead[c]
  /\ cond' = [cond EXCEPT !.ready_list = NULL]
  /\ queue' = <<>>
  /\ batch' = [batch EXCEPT ![c] = queue]
  /\ UNCHANGED <<next, chead, cnext, notVars, idle, calls>>

WaitRetry(c) ==
  CStep(c, "w_cas", "w_load") /\ cond.ready_list # chead[c] /\ UNCHANGED cond

WaitReset(c) ==
  /\ CStep(c, "w_reset", "w_drain")
  /\ cond' = [cond EXCEPT !.satisfied = FALSE, !.wakeup_count = @ + 1]

(* read() > 0 empties the eventfd and loops; EAGAIN ends the loop *)
WaitDrain(c) ==
  /\ CStep(c, "w_drain", IF cond.wake_fd > 0 THEN "w_drain" ELSE "walk")
  /\ cond' = [cond EXCEPT !.wake_fd = 0]

WaitCheck(c) ==
  CStep(c, "w_check", IF cond.satisfied THEN "w_read" ELSE "w_epoll") /\ UNCHANGED cond

(* mutant: the eventfd is tested and not read *)
WaitRead_Peek(c) ==
  CStep(c, "w_read", IF cond.wake_fd > 0 THEN "w_again" ELSE "w_block") /\ UNCHANGED cond

WaitRead(c) ==
  /\ CStep(c, "w_read", IF cond.wake_fd > 0 THEN "w_again" ELSE "w_block")
  /\ cond' = [cond EXCEPT !.wake_fd = 0]

(* mutant: satisfied is left set on the way into epoll_wait *)
WaitClear_Forget(c) ==
  \/ CStep(c, "w_again", "w_load") /\ cond' = [cond EXCEPT !.satisfied = FALSE]
  \/ CStep(c, "w_block", "w_epoll") /\ UNCHANGED cond

WaitClear(c) ==
  /\ CStep(c, "w_again", "w_load") \/ CStep(c, "w_block", "w_epoll")
  /\ cond' = [cond EXCEPT !.satisfied = FALSE]

EpollWait(c) ==
  CStep(c, "w_epoll", "w_woken") /\ cond.wake_fd > 0 /\ UNCHANGED cond

(* epoll_wait returns -1 (EINTR): round the loop, satisfied untouched *)
EpollInterrupted(c) ==
  CStep(c, "w_epoll", "w_load") /\ cond.wake_fd = 0 /\ UNCHANGED cond

WaitWoken(c) ==
  CStep(c, "w_woken", "w_load") /\ cond' = [cond EXCEPT !.satisfied = TRUE]

(* the caller follows the returned list and runs each process of it *)
Walk(c) ==
  /\ CGoto(c, "walk", IF next[chead[c]] = NULL THEN "idle" ELSE "walk")
  /\ chead' = [chead EXCEPT ![c] = next[chead[c]]]
  /\ idle' = idle \cup {chead[c]}
  /\ batch' = [batch EXCEPT ![c] = Tail(@)]
  /\ UNCHANGED <<cond, next, cnext, notVars, queue, calls>>

Wait(c) ==
  \/ WaitLoad(c) \/ WaitCas(c) \/ WaitRetry(c) \/ WaitReset(c) \/ WaitDrain(c)
  \/ WaitCheck(c) \/ WaitRead(c) \/ WaitClear(c) \/ EpollWait(c) \/ WaitWoken(c)
  \/ Walk(c)

-----------------------------------------------------------------------------
(* pon_condition_try_dequeue; a call that finds the list empty changes nothing *)

TryLoad(c) ==
  /\ CGoto(c, "idle", "t_next")
  /\ cond.ready_list # NULL
  /\ chead' = [chead EXCEPT ![c] = cond.ready_list]
  /\ UNCHANGED <<cond, next, cnext, notVars, hisVars>>

TryNext(c) ==
  /\ CGoto(c, "t_next", "t_cas")
  /\ cnext' = [cnext EXCEPT ![c] = next[chead[c]]]
  /\ UNCHANGED <<cond, next, chead, notVars, hisVars>>

TryCas(c) ==
  /\ CGoto(c, "t_cas", IF cnext[c] = NULL THEN "t_reset" ELSE "t_return")
  /\ cond.ready_list = chead[c]
  /\ cond' = [cond EXCEPT !.ready_list = cnext[c]]
  /\ queue' = Tail(queue)
  /\ batch' = [batch EXCEPT ![c] = <<Head(queue)>>]
  /\ UNCHANGED <<next, chead, cnext, notVars, idle, calls>>

TryFail(c) ==
  CStep(c, "t_cas", "idle") /\ cond.ready_list # chead[c] /\ UNCHANGED cond

TryReset(c) ==
  CStep(c, "t_reset", "t_return") /\ cond' = [cond EXCEPT !.satisfied = FALSE]

TryReturn(c) ==
  /\ CGoto(c, "t_return", "idle")
  /\ idle' = idle \cup {chead[c]}
  /\ batch' = [batch EXCEPT ![c] = Tail(@)]
  /\ UNCHANGED <<cond, next, chead, cnext, notVars, queue, calls>>

TryDequeue(c) ==
  TryNext(c) \/ TryCas(c) \/ TryFail(c) \/ TryReset(c) \/ TryReturn(c)

-----------------------------------------------------------------------------
(* pon_condition_is_satisfied; a call that finds satisfied set changes nothing *)

IsCall(c) ==
  CStep(c, "idle", "s_load") /\ ~cond.satisfied /\ UNCHANGED cond

IsLoad(c) ==
  CStep(c, "s_load", IF cond.ready_list = NULL THEN "idle" ELSE "s_set") /\ UNCHANGED cond

IsSet(c) ==
  CStep(c, "s_set", "idle") /\ cond' = [cond EXCEPT !.satisfied = TRUE]

-----------------------------------------------------------------------------
Consume(c) == Wait(c) \/ TryDequeue(c) \/ IsLoad(c) \/ IsSet(c)

CondNext ==
  \/ \E n \in Notifier : Notify(n) \/ \E p \in Process : NotifyCall(n, p)
  \/ \E c \in Consumer : Consume(c) \/ EpollInterrupted(c) \/ TryLoad(c) \/ IsCall(c)

CondSpec == CondInit /\ [][CondNext]_condVars

(* A thread inside a call keeps running, a sleeper whose descriptor is     *)
(* readable is resumed, and a consumer outside a call comes back to wait.  *)
(* Nobody has to begin a notification, no signal has to arrive, and a      *)
(* consumer need not poll.                                                 *)
CondFairness ==
  /\ \A n \in Notifier : WF_condVars(Notify(n))
  /\ \A c \in Consumer : WF_condVars(Consume(c)) /\ SF_condVars(WaitLoad(c))

-----------------------------------------------------------------------------
(* Properties *)

NotifierPc == {"idle", "load", "link", "cas", "count", "inc", "check", "set", "write"}
ConsumerPc == {"idle", "w_load", "w_cas", "w_reset", "w_drain", "w_check", "w_read",
               "w_again", "w_block", "w_epoll", "w_woken", "walk",
               "t_next", "t_cas", "t_reset", "t_return", "s_load", "s_set"}
Ptr == Process \cup {NULL}

(* The state has its types: in particular the eventfd counter never goes   *)
(* negative and every pointer is NULL or a process.                        *)
CondTypeOK ==
  /\ cond \in [ready_list : Ptr, satisfied : BOOLEAN, wake_fd : Nat,
               notify_count : Nat, wakeup_count : Nat]
  /\ next \in [Process -> Ptr]
  /\ npc \in [Notifier -> NotifierPc] /\ ncount \in [Notifier -> Nat]
  /\ nproc \in [Notifier -> Ptr] /\ nold \in [Notifier -> Ptr]
  /\ cpc \in [Consumer -> ConsumerPc]
  /\ chead \in [Consumer -> Ptr] /\ cnext \in [Consumer -> Ptr]
  /\ idle \in SUBSET Process
  /\ queue \in Seq(Process)
  /\ batch \in [Consumer -> Seq(Process)]
  /\ calls \in Nat

(* following nx from h spells out s and ends in NULL *)
IsList(nx, h, s) ==
  /\ h = IF s = <<>> THEN NULL ELSE s[1]
  /\ \A i \in 1..Len(s) : nx[s[i]] = IF i = Len(s) THEN NULL ELSE s[i + 1]

(* The pointers never tear: ready_list always heads a chain of exactly the *)
(* notified processes, newest first, and what wait or try_dequeue returns  *)
(* heads a chain of exactly the processes it removed, whatever pushes      *)
(* interleave with the unlinking (pon_condition.c:98-108, 149, 217).       *)
ListIntact ==
  /\ IsList(next, cond.ready_list, queue)
  /\ \A c \in Consumer :
       /\ cpc[c] \in {"w_reset", "w_drain", "walk"} => IsList(next, chead[c], batch[c])
       /\ cpc[c] \in {"t_reset", "t_return"} => batch[c] = <<chead[c]>>

Pushes(n) == npc[n] \in {"load", "link", "cas"}

(* Exactly once: a process is with its owner, being pushed by one          *)
(* notifier, in the ready_list once, or in one consumer's batch once;      *)
(* notify, wait and try_dequeue neither drop nor duplicate it.             *)
ExactlyOnce ==
  /\ IsInjective(queue) /\ idle \cap Range(queue) = {}
  /\ \A n \in Notifier : Pushes(n) =>
       /\ nproc[n] \notin idle \cup Range(queue)
       /\ \A m \in Notifier \ {n} : Pushes(m) => nproc[m] # nproc[n]
  /\ \A c \in Consumer :
       /\ IsInjective(batch[c]) /\ Range(batch[c]) \cap (idle \cup Range(queue)) = {}
       /\ \A n \in Notifier : Pushes(n) => nproc[n] \notin Range(batch[c])
       /\ \A d \in Consumer \ {c} : Range(batch[c]) \cap Range(batch[d]) = {}
  /\ \A p \in Process :
       \/ p \in idle \cup Range(queue)
       \/ \E n \in Notifier : Pushes(n) /\ nproc[n] = p
       \/ \E c \in Consumer : p \in Range(batch[c])

(* a node linked at line 102 still points at the head its notifier read *)
LinksFresh ==
  \A n \in Notifier : /\ Pushes(n) => nproc[n] \in Process
                      /\ npc[n] = "cas" => next[nproc[n]] = nold[n]

(* a consumer holds a batch exactly between its CAS and its return, and    *)
(* the head try_dequeue read is still queued, its successor unchanged,     *)
(* when the CAS of line 217 compares it                                    *)
Holding == {"w_reset", "w_drain", "walk", "t_reset", "t_return"}
HeadFresh ==
  \A c \in Consumer :
    /\ batch[c] # <<>> <=> cpc[c] \in Holding
    /\ cpc[c] = "w_cas" => chead[c] \in Process
    /\ cpc[c] \in {"t_next", "t_cas"} => chead[c] \in Range(queue)
    /\ cpc[c] = "t_cas" => cnext[c] = next[chead[c]]

(* The inductive invariant behind ListIntact and ExactlyOnce. *)
ListInv == CondTypeOK /\ ListIntact /\ ExactlyOnce /\ LinksFresh /\ HeadFresh

(* one scheduler thread per Condition, as ErtsSchedulerData embeds it *)
SingleConsumer == \A c, d \in Consumer : c = d

(* A sleeper is never deaf: if the scheduler is blocked in epoll_wait with *)
(* nothing to read while satisfied is set (so that the next notify would   *)
(* skip its write), then some notifier is about to write the eventfd.      *)
NeverDeaf ==
  \A c \in Consumer :
    cpc[c] = "w_epoll" /\ cond.satisfied /\ cond.wake_fd = 0
      => \E n \in Notifier : npc[n] = "write"

(* The condition implements the abstract ready queue: pushes, takes and    *)
(* deliveries, read off the pointers, are those of ReadyQueue.             *)
RQ == INSTANCE ReadyQueue
ImplementsReadyQueue == RQ!RQSpec

(* A notification that finds the scheduler asleep when it tests satisfied  *)
(* (pon_condition.c:113) wakes it.                                         *)
NotifyWakesSleeper ==
  \A c \in Consumer, n \in Notifier :
    (cpc[c] = "w_epoll" /\ npc[n] = "check") ~> (cpc[c] # "w_epoll")

(* An idle scheduler really sleeps: once notifications stop, it is not     *)
(* left with a readable eventfd that makes epoll_wait return at once, over *)
(* and over (the busy wait that RPT-04 says is gone).                      *)
SleepsWhenQuiet ==
  \A c \in Consumer : <>[](cpc[c] = "w_epoll" => cond.wake_fd = 0)

(* What formal/tla/SchedulerWakeup.tla:4-6 claims of the scheduler wakeup: *)
(* with every notify finished, a scheduler asleep on an empty eventfd has  *)
(* an empty ready_list.                                                    *)
NoLostWakeup ==
  (\A n \in Notifier : npc[n] = "idle") /\ cond.wake_fd = 0 /\ queue # <<>>
    => \E c \in Consumer : cpc[c] # "w_epoll"

=============================================================================
