----------------------------- MODULE ReadyQueue -----------------------------
(***************************************************************************)
(* What an ErtsCondition promises its callers, without pointers, flags or  *)
(* file descriptors: a process handed to pon_condition_notify enters a     *)
(* LIFO queue once, a consumer takes the whole queue or its newest entry,  *)
(* and every process taken is returned to its owner exactly once, in the   *)
(* order of the queue.                                                     *)
(***************************************************************************)
EXTENDS Sequences, Functions

CONSTANTS Process, Consumer

VARIABLES idle,    \* processes no notification of which is outstanding
          queue,   \* notified, not yet taken; newest first
          batch    \* taken by a consumer, not yet returned to their owner

rqVars == <<idle, queue, batch>>

RQInit ==
  /\ idle = Process
  /\ queue = <<>>
  /\ batch = [c \in Consumer |-> <<>>]

Outstanding == Range(queue) \cup UNION {Range(batch[c]) : c \in Consumer}

Claim(p) ==
  /\ p \in idle
  /\ idle' = idle \ {p}
  /\ UNCHANGED <<queue, batch>>

Push(p) ==
  /\ p \in Process \ (idle \cup Outstanding)
  /\ queue' = <<p>> \o queue
  /\ UNCHANGED <<idle, batch>>

TakeAll(c) ==
  /\ batch[c] = <<>> /\ queue # <<>>
  /\ batch' = [batch EXCEPT ![c] = queue]
  /\ queue' = <<>>
  /\ UNCHANGED idle

TakeOne(c) ==
  /\ batch[c] = <<>> /\ queue # <<>>
  /\ batch' = [batch EXCEPT ![c] = <<Head(queue)>>]
  /\ queue' = Tail(queue)
  /\ UNCHANGED idle

Deliver(c) ==
  /\ batch[c] # <<>>
  /\ idle' = idle \cup {Head(batch[c])}
  /\ batch' = [batch EXCEPT ![c] = Tail(@)]
  /\ UNCHANGED queue

RQNext ==
  \/ \E p \in Process : Claim(p) \/ Push(p)
  \/ \E c \in Consumer : TakeAll(c) \/ TakeOne(c) \/ Deliver(c)

RQSpec == RQInit /\ [][RQNext]_rqVars
=============================================================================
