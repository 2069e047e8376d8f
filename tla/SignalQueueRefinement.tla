----------------------- MODULE SignalQueueRefinement -----------------------
(***************************************************************************)
(* The signal queue implements the mailbox: what a sender has put into its *)
(* buffer or the outer queue is in its channel, and what the process has   *)
(* fetched into the inner queue is in the mailbox.                         *)
(***************************************************************************)
EXTENDS SignalQueue

Committed(s) ==   \* the message of the call that s is in has been put into a queue
  snd[s].pc \in {"idle", "released", "notify", "schedule", "premises"}

M == INSTANCE Mailbox WITH
       Patterns <- {r.want : r \in Receives},
       chan <- [s \in Senders |->
                  SelectSeq(inq \o buf.queue[SlotOf[s]], LAMBDA m : m[1] = s)],
       mbox <- inner,
       last <- [s \in Senders |-> IF Committed(s) THEN snd[s].n ELSE snd[s].n - 1],
       want <- IF InReceive THEN rcv.want ELSE {},
       life <- IF RAt("gone") THEN "gone"
               ELSE IF "EXITING" \in state THEN "exiting" ELSE "running"

\* Whatever the buffers do, the queues implement the mailbox that Erlang
\* promises: per sender first in first out, nothing lost, nothing doubled, the
\* oldest matching message first.
ImplementsMailbox == M!Spec

=============================================================================
