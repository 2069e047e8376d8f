------------------------------ MODULE Mailbox ------------------------------
(***************************************************************************)
(* What message passing promises a process: the messages of one sender     *)
(* arrive in the order they were sent, none is lost or doubled, a receive  *)
(* takes the oldest message that it matches, and a process that has exited *)
(* leaves nothing behind.                                                  *)
(***************************************************************************)
EXTENDS Integers, Sequences, SequencesExt

CONSTANTS Senders, Patterns

VARIABLES
  chan,    \* per sender: what it has sent and the process has not fetched
  mbox,    \* what the process has fetched and not received
  last,    \* per sender: the number of its last message
  want,    \* the senders whose messages the current receive matches
  life     \* "running", "exiting" or "gone"

vars == <<chan, mbox, last, want, life>>

From(s, q) == SelectSeq(q, LAMBDA m : m[1] = s)

Init ==
  /\ chan = [s \in Senders |-> <<>>] /\ last = [s \in Senders |-> 0]
  /\ mbox = <<>> /\ want = {} /\ life = "running"

Send(s) ==
  /\ life # "gone"
  /\ last' = [last EXCEPT ![s] = @ + 1]
  /\ chan' = [chan EXCEPT ![s] = Append(@, <<s, last'[s]>>)]
  /\ UNCHANGED <<mbox, want, life>>

\* What is sent to a process that exits may be dropped.
Discard(s) ==
  /\ life # "running"
  /\ last' = [last EXCEPT ![s] = @ + 1]
  /\ UNCHANGED <<chan, mbox, want, life>>

\* Messages of different senders may be fetched in any order.
Fetch ==
  /\ IsPrefix(mbox, mbox')
  /\ LET new == SubSeq(mbox', Len(mbox) + 1, Len(mbox'))
     IN  \A s \in Senders : From(s, new) \o chan'[s] = chan[s]
  /\ UNCHANGED <<last, want, life>>

Begin(p) == want = {} /\ want' = p /\ UNCHANGED <<chan, mbox, last, life>>

Receive ==
  /\ \E i \in DOMAIN mbox :
       /\ mbox[i][1] \in want
       /\ \A j \in 1 .. (i - 1) : mbox[j][1] \notin want
       /\ mbox' = RemoveAt(mbox, i)
  /\ want' = {}
  /\ UNCHANGED <<chan, last, life>>

TimeOut == want # {} /\ want' = {} /\ UNCHANGED <<chan, mbox, last, life>>

Exit ==
  /\ life = "running" /\ life' = "exiting"
  /\ want' = {}
  /\ UNCHANGED <<chan, mbox, last>>

\* Whatever was sent has been fetched, and is freed.
Delete ==
  /\ life = "exiting" /\ life' = "gone"
  /\ \A s \in Senders : chan[s] = <<>>
  /\ mbox' = <<>>
  /\ UNCHANGED <<chan, last, want>>

Next ==
  \/ Fetch \/ Receive \/ TimeOut \/ Exit \/ Delete
  \/ \E p \in Patterns : Begin(p)
  \/ \E s \in Senders : Send(s) \/ Discard(s)

Spec == Init /\ [][Next]_vars

=============================================================================
