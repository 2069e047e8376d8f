---------------------------- MODULE Instigations ----------------------------
(***************************************************************************)
(* The timers of pon_timer.c: an instigation owns a timerfd, one epoll     *)
(* instance watches them all, and process_expirations fires the ones the   *)
(* epoll instance reports.  The kernel is modelled by what the calls need  *)
(* of it: the state of each timerfd and for whom the epoll instance        *)
(* watches it.  It reports the readable ones in an order of its own, and   *)
(* counts the time, so a timer expires in a step of its own.               *)
(*                                                                         *)
(* A caller prepares an instigation with ERTS_INIT_TIMER_INSTIGATION while *)
(* it owns no timerfd, and creates its timer only then: an instigation     *)
(* that fired keeps its timerfd until it is cancelled, and stays fired.    *)
(***************************************************************************)
EXTENDS Integers, FiniteSets

CONSTANTS
  Insts,
  Fds,                  \* the file descriptors that the process may have open
  NoFd,                 \* -1
  PON_TIMER_MAX_EVENTS

ASSUME FdAssumption == NoFd \notin Fds /\ PON_TIMER_MAX_EVENTS \in Nat \ {0}

VARIABLES
  inst,    \* the fields fired and timer_fd of each instigation
  epoll,   \* pon_timer_epoll_fd is open
  tfd,     \* each timerfd: "free", "armed", "expired" or, once read, "idle"
  watch    \* the instigation that the epoll instance reports for a timerfd, or none

tiVars == <<inst, epoll, tfd, watch>>

NoInst == NoFd

TiInit ==
  /\ inst = [i \in Insts |-> [fired |-> FALSE, timer_fd |-> NoFd]]
  /\ epoll = FALSE
  /\ tfd = [f \in Fds |-> "free"]
  /\ watch = [f \in Fds |-> NoInst]

\* epoll_create1, unless it is open, may fail.
pon_timer_init == epoll' \in {TRUE, epoll} /\ UNCHANGED <<inst, tfd, watch>>

\* Closing the epoll instance ends every watch; the timerfds stay open.
pon_timer_destroy ==
  /\ epoll /\ epoll' = FALSE
  /\ watch' = [f \in Fds |-> NoInst]
  /\ UNCHANGED <<inst, tfd>>

\* Ready for create: INIT leaves an instigation so, and a create that fails.
Prepared(i) == inst[i] = [fired |-> FALSE, timer_fd |-> NoFd]

ERTS_INIT_TIMER_INSTIGATION(i) ==
  /\ inst[i].timer_fd = NoFd
  /\ inst' = [inst EXCEPT ![i] = [fired |-> FALSE, timer_fd |-> NoFd]]
  /\ UNCHANGED <<epoll, tfd, watch>>

\* The timerfd is stored, and watched by the epoll instance if there is one.
pon_timer_instigation_create(i) ==
  /\ Prepared(i)
  /\ \E f \in Fds :
       /\ tfd[f] = "free" /\ tfd' = [tfd EXCEPT ![f] = "armed"]
       /\ inst' = [inst EXCEPT ![i].timer_fd = f]
       /\ watch' = [watch EXCEPT ![f] = IF epoll THEN i ELSE NoInst]
  /\ UNCHANGED epoll

Closed(fds, f) == [fds EXCEPT ![f] = "free"]

NotWatched_Leak(i) ==
  /\ Prepared(i) /\ epoll
  /\ \E f \in Fds : tfd[f] = "free" /\ tfd' = [tfd EXCEPT ![f] = "armed"]
  /\ UNCHANGED <<inst, epoll, watch>>

\* The paths of create that fail: there is no timeout or no timerfd ...
NotCreated(i) == Prepared(i) /\ UNCHANGED tiVars

\* ... timerfd_settime fails, and the timerfd is closed unarmed ...
NotArmed(i) ==
  /\ Prepared(i)
  /\ \E f \in Fds : tfd[f] = "free" /\ tfd' = Closed([tfd EXCEPT ![f] = "idle"], f)
  /\ UNCHANGED <<inst, epoll, watch>>

\* ... or epoll_ctl fails, and it is closed armed.
NotWatched(i) ==
  /\ Prepared(i) /\ epoll
  /\ \E f \in Fds : tfd[f] = "free" /\ tfd' = Closed([tfd EXCEPT ![f] = "armed"], f)
  /\ UNCHANGED <<inst, epoll, watch>>

CreateFails(i) == NotCreated(i) \/ NotArmed(i) \/ NotWatched(i)

pon_timer_instigation_cancel(i) ==
  LET f == inst[i].timer_fd
  IN  /\ f # NoFd
      /\ tfd' = Closed(tfd, f)
      /\ watch' = [watch EXCEPT ![f] = NoInst]
      /\ inst' = [inst EXCEPT ![i] = [fired |-> TRUE, timer_fd |-> NoFd]]
      /\ UNCHANGED epoll

\* What fire does for each instigation of S: nothing to one that has fired, has
\* no timerfd, or whose timerfd, which does not block, gives nothing to read.
Fires_Unread(S) == {i \in S : ~inst[i].fired /\ inst[i].timer_fd # NoFd}

Fires(S) ==
  {i \in S : /\ ~inst[i].fired /\ inst[i].timer_fd # NoFd
             /\ tfd[inst[i].timer_fd] = "expired"}

FireAll(S) ==
  /\ inst' = [i \in Insts |-> [inst[i] EXCEPT !.fired = @ \/ i \in Fires(S)]]
  /\ tfd' = [f \in Fds |->
               IF tfd[f] = "expired" /\ \E i \in Fires(S) : inst[i].timer_fd = f
               THEN "idle" ELSE tfd[f]]

\* The caller of fire may be any, not only process_expirations.
pon_timer_instigation_fire(i) == FireAll({i}) /\ UNCHANGED <<epoll, watch>>

\* The timerfds that epoll_wait has to report: it goes on until they are read.
Readable == {f \in Fds : watch[f] # NoInst /\ tfd[f] = "expired"}

\* As many of them as there is room for; which ones come first is up to the kernel.
TiEpollWait(events) ==
  /\ events # {}
  /\ \/ events = Readable /\ Cardinality(events) <= PON_TIMER_MAX_EVENTS
     \/ events \subseteq Readable /\ Cardinality(events) = PON_TIMER_MAX_EVENTS

pon_timer_process_expirations ==
  /\ epoll
  /\ \E events \in SUBSET Fds :
       TiEpollWait(events) /\ FireAll({watch[f] : f \in events})
  /\ UNCHANGED <<epoll, watch>>

Expire(f) ==
  /\ tfd[f] = "armed" /\ tfd' = [tfd EXCEPT ![f] = "expired"]
  /\ UNCHANGED <<inst, epoll, watch>>

TiNext ==
  \/ pon_timer_init
  \/ pon_timer_destroy
  \/ \E i \in Insts : ERTS_INIT_TIMER_INSTIGATION(i)
  \/ \E i \in Insts : pon_timer_instigation_create(i)
  \/ \E i \in Insts : CreateFails(i)
  \/ \E i \in Insts : pon_timer_instigation_cancel(i)
  \/ \E i \in Insts : pon_timer_instigation_fire(i)
  \/ pon_timer_process_expirations
  \/ \E f \in Fds : Expire(f)

TiSpec == TiInit /\ [][TiNext]_tiVars

\* An instigation holds a descriptor or -1, and epoll reports instigations.
TiTypeOK ==
  /\ inst \in [Insts -> [fired : BOOLEAN, timer_fd : Fds \cup {NoFd}]]
  /\ epoll \in BOOLEAN
  /\ tfd \in [Fds -> {"free", "armed", "expired", "idle"}]
  /\ watch \in [Fds -> Insts \cup {NoInst}]

\* An open timerfd belongs to one instigation, which closes it in the end; no path
\* of create that fails leaves one behind.  What the epoll instance reports for
\* it is the owner, so that an event never fires another instigation, and none
\* is reported for a timerfd that is closed.
FdsOwned ==
  /\ \A f \in Fds : tfd[f] # "free" <=> \E i \in Insts : inst[i].timer_fd = f
  /\ \A i, j \in Insts :
       inst[i].timer_fd # NoFd /\ inst[i].timer_fd = inst[j].timer_fd => i = j
  /\ \A f \in Fds : watch[f] # NoInst => inst[watch[f]].timer_fd = f

\* An instigation with a timerfd has fired when that was read, and only then, so
\* whatever epoll_wait reports, be it in a later call because there was no room
\* in this one, fires the instigation.  (What no epoll instance watches is not
\* reported.)
FiredWhenRead ==
  /\ \A i \in Insts :
       inst[i].timer_fd # NoFd => (inst[i].fired <=> tfd[inst[i].timer_fd] = "idle")
  /\ \A f \in Readable : watch[f] \in Fires({watch[f]})
=============================================================================
