------------------------- MODULE PonConditionProofs -------------------------
(***************************************************************************)
(* Theorems about PonCondition, for any number of processes, notifiers and *)
(* notifications.                                                          *)
(***************************************************************************)
EXTENDS PonCondition, SequenceFacts

-----------------------------------------------------------------------------
(* Chains of processes *)

(* Writing the link of a node outside a chain leaves the chain alone. *)
LEMMA ListFrame ==
  ASSUME NEW nx \in [Process -> Ptr], NEW h, NEW s \in Seq(Process),
         NEW p, NEW v, p \notin Range(s), IsList(nx, h, s)
  PROVE  IsList([nx EXCEPT ![p] = v], h, s)
<1>1. \A i \in 1..Len(s) : s[i] # p /\ s[i] \in Process  BY DEF Range
<1> QED BY <1>1 DEF IsList

(* A node that points at the head of a chain heads the longer chain. *)
LEMMA ListPush ==
  ASSUME NEW nx, NEW h, NEW s \in Seq(Process), NEW p \in Process,
         nx[p] = h, IsList(nx, h, s)
  PROVE  IsList(nx, p, <<p>> \o s)
<1> DEFINE t == <<p>> \o s
<1>1. t # <<>> /\ t[1] = p /\ Len(t) = Len(s) + 1 /\ Len(s) \in Nat
      /\ \A i \in 1..Len(s) : t[i + 1] = s[i]
  BY ConsSeq
<1>2. ASSUME NEW i \in 1..Len(t)
      PROVE  nx[t[i]] = IF i = Len(t) THEN NULL ELSE t[i + 1]
  <2>1. CASE i = 1
    <3>1. CASE s = <<>>   BY <1>1, <2>1, <3>1 DEF IsList
    <3>2. CASE s # <<>>
      <4>1. 1 \in 1..Len(s)  BY <3>2
      <4> QED BY <1>1, <2>1, <3>2, <4>1 DEF IsList
    <3> QED BY <3>1, <3>2
  <2>2. CASE i # 1
    <3>1. i - 1 \in 1..Len(s) /\ i = (i - 1) + 1  BY <1>1, <2>2
    <3>2. t[i] = s[i - 1] /\ nx[s[i - 1]] = IF i - 1 = Len(s) THEN NULL ELSE s[i]
      BY <1>1, <3>1 DEF IsList
    <3>3. i # Len(t) => i \in 1..Len(s) /\ t[i + 1] = s[i]  BY <1>1
    <3> QED BY <1>1, <3>2, <3>3
  <2> QED BY <2>1, <2>2
<1> HIDE DEF t
<1> QED BY <1>1, <1>2 DEF IsList, t

(* The successor of the head of a chain heads the rest of it. *)
LEMMA ListPop ==
  ASSUME NEW nx, NEW h, NEW s \in Seq(Process), s # <<>>, IsList(nx, h, s)
  PROVE  h = s[1] /\ IsList(nx, nx[h], Tail(s)) /\ (nx[h] = NULL <=> Tail(s) = <<>>)
<1> DEFINE t == Tail(s)
<1>1. /\ t \in Seq(Process) /\ Len(s) \in Nat \ {0} /\ Len(t) = Len(s) - 1
      /\ \A i \in 1..Len(t) : t[i] = s[i + 1]
  BY TailSeq
<1> HIDE DEF t
<1>0. Len(t) \in Nat /\ (t = <<>> <=> Len(t) = 0)
  BY <1>1, EmptySeq
<1>2. h = s[1] /\ nx[h] = IF Len(s) = 1 THEN NULL ELSE s[2]
  <2>1. h = s[1]  BY DEF IsList
  <2>2. 1 \in 1..Len(s)  BY <1>1
  <2>3. nx[s[1]] = IF 1 = Len(s) THEN NULL ELSE s[1 + 1]  BY <2>2 DEF IsList
  <2> QED BY <2>1, <2>3
<1>3. nx[h] = IF t = <<>> THEN NULL ELSE t[1]
  <2>1. CASE Len(s) = 1  BY <1>0, <1>1, <1>2, <2>1
  <2>2. CASE Len(s) # 1
    <3>1. 1 \in 1..Len(t) /\ t # <<>>  BY <1>0, <1>1, <2>2
    <3>2. t[1] = s[1 + 1]  BY <1>1, <3>1
    <3> QED BY <1>2, <2>2, <3>1, <3>2
  <2> QED BY <2>1, <2>2
<1>4. t # <<>> => t[1] # NULL
  <2>1. t # <<>> => t[1] \in Process  BY <1>0, <1>1
  <2> QED BY <2>1, ConditionAssumption
<1>5. ASSUME NEW i \in 1..Len(t)
      PROVE  nx[t[i]] = IF i = Len(t) THEN NULL ELSE t[i + 1]
  <2>1. i + 1 \in 1..Len(s) /\ t[i] = s[i + 1]  BY <1>0, <1>1
  <2>2. nx[s[i + 1]] = IF i + 1 = Len(s) THEN NULL ELSE s[(i + 1) + 1]
    BY <2>1 DEF IsList
  <2>3. CASE i = Len(t)
    BY <1>0, <1>1, <2>1, <2>2, <2>3
  <2>4. CASE i # Len(t)
    <3>1. i + 1 \in 1..Len(t) /\ i + 1 # Len(s)  BY <1>0, <1>1, <2>4
    <3>2. t[i + 1] = s[(i + 1) + 1]  BY <1>1, <3>1
    <3> QED BY <2>1, <2>2, <2>4, <3>1, <3>2
  <2> QED BY <2>3, <2>4
<1> QED BY <1>2, <1>3, <1>4, <1>5 DEF IsList, t

-----------------------------------------------------------------------------
(* The inductive invariant *)

(* The condition pon_condition_create returns satisfies the invariant. *)
LEMMA ListInit == CondInit => ListInv
<1> SUFFICES ASSUME CondInit PROVE ListInv  OBVIOUS
<1> USE DEF CondInit
<1>1. CondTypeOK
  BY ConditionAssumption, EmptySeq
     DEF CondTypeOK, Ptr, NotifierPc, ConsumerPc, pon_condition_create
<1>2. ListIntact  BY DEF ListIntact, IsList, pon_condition_create
<1>3. ExactlyOnce  BY EmptyHasNone DEF ExactlyOnce, Pushes
<1>4. LinksFresh /\ HeadFresh  BY DEF LinksFresh, HeadFresh, Pushes, Holding
<1> QED BY <1>1, <1>2, <1>3, <1>4 DEF ListInv

(* A step of pon_condition_notify preserves the types. *)
LEMMA NotifyType ==
  ASSUME ListInv, NEW n \in Notifier, Notify(n)  PROVE CondTypeOK'
<1> USE ListInv DEF CondTypeOK, Ptr, NotifierPc, NGoto, NStep, notVars, conVars, hisVars
<1>0. CondTypeOK /\ (Pushes(n) => nproc[n] \in Process)  BY DEF ListInv, LinksFresh
<1>1. CASE NotifyLoad(n)   BY <1>0, <1>1 DEF NotifyLoad
<1>2. CASE NotifyLink(n)   BY <1>0, <1>2 DEF NotifyLink
<1>3. CASE NotifyCas(n)
  <2>1. nproc[n] \in Process  BY <1>0, <1>3 DEF NotifyCas, Pushes
  <2>2. queue' \in Seq(Process)  BY <1>0, <1>3, <2>1, ConsSeq DEF NotifyCas
  <2> QED BY <1>0, <1>3, <2>1, <2>2 DEF NotifyCas
<1>4. CASE NotifyRetry(n)  BY <1>0, <1>4 DEF NotifyRetry
<1>5. CASE NotifyCountLoad(n)   BY <1>0, <1>5 DEF NotifyCountLoad
<1>6. CASE NotifyCountStore(n)
  <2>1. ncount[n] + 1 \in Nat  BY <1>0
  <2> QED BY <1>0, <1>6, <2>1 DEF NotifyCountStore
<1>7. CASE NotifyCheck(n)  BY <1>0, <1>7 DEF NotifyCheck
<1>8. CASE NotifySet(n)    BY <1>0, <1>8 DEF NotifySet
<1>9. CASE NotifyWrite(n)
  <2>1. cond.wake_fd + 1 \in Nat  BY <1>0
  <2> QED BY <1>0, <1>9, <2>1 DEF NotifyWrite
<1> QED BY <1>1, <1>2, <1>3, <1>4, <1>5, <1>6, <1>7, <1>8, <1>9 DEF Notify

(* A step of pon_condition_wait preserves the types. *)
LEMMA WaitType ==
  ASSUME ListInv, NEW c \in Consumer, Wait(c) \/ EpollInterrupted(c)  PROVE CondTypeOK'
<1> USE DEF CondTypeOK, Ptr, ConsumerPc, CGoto, CStep, notVars, conVars, hisVars
<1>0. CondTypeOK /\ HeadFresh /\ ListIntact  BY DEF ListInv
<1>1. CASE WaitLoad(c)   BY <1>0, <1>1 DEF WaitLoad
<1>2. CASE WaitCas(c)    BY <1>0, <1>2, EmptySeq DEF WaitCas
<1>3. CASE WaitRetry(c)  BY <1>0, <1>3 DEF WaitRetry
<1>4. CASE WaitReset(c)
  <2>1. cond.wakeup_count + 1 \in Nat  BY <1>0
  <2> QED BY <1>0, <1>4, <2>1 DEF WaitReset
<1>5. CASE WaitDrain(c)  BY <1>0, <1>5 DEF WaitDrain
<1>6. CASE WaitCheck(c)  BY <1>0, <1>6 DEF WaitCheck
<1>7. CASE WaitRead(c)   BY <1>0, <1>7 DEF WaitRead
<1>8. CASE WaitClear(c)  BY <1>0, <1>8 DEF WaitClear
<1>9. CASE EpollWait(c)  BY <1>0, <1>9 DEF EpollWait
<1>10. CASE WaitWoken(c) BY <1>0, <1>10 DEF WaitWoken
<1>11. CASE Walk(c)
  <2>1. batch[c] # <<>> /\ IsList(next, chead[c], batch[c])
    BY <1>0, <1>11 DEF Walk, HeadFresh, Holding, ListIntact
  <2>2. chead[c] \in Process /\ Tail(batch[c]) \in Seq(Process)
    BY <1>0, <2>1, ListPop, TailSeq
  <2> QED BY <1>0, <1>11, <2>2 DEF Walk
<1>12. CASE EpollInterrupted(c)  BY <1>0, <1>12 DEF EpollInterrupted
<1> QED BY <1>1, <1>2, <1>3, <1>4, <1>5, <1>6, <1>7, <1>8, <1>9, <1>10, <1>11, <1>12
        DEF Wait

(* A step of try_dequeue or is_satisfied preserves the types. *)
LEMMA PollType ==
  ASSUME ListInv, NEW c \in Consumer,
         TryDequeue(c) \/ TryLoad(c) \/ IsCall(c) \/ IsLoad(c) \/ IsSet(c)
  PROVE  CondTypeOK'
<1> USE DEF CondTypeOK, Ptr, ConsumerPc, CGoto, CStep, notVars, conVars, hisVars
<1>0. CondTypeOK /\ HeadFresh /\ ListIntact  BY DEF ListInv
<1>1. CASE TryLoad(c)  BY <1>0, <1>1 DEF TryLoad
<1>2. CASE TryNext(c)
  <2>1. chead[c] \in Range(queue)  BY <1>0, <1>2 DEF TryNext, HeadFresh
  <2>2. queue \in Seq(Process)  BY <1>0
  <2>3. chead[c] \in Process  BY <2>1, <2>2, RangeSeq
  <2> QED BY <1>0, <1>2, <2>3 DEF TryNext
<1>3. CASE TryCas(c)
  <2>1. queue # <<>>
    BY <1>0, <1>3, EmptyHasNone DEF TryCas, HeadFresh
  <2>2. Tail(queue) \in Seq(Process) /\ <<Head(queue)>> \in Seq(Process)
    BY <1>0, <2>1, TailSeq
  <2> QED BY <1>0, <1>3, <2>2 DEF TryCas
<1>4. CASE TryFail(c)   BY <1>0, <1>4 DEF TryFail
<1>5. CASE TryReset(c)  BY <1>0, <1>5 DEF TryReset
<1>6. CASE TryReturn(c)
  <2>1. batch[c] # <<>> /\ batch[c] = <<chead[c]>>
    BY <1>0, <1>6 DEF TryReturn, HeadFresh, Holding, ListIntact
  <2>2. batch[c] \in Seq(Process)  BY <1>0
  <2>3. batch[c][1] \in Process /\ Tail(batch[c]) \in Seq(Process)
    BY <2>1, <2>2, TailSeq
  <2>4. chead[c] \in Process  BY <2>1, <2>3
  <2> QED BY <1>0, <1>6, <2>3, <2>4 DEF TryReturn
<1>7. CASE IsCall(c)  BY <1>0, <1>7 DEF IsCall
<1>8. CASE IsLoad(c)  BY <1>0, <1>8 DEF IsLoad
<1>9. CASE IsSet(c)   BY <1>0, <1>9 DEF IsSet
<1> QED BY <1>1, <1>2, <1>3, <1>4, <1>5, <1>6, <1>7, <1>8, <1>9 DEF TryDequeue

-----------------------------------------------------------------------------
(* The shape of the list under each step *)

Shape == ListIntact /\ ExactlyOnce /\ LinksFresh /\ HeadFresh

(* The notifier steps that touch no link, no list and no owner. *)
LEMMA NotifyQuiet ==
  ASSUME ListInv, NEW n \in Notifier,
         \/ NotifyLoad(n) \/ NotifyRetry(n) \/ NotifyCountLoad(n) \/ NotifyCountStore(n)
         \/ NotifyCheck(n) \/ NotifySet(n) \/ NotifyWrite(n)
  PROVE  Shape'
<1>0. CondTypeOK /\ Shape  BY DEF ListInv, Shape
<1>1. /\ UNCHANGED <<next, nproc, cpc, chead, cnext, idle, queue, batch>>
      /\ cond'.ready_list = cond.ready_list
  BY <1>0 DEF CondTypeOK, NotifyLoad, NotifyRetry, NotifyCountLoad, NotifyCountStore,
     NotifyCheck, NotifySet, NotifyWrite, NStep, NGoto, conVars, hisVars
<1>2. \A m \in Notifier : /\ Pushes(m)' <=> Pushes(m)
                          /\ npc'[m] = "cas" => npc[m] = "cas" /\ nold'[m] = nold[m]
  BY <1>0 DEF CondTypeOK, Pushes, NotifyLoad, NotifyRetry, NotifyCountLoad, NotifyCountStore,
     NotifyCheck, NotifySet, NotifyWrite, NStep, NGoto
<1>3. ListIntact'  BY <1>0, <1>1 DEF Shape, ListIntact
<1>4. ExactlyOnce'  BY <1>0, <1>1, <1>2 DEF Shape, ExactlyOnce
<1>5. LinksFresh'  BY <1>0, <1>1, <1>2 DEF Shape, LinksFresh
<1>6. HeadFresh'  BY <1>0, <1>1 DEF Shape, HeadFresh
<1> QED BY <1>3, <1>4, <1>5, <1>6 DEF Shape

(* The consumer steps that neither unlink nor hand over a process. *)
LEMMA ConsumeQuiet ==
  ASSUME ListInv, NEW c \in Consumer,
         \/ WaitLoad(c) \/ WaitRetry(c) \/ WaitReset(c) \/ WaitDrain(c) \/ WaitCheck(c)
         \/ WaitRead(c) \/ WaitClear(c) \/ EpollWait(c) \/ WaitWoken(c)
         \/ EpollInterrupted(c) \/ TryLoad(c) \/ TryNext(c) \/ TryFail(c) \/ TryReset(c)
         \/ IsCall(c) \/ IsLoad(c) \/ IsSet(c)
  PROVE  Shape'
<1>0. CondTypeOK /\ Shape  BY DEF ListInv, Shape
<1> USE DEF WaitLoad, WaitRetry, WaitReset, WaitDrain, WaitCheck, WaitRead, WaitClear,
      EpollWait, WaitWoken, EpollInterrupted, TryLoad, TryNext, TryFail, TryReset,
      IsCall, IsLoad, IsSet, CStep, CGoto
<1>1. /\ UNCHANGED <<next, npc, nproc, nold, idle, queue, batch>>
      /\ cond'.ready_list = cond.ready_list
  BY <1>0 DEF CondTypeOK, notVars, hisVars
<1>2. \A d \in Consumer \ {c} : cpc'[d] = cpc[d] /\ chead'[d] = chead[d] /\ cnext'[d] = cnext[d]
  BY <1>0 DEF CondTypeOK
<1>3. /\ cpc'[c] \in Holding <=> cpc[c] \in Holding
      /\ cpc'[c] \in {"t_reset", "t_return"} <=> cpc[c] \in {"t_reset", "t_return"}
      /\ cpc[c] \in Holding => chead'[c] = chead[c]
      /\ cpc'[c] = "w_cas" => chead'[c] = cond.ready_list /\ cond.ready_list # NULL
      /\ cpc'[c] = "t_next" => chead'[c] = cond.ready_list /\ cond.ready_list # NULL
      /\ cpc'[c] = "t_cas" => cpc[c] = "t_next" /\ chead'[c] = chead[c]
                              /\ cnext'[c] = next[chead[c]]
  BY <1>0 DEF CondTypeOK, Holding
<1> HIDE DEF WaitLoad, WaitRetry, WaitReset, WaitDrain, WaitCheck, WaitRead, WaitClear,
      EpollWait, WaitWoken, EpollInterrupted, TryLoad, TryNext, TryFail, TryReset,
      IsCall, IsLoad, IsSet, CStep, CGoto
<1>4. ListIntact'
  <2>1. IsList(next, cond.ready_list, queue)'  BY <1>0, <1>1 DEF Shape, ListIntact
  <2>2. ASSUME NEW d \in Consumer
        PROVE  (/\ cpc[d] \in {"w_reset", "w_drain", "walk"} => IsList(next, chead[d], batch[d])
                /\ cpc[d] \in {"t_reset", "t_return"} => batch[d] = <<chead[d]>>)'
    BY <1>0, <1>1, <1>2, <1>3 DEF Shape, ListIntact, Holding
  <2> QED BY <2>1, <2>2 DEF ListIntact
<1>5. ExactlyOnce'  BY <1>0, <1>1 DEF Shape, ExactlyOnce, Pushes
<1>6. LinksFresh'  BY <1>0, <1>1 DEF Shape, LinksFresh, Pushes
<1>7. HeadFresh'
  <2>1. cond.ready_list # NULL => cond.ready_list \in Process /\ cond.ready_list \in Range(queue)
    <3>1. ASSUME cond.ready_list # NULL  PROVE queue # <<>> /\ cond.ready_list = queue[1]
      BY <1>0, <3>1 DEF Shape, ListIntact, IsList
    <3>2. queue \in Seq(Process) /\ cond.ready_list \in Ptr  BY <1>0 DEF CondTypeOK
    <3> QED BY <3>1, <3>2, TailSeq DEF Ptr
  <2>2. ASSUME NEW d \in Consumer
        PROVE  (/\ batch[d] # <<>> <=> cpc[d] \in Holding
                /\ cpc[d] = "w_cas" => chead[d] \in Process
                /\ cpc[d] \in {"t_next", "t_cas"} => chead[d] \in Range(queue)
                /\ cpc[d] = "t_cas" => cnext[d] = next[chead[d]])'
    <3>1. CASE d = c  BY <1>0, <1>1, <1>3, <2>1, <3>1 DEF Shape, HeadFresh
    <3>2. CASE d # c  BY <1>0, <1>1, <1>2, <3>2 DEF Shape, HeadFresh
    <3> QED BY <3>1, <3>2
  <2> QED BY <2>2 DEF HeadFresh
<1> QED BY <1>4, <1>5, <1>6, <1>7 DEF Shape

(* Beginning a notification takes the process from its owner. *)
LEMMA CallShape ==
  ASSUME ListInv, NEW n \in Notifier, NEW p \in Process, NotifyCall(n, p)
  PROVE  CondTypeOK' /\ Shape'
<1>0. CondTypeOK /\ Shape  BY DEF ListInv, Shape
<1> USE DEF NotifyCall, NGoto, conVars
<1>1. CondTypeOK'  BY <1>0 DEF CondTypeOK, NotifierPc, Ptr
<1>2. /\ UNCHANGED <<cond, next, nold, cpc, chead, cnext, queue, batch>>
      /\ p \in idle /\ idle' = idle \ {p}
      /\ ~Pushes(n) /\ Pushes(n)' /\ nproc'[n] = p /\ npc'[n] = "load"
      /\ \A m \in Notifier \ {n} : (Pushes(m)' <=> Pushes(m)) /\ nproc'[m] = nproc[m] /\ npc'[m] = npc[m]
  BY <1>0 DEF CondTypeOK, Pushes
<1> HIDE DEF NotifyCall, NGoto
<1>3. ListIntact'  BY <1>0, <1>2 DEF Shape, ListIntact
<1>4. ExactlyOnce'
  <2> USE DEF Shape, ExactlyOnce
  <2>1. (IsInjective(queue) /\ idle \cap Range(queue) = {})'  BY <1>0, <1>2
  <2>2. (\A m \in Notifier : Pushes(m) =>
           /\ nproc[m] \notin idle \cup Range(queue)
           /\ \A k \in Notifier \ {m} : Pushes(k) => nproc[k] # nproc[m])'
    <3>1. \A m \in Notifier \ {n} : Pushes(m) => nproc[m] # p
      BY <1>0, <1>2
    <3>2. p \notin idle' \cup Range(queue)'  BY <1>0, <1>2
    <3>3. \A m \in Notifier \ {n} :
             Pushes(m) => nproc[m] \notin idle' \cup Range(queue)'
      BY <1>0, <1>2
    <3>4. \A m, k \in Notifier \ {n} :
             Pushes(m) /\ Pushes(k) /\ k # m => nproc[k] # nproc[m]
      BY <1>0
    <3> QED BY <1>2, <3>1, <3>2, <3>3, <3>4
  <2>3. (\A c \in Consumer :
           /\ IsInjective(batch[c]) /\ Range(batch[c]) \cap (idle \cup Range(queue)) = {}
           /\ \A m \in Notifier : Pushes(m) => nproc[m] \notin Range(batch[c])
           /\ \A d \in Consumer \ {c} : Range(batch[c]) \cap Range(batch[d]) = {})'
    BY <1>0, <1>2
  <2>4. (\A q \in Process :
           \/ q \in idle \cup Range(queue)
           \/ \E m \in Notifier : Pushes(m) /\ nproc[m] = q
           \/ \E c \in Consumer : q \in Range(batch[c]))'
    BY <1>0, <1>2
  <2> QED BY <2>1, <2>2, <2>3, <2>4
<1>5. LinksFresh'  BY <1>0, <1>2 DEF Shape, LinksFresh
<1>6. HeadFresh'  BY <1>0, <1>2 DEF Shape, HeadFresh
<1> QED BY <1>1, <1>3, <1>4, <1>5, <1>6 DEF Shape

(* Linking the node (line 102) writes a word no chain runs through. *)
LEMMA LinkShape ==
  ASSUME ListInv, NEW n \in Notifier, NotifyLink(n)  PROVE Shape'
<1>0. CondTypeOK /\ Shape  BY DEF ListInv, Shape
<1> DEFINE p == nproc[n]
<1>1. /\ UNCHANGED <<cond, nproc, nold, cpc, chead, cnext, idle, queue, batch>>
      /\ next' = [next EXCEPT ![p] = nold[n]] /\ npc'[n] = "cas" /\ Pushes(n)
      /\ \A m \in Notifier : Pushes(m)' <=> Pushes(m)
      /\ \A m \in Notifier \ {n} : npc'[m] = npc[m]
  BY <1>0 DEF CondTypeOK, NotifyLink, NGoto, Pushes, conVars, hisVars
<1>2. /\ p \in Process /\ p \notin Range(queue)
      /\ \A c \in Consumer : p \notin Range(batch[c])
      /\ \A m \in Notifier \ {n} : Pushes(m) => nproc[m] # p
  BY <1>0, <1>1 DEF Shape, ExactlyOnce, LinksFresh
<1>3. /\ next \in [Process -> Ptr] /\ queue \in Seq(Process)
      /\ \A c \in Consumer : batch[c] \in Seq(Process)
      /\ next'[p] = nold[n] /\ \A q \in Process \ {p} : next'[q] = next[q]
  BY <1>0, <1>1, <1>2 DEF CondTypeOK
<1> HIDE DEF p
<1>4. ListIntact'
  <2>1. IsList(next', cond.ready_list, queue)
    BY <1>0, <1>1, <1>2, <1>3, ListFrame DEF Shape, ListIntact
  <2>2. \A c \in Consumer : cpc[c] \in {"w_reset", "w_drain", "walk"}
                               => IsList(next', chead[c], batch[c])
    BY <1>0, <1>1, <1>2, <1>3, ListFrame DEF Shape, ListIntact
  <2> QED BY <1>0, <1>1, <2>1, <2>2 DEF Shape, ListIntact
<1>5. ExactlyOnce'  BY <1>0, <1>1 DEF Shape, ExactlyOnce
<1>6. LinksFresh'
  <2>1. \A m \in Notifier : Pushes(m) => nproc[m] \in Process
    BY <1>0 DEF Shape, LinksFresh
  <2>2. ASSUME NEW m \in Notifier, npc'[m] = "cas"  PROVE next'[nproc[m]] = nold[m]
    <3>1. CASE m = n  BY <1>3, <3>1 DEF p
    <3>2. CASE m # n
      <4>1. npc[m] = "cas" /\ Pushes(m)  BY <1>1, <2>2, <3>2 DEF Pushes
      <4>2. nproc[m] \in Process \ {p} /\ next[nproc[m]] = nold[m]
        BY <1>0, <1>2, <2>1, <3>2, <4>1 DEF Shape, LinksFresh
      <4> QED BY <1>3, <4>2
    <3> QED BY <3>1, <3>2
  <2> QED BY <1>1, <2>1, <2>2 DEF LinksFresh
<1>7. HeadFresh'
  <2>1. \A q \in Range(queue) : next'[q] = next[q]
    BY <1>2, <1>3 DEF Range
  <2> QED BY <1>0, <1>1, <2>1 DEF Shape, HeadFresh
<1> QED BY <1>4, <1>5, <1>6, <1>7 DEF Shape

(* The CAS of line 103 puts the node in front of the list it was linked to. *)
LEMMA PushShape ==
  ASSUME ListInv, NEW n \in Notifier, NotifyCas(n)  PROVE Shape'
<1>0. CondTypeOK /\ Shape  BY DEF ListInv, Shape
<1> DEFINE p == nproc[n]
<1>1. /\ UNCHANGED <<next, nproc, nold, cpc, chead, cnext, idle, batch>>
      /\ queue' = <<p>> \o queue /\ cond'.ready_list = p
      /\ cond.ready_list = nold[n] /\ npc[n] = "cas" /\ Pushes(n) /\ ~Pushes(n)' /\ npc'[n] # "cas"
      /\ \A m \in Notifier \ {n} : npc'[m] = npc[m] /\ (Pushes(m)' <=> Pushes(m))
  BY <1>0 DEF CondTypeOK, NotifyCas, NGoto, Pushes, conVars
<1>2. /\ p \in Process /\ next[p] = cond.ready_list
      /\ p \notin Range(queue) /\ p \notin idle
      /\ \A c \in Consumer : p \notin Range(batch[c])
      /\ \A m \in Notifier \ {n} : Pushes(m) => nproc[m] # p
  BY <1>0, <1>1 DEF Shape, ExactlyOnce, LinksFresh
<1>3. queue \in Seq(Process)  BY <1>0 DEF CondTypeOK
<1>a. p \in Process /\ queue' = <<p>> \o queue  BY <1>1, <1>2
<1>4. Range(queue') = {p} \cup Range(queue)  BY <1>a, <1>3, ConsSeq
<1> HIDE DEF p
<1>5. ListIntact'
  <2>1. IsList(next, p, <<p>> \o queue)
    BY <1>0, <1>2, <1>3, ListPush DEF Shape, ListIntact
  <2> QED BY <1>0, <1>1, <2>1 DEF Shape, ListIntact
<1>6. ExactlyOnce'
  <2> USE DEF Shape, ExactlyOnce
  <2>1. IsInjective(queue')
    BY <1>0, <1>1, <1>2, <1>3, ConsInjective
  <2>2. (idle \cap Range(queue) = {})'
    <3>1. idle \cap Range(queue) = {} /\ idle' = idle /\ p \notin idle  BY <1>0, <1>1, <1>2
    <3> QED BY <3>1, <1>4
  <2>3. (\A m \in Notifier : Pushes(m) =>
           /\ nproc[m] \notin idle \cup Range(queue)
           /\ \A k \in Notifier \ {m} : Pushes(k) => nproc[k] # nproc[m])'
    BY <1>0, <1>1, <1>2, <1>4
  <2>4. (\A c \in Consumer :
           /\ IsInjective(batch[c]) /\ Range(batch[c]) \cap (idle \cup Range(queue)) = {}
           /\ \A m \in Notifier : Pushes(m) => nproc[m] \notin Range(batch[c])
           /\ \A d \in Consumer \ {c} : Range(batch[c]) \cap Range(batch[d]) = {})'
    <3>1. ASSUME NEW c \in Consumer
          PROVE  Range(batch[c]) \cap (idle \cup ({p} \cup Range(queue))) = {}
      <4>1. Range(batch[c]) \cap (idle \cup Range(queue)) = {}  BY <1>0
      <4>2. p \notin Range(batch[c])  BY <1>2
      <4> HIDE DEF ExactlyOnce, Shape
      <4> QED BY <4>1, <4>2
    <3> QED BY <1>0, <1>1, <1>4, <3>1
  <2>5. (\A q \in Process :
           \/ q \in idle \cup Range(queue)
           \/ \E m \in Notifier : Pushes(m) /\ nproc[m] = q
           \/ \E c \in Consumer : q \in Range(batch[c]))'
    BY <1>0, <1>1, <1>2, <1>4 DEF p
  <2> QED BY <2>1, <2>2, <2>3, <2>4, <2>5
<1>7. LinksFresh'  BY <1>0, <1>1 DEF Shape, LinksFresh
<1>8. HeadFresh'  BY <1>0, <1>1, <1>4 DEF Shape, HeadFresh
<1> QED BY <1>5, <1>6, <1>7, <1>8 DEF Shape

(* The CAS of line 149 moves the whole list to its caller. *)
LEMMA TakeAllShape ==
  ASSUME ListInv, SingleConsumer, NEW c \in Consumer, WaitCas(c)  PROVE Shape'
<1>0. CondTypeOK /\ Shape  BY DEF ListInv, Shape
<1>1. /\ UNCHANGED <<next, npc, nproc, nold, chead, cnext, idle>>
      /\ queue' = <<>> /\ cond'.ready_list = NULL /\ batch'[c] = queue
      /\ cond.ready_list = chead[c] /\ cpc[c] = "w_cas" /\ cpc'[c] = "w_reset"
      /\ \A d \in Consumer : d = c
  BY <1>0 DEF CondTypeOK, WaitCas, CGoto, notVars, SingleConsumer
<1>2. batch[c] = <<>> /\ queue # <<>>
  <2>1. batch[c] = <<>> /\ chead[c] \in Process
    BY <1>0, <1>1 DEF Shape, HeadFresh, Holding
  <2>2. cond.ready_list # NULL  BY <1>1, <2>1, ConditionAssumption
  <2>3. IsList(next, cond.ready_list, queue)  BY <1>0 DEF Shape, ListIntact
  <2>4. queue # <<>>  BY <2>2, <2>3 DEF IsList
  <2> QED BY <2>1, <2>4
<1>3. ListIntact'
  BY <1>0, <1>1 DEF Shape, ListIntact, IsList
<1>4. ExactlyOnce'
  <2>0. ExactlyOnce /\ Range(queue') = {} /\ Range(batch[c]) = {} /\ IsInjective(queue')
    BY <1>0, <1>1, <1>2, EmptyHasNone DEF Shape, IsInjective
  <2>1. (\A m \in Notifier : Pushes(m) =>
           /\ nproc[m] \notin idle \cup Range(queue)
           /\ \A k \in Notifier \ {m} : Pushes(k) => nproc[k] # nproc[m])'
    BY <1>1, <2>0 DEF ExactlyOnce, Pushes
  <2>2. (\A d \in Consumer :
           /\ IsInjective(batch[d]) /\ Range(batch[d]) \cap (idle \cup Range(queue)) = {}
           /\ \A m \in Notifier : Pushes(m) => nproc[m] \notin Range(batch[d])
           /\ \A e \in Consumer \ {d} : Range(batch[d]) \cap Range(batch[e]) = {})'
    <3>1. IsInjective(queue) /\ idle \cap Range(queue) = {}
      BY <2>0 DEF ExactlyOnce
    <3>2. \A m \in Notifier : Pushes(m) => nproc[m] \notin Range(queue)
      BY <2>0 DEF ExactlyOnce
    <3>3. \A m \in Notifier : (Pushes(m)' <=> Pushes(m)) /\ nproc'[m] = nproc[m]
      BY <1>1 DEF Pushes
    <3> QED BY <1>1, <2>0, <3>1, <3>2, <3>3
  <2>3. (\A q \in Process :
           \/ q \in idle \cup Range(queue)
           \/ \E m \in Notifier : Pushes(m) /\ nproc[m] = q
           \/ \E d \in Consumer : q \in Range(batch[d]))'
    BY <1>1, <2>0 DEF ExactlyOnce, Pushes
  <2>4. (idle \cap Range(queue) = {})'  BY <2>0
  <2> QED BY <2>0, <2>1, <2>2, <2>3, <2>4 DEF ExactlyOnce
<1>5. LinksFresh'  BY <1>0, <1>1 DEF Shape, LinksFresh, Pushes
<1>6. HeadFresh'  BY <1>1, <1>2 DEF HeadFresh, Holding
<1> QED BY <1>3, <1>4, <1>5, <1>6 DEF Shape

(* The CAS of line 217 moves the first process of the list to its caller: *)
(* the successor read before it is still the second element.              *)
LEMMA TakeOneShape ==
  ASSUME ListInv, SingleConsumer, NEW c \in Consumer, TryCas(c)  PROVE Shape'
<1>0. CondTypeOK /\ Shape  BY DEF ListInv, Shape
<1>1. /\ UNCHANGED <<next, npc, nproc, nold, chead, cnext, idle>>
      /\ queue' = Tail(queue) /\ cond'.ready_list = cnext[c] /\ batch'[c] = <<Head(queue)>>
      /\ cond.ready_list = chead[c] /\ cpc[c] = "t_cas" /\ cpc'[c] \in {"t_reset", "t_return"}
      /\ \A d \in Consumer : d = c
  BY <1>0 DEF CondTypeOK, TryCas, CGoto, notVars, SingleConsumer
<1>2. /\ batch[c] = <<>> /\ queue # <<>> /\ cnext[c] = next[chead[c]]
      /\ queue \in Seq(Process) /\ IsList(next, chead[c], queue) /\ IsInjective(queue)
  BY <1>0, <1>1, EmptyHasNone
     DEF Shape, HeadFresh, Holding, ListIntact, ExactlyOnce, CondTypeOK
<1>3. /\ chead[c] = queue[1] /\ IsList(next, cnext[c], Tail(queue))
      /\ Head(queue) = queue[1] /\ Range(queue) = {queue[1]} \cup Range(Tail(queue))
      /\ IsInjective(Tail(queue)) /\ queue[1] \notin Range(Tail(queue))
  BY <1>2, ListPop, TailSeq
<1>a. batch'[c] = <<queue[1]>>  BY <1>1, <1>3
<1>4. Range(batch'[c]) = {queue[1]} /\ IsInjective(batch'[c]) /\ batch'[c] # <<>>
  BY <1>a DEF Range, IsInjective
<1>5. ListIntact'
  BY <1>1, <1>3 DEF ListIntact
<1>6. ExactlyOnce'
  <2> USE DEF Shape, ExactlyOnce
  <2>1. (IsInjective(queue) /\ idle \cap Range(queue) = {})'  BY <1>0, <1>1, <1>3
  <2>2. (\A m \in Notifier : Pushes(m) =>
           /\ nproc[m] \notin idle \cup Range(queue)
           /\ \A k \in Notifier \ {m} : Pushes(k) => nproc[k] # nproc[m])'
    BY <1>0, <1>1, <1>3 DEF Pushes
  <2>3. (\A d \in Consumer :
           /\ IsInjective(batch[d]) /\ Range(batch[d]) \cap (idle \cup Range(queue)) = {}
           /\ \A m \in Notifier : Pushes(m) => nproc[m] \notin Range(batch[d])
           /\ \A e \in Consumer \ {d} : Range(batch[d]) \cap Range(batch[e]) = {})'
    <3>0. queue[1] \in Range(queue) /\ idle \cap Range(queue) = {}  BY <1>0, <1>3
    <3>1. {queue[1]} \cap (idle \cup Range(Tail(queue))) = {}  BY <3>0, <1>3
    <3>2. \A m \in Notifier : Pushes(m) => nproc[m] \notin {queue[1]}  BY <1>0, <1>3
    <3> QED BY <1>1, <1>4, <3>1, <3>2 DEF Pushes
  <2>4. (\A q \in Process :
           \/ q \in idle \cup Range(queue)
           \/ \E m \in Notifier : Pushes(m) /\ nproc[m] = q
           \/ \E d \in Consumer : q \in Range(batch[d]))'
    <3>1. Range(batch[c]) = {}  BY <1>2, EmptyHasNone
    <3>2. \A q \in Process : \/ q \in idle \cup Range(queue)
                             \/ \E m \in Notifier : Pushes(m) /\ nproc[m] = q
                             \/ \E d \in Consumer : q \in Range(batch[d])
      BY <1>0
    <3>3. \A d \in Consumer : Range(batch[d]) = {}  BY <1>1, <3>1
    <3>4. \A q \in Process : \/ q \in idle \cup {queue[1]} \cup Range(Tail(queue))
                             \/ \E m \in Notifier : Pushes(m) /\ nproc[m] = q
      BY <1>3, <3>2, <3>3
    <3> QED BY <1>1, <1>4, <3>4 DEF Pushes
  <2> QED BY <2>1, <2>2, <2>3, <2>4
<1>7. LinksFresh'  BY <1>0, <1>1 DEF Shape, LinksFresh, Pushes
<1>8. HeadFresh'  BY <1>1, <1>4 DEF HeadFresh, Holding
<1> QED BY <1>5, <1>6, <1>7, <1>8 DEF Shape

(* Running a process of the batch gives it back to its owner. *)
LEMMA DeliverShape ==
  ASSUME ListInv, SingleConsumer, NEW c \in Consumer, Walk(c) \/ TryReturn(c)
  PROVE  Shape'
<1>0. CondTypeOK /\ Shape  BY DEF ListInv, Shape
<1> DEFINE b == batch[c]  p == chead[c]
<1>1. /\ UNCHANGED <<next, npc, nproc, nold, cnext, queue>> /\ cond' = cond
      /\ batch'[c] = Tail(b) /\ idle' = idle \cup {p} /\ cpc[c] \in Holding
      /\ \A d \in Consumer : d = c
  BY <1>0 DEF CondTypeOK, Walk, TryReturn, CGoto, notVars, SingleConsumer, Holding
<1>2. b # <<>> /\ b \in Seq(Process) /\ IsInjective(b)
  BY <1>0, <1>1 DEF Shape, HeadFresh, ExactlyOnce, CondTypeOK
<1>3. /\ Range(b) = {b[1]} \cup Range(Tail(b)) /\ IsInjective(Tail(b))
      /\ b[1] \notin Range(Tail(b)) /\ b[1] \in Process
  BY <1>2, TailSeq
<1>4. /\ p = b[1]
      /\ cpc'[c] \in {"idle", "walk"}
      /\ cpc'[c] = "walk" <=> Tail(b) # <<>>
      /\ cpc'[c] = "walk" => IsList(next, chead'[c], Tail(b))
  <2>1. CASE Walk(c)
    <3>1. IsList(next, p, b)  BY <1>0, <2>1 DEF Walk, CGoto, Shape, ListIntact
    <3>2. p = b[1] /\ IsList(next, next[p], Tail(b)) /\ (next[p] = NULL <=> Tail(b) = <<>>)
      BY <1>2, <3>1, ListPop
    <3> HIDE DEF b
    <3> QED BY <1>0, <2>1, <3>2 DEF Walk, CGoto, CondTypeOK
  <2>2. CASE TryReturn(c)
    <3>1. b = <<p>>  BY <1>0, <2>2 DEF TryReturn, CGoto, Shape, ListIntact
    <3>2. b[1] = p /\ Tail(b) = <<>>  BY <3>1
    <3>3. cpc'[c] = "idle"  BY <1>0, <2>2 DEF TryReturn, CGoto, CondTypeOK
    <3> QED BY <3>2, <3>3
  <2> QED BY <2>1, <2>2
<1> HIDE DEF b, p
<1>5. ListIntact'
  BY <1>0, <1>1, <1>4 DEF Shape, ListIntact
<1>6. ExactlyOnce'
  <2> USE DEF Shape, ExactlyOnce
  <2>1. /\ Range(b) \cap (idle \cup Range(queue)) = {}
        /\ \A m \in Notifier : Pushes(m) => nproc[m] \notin Range(b)
    BY <1>0 DEF b
  <2>2. (IsInjective(queue) /\ idle \cap Range(queue) = {})'  BY <1>0, <1>1, <1>3, <1>4, <2>1
  <2>3. (\A m \in Notifier : Pushes(m) =>
           /\ nproc[m] \notin idle \cup Range(queue)
           /\ \A k \in Notifier \ {m} : Pushes(k) => nproc[k] # nproc[m])'
    BY <1>0, <1>1, <1>3, <1>4, <2>1 DEF Pushes
  <2>4. (\A d \in Consumer :
           /\ IsInjective(batch[d]) /\ Range(batch[d]) \cap (idle \cup Range(queue)) = {}
           /\ \A m \in Notifier : Pushes(m) => nproc[m] \notin Range(batch[d])
           /\ \A e \in Consumer \ {d} : Range(batch[d]) \cap Range(batch[e]) = {})'
    <3>1. Range(Tail(b)) \cap ((idle \cup {p}) \cup Range(queue)) = {}
      BY <1>3, <1>4, <2>1
    <3>2. \A m \in Notifier : Pushes(m) => nproc[m] \notin Range(Tail(b))
      BY <1>3, <2>1
    <3> QED BY <1>1, <1>3, <3>1, <3>2 DEF Pushes
  <2>5. (\A q \in Process :
           \/ q \in idle \cup Range(queue)
           \/ \E m \in Notifier : Pushes(m) /\ nproc[m] = q
           \/ \E d \in Consumer : q \in Range(batch[d]))'
    BY <1>0, <1>1, <1>3, <1>4 DEF Pushes, b
  <2> QED BY <2>2, <2>3, <2>4, <2>5
<1>7. LinksFresh'  BY <1>0, <1>1 DEF Shape, LinksFresh, Pushes
<1>8. HeadFresh'  BY <1>1, <1>4 DEF HeadFresh, Holding
<1> QED BY <1>5, <1>6, <1>7, <1>8 DEF Shape

-----------------------------------------------------------------------------
(* Theorems *)

(* With one scheduler per Condition, no step of notify, wait, try_dequeue  *)
(* or is_satisfied breaks the invariant.                                   *)
LEMMA ListNext ==
  ASSUME SingleConsumer, ListInv, [CondNext]_condVars  PROVE ListInv'
<1>1. CASE UNCHANGED condVars
  BY <1>1 DEF ListInv, CondTypeOK, ListIntact, ExactlyOnce, LinksFresh, HeadFresh, Pushes,
     condVars, notVars, conVars, hisVars
<1>2. ASSUME NEW n \in Notifier, Notify(n)  PROVE ListInv'
  BY <1>2, NotifyType, NotifyQuiet, LinkShape, PushShape DEF Notify, ListInv, Shape
<1>3. ASSUME NEW n \in Notifier, NEW p \in Process, NotifyCall(n, p)  PROVE ListInv'
  BY <1>3, CallShape DEF ListInv, Shape
<1>4. ASSUME NEW c \in Consumer, Wait(c) \/ EpollInterrupted(c)  PROVE ListInv'
  BY <1>4, WaitType, ConsumeQuiet, TakeAllShape, DeliverShape DEF Wait, ListInv, Shape
<1>5. ASSUME NEW c \in Consumer,
             TryDequeue(c) \/ TryLoad(c) \/ IsCall(c) \/ IsLoad(c) \/ IsSet(c)
      PROVE  ListInv'
  BY <1>5, PollType, ConsumeQuiet, TakeOneShape, DeliverShape DEF TryDequeue, ListInv, Shape
<1> QED BY <1>1, <1>2, <1>3, <1>4, <1>5 DEF CondNext, Consume

(* The ready list of a Condition with one consumer never tears and every   *)
(* process is in exactly one place, for any number of notifiers, processes *)
(* and notifications (pon_condition.c:98-108, 149-154, 214-222).           *)
THEOREM ListCorrect ==
  ASSUME SingleConsumer  PROVE CondSpec => [](CondTypeOK /\ ListIntact /\ ExactlyOnce)
<1>1. CondInit => ListInv  BY ListInit
<1>2. ListInv /\ [CondNext]_condVars => ListInv'  BY ListNext
<1>3. ListInv => CondTypeOK /\ ListIntact /\ ExactlyOnce  BY DEF ListInv
<1> QED BY <1>1, <1>2, <1>3, PTL DEF CondSpec

(* The Condition, the links and the locals of its users keep their types; in *)
(* particular the eventfd counter is never read below zero.                  *)
THEOREM ConditionTypes ==
  ASSUME SingleConsumer  PROVE CondSpec => []CondTypeOK
<1>1. CondSpec => [](CondTypeOK /\ ListIntact /\ ExactlyOnce)  BY ListCorrect
<1> QED BY <1>1, PTL

(* Exactly once: no notify, wait or try_dequeue drops a process or gives it *)
(* out twice.                                                               *)
THEOREM NothingLostOrDoubled ==
  ASSUME SingleConsumer  PROVE CondSpec => []ExactlyOnce
<1>1. CondSpec => [](CondTypeOK /\ ListIntact /\ ExactlyOnce)  BY ListCorrect
<1> QED BY <1>1, PTL

(* A scheduler that consumes alone never sleeps on an empty eventfd with   *)
(* satisfied set unless a notifier is about to write: lines 178-184 clear  *)
(* the flag on every path into epoll_wait.                                 *)
THEOREM SleeperHears ==
  ASSUME SingleConsumer  PROVE CondSpec => []NeverDeaf
<1>1. CondInit => NeverDeaf  BY DEF CondInit, NeverDeaf
<1>2. ASSUME CondTypeOK, NeverDeaf, [CondNext]_condVars  PROVE NeverDeaf'
  <2> USE DEF CondTypeOK, NeverDeaf
  <2>1. CASE UNCHANGED condVars  BY <1>2, <2>1 DEF condVars, notVars, conVars
  <2>2. ASSUME NEW n \in Notifier, Notify(n)  PROVE NeverDeaf'
    <3> USE DEF NGoto, NStep, conVars
    <3>1. CASE \/ NotifyLoad(n) \/ NotifyLink(n) \/ NotifyCas(n) \/ NotifyRetry(n)
               \/ NotifyCountLoad(n) \/ NotifyCountStore(n) \/ NotifyCheck(n)
      <4>1. /\ UNCHANGED cpc /\ cond'.satisfied = cond.satisfied
            /\ cond'.wake_fd = cond.wake_fd
        BY <1>2, <3>1 DEF NotifyLoad, NotifyLink, NotifyCas, NotifyRetry,
           NotifyCountLoad, NotifyCountStore, NotifyCheck
      <4>2. \A m \in Notifier : npc[m] = "write" => npc'[m] = "write"
        BY <1>2, <3>1 DEF NotifyLoad, NotifyLink, NotifyCas, NotifyRetry,
           NotifyCountLoad, NotifyCountStore, NotifyCheck
      <4> QED BY <1>2, <4>1, <4>2
    <3>2. CASE NotifySet(n)
      <4>1. npc'[n] = "write"  BY <1>2, <3>2 DEF NotifySet
      <4> QED BY <4>1
    <3>3. CASE NotifyWrite(n)
      <4>1. cond'.wake_fd = cond.wake_fd + 1 /\ cond.wake_fd \in Nat
        BY <1>2, <3>3 DEF NotifyWrite
      <4>2. cond'.wake_fd # 0  BY <4>1
      <4> QED BY <4>2
    <3> QED BY <2>2, <3>1, <3>2, <3>3 DEF Notify
  <2>3. ASSUME NEW n \in Notifier, NEW p \in Process, NotifyCall(n, p)  PROVE NeverDeaf'
    <3>1. /\ UNCHANGED <<cpc, cond>>
          /\ \A m \in Notifier : npc[m] = "write" => npc'[m] = "write"
      BY <1>2, <2>3 DEF NotifyCall, NGoto, conVars
    <3> QED BY <1>2, <3>1
  <2>4. ASSUME NEW c \in Consumer,
               Consume(c) \/ EpollInterrupted(c) \/ TryLoad(c) \/ IsCall(c)
        PROVE  NeverDeaf'
    <3>1. cpc'[c] = "w_epoll" => cond'.satisfied = FALSE
      BY <1>2, <2>4 DEF Consume, Wait, TryDequeue, CGoto, CStep, WaitLoad, WaitCas, WaitRetry,
         WaitReset, WaitDrain, WaitCheck, WaitRead, WaitClear, EpollWait, WaitWoken, Walk,
         EpollInterrupted, TryLoad, TryNext, TryCas, TryFail, TryReset, TryReturn,
         IsCall, IsLoad, IsSet
    <3> QED BY <3>1 DEF SingleConsumer
  <2> QED BY <1>2, <2>1, <2>2, <2>3, <2>4 DEF CondNext
<1>3. CondSpec => []CondTypeOK  BY ConditionTypes
<1> QED BY <1>1, <1>2, <1>3, PTL DEF CondSpec

(* The lock-free list implements the abstract ReadyQueue: each CAS is one   *)
(* of its pushes or takes, each delivery follows the next pointer to the    *)
(* process the queue has in front, and every other step changes nothing.    *)
THEOREM RefinesReadyQueue ==
  ASSUME SingleConsumer  PROVE CondSpec => ImplementsReadyQueue
<1> USE DEF RQ!rqVars
<1>1. CondInit => RQ!RQInit  BY DEF CondInit, RQ!RQInit
<1>2. ASSUME ListInv, [CondNext]_condVars  PROVE [RQ!RQNext]_(RQ!rqVars)
  <2>1. CASE UNCHANGED condVars  BY <2>1 DEF condVars, hisVars
  <2>2. ASSUME NEW n \in Notifier, Notify(n)  PROVE [RQ!RQNext]_(RQ!rqVars)
    <3>1. CASE NotifyCas(n)
      <4>1. nproc[n] \in Process /\ nproc[n] \notin idle \cup RQ!Outstanding
        <5>1. /\ nproc[n] \in Process /\ nproc[n] \notin idle \cup Range(queue)
              /\ \A c \in Consumer : nproc[n] \notin Range(batch[c])
          BY <1>2, <3>1 DEF ListInv, LinksFresh, ExactlyOnce, Pushes, NotifyCas, NGoto
        <5>2. \A R \in {RQ!Range(batch[c]) : c \in Consumer} : nproc[n] \notin R
          BY <5>1 DEF RQ!Range, Range
        <5> QED BY <5>1, <5>2 DEF RQ!Outstanding, RQ!Range, Range
      <4>2. RQ!Push(nproc[n])  BY <3>1, <4>1 DEF NotifyCas, RQ!Push
      <4> QED BY <4>1, <4>2 DEF RQ!RQNext
    <3>2. CASE ~NotifyCas(n)
      BY <2>2, <3>2 DEF Notify, NStep, hisVars, NotifyLoad, NotifyLink, NotifyRetry,
         NotifyCountLoad, NotifyCountStore, NotifyCheck, NotifySet, NotifyWrite
    <3> QED BY <3>1, <3>2
  <2>3. ASSUME NEW n \in Notifier, NEW p \in Process, NotifyCall(n, p)
        PROVE  [RQ!RQNext]_(RQ!rqVars)
    <3>1. RQ!Claim(p)  BY <2>3 DEF NotifyCall, RQ!Claim
    <3> QED BY <3>1 DEF RQ!RQNext
  <2>4. ASSUME NEW c \in Consumer,
               Consume(c) \/ EpollInterrupted(c) \/ TryLoad(c) \/ IsCall(c)
        PROVE  [RQ!RQNext]_(RQ!rqVars)
    <3>0. CondTypeOK /\ ListIntact /\ HeadFresh  BY <1>2 DEF ListInv
    <3>1. CASE WaitCas(c)
      <4>1. batch[c] = <<>> /\ queue # <<>>
        BY <3>0, <3>1, ConditionAssumption
           DEF WaitCas, CGoto, HeadFresh, Holding, ListIntact, IsList
      <4>2. RQ!TakeAll(c)  BY <3>1, <4>1 DEF WaitCas, RQ!TakeAll
      <4> QED BY <4>2 DEF RQ!RQNext
    <3>2. CASE TryCas(c)
      <4>1. batch[c] = <<>> /\ queue # <<>>
        BY <3>0, <3>2, EmptyHasNone DEF TryCas, CGoto, HeadFresh, Holding
      <4>2. RQ!TakeOne(c)  BY <3>2, <4>1 DEF TryCas, RQ!TakeOne
      <4> QED BY <4>2 DEF RQ!RQNext
    <3>3. CASE Walk(c) \/ TryReturn(c)
      <4>1. batch[c] # <<>> /\ batch[c] \in Seq(Process)
        BY <3>0, <3>3 DEF Walk, TryReturn, CGoto, HeadFresh, Holding, CondTypeOK
      <4>2. chead[c] = batch[c][1]
        <5>1. CASE Walk(c)
          <6>1. IsList(next, chead[c], batch[c])
            BY <3>0, <5>1 DEF Walk, CGoto, ListIntact
          <6> QED BY <4>1, <6>1 DEF IsList
        <5>2. CASE TryReturn(c)
          <6>1. batch[c] = <<chead[c]>>
            BY <3>0, <5>2 DEF TryReturn, CGoto, ListIntact
          <6> QED BY <6>1
        <5> QED BY <3>3, <5>1, <5>2
      <4>3. Head(batch[c]) = chead[c]  BY <4>1, <4>2, TailSeq
      <4>4. RQ!Deliver(c)  BY <3>3, <4>1, <4>3 DEF Walk, TryReturn, RQ!Deliver
      <4> QED BY <4>4 DEF RQ!RQNext
    <3>4. CASE ~WaitCas(c) /\ ~TryCas(c) /\ ~Walk(c) /\ ~TryReturn(c)
      BY <2>4, <3>4 DEF Consume, Wait, TryDequeue, CStep, hisVars, WaitLoad, WaitRetry,
         WaitReset, WaitDrain, WaitCheck, WaitRead, WaitClear, EpollWait, WaitWoken,
         EpollInterrupted, TryLoad, TryNext, TryFail, TryReset, IsCall, IsLoad, IsSet
    <3> QED BY <3>1, <3>2, <3>3, <3>4
  <2> QED BY <1>2, <2>1, <2>2, <2>3, <2>4 DEF CondNext
<1>3. CondInit => ListInv  BY ListInit
<1>4. ListInv /\ [CondNext]_condVars => ListInv'  BY ListNext
<1> QED BY <1>1, <1>2, <1>3, <1>4, PTL DEF CondSpec, ImplementsReadyQueue, RQ!RQSpec
=============================================================================
