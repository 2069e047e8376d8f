--------------------------- MODULE SequenceFacts ---------------------------
(* Lemmas about sequences that the proofs of the components share. *)
EXTENDS Lists, Functions, SequenceTheorems, TLAPS

(* Pushing one element in front of a sequence. *)
LEMMA ConsSeq ==
  ASSUME NEW S, NEW p \in S, NEW s \in Seq(S)
  PROVE  /\ <<p>> \o s \in Seq(S)
         /\ Len(<<p>> \o s) = Len(s) + 1
         /\ (<<p>> \o s)[1] = p
         /\ \A i \in 1..Len(s) : (<<p>> \o s)[i + 1] = s[i]
         /\ Range(<<p>> \o s) = {p} \cup Range(s)
         /\ <<p>> \o s # <<>>
<1> DEFINE t == <<p>> \o s
<1>1. /\ t \in Seq(S) /\ Len(t) = Len(s) + 1 /\ t[1] = p
      /\ \A i \in 1..Len(s) : t[i + 1] = s[i]
  OBVIOUS
<1>2. \A x : x \in Range(t) => x \in {p} \cup Range(s)
  <2> SUFFICES ASSUME NEW i \in 1..Len(t)
               PROVE  t[i] \in {p} \cup Range(s)
    BY <1>1 DEF Range
  <2>1. CASE i = 1  BY <1>1, <2>1
  <2>2. CASE i # 1
    <3>1. i - 1 \in 1..Len(s) /\ i = (i - 1) + 1  BY <1>1, <2>2
    <3>2. t[i] = s[i - 1]  BY <1>1, <3>1
    <3> QED BY <3>1, <3>2 DEF Range
  <2> QED BY <2>1, <2>2
<1>3. \A x \in {p} \cup Range(s) : x \in Range(t)
  <2>1. p \in Range(t)
    <3>1. 1 \in DOMAIN t  BY <1>1
    <3> QED BY <1>1, <3>1 DEF Range
  <2>2. ASSUME NEW i \in 1..Len(s)  PROVE s[i] \in Range(t)
    <3>1. i + 1 \in DOMAIN t  BY <1>1
    <3> QED BY <1>1, <3>1 DEF Range
  <2> QED BY <2>1, <2>2 DEF Range
<1> QED BY <1>1, <1>2, <1>3

(* Removing the first element of a sequence. *)
LEMMA TailSeq ==
  ASSUME NEW S, NEW s \in Seq(S), s # <<>>
  PROVE  /\ Tail(s) \in Seq(S) /\ Head(s) = s[1] /\ s[1] \in S
         /\ Len(s) \in Nat \ {0} /\ Len(Tail(s)) = Len(s) - 1
         /\ \A i \in 1..Len(Tail(s)) : Tail(s)[i] = s[i + 1]
         /\ Range(s) = {s[1]} \cup Range(Tail(s))
         /\ IsInjective(s) => IsInjective(Tail(s)) /\ s[1] \notin Range(Tail(s))
<1>1. /\ Tail(s) \in Seq(S) /\ Head(s) = s[1] /\ s[1] \in S
      /\ Len(s) \in Nat \ {0} /\ Len(Tail(s)) = Len(s) - 1
      /\ \A i \in 1..Len(Tail(s)) : Tail(s)[i] = s[i + 1]
  OBVIOUS
<1>2. ASSUME NEW i \in 1..Len(s)  PROVE s[i] \in {s[1]} \cup Range(Tail(s))
  <2>1. CASE i # 1
    <3>1. PICK j \in 1..Len(Tail(s)) : i = j + 1
      <4>1. i - 1 \in 1..Len(Tail(s)) /\ i = (i - 1) + 1  BY <1>1, <2>1
      <4> QED BY <4>1
    <3>2. Tail(s)[j] = s[i] /\ j \in DOMAIN Tail(s)  BY <1>1, <3>1
    <3> QED BY <3>2, Zenon DEF Range
  <2> QED BY <2>1
<1>3. ASSUME NEW i \in 1..Len(Tail(s))
      PROVE  /\ i + 1 \in 1..Len(s) /\ i + 1 # 1
             /\ Tail(s)[i] = s[i + 1]
  BY <1>1
<1>4. Range(s) = {s[1]} \cup Range(Tail(s))
  <2>1. DOMAIN s = 1..Len(s) /\ DOMAIN Tail(s) = 1..Len(Tail(s)) /\ 1 \in DOMAIN s
    BY <1>1
  <2> QED BY <1>2, <1>3, <2>1 DEF Range
<1>5. ASSUME IsInjective(s)
      PROVE  IsInjective(Tail(s)) /\ s[1] \notin Range(Tail(s))
  <2>1. IsInjective(Tail(s))  BY <1>1, <1>3, <1>5 DEF IsInjective
  <2>2. s[1] \notin Range(Tail(s))
    <3>1. DOMAIN Tail(s) = 1..Len(Tail(s)) /\ 1 \in 1..Len(s)  BY <1>1
    <3> QED BY <1>3, <1>5, <3>1 DEF IsInjective, Range
  <2> QED BY <2>1, <2>2
<1> QED BY <1>1, <1>4, <1>5

(* A sequence without repetition keeps that when a new element is put in front. *)
LEMMA ConsInjective ==
  ASSUME NEW S, NEW p \in S, NEW s \in Seq(S), IsInjective(s), p \notin Range(s)
  PROVE  IsInjective(<<p>> \o s)
<1> DEFINE t == <<p>> \o s
<1>1. /\ Len(t) = Len(s) + 1 /\ Len(s) \in Nat /\ t[1] = p
      /\ \A i \in 1..Len(s) : t[i + 1] = s[i]
  BY ConsSeq
<1> HIDE DEF t
<1>2. \A i \in 1..Len(t) : i # 1 => i - 1 \in 1..Len(s) /\ t[i] = s[i - 1]
  <2> TAKE i \in 1..Len(t)
  <2> HAVE i # 1
  <2>1. i - 1 \in 1..Len(s) /\ i = (i - 1) + 1  BY <1>1
  <2> QED BY <1>1, <2>1
<1>3. \A i \in 1..Len(s) : s[i] # p  BY DEF Range
<1>4. ASSUME NEW i \in 1..Len(t), NEW j \in 1..Len(t), t[i] = t[j]  PROVE i = j
  <2>1. CASE i = 1 \/ j = 1  BY <1>1, <1>2, <1>3, <1>4, <2>1
  <2>2. CASE i # 1 /\ j # 1
    <3>1. i - 1 = j - 1  BY <1>2, <1>4, <2>2 DEF IsInjective
    <3> QED BY <3>1
  <2> QED BY <2>1, <2>2
<1> QED BY <1>4 DEF IsInjective, t

(* The empty sequence has no elements. *)
LEMMA EmptyHasNone == Range(<<>>) = {} /\ IsInjective(<<>>)
BY DEF Range, IsInjective

(* What occurs in a sequence over S is in S. *)
LEMMA RangeSeq ==
  ASSUME NEW S, NEW s \in Seq(S), NEW x \in Range(s)
  PROVE  x \in S
<1>1. PICK i \in DOMAIN s : x = s[i]  BY DEF Range
<1> QED BY <1>1

(* Putting an element at the end of a sequence. *)
LEMMA AppendSeq ==
  ASSUME NEW S, NEW s \in Seq(S), NEW x \in S
  PROVE  /\ Append(s, x) \in Seq(S) /\ Len(Append(s, x)) = Len(s) + 1
         /\ \A j \in 1..Len(s) : Append(s, x)[j] = s[j]
         /\ Append(s, x)[Len(s) + 1] = x
         /\ Range(Append(s, x)) = Range(s) \cup {x}
         /\ IsInjective(s) /\ x \notin Range(s) => IsInjective(Append(s, x))
<1> DEFINE t == Append(s, x)
<1>1. /\ t \in Seq(S) /\ Len(t) = Len(s) + 1 /\ Len(s) \in Nat
      /\ \A j \in 1..Len(s) : t[j] = s[j]
      /\ t[Len(s) + 1] = x
      /\ DOMAIN s = 1..Len(s) /\ DOMAIN t = 1..Len(t)
  OBVIOUS
<1> HIDE DEF t
<1>2. \A j \in 1..Len(t) : j \in 1..Len(s) \/ j = Len(s) + 1  BY <1>1
<1>3. \A j \in 1..Len(s) : j \in 1..Len(t)  BY <1>1
<1>4. Len(s) + 1 \in 1..Len(t)  BY <1>1
<1>5. Range(t) = Range(s) \cup {x}  BY <1>1, <1>2, <1>3, <1>4 DEF Range
<1>6. ASSUME IsInjective(s), x \notin Range(s)  PROVE IsInjective(t)
  <2>1. \A j \in 1..Len(s) : s[j] # x  BY <1>1, <1>6 DEF Range
  <2> QED BY <1>1, <1>2, <1>6, <2>1 DEF IsInjective
<1> QED BY <1>1, <1>5, <1>6 DEF t
(* What a concatenation contains. *)
LEMMA ConcatRange ==
  ASSUME NEW S, NEW s \in Seq(S), NEW t \in Seq(S)
  PROVE  s \o t \in Seq(S) /\ Range(s \o t) = Range(s) \cup Range(t)
<1> DEFINE u == s \o t
<1>1. /\ u \in Seq(S) /\ Len(u) = Len(s) + Len(t) /\ Len(s) \in Nat /\ Len(t) \in Nat
      /\ DOMAIN u = 1..Len(u) /\ DOMAIN s = 1..Len(s) /\ DOMAIN t = 1..Len(t)
      /\ \A i \in 1..Len(s) : u[i] = s[i]
      /\ \A i \in 1..Len(t) : u[Len(s) + i] = t[i]
  OBVIOUS
<1> HIDE DEF u
<1>2. ASSUME NEW i \in 1..Len(u)  PROVE u[i] \in Range(s) \cup Range(t)
  <2>1. CASE i <= Len(s)
    <3>1. i \in 1..Len(s)  BY <1>1, <2>1
    <3> QED BY <1>1, <3>1 DEF Range
  <2>2. CASE ~(i <= Len(s))
    <3>1. i - Len(s) \in 1..Len(t) /\ Len(s) + (i - Len(s)) = i  BY <1>1, <2>2
    <3>2. u[i] = t[i - Len(s)]  BY <1>1, <3>1
    <3> QED BY <1>1, <3>1, <3>2 DEF Range
  <2> QED BY <2>1, <2>2
<1>3. ASSUME NEW i \in 1..Len(s)  PROVE s[i] \in Range(u)
  <2>1. i \in 1..Len(u)  BY <1>1
  <2> QED BY <1>1, <2>1 DEF Range
<1>4. ASSUME NEW i \in 1..Len(t)  PROVE t[i] \in Range(u)
  <2>1. Len(s) + i \in 1..Len(u)  BY <1>1
  <2> QED BY <1>1, <2>1 DEF Range
<1>5. Range(u) = Range(s) \cup Range(t)  BY <1>1, <1>2, <1>3, <1>4 DEF Range
<1> QED BY <1>1, <1>5 DEF u

(* Unlinking the i-th element of a list removes it and moves the rest up. *)
LEMMA UnlinkSeq ==
  ASSUME NEW S, NEW s \in Seq(S), NEW i \in 1..Len(s)
  PROVE  /\ Unlink(s, i) \in Seq(S)
         /\ Len(Unlink(s, i)) = Len(s) - 1
         /\ \A j \in 1..Len(Unlink(s, i)) :
              Unlink(s, i)[j] = IF j < i THEN s[j] ELSE s[j + 1]
         /\ IsInjective(s) => /\ IsInjective(Unlink(s, i))
                              /\ Range(Unlink(s, i)) = Range(s) \ {s[i]}
<1> DEFINE t == Unlink(s, i)
<1>1. Len(s) \in Nat \ {0} /\ DOMAIN s = 1..Len(s) /\ \A j \in 1..Len(s) : s[j] \in S
  OBVIOUS
<1>2. t = [j \in 1..(Len(s) - 1) |-> IF j < i THEN s[j] ELSE s[j + 1]]
  BY DEF Unlink
<1>3. t \in Seq(S) /\ Len(t) = Len(s) - 1 /\ DOMAIN t = 1..(Len(s) - 1)
  <2>1. \A j \in 1..(Len(s) - 1) : (IF j < i THEN s[j] ELSE s[j + 1]) \in S
    BY <1>1
  <2>2. t \in [1..(Len(s) - 1) -> S]  BY <1>2, <2>1
  <2>3. Len(s) - 1 \in Nat  BY <1>1
  <2> QED BY <2>2, <2>3, SeqDef, LenProperties
<1>4. \A j \in 1..Len(t) : t[j] = IF j < i THEN s[j] ELSE s[j + 1]
  BY <1>2, <1>3
<1> HIDE DEF t
<1>5. ASSUME IsInjective(s)  PROVE IsInjective(t) /\ Range(t) = Range(s) \ {s[i]}
  <2> USE <1>1, <1>3, <1>4
  <2>1. \A j, k \in 1..Len(s) : s[j] = s[k] => j = k  BY <1>5 DEF IsInjective
  <2>2. ASSUME NEW j \in 1..Len(t), NEW k \in 1..Len(t), t[j] = t[k]  PROVE j = k
    <3> DEFINE up(n) == IF n < i THEN n ELSE n + 1
    <3>1. /\ up(j) \in 1..Len(s) /\ up(k) \in 1..Len(s)
          /\ t[j] = s[up(j)] /\ t[k] = s[up(k)]
      OBVIOUS
    <3>2. up(j) = up(k)  BY <2>1, <2>2, <3>1
    <3> QED BY <3>2
  <2>3. IsInjective(t)  BY <2>2 DEF IsInjective
  <2>4. ASSUME NEW j \in 1..Len(t)  PROVE t[j] \in Range(s) \ {s[i]}
    <3>1. PICK k \in 1..Len(s) : k # i /\ t[j] = s[k]
      <4>1. CASE j < i  BY <4>1
      <4>2. CASE ~(j < i)
        <5>1. j + 1 \in 1..Len(s) /\ j + 1 # i /\ t[j] = s[j + 1]  BY <4>2
        <5> QED BY <5>1
      <4> QED BY <4>1, <4>2
    <3> QED BY <3>1, <2>1 DEF Range
  <2>5. ASSUME NEW k \in 1..Len(s), k # i  PROVE s[k] \in Range(t)
    <3>1. PICK j \in 1..Len(t) : t[j] = s[k]
      <4>1. CASE k < i
        <5>1. k \in 1..Len(t) /\ t[k] = s[k]  BY <4>1
        <5> QED BY <5>1
      <4>2. CASE ~(k < i)
        <5>1. k - 1 \in 1..Len(t) /\ ~(k - 1 < i) /\ (k - 1) + 1 = k  BY <4>2, <2>5
        <5>2. t[k - 1] = s[k]  BY <5>1
        <5> QED BY <5>1, <5>2
      <4> QED BY <4>1, <4>2
    <3> QED BY <3>1 DEF Range
  <2> QED BY <2>3, <2>4, <2>5 DEF Range
<1> QED BY <1>3, <1>4, <1>5 DEF t
=============================================================================
