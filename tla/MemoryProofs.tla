---------------------------- MODULE MemoryProofs ----------------------------
(***************************************************************************)
(* Proofs about physical memory and its translations.  First, for any      *)
(* finite set of CPUs and any set of threads: a shootdown leaves no stale  *)
(* translation and no IPI is forgotten.  Then, for any processors, frames  *)
(* and memory map: the counts of the frame allocator and its               *)
(* bitmap stay in step, and a frame is handed out once.                    *)
(***************************************************************************)
EXTENDS Shootdown, SequenceTheorems, WellFoundedInduction, TLAPS

\* A set of natural numbers that is not empty has a least element.
LEMMA HasLeast ==
    ASSUME NEW S \in SUBSET Nat, S # {}
    PROVE  \E x \in S : \A y \in S : x <= y
<1> DEFINE R == {ss \in Nat \X Nat : ss[1] < ss[2]}
<1>1. PICK x \in S : \A y \in S : ~(<<y, x>> \in R)
  BY NatLessThanWellFounded, WFMin, Zenon DEF OpToRel
<1>2. \A y \in S : ~(y < x)
  BY <1>1, Zenon
<1> QED
  BY <1>2

\* EnumerateProcessors comes to a processor that it has not come to before.
LEMMA TargetFacts ==
    ASSUME NEW t \in Senders, left[t] \subseteq CPUs, left[t] # {}
    PROVE  Target(t) \in left[t]
<1>1. left[t] \in SUBSET Nat
  BY ShootdownAssumption, Zenon
<1>2. \E x \in left[t] : \A y \in left[t] : x <= y
  BY <1>1, HasLeast
<1> QED
  BY <1>2 DEF Target

\* What PopFront leaves of a list, and what PushBack makes of it.
LEMMA TailFacts ==
    ASSUME NEW S, NEW s \in Seq(S), s # <<>>
    PROVE  /\ Head(s) \in S /\ Head(s) = s[1] /\ 1 \in 1..Len(s)
           /\ Tail(s) \in Seq(S)
           /\ \A i \in 1..Len(Tail(s)) : i + 1 \in 1..Len(s) /\ Tail(s)[i] = s[i + 1]
  BY HeadTailProperties, LenProperties

\* An IPI list with one more sender.
LEMMA AppendFacts ==
    ASSUME NEW S, NEW s \in Seq(S), NEW x \in S
    PROVE  /\ Append(s, x) \in Seq(S)
           /\ Len(s) \in Nat /\ Len(Append(s, x)) = Len(s) + 1
           /\ \A i \in 1..Len(s) : Append(s, x)[i] = s[i]
           /\ Append(s, x)[Len(s) + 1] = x
  BY LenProperties

-----------------------------------------------------------------------------
(***************************************************************************)
(* Type correctness.                                                       *)
(***************************************************************************)

\* A thread that has locked a list has still to come to the one behind it.
Locking == \A t \in Senders : pc[t] = "unlock" => left[t] # {}

Typed == TypeOK /\ Locking

\* Every step keeps the types.
LEMMA TypeStep ==
    ASSUME Typed, [Next]_vars
    PROVE  Typed'
<1> USE DEF Typed, TypeOK, Locking, senderVars, Goto
<1>1. ASSUME NEW t \in Senders, ChangePage(t) PROVE Typed'
  BY <1>1 DEF ChangePage
<1>2. ASSUME NEW t \in Senders, Enumerate(t) PROVE Typed'
  BY <1>2 DEF Enumerate
<1>3. ASSUME NEW t \in Senders, Push(t) PROVE Typed'
  <2>1. Target(t) \in CPUs
    BY <1>3, TargetFacts, Zenon DEF Push, Thread
  <2>2. Append(list[Target(t)], t) \in Seq(Senders)
    BY <2>1, AppendFacts
  <2> HIDE DEF TypeOK, Locking
  <2>3. TypeOK'
    BY <1>3, <2>1, <2>2 DEF Push, TypeOK
  <2>4. Locking'
    BY <1>3 DEF Push, Locking, TypeOK
  <2> QED
    BY <2>3, <2>4
<1>4. ASSUME NEW t \in Senders, PushUnlock(t) PROVE Typed'
  <2>1. Target(t) \in CPUs
    BY <1>4, TargetFacts, Zenon DEF PushUnlock, Thread
  <2> QED
    BY <1>4, <2>1 DEF PushUnlock
<1>5. ASSUME NEW t \in Senders, EnumerateEnd(t) PROVE Typed'
  BY <1>5 DEF EnumerateEnd
<1>6. ASSUME NEW t \in Senders, Send(t) PROVE Typed'
  BY <1>6 DEF Send
<1>7. ASSUME NEW t \in Senders, Wait(t) PROVE Typed'
  BY <1>7 DEF Wait
<1>8. ASSUME NEW t \in Senders, Preempt(t) PROVE Typed'
  BY <1>8 DEF Preempt
<1>9. ASSUME NEW t \in Senders, Dispatch(t) PROVE Typed'
  BY <1>9 DEF Dispatch
<1>10. ASSUME NEW c \in CPUs, TakeNMI(c) PROVE Typed'
  BY <1>10 DEF TakeNMI
<1>11. ASSUME NEW c \in CPUs, HandlerLock(c) PROVE Typed'
  BY <1>11 DEF HandlerLock
<1>12. ASSUME NEW c \in CPUs, Handle(c) PROVE Typed'
  <2>1. Head(list[c]) \in Senders /\ Tail(list[c]) \in Seq(Senders)
    BY <1>12, TailFacts DEF Handle
  <2> QED
    BY <1>12, <2>1 DEF Handle
<1>13. ASSUME NEW c \in CPUs, HandlerReturn(c) PROVE Typed'
  BY <1>13 DEF HandlerReturn
<1>14. ASSUME NEW c \in CPUs, NEW p \in Followed, Fill(c, p) PROVE Typed'
  BY <1>14 DEF Fill
<1>15. CASE UNCHANGED vars
  BY <1>15 DEF vars
<1> QED
  BY <1>1, <1>2, <1>3, <1>4, <1>5, <1>6, <1>7, <1>8, <1>9, <1>10, <1>11, <1>12, <1>13, <1>14,
     <1>15 DEF Next, Proceed, IPIHandler

\* Spec keeps the types.
THEOREM TypeCorrect == Spec => []TypeOK
<1>1. Init => Typed
  BY DEF Init, Typed, TypeOK, Locking
<1>2. Typed /\ [Next]_vars => Typed'
  BY TypeStep
<1> QED
  BY <1>1, <1>2, PTL DEF Spec, Typed

-----------------------------------------------------------------------------
(***************************************************************************)
(* No stale translation.  NoStaleTranslation is about the time after the   *)
(* shootdown; the invariant says what holds during it: a CPU that still    *)
(* has a translation of a page that is gone has not marked the IPI.        *)
(***************************************************************************)
Flushed ==
    \A p \in Followed, c \in CPUs :
        p \in tlb[c] /\ p \notin mapped => pc[p] # "run" /\ c \notin done[p]

\* Every step keeps the invariant.
LEMMA FlushedStep ==
    ASSUME Typed, Flushed, [Next]_vars
    PROVE  Flushed'
<1> USE ShootdownAssumption DEF Typed, TypeOK, Flushed, senderVars, Goto
<1>1. ASSUME NEW t \in Senders, ChangePage(t) PROVE Flushed'
  BY <1>1 DEF ChangePage
<1>2. ASSUME NEW t \in Senders, Enumerate(t) PROVE Flushed'
  BY <1>2 DEF Enumerate
<1>3. ASSUME NEW t \in Senders, Push(t) PROVE Flushed'
  BY <1>3 DEF Push
<1>4. ASSUME NEW t \in Senders, PushUnlock(t) PROVE Flushed'
  BY <1>4 DEF PushUnlock
<1>5. ASSUME NEW t \in Senders, EnumerateEnd(t) PROVE Flushed'
  BY <1>5 DEF EnumerateEnd
<1>6. ASSUME NEW t \in Senders, Send(t) PROVE Flushed'
  BY <1>6 DEF Send
<1>7. ASSUME NEW t \in Senders, Wait(t) PROVE Flushed'
  BY <1>7 DEF Wait
<1>8. ASSUME NEW t \in Senders, Preempt(t) \/ Dispatch(t) PROVE Flushed'
  BY <1>8 DEF Preempt, Dispatch
<1>9. ASSUME NEW c \in CPUs, TakeNMI(c) \/ HandlerLock(c) \/ HandlerReturn(c) PROVE Flushed'
  BY <1>9 DEF TakeNMI, HandlerLock, HandlerReturn
<1>10. ASSUME NEW c \in CPUs, Handle(c) PROVE Flushed'
  <2>1. Head(list[c]) \in Senders
    BY <1>10, TailFacts DEF Handle
  <2> QED
    BY <1>10, <2>1 DEF Handle
<1>11. ASSUME NEW c \in CPUs, NEW p \in Followed, Fill(c, p) PROVE Flushed'
  BY <1>11 DEF Fill
<1>12. CASE UNCHANGED vars
  BY <1>12 DEF vars
<1> QED
  BY <1>1, <1>2, <1>3, <1>4, <1>5, <1>6, <1>7, <1>8, <1>9, <1>10, <1>11, <1>12, Zenon
     DEF Next, Proceed, IPIHandler

\* When UnmapPage has returned, no CPU has a translation of the page, for any
\* number of CPUs and of concurrent shootdowns.
THEOREM TranslationsGone == Spec => []NoStaleTranslation
<1>1. Init => Typed /\ Flushed
  BY DEF Init, Typed, TypeOK, Locking, Flushed
<1>2. Typed /\ Flushed /\ [Next]_vars => Typed' /\ Flushed'
  BY TypeStep, FlushedStep
<1>3. Typed /\ Flushed => NoStaleTranslation
  BY ShootdownAssumption DEF Typed, TypeOK, Flushed, NoStaleTranslation
<1> QED
  BY <1>1, <1>2, <1>3, PTL DEF Spec

-----------------------------------------------------------------------------
(***************************************************************************)
(* No IPI is forgotten.  IPIServed is not inductive: that a CPU marks the  *)
(* IPI at the head of its list must not mark one further down, so a thread *)
(* is on a list once; and the list a thread comes to next must not hold    *)
(* its IPI already, nor have marked it.                                    *)
(***************************************************************************)
Listed(t, c) == \E i \in 1..Len(list[c]) : list[c][i] = t

\* A thread is on a list once.
ListedOnce ==
    \A c \in CPUs : \A i, j \in 1..Len(list[c]) : list[c][i] = list[c][j] => i = j

\* The lists a thread has still to come to do not know of it.
Ahead ==
    \A t \in Senders :
        /\ pc[t] = "enumerate" => done[t] = {}
        /\ \A c \in CPUs :
              (pc[t] = "push" \/ (pc[t] = "unlock" /\ c # Target(t))) /\ c \in left[t] =>
                  ~Listed(t, c) /\ c \notin done[t]

Served == IPIServed /\ ListedOnce /\ Ahead

\* A thread that is between two shootdowns is on no list.
LEMMA NotListed ==
    ASSUME Served, NEW t \in Senders, NEW c \in CPUs, Listed(t, c)
    PROVE  pc[t] \in {"push", "unlock", "send", "wait"} /\ c \notin done[t]
  BY DEF Served, IPIServed, Listed

\* Every step keeps the invariant.
LEMMA ServedStep ==
    ASSUME Typed, Served, [Next]_vars
    PROVE  Served'
<1> USE DEF senderVars, Goto
<1>0. \A t \in Senders, c \in CPUs :
         Listed(t, c) => pc[t] \in {"push", "unlock", "send", "wait"} /\ c \notin done[t]
  BY NotListed
<1>1. ASSUME NEW t \in Senders, ChangePage(t) PROVE Served'
  <2>1. pc[t] = "run" /\ \A c \in CPUs : ~Listed(t, c)
    BY <1>1, <1>0 DEF ChangePage, Thread
  <2>2. IPIServed'
    BY <1>1, <2>1 DEF ChangePage, Typed, TypeOK, Served, IPIServed, Listed
  <2>3. ListedOnce'
    BY <1>1 DEF ChangePage, Served, ListedOnce
  <2>4. Ahead'
    <3>1. \A u \in Senders, b \in CPUs : Listed(u, b)' = Listed(u, b)
      BY <1>1 DEF ChangePage, Listed
    <3>2. \A u \in Senders : Target(u)' = Target(u)
      BY <1>1 DEF ChangePage, Target
    <3> QED
      BY <1>1, <3>1, <3>2, <2>1 DEF ChangePage, Typed, TypeOK, Served, Ahead
  <2> QED
    BY <2>2, <2>3, <2>4 DEF Served
<1>2. ASSUME NEW t \in Senders, Enumerate(t) PROVE Served'
  <2>1. pc[t] = "enumerate" /\ \A c \in CPUs : ~Listed(t, c)
    BY <1>2, <1>0 DEF Enumerate, Thread
  <2> QED
    BY <1>2, <2>1 DEF Enumerate, Typed, TypeOK, Served, IPIServed, ListedOnce, Ahead, Listed, Target
<1>3. ASSUME NEW t \in Senders, Push(t) PROVE Served'
  <2> DEFINE d == Target(t)
  <2>1. d \in CPUs /\ d \in left[t] /\ pc[t] = "push"
    BY <1>3, TargetFacts, Zenon DEF Push, Thread, Typed, TypeOK
  <2>2. ~Listed(t, d) /\ d \notin done[t]
    BY <2>1 DEF Served, Ahead
  <2>3. /\ list[d] \in Seq(Senders)
        /\ list'[d] = Append(list[d], t)
        /\ \A c \in CPUs \ {d} : list'[c] = list[c]
        /\ pc' = [pc EXCEPT ![t] = "unlock"]
        /\ UNCHANGED <<left, done, pending, handler>>
    BY <1>3, <2>1 DEF Push, Typed, TypeOK
  <2>4. /\ Len(list[d]) \in Nat /\ Len(list'[d]) = Len(list[d]) + 1
        /\ \A i \in 1..Len(list[d]) : list'[d][i] = list[d][i]
        /\ list'[d][Len(list[d]) + 1] = t
    BY <2>3, AppendFacts
  <2> HIDE DEF d
  <2>5. IPIServed'
    <3> SUFFICES ASSUME NEW c \in CPUs, NEW i \in 1..Len(list'[c])
                 PROVE  LET s == list'[c][i]
                        IN  /\ pc'[s] \in {"push", "unlock", "send", "wait"} /\ c \notin done'[s]
                            /\ pc'[s] = "wait" => c \in pending' \/ handler'[c] # "none"
      BY DEF IPIServed
    <3>1. CASE c = d /\ i = Len(list[d]) + 1
      BY <3>1, <2>1, <2>2, <2>3, <2>4 DEF Typed, TypeOK
    <3>2. CASE c # d \/ i # Len(list[d]) + 1
      <4>1. i \in 1..Len(list[c]) /\ list'[c][i] = list[c][i]
        BY <3>2, <2>3, <2>4
      <4> QED
        BY <4>1, <2>1, <2>3 DEF Typed, TypeOK, Served, IPIServed
    <3> QED
      BY <3>1, <3>2
  <2>6. ListedOnce'
    <3> SUFFICES ASSUME NEW c \in CPUs, NEW i \in 1..Len(list'[c]), NEW j \in 1..Len(list'[c]),
                        list'[c][i] = list'[c][j]
                 PROVE  i = j
      BY DEF ListedOnce
    <3>1. CASE c = d
      <4>1. \A k \in 1..Len(list[d]) : list'[d][k] = list[d][k] /\ list[d][k] # t
        BY <2>2, <2>4 DEF Listed
      <4>2. CASE i = Len(list[d]) + 1 \/ j = Len(list[d]) + 1
        BY <3>1, <4>1, <4>2, <2>4
      <4>3. CASE i # Len(list[d]) + 1 /\ j # Len(list[d]) + 1
        <5>1. i \in 1..Len(list[d]) /\ j \in 1..Len(list[d])
          BY <3>1, <4>3, <2>4
        <5> QED
          BY <3>1, <4>1, <5>1, <2>1 DEF Served, ListedOnce
      <4> QED
        BY <4>2, <4>3
    <3>2. CASE c # d
      BY <3>2, <2>3 DEF Served, ListedOnce
    <3> QED
      BY <3>1, <3>2
  <2>7. Ahead'
    <3>1. \A u \in Senders, c \in CPUs : Listed(u, c)' => Listed(u, c) \/ (u = t /\ c = d)
      BY <2>3, <2>4 DEF Listed
    <3>2. \A u \in Senders : Target(u)' = Target(u)
      BY <2>3 DEF Target
    <3> QED
      BY <3>1, <3>2, <2>1, <2>3 DEF Typed, TypeOK, Served, Ahead, d
  <2> QED
    BY <2>5, <2>6, <2>7 DEF Served
<1>4. ASSUME NEW t \in Senders, PushUnlock(t) PROVE Served'
  <2>1. \A u \in Senders \ {t} : Target(u)' = Target(u)
    BY <1>4 DEF PushUnlock, Target, Typed, TypeOK
  <2>2. \A u \in Senders, c \in CPUs : Listed(u, c)' = Listed(u, c)
    BY <1>4 DEF PushUnlock, Listed
  <2>3. Ahead'
    BY <1>4, <2>1, <2>2 DEF PushUnlock, Thread, Typed, TypeOK, Served, Ahead
  <2>4. IPIServed' /\ ListedOnce'
    BY <1>4 DEF PushUnlock, Thread, Typed, TypeOK, Served, IPIServed, ListedOnce
  <2> QED
    BY <2>3, <2>4 DEF Served
<1>5. ASSUME NEW t \in Senders, EnumerateEnd(t) PROVE Served'
  BY <1>5 DEF EnumerateEnd, Thread, Typed, TypeOK, Served, IPIServed, ListedOnce, Ahead, Listed, Target
<1>6. ASSUME NEW t \in Senders, Send(t) PROVE Served'
  BY <1>6 DEF Send, Thread, Typed, TypeOK, Served, IPIServed, ListedOnce, Ahead, Listed, Target
<1>7. ASSUME NEW t \in Senders, Wait(t) PROVE Served'
  <2>1. pc[t] = "wait" /\ \A c \in CPUs : ~Listed(t, c)
    BY <1>7, <1>0 DEF Wait, Thread
  <2>2. IPIServed'
    BY <1>7, <2>1 DEF Wait, Typed, TypeOK, Served, IPIServed, Listed
  <2>3. ListedOnce'
    BY <1>7 DEF Wait, Served, ListedOnce
  <2>4. Ahead'
    <3>1. \A u \in Senders, b \in CPUs : Listed(u, b)' = Listed(u, b)
      BY <1>7 DEF Wait, Listed
    <3>2. \A u \in Senders : Target(u)' = Target(u)
      BY <1>7 DEF Wait, Target
    <3> QED
      BY <1>7, <3>1, <3>2, <2>1 DEF Wait, Typed, TypeOK, Served, Ahead
  <2> QED
    BY <2>2, <2>3, <2>4 DEF Served
<1>8. ASSUME NEW t \in Senders, Preempt(t) \/ Dispatch(t) PROVE Served'
  <2>2. IPIServed'
    BY <1>8 DEF Preempt, Dispatch, Typed, TypeOK, Served, IPIServed, Listed
  <2>3. ListedOnce'
    BY <1>8 DEF Preempt, Dispatch, Served, ListedOnce
  <2>4. Ahead'
    <3>1. \A u \in Senders, b \in CPUs : Listed(u, b)' = Listed(u, b)
      BY <1>8 DEF Preempt, Dispatch, Listed
    <3>2. \A u \in Senders : Target(u)' = Target(u)
      BY <1>8 DEF Preempt, Dispatch, Target
    <3> QED
      BY <1>8, <3>1, <3>2, SMTT(30) DEF Preempt, Dispatch, Typed, TypeOK, Served, Ahead
  <2> QED
    BY <2>2, <2>3, <2>4 DEF Served
<1>9. ASSUME NEW c \in CPUs, TakeNMI(c) PROVE Served'
  <2>2. IPIServed'
    BY <1>9 DEF TakeNMI, Typed, TypeOK, Served, IPIServed, Listed
  <2>3. ListedOnce'
    BY <1>9 DEF TakeNMI, Served, ListedOnce
  <2>4. Ahead'
    <3>1. \A u \in Senders, b \in CPUs : Listed(u, b)' = Listed(u, b)
      BY <1>9 DEF TakeNMI, Listed
    <3>2. \A u \in Senders : Target(u)' = Target(u)
      BY <1>9 DEF TakeNMI, Target
    <3> QED
      BY <1>9, <3>1, <3>2 DEF TakeNMI, Typed, TypeOK, Served, Ahead
  <2> QED
    BY <2>2, <2>3, <2>4 DEF Served
<1>10. ASSUME NEW c \in CPUs, HandlerLock(c) PROVE Served'
  <2>2. IPIServed'
    BY <1>10 DEF HandlerLock, Typed, TypeOK, Served, IPIServed
  <2>3. ListedOnce'
    BY <1>10 DEF HandlerLock, Served, ListedOnce
  <2>4. Ahead'
    <3>1. \A u \in Senders, b \in CPUs : Listed(u, b)' = Listed(u, b)
      BY <1>10 DEF HandlerLock, Listed
    <3>2. \A u \in Senders : Target(u)' = Target(u)
      BY <1>10 DEF HandlerLock, Target
    <3> QED
      BY <1>10, <3>1, <3>2 DEF HandlerLock, Served, Ahead
  <2> QED
    BY <2>2, <2>3, <2>4 DEF Served
<1>11. ASSUME NEW c \in CPUs, Handle(c) PROVE Served'
  <2> DEFINE h == Head(list[c])
  <2>1. /\ h \in Senders /\ h = list[c][1] /\ 1 \in 1..Len(list[c])
        /\ list' = [list EXCEPT ![c] = Tail(list[c])]
        /\ done' = [done EXCEPT ![h] = @ \cup {c}]
        /\ \A i \in 1..Len(list'[c]) : i + 1 \in 1..Len(list[c]) /\ list'[c][i] = list[c][i + 1]
        /\ \A b \in CPUs \ {c} : list'[b] = list[b]
        /\ UNCHANGED <<pc, left, pending, handler>>
    BY <1>11, TailFacts DEF Handle, Typed, TypeOK
  <2>2. Listed(h, c)
    BY <2>1 DEF Listed
  <2> HIDE DEF h
  <2>3. IPIServed'
    <3> SUFFICES ASSUME NEW b \in CPUs, NEW i \in 1..Len(list'[b])
                 PROVE  LET s == list'[b][i]
                        IN  /\ pc'[s] \in {"push", "unlock", "send", "wait"} /\ b \notin done'[s]
                            /\ pc'[s] = "wait" => b \in pending' \/ handler'[b] # "none"
      BY DEF IPIServed
    <3>1. CASE b = c
      <4>1. i + 1 \in 1..Len(list[c]) /\ list'[c][i] = list[c][i + 1] /\ list[c][i + 1] # h
        BY <3>1, <2>1 DEF Served, ListedOnce
      <4> QED
        BY <3>1, <4>1, <2>1 DEF Typed, TypeOK, Served, IPIServed
    <3>2. CASE b # c
      <4>1. i \in 1..Len(list[b]) /\ list'[b][i] = list[b][i] /\ list[b][i] \in Senders
        BY <3>2, <2>1 DEF Typed, TypeOK
      <4> QED
        BY <3>2, <4>1, <2>1 DEF Typed, TypeOK, Served, IPIServed
    <3> QED
      BY <3>1, <3>2
  <2>4. ListedOnce'
    BY <2>1 DEF Served, ListedOnce
  <2>5. Ahead'
    <3>1. \A u \in Senders, b \in CPUs : Listed(u, b)' => Listed(u, b)
      BY <2>1 DEF Listed
    <3>2. \A u \in Senders : Target(u)' = Target(u)
      BY <2>1 DEF Target
    <3> QED
      <4>1. pc[h] # "enumerate"
        BY <2>1, <2>2, <1>0
      <4> SUFFICES ASSUME NEW u \in Senders
                   PROVE  /\ pc[u] = "enumerate" => done'[u] = {}
                          /\ \A b \in CPUs :
                                (pc[u] = "push" \/ (pc[u] = "unlock" /\ b # Target(u))) /\ b \in left[u] =>
                                    ~Listed(u, b)' /\ b \notin done'[u]
        BY <3>2, <2>1 DEF Ahead
      <4>2. CASE u = h
        BY <4>1, <4>2, <3>1, <2>1, <2>2 DEF Typed, TypeOK, Served, Ahead
      <4>3. CASE u # h
        <5>1. done'[u] = done[u]
          BY <4>3, <2>1 DEF Typed, TypeOK
        <5> QED
          BY <5>1, <3>1 DEF Served, Ahead
      <4> QED
        BY <4>2, <4>3
  <2> QED
    BY <2>3, <2>4, <2>5 DEF Served
<1>12. ASSUME NEW c \in CPUs, HandlerReturn(c) PROVE Served'
  <2>2. IPIServed'
    BY <1>12 DEF HandlerReturn, Typed, TypeOK, Served, IPIServed, Listed
  <2>3. ListedOnce'
    BY <1>12 DEF HandlerReturn, Served, ListedOnce
  <2>4. Ahead'
    <3>1. \A u \in Senders, b \in CPUs : Listed(u, b)' = Listed(u, b)
      BY <1>12 DEF HandlerReturn, Listed
    <3>2. \A u \in Senders : Target(u)' = Target(u)
      BY <1>12 DEF HandlerReturn, Target
    <3> QED
      BY <1>12, <3>1, <3>2 DEF HandlerReturn, Typed, TypeOK, Served, Ahead
  <2> QED
    BY <2>2, <2>3, <2>4 DEF Served
<1>13. ASSUME NEW c \in CPUs, NEW p \in Followed, Fill(c, p) PROVE Served'
  BY <1>13 DEF Fill, Served, IPIServed, ListedOnce, Ahead, Listed, Target
<1>14. CASE UNCHANGED vars
  BY <1>14 DEF vars, Served, IPIServed, ListedOnce, Ahead, Listed, Target
<1> QED
  BY <1>1, <1>2, <1>3, <1>4, <1>5, <1>6, <1>7, <1>8, <1>9, <1>10, <1>11, <1>12, <1>13, <1>14
     DEF Next, Proceed, IPIHandler

\* As long as an IPI is on a CPU's list, its sender waits for it, and once its
\* NMI is sent the CPU has one pending or is in the handler.
THEOREM NoIPIForgotten == Spec => []IPIServed
<1>1. Init => Typed /\ Served
  BY DEF Init, Typed, TypeOK, Locking, Served, IPIServed, ListedOnce, Ahead, Listed
<1>2. Typed /\ Served /\ [Next]_vars => Typed' /\ Served'
  BY TypeStep, ServedStep
<1> QED
  BY <1>1, <1>2, PTL DEF Spec, Served

-----------------------------------------------------------------------------
(***************************************************************************)
(* The frame allocator, for any number of processors and any memory: no    *)
(* count is lost between the two sections of an operation, and frames are  *)
(* handed out once as long as no two operations overlap.                   *)
(***************************************************************************)
INSTANCE FiniteSetTheorems

CONSTANTS Processors, Boot, MemSize, EarlyLimit, BitmapPages, MemoryMaps, NoFrame, MaxHeld, MaxReserved

VARIABLES map, m_Bitmap, m_size, m_FreeMem, m_UsedMem, m_ReservedMem, m_nextFree, m_fullyInitialised,
          framePc, page, panicked, held, reserved, skew, overlapped

Allocator == INSTANCE FrameAllocator WITH CPUs <- Processors, pc <- framePc

-----------------------------------------------------------------------------
(***************************************************************************)
(* Counting.                                                               *)
(***************************************************************************)

\* The instance counts with the Cardinality of this module.
LEMMA SameCardinality ==
    ASSUME NEW S
    PROVE  Allocator!Cardinality(S) = Cardinality(S) /\ (Allocator!IsFiniteSet(S) <=> IsFiniteSet(S))
<1>1. Allocator!Cardinality(S) = Cardinality(S)
  BY DEF Cardinality, Allocator!Cardinality
<1>2. Allocator!IsFiniteSet(S) <=> IsFiniteSet(S)
  BY Zenon DEF IsFiniteSet, Allocator!IsFiniteSet
<1> QED
  BY <1>1, <1>2

\* Adding an element to a finite set, or taking one away, changes its size by one.
LEMMA OneMore ==
    ASSUME NEW S, IsFiniteSet(S), NEW x, x \notin S
    PROVE  IsFiniteSet(S \cup {x}) /\ Allocator!Cardinality(S \cup {x}) = Allocator!Cardinality(S) + 1
           /\ Allocator!Cardinality(S) \in Nat
  BY SameCardinality, FS_AddElement, FS_CardinalityType

\* The same for an element taken away.
LEMMA OneLess ==
    ASSUME NEW S, IsFiniteSet(S), NEW x \in S
    PROVE  IsFiniteSet(S \ {x}) /\ Allocator!Cardinality(S \ {x}) = Allocator!Cardinality(S) - 1
           /\ Allocator!Cardinality(S) \in Nat
  BY SameCardinality, FS_RemoveElement, FS_CardinalityType

\* The frames and their clear bits are finitely many.
LEMMA FreeFinite ==
    ASSUME Allocator!Machine, NEW bitmap, NEW size
    PROVE  IsFiniteSet(Allocator!FreeBits(bitmap, size)) /\ Allocator!Cardinality(Allocator!FreeBits(bitmap, size)) \in Nat
<1>1. IsFiniteSet(Allocator!Frames)
  BY FS_Interval DEF Allocator!Machine, Allocator!Frames
<1>2. Allocator!FreeBits(bitmap, size) \subseteq Allocator!Frames
  BY DEF Allocator!FreeBits
<1> QED
  BY <1>1, <1>2, SameCardinality, FS_Subset, FS_CardinalityType

\* Setting a clear bit takes a frame off the free ones, clearing one adds it.
LEMMA SetBit ==
    ASSUME Allocator!Machine, NEW bitmap \in [Allocator!Frames -> BOOLEAN], NEW size \in Nat,
           NEW i \in Allocator!Frames, i < size, ~bitmap[i]
    PROVE  Allocator!Cardinality(Allocator!FreeBits([bitmap EXCEPT ![i] = TRUE], size))
             = Allocator!Cardinality(Allocator!FreeBits(bitmap, size)) - 1
<1>1. i \in Allocator!FreeBits(bitmap, size)
  BY DEF Allocator!FreeBits
<1>2. Allocator!FreeBits([bitmap EXCEPT ![i] = TRUE], size) = Allocator!FreeBits(bitmap, size) \ {i}
  BY DEF Allocator!FreeBits
<1> QED
  BY <1>1, <1>2, FreeFinite, OneLess, Zenon

\* The same for a bit that is cleared.
LEMMA ClearedBit ==
    ASSUME Allocator!Machine, NEW bitmap \in [Allocator!Frames -> BOOLEAN], NEW size \in Nat,
           NEW i \in Allocator!Frames, i < size, bitmap[i]
    PROVE  Allocator!Cardinality(Allocator!FreeBits([bitmap EXCEPT ![i] = FALSE], size))
             = Allocator!Cardinality(Allocator!FreeBits(bitmap, size)) + 1
<1>1. i \notin Allocator!FreeBits(bitmap, size)
  BY DEF Allocator!FreeBits
<1>2. Allocator!FreeBits([bitmap EXCEPT ![i] = FALSE], size) = Allocator!FreeBits(bitmap, size) \cup {i}
  BY DEF Allocator!FreeBits
<1> QED
  BY <1>1, <1>2, FreeFinite, OneMore, Zenon

\* The processors at some places of an operation.
At(where, kinds) == {c \in Processors : where[c] \in kinds}

\* The processors at some places are finitely many.
LEMMA AtFinite ==
    ASSUME Allocator!Machine, NEW where, NEW kinds
    PROVE  IsFiniteSet(At(where, kinds)) /\ Allocator!Cardinality(At(where, kinds)) \in Nat
<1>1. At(where, kinds) \subseteq Processors
  BY DEF At
<1> QED
  BY <1>1, SameCardinality, FS_Subset, FS_CardinalityType DEF Allocator!Machine

\* One for a place among these, zero for any other.
Among(at, kinds) == IF at \in kinds THEN 1 ELSE 0

\* A processor that moves from one place to another.
OnlyMoves(c, where, new) == \A d \in Processors \ {c} : new[d] = where[d]

\* A processor that goes from one place to another changes how many are at
\* some places by what it leaves and enters.
LEMMA Moves ==
    ASSUME Allocator!Machine, NEW where, NEW new, NEW c \in Processors, NEW kinds,
           OnlyMoves(c, where, new)
    PROVE  Allocator!Cardinality(At(new, kinds))
             = Allocator!Cardinality(At(where, kinds)) + Among(new[c], kinds) - Among(where[c], kinds)
<1>1. IsFiniteSet(At(where, kinds)) /\ Allocator!Cardinality(At(where, kinds)) \in Nat
  BY AtFinite
<1>2. CASE new[c] \in kinds /\ where[c] \notin kinds
  <2>1. At(new, kinds) = At(where, kinds) \cup {c} /\ c \notin At(where, kinds)
    BY <1>2 DEF At, OnlyMoves
  <2>2. Allocator!Cardinality(At(new, kinds)) = Allocator!Cardinality(At(where, kinds)) + 1
    BY <1>1, <2>1, OneMore
  <2> QED
    BY <1>1, <1>2, <2>2 DEF Among
<1>3. CASE new[c] \notin kinds /\ where[c] \in kinds
  <2>1. At(new, kinds) = At(where, kinds) \ {c} /\ c \in At(where, kinds)
    BY <1>3 DEF At, OnlyMoves
  <2>2. Allocator!Cardinality(At(new, kinds)) = Allocator!Cardinality(At(where, kinds)) - 1
    BY <1>1, <2>1, OneLess
  <2> QED
    BY <1>1, <1>3, <2>2 DEF Among
<1>4. CASE new[c] \in kinds <=> where[c] \in kinds
  <2>1. At(new, kinds) = At(where, kinds)
    BY <1>4 DEF At, OnlyMoves
  <2> QED
    BY <1>1, <1>4, <2>1 DEF Among
<1> QED
  BY <1>2, <1>3, <1>4

-----------------------------------------------------------------------------
(***************************************************************************)
(* Types, and the frames that an operation can be about: only those that   *)
(* the bitmap covers.  Before FullInit only the boot processor operates.   *)
(***************************************************************************)

FramesTyped ==
    /\ Allocator!TypeOK /\ map \in MemoryMaps
    /\ m_size <= MemSize
    /\ ~m_fullyInitialised =>
          /\ MemSize > EarlyLimit => m_size = EarlyLimit
          /\ \A c \in Processors : c # Boot => framePc[c] = "idle"
    /\ \A i \in Allocator!Frames : held[i] > 0 \/ i \in reserved => i < m_size
    /\ \A c \in Processors : framePc[c] # "idle" => page[c] < m_size
    /\ m_nextFree # NoFrame => m_nextFree \in Allocator!Frames /\ m_nextFree < m_size

\* A bitmap entered from the memory map has a bit for every frame.
LEMMA EnteredType ==
    ASSUME NEW bitmap \in [Allocator!Frames -> BOOLEAN], NEW entries, NEW from
    PROVE  Allocator!EnterMap(bitmap, entries, from) \in [Allocator!Frames -> BOOLEAN]
  BY Zenon DEF Allocator!EnterMap

\* The boot processor's early bitmap has its type.
LEMMA TypedInit ==
    ASSUME Allocator!Machine, Allocator!Init
    PROVE  FramesTyped
<1>1. m_Bitmap \in [Allocator!Frames -> BOOLEAN]
  BY EnteredType, Zenon DEF Allocator!Init, Allocator!EarlyBitmap
<1>2. m_FreeMem \in Int /\ m_ReservedMem \in Int /\ skew \in Int
  <2> DEFINE free == Allocator!Lengths(map, TRUE)
             other == Allocator!Lengths(map, FALSE)
             clear == Allocator!Cardinality(Allocator!FreeBits(m_Bitmap, m_size))
  <2>1. free \in Nat /\ other \in Nat
    BY Zenon DEF Allocator!Init, Allocator!Machine
  <2>2. clear \in Nat
    BY FreeFinite
  <2>3. /\ m_FreeMem = free /\ skew = m_FreeMem - clear
        /\ m_ReservedMem = other + IF Allocator!EarlyBitmap(map)[0] THEN 0 ELSE 1
    BY DEF Allocator!Init
  <2> HIDE DEF free, other, clear
  <2> QED
    BY <2>1, <2>2, <2>3
<1>3. m_size \in Nat /\ m_size <= MemSize /\ 0 \in Allocator!Frames
  BY DEF Allocator!Init, Allocator!Machine, Allocator!Frames
<1>4. Allocator!TypeOK
  <2>1. /\ m_UsedMem = 0 /\ m_nextFree = NoFrame /\ m_fullyInitialised = FALSE
        /\ framePc = [c \in Processors |-> "idle"] /\ page = [c \in Processors |-> 0]
        /\ panicked = FALSE /\ overlapped = FALSE
        /\ held = [i \in Allocator!Frames |-> 0] /\ reserved = {}
    BY DEF Allocator!Init
  <2>2. /\ framePc \in [Processors -> {"idle", "lock", "used", "free", "reserve", "unreserve"}]
        /\ page \in [Processors -> Allocator!Frames] /\ held \in [Allocator!Frames -> Nat]
    BY <1>3, <2>1
  <2>3. m_nextFree \in Allocator!Frames \cup {NoFrame} /\ m_UsedMem \in Int
    BY <2>1
  <2> QED
    BY <1>1, <1>2, <1>3, <2>1, <2>2, <2>3, Zenon DEF Allocator!TypeOK
<1>5. map \in MemoryMaps /\ m_nextFree = NoFrame /\ reserved = {}
  BY DEF Allocator!Init
<1>6. (\A c \in Processors : framePc[c] = "idle") /\ (\A i \in Allocator!Frames : held[i] = 0)
  BY DEF Allocator!Init
<1>7. MemSize > EarlyLimit => m_size = EarlyLimit
  BY DEF Allocator!Init
<1> QED
  BY <1>3, <1>4, <1>5, <1>6, <1>7 DEF FramesTyped

\* The frame that FindFreePage chooses is one that the bitmap covers; without a
\* guess it is a clear one.
Found == IF m_nextFree # NoFrame THEN m_nextFree ELSE Allocator!Min(Allocator!FreeBits(m_Bitmap, m_size))

\* The next guess is another clear frame, or none.
LEMMA FoundCovered ==
    ASSUME Allocator!Machine, FramesTyped, m_nextFree # NoFrame \/ Allocator!FreeBits(m_Bitmap, m_size) # {}
    PROVE  /\ Found \in Allocator!Frames /\ Found < m_size
           /\ m_nextFree = NoFrame => ~m_Bitmap[Found]
           /\ Allocator!NextGuess(Found) # NoFrame =>
                 /\ Allocator!NextGuess(Found) \in Allocator!Frames /\ Allocator!NextGuess(Found) < m_size
                 /\ ~m_Bitmap[Allocator!NextGuess(Found)] /\ Allocator!NextGuess(Found) # Found
<1>1. Allocator!FreeBits(m_Bitmap, m_size) \subseteq Nat
  BY DEF Allocator!FreeBits, Allocator!Frames, Allocator!Machine
<1>2. m_nextFree = NoFrame => Found \in Allocator!FreeBits(m_Bitmap, m_size)
  BY <1>1, HasLeast DEF Found, Allocator!Min
<1>3. Found \in Allocator!Frames /\ Found < m_size
  BY <1>2 DEF FramesTyped, Found, Allocator!FreeBits
<1>4. m_nextFree = NoFrame => ~m_Bitmap[Found]
  BY <1>2 DEF Allocator!FreeBits
<1>5. Allocator!NextGuess(Found) # NoFrame =>
        Allocator!NextGuess(Found) = Found + 1 /\ Found + 1 < m_size /\ ~m_Bitmap[Found + 1]
  BY <1>3 DEF Allocator!NextGuess, Allocator!Bit
<1>6. Found + 1 < m_size => Found + 1 \in Allocator!Frames /\ Found + 1 # Found
  BY <1>3 DEF FramesTyped, Allocator!TypeOK, Allocator!Frames, Allocator!Machine
<1> HIDE DEF Found
<1> QED
  BY <1>3, <1>4, <1>5, <1>6

\* FullInit keeps the types,
LEMMA TypedFullInit ==
    ASSUME Allocator!Machine, FramesTyped, Allocator!FullInit
    PROVE  FramesTyped'
<1> DEFINE at == Allocator!FindFreePages(m_Bitmap, m_size, BitmapPages)
           taken == {i \in Allocator!Frames : i < m_size /\ i \in at..(at + BitmapPages - 1)}
           old == [i \in Allocator!Frames |-> IF i < m_size THEN m_Bitmap[i] \/ i \in taken ELSE TRUE]
           free == Allocator!Lengths(Allocator!LateEntries(map), TRUE)
           other == Allocator!Lengths(Allocator!LateEntries(map), FALSE)
<1>1. Allocator!Cardinality(taken) \in Nat
  <2>1. IsFiniteSet(Allocator!Frames)
    BY FS_Interval DEF Allocator!Machine, Allocator!Frames
  <2>2. taken \subseteq Allocator!Frames
    OBVIOUS
  <2> HIDE DEF taken
  <2> QED
    BY <2>1, <2>2, SameCardinality, FS_Subset, FS_CardinalityType, SMTT(30)
<1>2. old \in [Allocator!Frames -> BOOLEAN]
  BY Zenon DEF FramesTyped, Allocator!TypeOK
<1>3. /\ m_Bitmap' = Allocator!EnterMap(old, Allocator!LateEntries(map), EarlyLimit)
      /\ m_FreeMem' = m_FreeMem - Allocator!Cardinality(taken) + free
      /\ m_UsedMem' = m_UsedMem + Allocator!Cardinality(taken)
      /\ m_ReservedMem' = m_ReservedMem + other
      /\ m_size' = MemSize /\ m_nextFree' = NoFrame /\ m_fullyInitialised' = TRUE
      /\ skew' = m_FreeMem' - Allocator!Cardinality(Allocator!FreeBits(m_Bitmap', m_size'))
      /\ UNCHANGED <<map, framePc, page, panicked, held, reserved, overlapped>>
  BY DEF Allocator!FullInit
<1>5. free \in Nat /\ other \in Nat
  BY Zenon DEF Allocator!Machine, FramesTyped
<1> HIDE DEF at, taken, old, free, other
<1>4. m_Bitmap' \in [Allocator!Frames -> BOOLEAN]
  BY <1>2, <1>3, EnteredType
<1>6. m_FreeMem' \in Int /\ m_UsedMem' \in Int /\ m_ReservedMem' \in Int
  <2>1. m_FreeMem \in Int /\ m_UsedMem \in Int /\ m_ReservedMem \in Int
    BY DEF FramesTyped, Allocator!TypeOK
  <2> QED
    BY <1>1, <1>3, <1>5, <2>1
<1>7. skew' \in Int
  <2>1. Allocator!Cardinality(Allocator!FreeBits(m_Bitmap', m_size')) \in Nat
    BY FreeFinite, SMTT(30)
  <2> QED
    BY <1>3, <1>6, <2>1
<1>8. Allocator!TypeOK'
  BY <1>3, <1>4, <1>6, <1>7 DEF FramesTyped, Allocator!TypeOK, Allocator!Machine
<1>9. \A i \in Allocator!Frames : i < MemSize
  BY DEF Allocator!Frames, Allocator!Machine
<1>10. page \in [Processors -> Allocator!Frames] /\ MemSize \in Nat
  BY DEF FramesTyped, Allocator!TypeOK, Allocator!Machine
<1> QED
  BY <1>3, <1>8, <1>9, <1>10 DEF FramesTyped

\* so does the search for a free frame,
LEMMA TypedFind ==
    ASSUME Allocator!Machine, FramesTyped, NEW c \in Processors, Allocator!FindFreePage(c)
    PROVE  FramesTyped'
<1>1. CASE m_nextFree = NoFrame /\ Allocator!FreeBits(m_Bitmap, m_size) = {}
  BY <1>1 DEF Allocator!FindFreePage, Allocator!Enter, FramesTyped, Allocator!TypeOK, Allocator!boot
<1>2. CASE m_nextFree # NoFrame \/ Allocator!FreeBits(m_Bitmap, m_size) # {}
  <2>1. /\ page' = [page EXCEPT ![c] = Found] /\ framePc' = [framePc EXCEPT ![c] = "lock"]
        /\ m_nextFree' = Allocator!NextGuess(Found) /\ UNCHANGED panicked
    BY <1>2 DEF Allocator!FindFreePage, Found
  <2>2. /\ UNCHANGED <<Allocator!boot, m_Bitmap, m_FreeMem, m_UsedMem, m_ReservedMem, held, reserved>>
        /\ overlapped' \in BOOLEAN /\ (c = Boot \/ m_fullyInitialised)
    BY DEF Allocator!FindFreePage, Allocator!Enter, Allocator!Running, FramesTyped, Allocator!TypeOK
  <2>3. /\ Found \in Allocator!Frames /\ Found < m_size
        /\ Allocator!NextGuess(Found) # NoFrame => Allocator!NextGuess(Found) \in Allocator!Frames /\ Allocator!NextGuess(Found) < m_size
    BY <1>2, FoundCovered
  <2>4. Allocator!TypeOK'
    BY <2>1, <2>2, <2>3 DEF FramesTyped, Allocator!TypeOK, Allocator!boot
  <2> QED
    BY <2>1, <2>2, <2>3, <2>4, SMTT(30) DEF FramesTyped, Allocator!TypeOK, Allocator!boot
<1> QED
  BY <1>1, <1>2, SMTT(30)

\* so do the sections that set and clear bits,
LEMMA TypedSections ==
    ASSUME Allocator!Machine, FramesTyped, NEW c \in Processors, NEW i \in Allocator!Frames,
           Allocator!LockPage(c) \/ Allocator!FreePage(c, i) \/ Allocator!ReservePage(c, i) \/ Allocator!UnreservePage(c, i)
    PROVE  FramesTyped'
<1>1. CASE Allocator!LockPage(c)
  BY <1>1 DEF Allocator!LockPage, Allocator!Running, FramesTyped, Allocator!TypeOK, Allocator!boot,
     Allocator!counters
<1>2. CASE Allocator!FreePage(c, i)
  BY <1>2 DEF Allocator!FreePage, Allocator!ClearBit, Allocator!Enter, Allocator!Running, FramesTyped,
     Allocator!TypeOK, Allocator!boot, Allocator!counters
<1>3. CASE Allocator!ReservePage(c, i)
  BY <1>3 DEF Allocator!ReservePage, Allocator!Enter, Allocator!Running, FramesTyped, Allocator!TypeOK,
     Allocator!boot, Allocator!counters
<1>4. CASE Allocator!UnreservePage(c, i)
  BY <1>4 DEF Allocator!UnreservePage, Allocator!ClearBit, Allocator!Enter, Allocator!Running, FramesTyped,
     Allocator!TypeOK, Allocator!boot, Allocator!counters
<1> QED
  BY <1>1, <1>2, <1>3, <1>4, SMTT(30)

\* Whether a processor at this place owes a lower or a higher count.
OwesLower(at) == Among(at, {"used", "reserve"})
OwesRaise(at) == Among(at, {"free", "unreserve"})

\* What the second section adds to the free memory.
LEMMA Counts ==
    ASSUME NEW kind \in {"used", "free", "reserve", "unreserve"}
    PROVE  /\ Allocator!Count(kind)[1] \in Int /\ Allocator!Count(kind)[2] \in Int /\ Allocator!Count(kind)[3] \in Int
           /\ Allocator!Count(kind)[1] = OwesRaise(kind) - OwesLower(kind)
  BY DEF Allocator!Count, OwesRaise, OwesLower, Among

\* and so do those that adjust the counts.
LEMMA TypedSettle ==
    ASSUME Allocator!Machine, FramesTyped, NEW c \in Processors, Allocator!Settle(c)
    PROVE  FramesTyped'
<1>1. m_FreeMem' \in Int /\ m_UsedMem' \in Int /\ m_ReservedMem' \in Int
  BY Counts DEF Allocator!Settle, FramesTyped, Allocator!TypeOK
<1>2. m_nextFree' \in {page[c], NoFrame, m_nextFree}
  BY DEF Allocator!Settle, Allocator!Guess
<1>3. page[c] \in Allocator!Frames /\ page[c] < m_size
  BY DEF Allocator!Settle, FramesTyped, Allocator!TypeOK
<1>4. /\ framePc' = [framePc EXCEPT ![c] = "idle"]
      /\ UNCHANGED <<Allocator!boot, m_Bitmap, page, panicked, held, reserved, overlapped>>
  BY DEF Allocator!Settle
<1>5. Allocator!TypeOK'
  BY <1>1, <1>2, <1>3, <1>4, SMTT(30) DEF FramesTyped, Allocator!TypeOK, Allocator!boot
<1> QED
  BY <1>2, <1>3, <1>4, <1>5, SMTT(30) DEF FramesTyped, Allocator!TypeOK, Allocator!boot

\* Every step keeps the types.
LEMMA TypedNext ==
    ASSUME Allocator!Machine, FramesTyped, [Allocator!Next]_(Allocator!vars)
    PROVE  FramesTyped'
<1>1. CASE UNCHANGED Allocator!vars
  BY <1>1 DEF Allocator!vars, Allocator!boot, Allocator!counters, FramesTyped, Allocator!TypeOK
<1>2. CASE Allocator!FullInitPanics
  BY <1>2 DEF Allocator!FullInitPanics, Allocator!boot, Allocator!counters, FramesTyped, Allocator!TypeOK
<1>3. CASE Allocator!FullInit
  BY <1>3, TypedFullInit
<1>4. ASSUME NEW c \in Processors, Allocator!FindFreePage(c) \/ Allocator!LockPage(c) \/ Allocator!Settle(c)
      PROVE  FramesTyped'
  <2>1. 0 \in Allocator!Frames
    BY DEF Allocator!Frames, Allocator!Machine
  <2> QED
    BY <1>4, <2>1, TypedFind, TypedSections, TypedSettle, SMTT(30)
<1>5. ASSUME NEW c \in Processors, NEW i \in Allocator!Frames,
             Allocator!FreePage(c, i) \/ Allocator!ReservePage(c, i) \/ Allocator!UnreservePage(c, i)
      PROVE  FramesTyped'
  BY <1>5, TypedSections
<1> QED
  BY <1>1, <1>2, <1>3, <1>4, <1>5, SMTT(30) DEF Allocator!Next

-----------------------------------------------------------------------------
(***************************************************************************)
(* The counts.                                                             *)
(***************************************************************************)

\* FramesAccounted over numbers: the clear bits, and the processors whose second
\* section will lower or raise the free memory.
Clear == Allocator!Cardinality(Allocator!FreeBits(m_Bitmap, m_size))
Lower == Allocator!Cardinality(At(framePc, {"used", "reserve"}))
Raise == Allocator!Cardinality(At(framePc, {"free", "unreserve"}))

\* FramesAccounted, with these names.
LEMMA AccountedIs ==
    Allocator!FramesAccounted <=> m_FreeMem - Lower + Raise = Clear + skew
  BY DEF Allocator!FramesAccounted, Allocator!Doing, At, Lower, Raise, Clear

\* The three counts are natural numbers.
LEMMA Numbers ==
    ASSUME Allocator!Machine, FramesTyped
    PROVE  /\ m_FreeMem \in Int /\ skew \in Int
           /\ Clear \in Nat /\ Lower \in Nat /\ Raise \in Nat
<1>1. m_FreeMem \in Int /\ skew \in Int
  BY DEF FramesTyped, Allocator!TypeOK
<1>2. Clear \in Nat
  BY FreeFinite DEF Clear
<1>3. Lower \in Nat /\ Raise \in Nat
  BY AtFinite DEF Lower, Raise
<1> QED
  BY <1>1, <1>2, <1>3

\* With every processor idle no second section is owed.
LEMMA NoneOwed ==
    ASSUME \A c \in Processors : framePc[c] = "idle"
    PROVE  Lower = 0 /\ Raise = 0
<1>1. At(framePc, {"used", "reserve"}) = {} /\ At(framePc, {"free", "unreserve"}) = {}
  BY DEF At
<1> QED
  BY <1>1, SameCardinality, FS_EmptySet DEF Lower, Raise

\* How a processor's step from one place to another changes what is owed.
LEMMA OwedAfter ==
    ASSUME Allocator!Machine, FramesTyped, NEW c \in Processors, NEW to, framePc' = [framePc EXCEPT ![c] = to]
    PROVE  /\ Lower' = Lower + OwesLower(to) - OwesLower(framePc[c])
           /\ Raise' = Raise + OwesRaise(to) - OwesRaise(framePc[c])
<1>1. framePc'[c] = to /\ OnlyMoves(c, framePc, framePc')
  BY DEF FramesTyped, Allocator!TypeOK, OnlyMoves
<1>2. Lower' = Allocator!Cardinality(At(framePc', {"used", "reserve"}))
  BY DEF Lower, At
<1>3. Raise' = Allocator!Cardinality(At(framePc', {"free", "unreserve"}))
  BY DEF Raise, At
<1>4. ASSUME NEW kinds
      PROVE  Allocator!Cardinality(At(framePc', kinds))
               = Allocator!Cardinality(At(framePc, kinds)) + Among(framePc'[c], kinds) - Among(framePc[c], kinds)
  BY <1>1, Moves, ZenonT(40)
<1> QED
  BY <1>1, <1>2, <1>3, <1>4, Zenon DEF Lower, Raise, OwesLower, OwesRaise

\* The boot's miscount is the skew.
LEMMA AccountedInit ==
    ASSUME Allocator!Machine, Allocator!Init
    PROVE  Allocator!FramesAccounted
<1>1. FramesTyped
  BY TypedInit
<1>2. Lower = 0 /\ Raise = 0
  BY NoneOwed DEF Allocator!Init
<1>3. skew = m_FreeMem - Clear
  BY DEF Allocator!Init, Clear
<1> QED
  BY <1>1, <1>2, <1>3, Numbers, AccountedIs

\* FullInit counts anew, with no operation under way.
LEMMA AccountedFullInit ==
    ASSUME Allocator!Machine, FramesTyped, Allocator!FullInit
    PROVE  Allocator!FramesAccounted'
<1>1. FramesTyped'
  BY TypedFullInit
<1>2. \A c \in Processors : framePc'[c] = "idle"
  BY DEF Allocator!FullInit, FramesTyped
<1>3. Lower' = 0 /\ Raise' = 0
  <2>1. At(framePc, {"used", "reserve"})' = {} /\ At(framePc, {"free", "unreserve"})' = {}
    BY <1>2 DEF At
  <2> QED
    BY <2>1, SameCardinality, FS_EmptySet DEF Lower, Raise
<1>4. skew' = m_FreeMem' - Clear'
  BY DEF Allocator!FullInit, Clear
<1>5. m_FreeMem' \in Int /\ Clear' \in Nat
  <2>1. Clear' \in Nat
    BY FreeFinite DEF Clear
  <2> QED
    BY <1>1, <2>1 DEF FramesTyped, Allocator!TypeOK
<1>6. Allocator!FramesAccounted' <=> m_FreeMem' - Lower' + Raise' = Clear' + skew'
  BY DEF Allocator!FramesAccounted, Allocator!Doing, At, Lower, Raise, Clear
<1> QED
  BY <1>3, <1>4, <1>5, <1>6

\* A first section changes a bit, and owes the count for it.
LEMMA AccountedSection ==
    ASSUME Allocator!Machine, FramesTyped, Allocator!FramesAccounted, NEW c \in Processors,
           framePc[c] \in {"idle", "lock"},
           NEW i \in Allocator!Frames, i < m_size, NEW bit \in BOOLEAN,
           m_Bitmap' = [m_Bitmap EXCEPT ![i] = bit],
           NEW kind \in {"used", "free", "reserve", "unreserve"},
           bit <=> kind \in {"used", "reserve"},
           framePc' = [framePc EXCEPT ![c] = IF m_Bitmap[i] <=> bit THEN "idle" ELSE kind],
           m_FreeMem' = m_FreeMem, skew' = skew, m_size' = m_size
    PROVE  Allocator!FramesAccounted'
<1>1. m_FreeMem - Lower + Raise = Clear + skew
  BY AccountedIs
<1>2. Allocator!FramesAccounted' <=> m_FreeMem' - Lower' + Raise' = Clear' + skew'
  BY DEF Allocator!FramesAccounted, Allocator!Doing, At, Lower, Raise, Clear
<1>3. m_Bitmap \in [Allocator!Frames -> BOOLEAN] /\ m_size \in Nat
  BY DEF FramesTyped, Allocator!TypeOK
<1>4. CASE m_Bitmap[i] <=> bit
  <2>1. m_Bitmap' = m_Bitmap /\ framePc' = [framePc EXCEPT ![c] = "idle"]
    BY <1>3, <1>4, Zenon
  <2>2. Clear' = Clear
    BY <2>1 DEF Clear
  <2>3. Lower' = Lower /\ Raise' = Raise
    <3>1. /\ Lower' = Lower + OwesLower("idle") - OwesLower(framePc[c])
          /\ Raise' = Raise + OwesRaise("idle") - OwesRaise(framePc[c])
      BY <2>1, OwedAfter, Zenon
    <3> QED
      BY <3>1, Numbers DEF OwesLower, OwesRaise, Among
  <2> QED
    BY <1>1, <1>2, <2>2, <2>3
<1>5. CASE ~m_Bitmap[i] /\ bit
  <2>1. m_Bitmap' = [m_Bitmap EXCEPT ![i] = TRUE] /\ framePc' = [framePc EXCEPT ![c] = kind]
    BY <1>3, <1>5
  <2>2. Clear' = Clear - 1
    <3>1. Clear' = Allocator!Cardinality(Allocator!FreeBits([m_Bitmap EXCEPT ![i] = TRUE], m_size))
      BY <2>1, Zenon DEF Clear
    <3> QED
      BY <1>3, <1>5, <3>1, SetBit, Zenon DEF Clear
  <2>3. Lower' = Lower + 1 /\ Raise' = Raise
    <3>1. /\ Lower' = Lower + OwesLower(kind) - OwesLower(framePc[c])
          /\ Raise' = Raise + OwesRaise(kind) - OwesRaise(framePc[c])
      BY <2>1, OwedAfter, Zenon
    <3> QED
      BY <1>5, <3>1, Numbers DEF OwesLower, OwesRaise, Among
  <2> QED
    BY <1>1, <1>2, <2>2, <2>3, Numbers, SMTT(30)
<1>6. CASE m_Bitmap[i] /\ ~bit
  <2>1. m_Bitmap' = [m_Bitmap EXCEPT ![i] = FALSE] /\ framePc' = [framePc EXCEPT ![c] = kind]
    BY <1>3, <1>6, Zenon
  <2>2. Clear' = Clear + 1
    <3>1. Clear' = Allocator!Cardinality(Allocator!FreeBits([m_Bitmap EXCEPT ![i] = FALSE], m_size))
      BY <2>1, Zenon DEF Clear
    <3> QED
      BY <1>3, <1>6, <3>1, ClearedBit, Zenon DEF Clear
  <2>3. Lower' = Lower /\ Raise' = Raise + 1
    <3>1. /\ Lower' = Lower + OwesLower(kind) - OwesLower(framePc[c])
          /\ Raise' = Raise + OwesRaise(kind) - OwesRaise(framePc[c])
      BY <2>1, OwedAfter, Zenon
    <3> QED
      BY <1>6, <3>1, Numbers DEF OwesLower, OwesRaise, Among
  <2> QED
    BY <1>1, <1>2, <2>2, <2>3, Numbers, SMTT(30)
<1> QED
  BY <1>3, <1>4, <1>5, <1>6, SMTT(30)

\* A second section pays what the first one owed.
LEMMA AccountedSettle ==
    ASSUME Allocator!Machine, FramesTyped, Allocator!FramesAccounted, NEW c \in Processors, Allocator!Settle(c)
    PROVE  Allocator!FramesAccounted'
<1>1. m_FreeMem - Lower + Raise = Clear + skew
  BY AccountedIs, SMTT(30)
<1>2. Allocator!FramesAccounted' <=> m_FreeMem' - Lower' + Raise' = Clear' + skew'
  BY DEF Allocator!FramesAccounted, Allocator!Doing, At, Lower, Raise, Clear
<1>3. framePc[c] \in {"used", "free", "reserve", "unreserve"} /\ framePc' = [framePc EXCEPT ![c] = "idle"]
  BY DEF Allocator!Settle
<1>4. m_FreeMem' = m_FreeMem + Allocator!Count(framePc[c])[1] /\ skew' = skew
  BY DEF Allocator!Settle, Allocator!boot
<1>5. Clear' = Clear
  BY DEF Allocator!Settle, Allocator!boot, Clear
<1>6. /\ Lower' = Lower + OwesLower("idle") - OwesLower(framePc[c])
      /\ Raise' = Raise + OwesRaise("idle") - OwesRaise(framePc[c])
  BY <1>3, OwedAfter, Zenon
<1>7. Allocator!Count(framePc[c])[1] = OwesRaise(framePc[c]) - OwesLower(framePc[c])
  BY <1>3, Counts
<1>8. /\ OwesLower("idle") = 0 /\ OwesRaise("idle") = 0
      /\ OwesLower(framePc[c]) \in Nat /\ OwesRaise(framePc[c]) \in Nat
  BY DEF OwesLower, OwesRaise, Among
<1> QED
  BY <1>1, <1>2, <1>4, <1>5, <1>6, <1>7, <1>8, Numbers, SMTT(30)

\* Every step keeps the account.
LEMMA AccountedNext ==
    ASSUME Allocator!Machine, FramesTyped, Allocator!FramesAccounted, [Allocator!Next]_(Allocator!vars)
    PROVE  Allocator!FramesAccounted'
<1>1. CASE UNCHANGED Allocator!vars \/ Allocator!FullInitPanics
  BY <1>1 DEF Allocator!vars, Allocator!boot, Allocator!counters, Allocator!FullInitPanics,
     Allocator!FramesAccounted, Allocator!Doing
<1>2. CASE Allocator!FullInit
  BY <1>2, AccountedFullInit
<1>3. ASSUME NEW c \in Processors, Allocator!FindFreePage(c)
      PROVE  Allocator!FramesAccounted'
  <2>1. /\ framePc[c] = "idle" /\ m_Bitmap' = m_Bitmap /\ m_size' = m_size
        /\ m_FreeMem' = m_FreeMem /\ skew' = skew
        /\ framePc' = framePc \/ framePc' = [framePc EXCEPT ![c] = "lock"]
    BY <1>3 DEF Allocator!FindFreePage, Allocator!Enter, Allocator!boot
  <2>2. CASE framePc' = framePc
    BY <2>1, <2>2 DEF Allocator!FramesAccounted, Allocator!Doing
  <2>3. CASE framePc' = [framePc EXCEPT ![c] = "lock"]
    <3>1. Lower' = Lower /\ Raise' = Raise
      <4>1. /\ Lower' = Lower + OwesLower("lock") - OwesLower(framePc[c])
            /\ Raise' = Raise + OwesRaise("lock") - OwesRaise(framePc[c])
        BY <2>3, OwedAfter, Zenon
      <4> QED
        BY <2>1, <4>1, Numbers DEF OwesLower, OwesRaise, Among
    <3>2. Clear' = Clear
      BY <2>1, SMTT(30) DEF Clear
    <3>3. Allocator!FramesAccounted' <=> m_FreeMem' - Lower' + Raise' = Clear' + skew'
      BY DEF Allocator!FramesAccounted, Allocator!Doing, At, Lower, Raise, Clear
    <3> QED
      BY <2>1, <3>1, <3>2, <3>3, AccountedIs, SMTT(30)
  <2> QED
    BY <2>1, <2>2, <2>3, SMTT(30)
<1>4. ASSUME NEW c \in Processors, Allocator!LockPage(c)
      PROVE  Allocator!FramesAccounted'
  <2>1. page[c] \in Allocator!Frames /\ page[c] < m_size /\ framePc[c] = "lock"
    BY <1>4 DEF Allocator!LockPage, FramesTyped, Allocator!TypeOK
  <2>2. /\ m_Bitmap' = [m_Bitmap EXCEPT ![page[c]] = TRUE]
        /\ framePc' = [framePc EXCEPT ![c] = IF m_Bitmap[page[c]] <=> TRUE THEN "idle" ELSE "used"]
        /\ m_FreeMem' = m_FreeMem /\ skew' = skew /\ m_size' = m_size
    BY <1>4 DEF Allocator!LockPage, Allocator!boot, Allocator!counters
  <2> QED
    BY <2>1, <2>2, AccountedSection, Zenon
<1>5. ASSUME NEW c \in Processors, NEW i \in Allocator!Frames, NEW kind \in {"free", "unreserve"},
             Allocator!ClearBit(c, i, kind), i < m_size
      PROVE  Allocator!FramesAccounted'
  <2>1. /\ framePc[c] = "idle" /\ m_Bitmap' = [m_Bitmap EXCEPT ![i] = FALSE]
        /\ framePc' = [framePc EXCEPT ![c] = IF m_Bitmap[i] <=> FALSE THEN "idle" ELSE kind]
        /\ m_FreeMem' = m_FreeMem /\ skew' = skew /\ m_size' = m_size
    BY <1>5, Zenon DEF Allocator!ClearBit, Allocator!Enter, Allocator!boot, Allocator!counters
  <2> QED
    BY <1>5, <2>1, AccountedSection, Zenon
<1>6. ASSUME NEW c \in Processors, NEW i \in Allocator!Frames, Allocator!ReservePage(c, i)
      PROVE  Allocator!FramesAccounted'
  <2>1. /\ framePc[c] = "idle" /\ m_Bitmap' = [m_Bitmap EXCEPT ![i] = TRUE] /\ i < m_size
        /\ framePc' = [framePc EXCEPT ![c] = IF m_Bitmap[i] <=> TRUE THEN "idle" ELSE "reserve"]
        /\ m_FreeMem' = m_FreeMem /\ skew' = skew /\ m_size' = m_size
    BY <1>6, SMTT(30) DEF Allocator!ReservePage, Allocator!Enter, Allocator!boot, Allocator!counters
  <2> QED
    BY <2>1, AccountedSection, Zenon
<1>7. ASSUME NEW c \in Processors, NEW i \in Allocator!Frames, Allocator!FreePage(c, i) \/ Allocator!UnreservePage(c, i)
      PROVE  i < m_size /\ \E kind \in {"free", "unreserve"} : Allocator!ClearBit(c, i, kind)
  BY <1>7 DEF Allocator!FreePage, Allocator!UnreservePage, FramesTyped
<1> QED
  BY <1>1, <1>2, <1>3, <1>4, <1>5, <1>6, <1>7, AccountedSettle, SMTT(30) DEF Allocator!Next

\* For any number of processors and any memory map, the free memory is always the
\* number of clear bits up to the boot's miscount and the sections still owed:
\* no interleaving of the allocator's two-section operations loses a count.
THEOREM CountsKept ==
    ASSUME Allocator!Machine
    PROVE  Allocator!Spec => []Allocator!FramesAccounted
<1>1. Allocator!Init => FramesTyped /\ Allocator!FramesAccounted
  BY TypedInit, AccountedInit
<1>2. FramesTyped /\ Allocator!FramesAccounted /\ [Allocator!Next]_(Allocator!vars) => (FramesTyped /\ Allocator!FramesAccounted)'
  BY TypedNext, AccountedNext
<1> QED
  BY <1>1, <1>2, PTL DEF Allocator!Spec

-----------------------------------------------------------------------------
(***************************************************************************)
(* Frames are handed out once.  As long as no two operations overlap: one  *)
(* processor operates at a time; a held or reserved frame is marked; the   *)
(* frame between FindFreePage and LockPage is clear and no longer the      *)
(* guess; the guess is clear, but for a reservation that has not reached   *)
(* its second section.                                                     *)
(***************************************************************************)

OneAtATime == \A c, d \in Processors : framePc[c] # "idle" /\ framePc[d] # "idle" => c = d

Marked ==
    \A i \in Allocator!Frames :
        /\ held[i] <= 1
        /\ held[i] = 1 => m_Bitmap[i] /\ i \notin reserved
        /\ i \in reserved => m_Bitmap[i]

Chosen ==
    \A c \in Processors :
        /\ framePc[c] \in {"lock", "free", "unreserve"} => ~m_Bitmap[page[c]]
        /\ framePc[c] = "lock" => m_nextFree = NoFrame \/ m_nextFree # page[c]

GuessClear ==
    m_nextFree # NoFrame /\ m_Bitmap[m_nextFree] =>
        \E c \in Processors : framePc[c] = "reserve" /\ page[c] = m_nextFree

Apart == ~overlapped => OneAtATime /\ Marked /\ Chosen /\ GuessClear

\* What an operation finds when it does not overlap another.
LEMMA Alone ==
    ASSUME FramesTyped, Apart, NEW c \in Processors, Allocator!Enter(c), ~overlapped'
    PROVE  /\ ~overlapped /\ Marked
           /\ \A d \in Processors : framePc[d] = "idle"
           /\ m_nextFree # NoFrame => ~m_Bitmap[m_nextFree]
<1>1. ~overlapped /\ \A d \in Processors : framePc[d] = "idle"
  BY Zenon DEF Allocator!Enter, FramesTyped, Allocator!TypeOK
<1> QED
  BY <1>1 DEF Apart, GuessClear

\* FullInit runs alone.
LEMMA ApartFullInit ==
    ASSUME Allocator!Machine, FramesTyped, Apart, Allocator!FullInit, ~overlapped'
    PROVE  OneAtATime' /\ Marked' /\ Chosen' /\ GuessClear'
<1>1. /\ MemSize > EarlyLimit /\ ~m_fullyInitialised /\ m_nextFree' = NoFrame
      /\ UNCHANGED <<framePc, page, held, reserved>> /\ framePc[Boot] = "idle" /\ ~overlapped
  BY DEF Allocator!FullInit
<1>2. \A d \in Processors : framePc'[d] = "idle"
  BY <1>1 DEF FramesTyped
<1>3. \A i \in Allocator!Frames : i < EarlyLimit /\ m_Bitmap[i] => m_Bitmap'[i]
  <2> DEFINE at == Allocator!FindFreePages(m_Bitmap, m_size, BitmapPages)
             taken == {i \in Allocator!Frames : i < m_size /\ i \in at..(at + BitmapPages - 1)}
             old == [i \in Allocator!Frames |-> IF i < m_size THEN m_Bitmap[i] \/ i \in taken ELSE TRUE]
  <2>1. m_Bitmap' = Allocator!EnterMap(old, Allocator!LateEntries(map), EarlyLimit)
    BY DEF Allocator!FullInit
  <2>2. \A i \in Allocator!Frames : m_Bitmap[i] => old[i]
    BY Zenon
  <2> HIDE DEF old
  <2> QED
    BY <2>1, <2>2, SMTT(30) DEF Allocator!EnterMap
<1>4. m_size = EarlyLimit
  BY <1>1, SMTT(30) DEF FramesTyped
<1>5. Marked'
  BY <1>1, <1>3, <1>4, SMTT(30) DEF Apart, Marked, FramesTyped, Allocator!TypeOK
<1> QED
  BY <1>1, <1>2, <1>5, SMTT(30) DEF OneAtATime, Chosen, GuessClear

\* A frame that is found with nobody else at work is clear.
LEMMA ApartFind ==
    ASSUME Allocator!Machine, FramesTyped, Apart, NEW c \in Processors, Allocator!FindFreePage(c), ~overlapped'
    PROVE  OneAtATime' /\ Marked' /\ Chosen' /\ GuessClear'
<1>1. /\ Marked /\ \A d \in Processors : framePc[d] = "idle"
      /\ m_nextFree # NoFrame => ~m_Bitmap[m_nextFree]
  BY Alone DEF Allocator!FindFreePage
<1>2. UNCHANGED <<m_Bitmap, held, reserved>>
  BY SMTT(30) DEF Allocator!FindFreePage
<1>3. Marked'
  BY <1>1, <1>2, SMTT(30) DEF Marked
<1>4. CASE m_nextFree = NoFrame /\ Allocator!FreeBits(m_Bitmap, m_size) = {}
  <2>1. UNCHANGED <<m_nextFree, framePc, page>>
    BY <1>4 DEF Allocator!FindFreePage
  <2> QED
    BY <1>1, <1>2, <1>3, <2>1, SMTT(30) DEF OneAtATime, Chosen, GuessClear
<1>5. CASE m_nextFree # NoFrame \/ Allocator!FreeBits(m_Bitmap, m_size) # {}
  <2>1. /\ page' = [page EXCEPT ![c] = Found] /\ framePc' = [framePc EXCEPT ![c] = "lock"]
        /\ m_nextFree' = Allocator!NextGuess(Found)
    BY <1>5, SMTT(30) DEF Allocator!FindFreePage, Found
  <2>2. ~m_Bitmap[Found]
    BY <1>1, <1>5, FoundCovered, SMTT(30) DEF Found
  <2>3. Allocator!NextGuess(Found) # NoFrame => ~m_Bitmap[Allocator!NextGuess(Found)] /\ Allocator!NextGuess(Found) # Found
    BY <1>5, FoundCovered, SMTT(30)
  <2>4. Found \in Allocator!Frames /\ (m_nextFree' = NoFrame \/ m_nextFree' # Found)
    BY <1>5, <2>1, <2>3, FoundCovered, SMTT(30)
  <2>5. OneAtATime'
    BY <1>1, <2>1 DEF OneAtATime, FramesTyped, Allocator!TypeOK
  <2>6. GuessClear'
    BY <1>2, <2>1, <2>3, SMTT(30) DEF GuessClear
  <2>7. Chosen'
    BY <1>1, <1>2, <2>1, <2>2, <2>4, SMTT(30) DEF Chosen, FramesTyped, Allocator!TypeOK
  <2> QED
    BY <1>3, <2>5, <2>6, <2>7, SMTT(30)
<1> QED
  BY <1>4, <1>5, SMTT(30)

\* Setting its bit hands it out to one caller.
LEMMA ApartLock ==
    ASSUME FramesTyped, Apart, NEW c \in Processors, Allocator!LockPage(c), ~overlapped'
    PROVE  OneAtATime' /\ Marked' /\ Chosen' /\ GuessClear'
<1>1. /\ framePc[c] = "lock" /\ UNCHANGED <<m_nextFree, page, reserved>> /\ ~overlapped
      /\ m_Bitmap' = [m_Bitmap EXCEPT ![page[c]] = TRUE]
      /\ held' = [held EXCEPT ![page[c]] = @ + 1]
  BY DEF Allocator!LockPage, Allocator!counters
<1>2. OneAtATime /\ Marked /\ Chosen /\ GuessClear /\ page[c] \in Allocator!Frames
  BY <1>1 DEF Apart, FramesTyped, Allocator!TypeOK
<1>3. /\ ~m_Bitmap[page[c]] /\ (m_nextFree = NoFrame \/ m_nextFree # page[c])
      /\ framePc' = [framePc EXCEPT ![c] = "used"]
      /\ \A d \in Processors \ {c} : framePc[d] = "idle"
  BY <1>1, <1>2, Zenon DEF Chosen, Allocator!LockPage, OneAtATime
<1>4. OneAtATime'
  BY <1>3, SMTT(30) DEF OneAtATime, FramesTyped, Allocator!TypeOK
<1>5. Marked'
  <2>1. held[page[c]] = 0 /\ page[c] \notin reserved
    BY <1>2, <1>3, SMTT(30) DEF Marked, FramesTyped, Allocator!TypeOK
  <2> QED
    BY <1>1, <1>2, <2>1, SMTT(30) DEF Marked, FramesTyped, Allocator!TypeOK
<1>6. Chosen'
  BY <1>3, SMTT(30) DEF Chosen, FramesTyped, Allocator!TypeOK
<1>7. GuessClear'
  <2>1. m_nextFree # NoFrame => ~m_Bitmap[m_nextFree]
    BY <1>1, <1>2, <1>3 DEF GuessClear
  <2> QED
    BY <1>1, <1>3, <2>1, SMTT(30) DEF GuessClear, FramesTyped, Allocator!TypeOK
<1> QED
  BY <1>4, <1>5, <1>6, <1>7, SMTT(30)

\* Clearing a bit gives the frame back.
LEMMA ApartClear ==
    ASSUME FramesTyped, Apart, NEW c \in Processors, NEW i \in Allocator!Frames, ~overlapped',
           Allocator!FreePage(c, i) \/ Allocator!UnreservePage(c, i)
    PROVE  OneAtATime' /\ Marked' /\ Chosen' /\ GuessClear'
<1>1. PICK kind \in {"free", "unreserve"} : Allocator!ClearBit(c, i, kind)
  BY DEF Allocator!FreePage, Allocator!UnreservePage
<1>2. /\ Marked /\ \A d \in Processors : framePc[d] = "idle"
      /\ m_nextFree # NoFrame => ~m_Bitmap[m_nextFree]
  BY <1>1, Alone DEF Allocator!ClearBit
<1>3. /\ m_Bitmap' = [m_Bitmap EXCEPT ![i] = FALSE] /\ UNCHANGED m_nextFree
      /\ page' = [page EXCEPT ![c] = i]
      /\ framePc' = [framePc EXCEPT ![c] = IF m_Bitmap[i] THEN kind ELSE "idle"]
  BY <1>1, SMTT(30) DEF Allocator!ClearBit, Allocator!counters
<1>4. OneAtATime'
  BY <1>2, <1>3 DEF OneAtATime, FramesTyped, Allocator!TypeOK
<1>5. Marked'
  <2>1. CASE Allocator!FreePage(c, i)
    BY <1>2, <1>3, <2>1, SMTT(30) DEF Allocator!FreePage, Marked, FramesTyped, Allocator!TypeOK
  <2>2. CASE Allocator!UnreservePage(c, i)
    BY <1>2, <1>3, <2>2, SMTT(30) DEF Allocator!UnreservePage, Marked, FramesTyped, Allocator!TypeOK
  <2> QED
    BY <2>1, <2>2, SMTT(30)
<1>6. Chosen'
  BY <1>2, <1>3, SMTT(30) DEF Chosen, FramesTyped, Allocator!TypeOK
<1>7. GuessClear'
  BY <1>2, <1>3 DEF GuessClear, FramesTyped, Allocator!TypeOK
<1> QED
  BY <1>4, <1>5, <1>6, <1>7, SMTT(30)

\* Reserving marks a frame, and leaves the guess to the second section.
LEMMA ApartReserve ==
    ASSUME FramesTyped, Apart, NEW c \in Processors, NEW i \in Allocator!Frames, ~overlapped',
           Allocator!ReservePage(c, i)
    PROVE  OneAtATime' /\ Marked' /\ Chosen' /\ GuessClear'
<1>1. /\ Marked /\ \A d \in Processors : framePc[d] = "idle"
      /\ m_nextFree # NoFrame => ~m_Bitmap[m_nextFree]
  BY Alone DEF Allocator!ReservePage
<1>2. /\ m_Bitmap' = [m_Bitmap EXCEPT ![i] = TRUE] /\ UNCHANGED <<m_nextFree, held>>
      /\ page' = [page EXCEPT ![c] = i]
      /\ framePc' = [framePc EXCEPT ![c] = IF m_Bitmap[i] THEN "idle" ELSE "reserve"]
      /\ reserved' = IF m_Bitmap[i] THEN reserved ELSE reserved \cup {i}
  BY DEF Allocator!ReservePage, Allocator!counters
<1>3. OneAtATime'
  BY <1>1, <1>2, SMTT(30) DEF OneAtATime, FramesTyped, Allocator!TypeOK
<1>4. Marked'
  BY <1>1, <1>2, SMTT(30) DEF Marked, FramesTyped, Allocator!TypeOK
<1>5. Chosen'
  BY <1>1, <1>2, SMTT(30) DEF Chosen, FramesTyped, Allocator!TypeOK
<1>6. GuessClear'
  BY <1>1, <1>2, SMTT(30) DEF GuessClear, FramesTyped, Allocator!TypeOK
<1> QED
  BY <1>3, <1>4, <1>5, <1>6, SMTT(30)

\* The counts do not matter to the frames.
LEMMA ApartSettle ==
    ASSUME FramesTyped, Apart, NEW c \in Processors, Allocator!Settle(c), ~overlapped'
    PROVE  OneAtATime' /\ Marked' /\ Chosen' /\ GuessClear'
<1>1. /\ framePc[c] \in {"used", "free", "reserve", "unreserve"} /\ ~overlapped
      /\ framePc' = [framePc EXCEPT ![c] = "idle"] /\ m_nextFree' = Allocator!Guess(framePc[c], page[c])
      /\ UNCHANGED <<m_Bitmap, page, held, reserved>>
  BY DEF Allocator!Settle
<1>2. OneAtATime /\ Marked /\ Chosen /\ GuessClear
  BY <1>1 DEF Apart
<1>3. \A d \in Processors : framePc'[d] = "idle"
  BY <1>1, <1>2, SMTT(30) DEF OneAtATime, FramesTyped, Allocator!TypeOK
<1>4. Marked'
  BY <1>1, <1>2 DEF Marked
<1>5. m_nextFree' # NoFrame => ~m_Bitmap[m_nextFree']
  <2>1. CASE framePc[c] \in {"free", "unreserve"}
    BY <1>1, <1>2, <2>1, SMTT(30) DEF Allocator!Guess, Chosen
  <2>2. CASE framePc[c] \in {"used", "reserve"}
    <3>1. m_nextFree' # NoFrame =>
            m_nextFree' = m_nextFree /\ (framePc[c] = "reserve" => m_nextFree # page[c])
      BY <1>1, <2>2 DEF Allocator!Guess
    <3>2. \A d \in Processors : framePc[d] = "reserve" => d = c
      BY <1>1, <1>2, SMTT(30) DEF OneAtATime
    <3> QED
      BY <1>2, <3>1, <3>2 DEF GuessClear
  <2> QED
    BY <1>1, <2>1, <2>2
<1> QED
  BY <1>1, <1>3, <1>4, <1>5, SMTT(30) DEF OneAtATime, Chosen, GuessClear

\* Every step keeps frames apart.
LEMMA ApartNext ==
    ASSUME Allocator!Machine, FramesTyped, Apart, [Allocator!Next]_(Allocator!vars)
    PROVE  Apart'
<1> SUFFICES ASSUME ~overlapped'
             PROVE  OneAtATime' /\ Marked' /\ Chosen' /\ GuessClear'
  BY SMTT(30) DEF Apart
<1>1. CASE UNCHANGED Allocator!vars \/ Allocator!FullInitPanics
  <2>1. UNCHANGED <<m_Bitmap, m_nextFree, framePc, page, held, reserved, overlapped>>
    BY <1>1 DEF Allocator!vars, Allocator!counters, Allocator!FullInitPanics
  <2> QED
    BY <2>1 DEF Apart, OneAtATime, Marked, Chosen, GuessClear
<1> QED
  BY <1>1, ApartFullInit, ApartFind, ApartLock, ApartClear, ApartReserve, ApartSettle, SMTT(30) DEF Allocator!Next

\* The invariant holds throughout.
LEMMA SafeInvariant ==
    ASSUME Allocator!Machine
    PROVE  Allocator!Spec => [](FramesTyped /\ Apart)
<1>1. Allocator!Init => FramesTyped /\ Apart
  <2>1. Allocator!Init => Apart
    BY DEF Allocator!Init, Apart, OneAtATime, Marked, Chosen, GuessClear
  <2> QED
    BY <2>1, TypedInit, SMTT(30)
<1>2. FramesTyped /\ Apart /\ [Allocator!Next]_(Allocator!vars) => (FramesTyped /\ Apart)'
  BY TypedNext, ApartNext
<1> QED
  BY <1>1, <1>2, PTL DEF Allocator!Spec

\* For any machine: as long as no two operations of the allocator overlap, no frame has
\* two holders and none that is held or reserved is about to be handed out, although
\* FindFreePage and LockPage are separate sections.
THEOREM FramesHandedOutOnce ==
    ASSUME Allocator!Machine
    PROVE  Allocator!Spec => []Allocator!HandedOutOnce
<1>1. FramesTyped /\ Apart => Allocator!HandedOutOnce
  BY SMTT(30) DEF FramesTyped, Allocator!TypeOK, Apart, Marked, Chosen, Allocator!HandedOutOnce
<1> QED
  BY <1>1, SafeInvariant, PTL

\* For any machine: m_nextFree, which FindFreePage trusts, is a clear frame whenever
\* no operation is under way and none has overlapped.
THEOREM GuessStaysFree ==
    ASSUME Allocator!Machine
    PROVE  Allocator!Spec => []Allocator!GuessIsFree
<1>1. FramesTyped /\ Apart => Allocator!GuessIsFree
  BY DEF FramesTyped, Allocator!TypeOK, Apart, GuessClear, Allocator!GuessIsFree, Allocator!Doing, Allocator!Bit
<1> QED
  BY <1>1, SafeInvariant, PTL
=============================================================================
