-------------------------- MODULE SemaphoreProofs --------------------------
(***************************************************************************)
(* Proofs, for any finite set of threads, any initial value and any width  *)
(* of m_value, of the safety properties of module Semaphore.               *)
(***************************************************************************)
EXTENDS Semaphore, SequenceTheorems, FiniteSetTheorems, TLAPS

(***************************************************************************)
(* Facts about the list operations.                                        *)
(***************************************************************************)

\* Deleting an entry of m_holders shortens the list by one.
LEMMA WithoutEntryFacts ==
    ASSUME NEW S, NEW s \in Seq(S), NEW i \in 1..Len(s)
    PROVE  /\ WithoutEntry(s, i) \in Seq(S)
           /\ Len(WithoutEntry(s, i)) = Len(s) - 1
<1>1. Len(s) \in Nat /\ \A j \in 1..Len(s) : s[j] \in S
  BY LenProperties, ElementOfSeq
<1>2. /\ SubSeq(s, 1, i - 1) \in Seq(S)
      /\ Len(SubSeq(s, 1, i - 1)) = i - 1
  <2>1. \A j \in 1..(i - 1) : s[j] \in S
    BY <1>1
  <2>2. /\ SubSeq(s, 1, i - 1) \in Seq(S)
        /\ Len(SubSeq(s, 1, i - 1)) =
              IF 1 <= i - 1 THEN (i - 1) - 1 + 1 ELSE 0
    BY <2>1, <1>1, SubSeqProperties
  <2> QED
    BY <2>2, <1>1
<1>3. /\ SubSeq(s, i + 1, Len(s)) \in Seq(S)
      /\ Len(SubSeq(s, i + 1, Len(s))) = Len(s) - i
  <2>1. \A j \in (i + 1)..Len(s) : s[j] \in S
    BY <1>1
  <2>2. /\ SubSeq(s, i + 1, Len(s)) \in Seq(S)
        /\ Len(SubSeq(s, i + 1, Len(s))) =
              IF i + 1 <= Len(s) THEN Len(s) - (i + 1) + 1 ELSE 0
    BY <2>1, <1>1, SubSeqProperties
  <2> QED
    BY <2>2, <1>1
<1> DEFINE p == SubSeq(s, 1, i - 1)
           q == SubSeq(s, i + 1, Len(s))
<1>4. p \o q \in Seq(S) /\ Len(p \o q) = Len(p) + Len(q)
  <2> HIDE DEF p, q
  <2>1. p \in Seq(S) /\ q \in Seq(S)
    BY <1>2, <1>3 DEF p, q
  <2> QED
    BY <2>1, ConcatProperties
<1>5. WithoutEntry(s, i) = p \o q
  BY DEF WithoutEntry
<1>6. Len(p) = i - 1 /\ Len(q) = Len(s) - i
  BY <1>2, <1>3
<1>7. Len(p \o q) = Len(s) - 1
  <2> HIDE DEF p, q
  <2> QED
    BY <1>1, <1>4, <1>6
<1> QED
  BY <1>4, <1>5, <1>7, Zenon

\* What Append does to a list of threads.
LEMMA AppendFacts ==
    ASSUME NEW S, NEW s \in Seq(S), NEW x \in S
    PROVE  /\ Append(s, x) \in Seq(S)
           /\ Len(Append(s, x)) = Len(s) + 1
           /\ \A i \in 1..Len(s) : Append(s, x)[i] = s[i]
           /\ Append(s, x)[Len(s) + 1] = x
  BY LenProperties

\* m_value stays in range under ++ and --, which differ from +1 and -1 by a
\* multiple of W.
LEMMA CounterFacts ==
    ASSUME NEW v \in 0..(W - 1)
    PROVE  /\ Inc(v) \in 0..(W - 1)
           /\ Dec(v) \in 0..(W - 1)
           /\ Inc(v) = v + 1 \/ Inc(v) = v + 1 - W
           /\ Dec(v) = v - 1 \/ Dec(v) = v - 1 + W
  BY ValueAssumption DEF Inc, Dec

-----------------------------------------------------------------------------
(***************************************************************************)
(* Type correctness.                                                       *)
(***************************************************************************)

\* A release() that has popped a waiter has a thread, not the null pointer.
NextThreadOK ==
    \A r \in Threads : pc[r] \in Handing => nextThread[r] \in Threads

\* One step of any thread keeps every variable in its type.
LEMMA TypeStep ==
    ASSUME TypeOK, NextThreadOK, NEW t \in Threads,
           SysAcquire(t) \/ SysRelease(t) \/ SysDestroy(t) \/ Step(t)
    PROVE  TypeOK' /\ NextThreadOK'
<1> USE DEF TypeOK, NextThreadOK, Handing, Goto
<1>0. NoThread \notin Threads
  BY ThreadsAssumption
<1>1. CASE SysAcquire(t)
  BY <1>1 DEF SysAcquire, Steps, ObjectSteps
<1>2. CASE SysRelease(t)
  BY <1>2 DEF SysRelease, Steps, ObjectSteps
<1>3. CASE SysDestroy(t)
  BY <1>3 DEF SysDestroy, Steps, ObjectSteps
<1>4. CASE AcquireFast(t)
  BY <1>4, CounterFacts, Zenon DEF AcquireFast, Steps, ObjectSteps
<1>5. CASE AcquireSlow(t)
  <2>1. Append(m_waitingThreads, t) \in Seq(Threads)
    BY AppendFacts
  <2>2. CASE m_value = 0
    BY <1>5, <2>1, <2>2, Zenon DEF AcquireSlow, Steps, ObjectSteps
  <2>3. CASE m_value # 0
    BY <1>5, <2>3, CounterFacts, Zenon DEF AcquireSlow, Steps, ObjectSteps
  <2> QED
    BY <2>2, <2>3
<1>6. CASE AcquireInsert(t)
  BY <1>6, AppendFacts DEF AcquireInsert, Steps, ObjectSteps
<1>7. CASE AcquireBlock(t)
  BY <1>7 DEF AcquireBlock, Steps, ObjectSteps
<1>8. CASE LeaveCPU(t)
  BY <1>8 DEF LeaveCPU
<1>9. CASE Dispatch(t)
  BY <1>9 DEF Dispatch, Steps, ObjectSteps
<1>10. CASE ReleaseFind(t)
  <2>1. CASE Holds(t)
    <3>1. PICK i \in 1..Len(m_holders) :
             m_holders' = WithoutEntry(m_holders, i) /\ Goto(t, "rel_inc")
      BY <1>10, <2>1 DEF ReleaseFind
    <3>2. m_holders' \in Seq(Threads)
      BY <3>1, WithoutEntryFacts
    <3> QED
      BY <1>10, <3>1, <3>2 DEF ReleaseFind, Steps, ObjectSteps
  <2>2. CASE ~Holds(t)
    BY <1>10, <2>2 DEF ReleaseFind, Steps, ObjectSteps
  <2> QED
    BY <2>1, <2>2
<1>11. CASE ReleaseIncrement(t)
  BY <1>11, CounterFacts, Zenon DEF ReleaseIncrement, Steps, ObjectSteps
<1>12. CASE ReleasePop(t)
  <2>1. CASE m_waitingThreads # <<>>
    <3>1. /\ Head(m_waitingThreads) \in Threads
          /\ Tail(m_waitingThreads) \in Seq(Threads)
      BY <2>1, HeadTailProperties
    <3>2. PICK h \in Threads :
             /\ nextThread' = [nextThread EXCEPT ![t] = h]
             /\ m_waitingThreads' \in Seq(Threads)
             /\ Goto(t, "rel_dec")
      BY <1>12, <2>1, <3>1, Zenon DEF ReleasePop
    <3>3. /\ UNCHANGED <<m_value, m_lock, m_holders, leaving, registered, alive>>
      BY <1>12 DEF ReleasePop
    <3> QED
      BY <3>2, <3>3 DEF Steps, ObjectSteps
  <2>2. CASE m_waitingThreads = <<>>
    BY <1>12, <2>2 DEF ReleasePop, Steps, ObjectSteps
  <2> QED
    BY <2>1, <2>2
<1>13. CASE ReleaseDecrement(t)
  BY <1>13, CounterFacts, Zenon DEF ReleaseDecrement, Steps, ObjectSteps
<1>14. CASE ReleaseInsert(t)
  BY <1>14, AppendFacts DEF ReleaseInsert, Steps, ObjectSteps
<1>15. CASE ReleaseWake(t)
  BY <1>15 DEF ReleaseWake, Steps, ObjectSteps
<1>16. CASE DestroyUnregister(t)
  BY <1>16, Zenon DEF DestroyUnregister, Steps, ObjectSteps
<1>17. CASE DestroyDelete(t)
  BY <1>17, EmptySeq, Zenon DEF DestroyDelete, Steps, ObjectSteps
<1>18. CASE UseAfterFree(t)
  BY <1>18 DEF UseAfterFree, Steps, ObjectSteps
<1> QED
  BY <1>1, <1>2, <1>3, <1>4, <1>5, <1>6, <1>7, <1>8, <1>9, <1>10, <1>11,
     <1>12, <1>13, <1>14, <1>15, <1>16, <1>17, <1>18 DEF Step

-----------------------------------------------------------------------------
(***************************************************************************)
(* The inductive invariant.                                                *)
(***************************************************************************)

\* m_lock is held across steps exactly while acquire() records a unit or
\* blocks the caller.
LockInv ==
    alive => \A t \in Threads :
                m_lock = t <=> pc[t] \in {"acq_ins", "acq_late", "acq_block"}

Enqueued == {"acq_block", "blocked"}

\* Where the threads enqueued by acquire() are: BlockedOnce without counting,
\* together with WakeAfterBlock.
PlaceInv ==
    alive =>
        /\ \A i, j \in 1..Len(m_waitingThreads) :
              m_waitingThreads[i] = m_waitingThreads[j] => i = j
        /\ \A i \in 1..Len(m_waitingThreads) :
              pc[m_waitingThreads[i]] \in Enqueued
        /\ \A r \in Threads : pc[r] \in Handing => pc[nextThread[r]] \in Enqueued
        /\ \A r \in Threads :
              pc[r] \in {"rel_ins", "rel_wake"} => pc[nextThread[r]] = "blocked"
        /\ \A r, s \in Threads :
              /\ pc[r] \in Handing /\ pc[s] \in Handing
              /\ nextThread[r] = nextThread[s]
              => r = s
        /\ \A r \in Threads : pc[r] \in Handing =>
              \A i \in 1..Len(m_waitingThreads) :
                  m_waitingThreads[i] # nextThread[r]
        /\ \A t \in Threads : pc[t] \in Enqueued =>
              \/ \E i \in 1..Len(m_waitingThreads) : m_waitingThreads[i] = t
              \/ \E r \in Threads : pc[r] \in Handing /\ nextThread[r] = t

\* UnitConservation without the bounds on the number of wrap-arounds.
UnitsInv == alive => \E k \in Int : Units = InitialValue + k * W

\* NoLostWakeup, also when threads have gone wild: a unit that acquire() found
\* is held, though it will not be released.
WakeupInv ==
    alive /\ InitialValue > 0 /\ m_waitingThreads # <<>> =>
        \/ m_holders # <<>>
        \/ \E t \in Threads : pc[t] \in Serving \cup {"acq_late"}

IInv ==
    /\ TypeOK
    /\ NextThreadOK
    /\ LockInv
    /\ PlaceInv
    /\ UnitsInv
    /\ WakeupInv

\* Each step keeps the ownership of m_lock in line with where the threads are.
LEMMA LockStep ==
    ASSUME IInv, NEW t \in Threads,
           SysAcquire(t) \/ SysRelease(t) \/ SysDestroy(t) \/ Step(t)
    PROVE  LockInv'
<1> USE DEF TypeOK, Goto, LockInv, Steps, ObjectSteps
<1>0. NoThread \notin Threads /\ TypeOK /\ LockInv /\ NextThreadOK /\ PlaceInv
  BY ThreadsAssumption DEF IInv
<1>1. CASE SysAcquire(t) \/ SysRelease(t) \/ SysDestroy(t)
  BY <1>0, <1>1, Zenon DEF SysAcquire, SysRelease, SysDestroy
<1>2. CASE AcquireFast(t)
  BY <1>0, <1>2 DEF AcquireFast
<1>3. CASE AcquireSlow(t)
  BY <1>0, <1>3 DEF AcquireSlow
<1>4. CASE AcquireInsert(t) \/ AcquireBlock(t)
  BY <1>0, <1>4, Zenon DEF AcquireInsert, AcquireBlock
<1>5. CASE LeaveCPU(t) \/ Dispatch(t)
  BY <1>0, <1>5, Zenon DEF LeaveCPU, Dispatch
<1>6. CASE ReleaseFind(t)
  BY <1>0, <1>6 DEF ReleaseFind
<1>7. CASE ReleaseIncrement(t) \/ ReleaseDecrement(t) \/ ReleaseInsert(t)
  BY <1>0, <1>7, Zenon DEF ReleaseIncrement, ReleaseDecrement, ReleaseInsert
<1>8. CASE ReleasePop(t)
  BY <1>0, <1>8 DEF ReleasePop
<1>9. CASE ReleaseWake(t)
  <2>1. nextThread[t] \in Threads
    BY <1>0, <1>9 DEF ReleaseWake, NextThreadOK, Handing
  <2>2. alive => pc[nextThread[t]] = "blocked"
    BY <1>0, <1>9 DEF ReleaseWake, PlaceInv
  <2> QED
    BY <1>0, <1>9, <2>1, <2>2 DEF ReleaseWake
<1>10. CASE DestroyUnregister(t)
  BY <1>0, <1>10 DEF DestroyUnregister
<1>11. CASE DestroyDelete(t) \/ UseAfterFree(t)
  BY <1>11, Zenon DEF DestroyDelete, UseAfterFree
<1> QED
  BY <1>1, <1>2, <1>3, <1>4, <1>5, <1>6, <1>7, <1>8, <1>9, <1>10, <1>11
     DEF Step

\* A step that moves one thread between positions outside the waiting list
\* and outside the hand-over of release() keeps PlaceInv.
LEMMA PlaceUnaffected ==
    ASSUME TypeOK, NextThreadOK, PlaceInv, NEW t \in Threads, NEW step \in Steps,
           Goto(t, step), UNCHANGED <<m_waitingThreads, nextThread, alive>>,
           pc[t] \notin Enqueued \cup Handing, step \notin Enqueued \cup Handing
    PROVE  PlaceInv'
<1>1. \A u \in Threads : pc'[u] = IF u = t THEN step ELSE pc[u]
  BY DEF TypeOK, Goto
<1>2. \A i \in 1..Len(m_waitingThreads) : m_waitingThreads[i] \in Threads
  BY ElementOfSeq DEF TypeOK
<1>3. \A u \in Threads : /\ pc'[u] \in Enqueued <=> pc[u] \in Enqueued
                         /\ pc'[u] \in Handing <=> pc[u] \in Handing
                         /\ pc'[u] \in Handing => pc'[u] = pc[u]
                         /\ pc[u] \in Enqueued => pc'[u] = pc[u]
  BY <1>1
<1>4. "blocked" \in Enqueued /\ {"rel_ins", "rel_wake"} \subseteq Handing
  BY DEF Enqueued, Handing
<1> QED
  BY <1>2, <1>3, <1>4 DEF PlaceInv, NextThreadOK

\* Each step keeps every enqueued thread in exactly one place.
LEMMA PlaceStep ==
    ASSUME IInv, NEW t \in Threads,
           SysAcquire(t) \/ SysRelease(t) \/ SysDestroy(t) \/ Step(t)
    PROVE  PlaceInv'
<1>0. NoThread \notin Threads /\ TypeOK /\ LockInv /\ NextThreadOK /\ PlaceInv
  BY ThreadsAssumption DEF IInv
<1>a. {"user", "acq_lock", "acq_slow", "acq_ins", "acq_late", "ready", "rel_find",
       "rel_inc", "rel_pop", "des_unreg", "des_delete", "wild"}
         \cap (Enqueued \cup Handing) = {}
  BY DEF Enqueued, Handing
<1>b. Len(m_waitingThreads) \in Nat
      /\ \A i \in 1..Len(m_waitingThreads) : m_waitingThreads[i] \in Threads
  BY <1>0, LenProperties, ElementOfSeq DEF TypeOK
<1> USE DEF Steps, ObjectSteps
<1>1. CASE SysAcquire(t) \/ SysRelease(t) \/ SysDestroy(t)
  <2>1. PICK step \in {"user", "acq_lock", "rel_find", "des_unreg"} :
           Goto(t, step)
    BY <1>1 DEF SysAcquire, SysRelease, SysDestroy
  <2>2. pc[t] = "user" /\ UNCHANGED <<m_waitingThreads, nextThread, alive>>
    BY <1>1 DEF SysAcquire, SysRelease, SysDestroy
  <2> QED
    BY <1>0, <1>a, <2>1, <2>2, PlaceUnaffected
<1>2. CASE AcquireFast(t) \/ AcquireInsert(t)
  <2>1. PICK step \in {"acq_slow", "acq_ins", "user", "wild"} : Goto(t, step)
    BY <1>2 DEF AcquireFast, AcquireInsert
  <2>2. /\ pc[t] \in {"acq_lock", "acq_ins", "acq_late"}
        /\ UNCHANGED <<m_waitingThreads, nextThread, alive>>
    BY <1>2 DEF AcquireFast, AcquireInsert
  <2> QED
    BY <1>0, <1>a, <2>1, <2>2, PlaceUnaffected
<1>3. CASE AcquireSlow(t)
  <2>1. CASE m_value # 0
    <3>1. /\ Goto(t, "acq_late") /\ pc[t] = "acq_slow"
          /\ UNCHANGED <<m_waitingThreads, nextThread, alive>>
      BY <1>3, <2>1 DEF AcquireSlow
    <3> QED
      BY <1>0, <1>a, <3>1, PlaceUnaffected
  <2>2. CASE m_value = 0
    <3>1. /\ pc' = [pc EXCEPT ![t] = "acq_block"] /\ pc[t] = "acq_slow"
          /\ m_waitingThreads' = Append(m_waitingThreads, t)
          /\ UNCHANGED <<nextThread, alive>> /\ alive
      BY <1>3, <2>2 DEF AcquireSlow, Goto
    <3>2. /\ Len(m_waitingThreads') = Len(m_waitingThreads) + 1
          /\ \A i \in 1..Len(m_waitingThreads) :
                m_waitingThreads'[i] = m_waitingThreads[i]
          /\ m_waitingThreads'[Len(m_waitingThreads) + 1] = t
      BY <1>0, <3>1, AppendFacts DEF TypeOK
    <3>3. /\ \A i \in 1..Len(m_waitingThreads) : m_waitingThreads[i] # t
          /\ \A r \in Threads : pc[r] \in Handing => nextThread[r] # t
      BY <1>0, <1>a, <3>1 DEF PlaceInv
    <3>4. \A u \in Threads : pc'[u] = IF u = t THEN "acq_block" ELSE pc[u]
      BY <1>0, <3>1 DEF TypeOK
    <3> QED
      BY <1>0, <1>b, <3>1, <3>2, <3>3, <3>4
         DEF PlaceInv, NextThreadOK, Enqueued, Handing
  <2> QED
    BY <2>1, <2>2
<1>4. CASE AcquireBlock(t)
  <2>1. /\ pc[t] = "acq_block"
        /\ \A u \in Threads : pc'[u] = IF u = t THEN "blocked" ELSE pc[u]
        /\ UNCHANGED <<m_waitingThreads, nextThread, alive>>
    BY <1>0, <1>4 DEF AcquireBlock, Goto, TypeOK
  <2> QED
    BY <1>0, <1>b, <2>1 DEF PlaceInv, NextThreadOK, Enqueued, Handing
<1>5. CASE LeaveCPU(t)
  BY <1>0, <1>5 DEF LeaveCPU, PlaceInv
<1>6. CASE Dispatch(t)
  <2>1. PICK step \in {"user", "wild"} : Goto(t, step)
    BY <1>6 DEF Dispatch
  <2>2. pc[t] = "ready" /\ UNCHANGED <<m_waitingThreads, nextThread, alive>>
    BY <1>6 DEF Dispatch
  <2> QED
    BY <1>0, <1>a, <2>1, <2>2, PlaceUnaffected
<1>7. CASE ReleaseFind(t) \/ ReleaseIncrement(t)
  <2>1. PICK step \in {"user", "rel_inc", "rel_pop"} : Goto(t, step)
    BY <1>7 DEF ReleaseFind, ReleaseIncrement
  <2>2. /\ pc[t] \in {"rel_find", "rel_inc"}
        /\ UNCHANGED <<m_waitingThreads, nextThread, alive>>
    BY <1>7 DEF ReleaseFind, ReleaseIncrement
  <2> QED
    BY <1>0, <1>a, <2>1, <2>2, PlaceUnaffected
<1>8. CASE ReleasePop(t)
  <2>1. CASE m_waitingThreads = <<>>
    <3>1. /\ Goto(t, "user") /\ pc[t] = "rel_pop"
          /\ UNCHANGED <<m_waitingThreads, nextThread, alive>>
      BY <1>8, <2>1 DEF ReleasePop
    <3> QED
      BY <1>0, <1>a, <3>1, PlaceUnaffected
  <2>2. CASE m_waitingThreads # <<>>
    <3> DEFINE h == m_waitingThreads[1]
    <3>1. /\ Len(m_waitingThreads') = Len(m_waitingThreads) - 1
          /\ \A i \in 1..Len(m_waitingThreads') :
                m_waitingThreads'[i] = m_waitingThreads[i + 1]
          /\ Len(m_waitingThreads) >= 1
      <4>1. m_waitingThreads' = Tail(m_waitingThreads)
        BY <1>8, <2>2 DEF ReleasePop
      <4>2. m_waitingThreads \in Seq(Threads)
        BY <1>0 DEF TypeOK
      <4>3. /\ Len(Tail(m_waitingThreads)) = Len(m_waitingThreads) - 1
            /\ \A i \in 1..Len(Tail(m_waitingThreads)) :
                  Tail(m_waitingThreads)[i] = m_waitingThreads[i + 1]
        BY <2>2, <4>2, HeadTailProperties
      <4>4. Len(m_waitingThreads) \in Nat \ {0}
        BY <2>2, <4>2, EmptySeq
      <4> QED
        BY <4>1, <4>3, <4>4
    <3>2. /\ pc[t] = "rel_pop" /\ alive /\ alive'
          /\ \A u \in Threads : pc'[u] = IF u = t THEN "rel_dec" ELSE pc[u]
          /\ \A u \in Threads :
                nextThread'[u] = IF u = t THEN h ELSE nextThread[u]
      BY <1>0, <1>8, <2>2 DEF ReleasePop, TypeOK, Goto
    <3>3. h \in Threads /\ pc[h] \in Enqueued /\ h # t
      BY <1>0, <1>a, <1>b, <3>1, <3>2 DEF PlaceInv
    <3>4. \A i \in 1..Len(m_waitingThreads) :
             i = 1 \/ (i - 1 \in 1..Len(m_waitingThreads') /\
                       m_waitingThreads'[i - 1] = m_waitingThreads[i])
      BY <1>b, <3>1
    <3> HIDE DEF h
    <3>5. /\ \A i, j \in 1..Len(m_waitingThreads') :
                m_waitingThreads'[i] = m_waitingThreads'[j] => i = j
          /\ \A i \in 1..Len(m_waitingThreads') :
                /\ pc'[m_waitingThreads'[i]] \in Enqueued
                /\ m_waitingThreads'[i] # h
      <4>1. \A i \in 1..Len(m_waitingThreads') :
               /\ i + 1 \in 2..Len(m_waitingThreads)
               /\ m_waitingThreads'[i] = m_waitingThreads[i + 1]
        BY <1>b, <3>1
      <4>2. \A i, j \in 1..Len(m_waitingThreads') :
               m_waitingThreads'[i] = m_waitingThreads'[j] => i = j
        BY <1>0, <1>b, <3>2, <4>1 DEF PlaceInv
      <4>3. \A i \in 1..Len(m_waitingThreads') : m_waitingThreads'[i] # h
        BY <1>0, <1>b, <3>1, <3>2, <4>1 DEF PlaceInv, h
      <4>4. \A i \in 1..Len(m_waitingThreads') :
               /\ m_waitingThreads'[i] \in Threads
               /\ pc[m_waitingThreads'[i]] \in Enqueued
        BY <1>0, <1>b, <3>2, <4>1 DEF PlaceInv
      <4> QED
        BY <1>a, <3>2, <4>2, <4>3, <4>4
    <3>6. /\ \A r \in Threads : pc'[r] \in Handing =>
                /\ pc'[nextThread'[r]] \in Enqueued
                /\ \A i \in 1..Len(m_waitingThreads') :
                      m_waitingThreads'[i] # nextThread'[r]
          /\ \A r \in Threads : pc'[r] \in {"rel_ins", "rel_wake"} =>
                pc'[nextThread'[r]] = "blocked"
      <4>1. \A i \in 1..Len(m_waitingThreads') :
               /\ i + 1 \in 1..Len(m_waitingThreads)
               /\ m_waitingThreads'[i] = m_waitingThreads[i + 1]
        BY <1>b, <3>1
      <4>2. ASSUME NEW r \in Threads, r # t, pc[r] \in Handing
            PROVE  /\ nextThread[r] \in Threads
                   /\ pc[nextThread[r]] \in Enqueued
                   /\ nextThread[r] # t
                   /\ \A i \in 1..Len(m_waitingThreads') :
                         m_waitingThreads'[i] # nextThread[r]
        BY <1>0, <1>a, <3>2, <4>1, <4>2 DEF PlaceInv, NextThreadOK
      <4>3. \A r \in Threads : pc'[r] \in Handing =>
               r = t \/ (r # t /\ pc[r] \in Handing)
        BY <3>2
      <4>4. \A r \in Threads : pc'[r] \in {"rel_ins", "rel_wake"} =>
               /\ r # t /\ pc[r] \in Handing
               /\ pc[nextThread[r]] = "blocked"
        BY <1>0, <3>2 DEF PlaceInv, Handing
      <4> QED
        BY <3>2, <3>3, <3>5, <4>2, <4>3, <4>4
    <3>7. \A r, s \in Threads :
             /\ pc'[r] \in Handing /\ pc'[s] \in Handing
             /\ nextThread'[r] = nextThread'[s]
             => r = s
      BY <1>0, <1>a, <1>b, <3>1, <3>2 DEF PlaceInv, Handing, h
    <3>8. \A u \in Threads : pc'[u] \in Enqueued =>
             \/ \E i \in 1..Len(m_waitingThreads') : m_waitingThreads'[i] = u
             \/ \E r \in Threads : pc'[r] \in Handing /\ nextThread'[r] = u
      <4> SUFFICES ASSUME NEW u \in Threads, pc'[u] \in Enqueued
                   PROVE  \/ \E i \in 1..Len(m_waitingThreads') :
                                m_waitingThreads'[i] = u
                          \/ \E r \in Threads :
                                pc'[r] \in Handing /\ nextThread'[r] = u
        OBVIOUS
      <4>1. pc[u] \in Enqueued /\ u # t
        BY <3>2 DEF Enqueued
      <4>2. CASE \E i \in 1..Len(m_waitingThreads) : m_waitingThreads[i] = u
        <5>1. PICK i \in 1..Len(m_waitingThreads) : m_waitingThreads[i] = u
          BY <4>2
        <5>2. CASE i = 1
          BY <3>2, <5>1, <5>2 DEF Handing, h
        <5>3. CASE i # 1
          BY <3>4, <5>1, <5>3
        <5> QED
          BY <5>2, <5>3
      <4>3. CASE \E r \in Threads : pc[r] \in Handing /\ nextThread[r] = u
        BY <1>a, <3>2, <4>3
      <4> QED
        BY <1>0, <3>2, <4>1, <4>2, <4>3 DEF PlaceInv
    <3> QED
      BY <3>5, <3>6, <3>7, <3>8 DEF PlaceInv
  <2> QED
    BY <2>1, <2>2
<1>9. CASE ReleaseDecrement(t)
  <2>1. /\ pc[t] = "rel_dec" /\ m_lock = NoThread /\ alive
        /\ \A u \in Threads : pc'[u] = IF u = t THEN "rel_ins" ELSE pc[u]
        /\ UNCHANGED <<m_waitingThreads, nextThread, alive>>
    BY <1>0, <1>9 DEF ReleaseDecrement, Goto, TypeOK
  <2>2. pc[nextThread[t]] = "blocked"
    BY <1>0, <2>1 DEF LockInv, PlaceInv, NextThreadOK, Handing, Enqueued
  <2> QED
    BY <1>0, <1>b, <2>1, <2>2 DEF PlaceInv, NextThreadOK, Handing, Enqueued
<1>10. CASE ReleaseInsert(t)
  <2>1. /\ pc[t] = "rel_ins" /\ alive
        /\ \A u \in Threads : pc'[u] = IF u = t THEN "rel_wake" ELSE pc[u]
        /\ UNCHANGED <<m_waitingThreads, nextThread, alive>>
    BY <1>0, <1>10 DEF ReleaseInsert, Goto, TypeOK
  <2> QED
    BY <1>0, <1>b, <2>1 DEF PlaceInv, NextThreadOK, Handing, Enqueued
<1>11. CASE ReleaseWake(t)
  <2> DEFINE n == nextThread[t]
  <2>1. /\ pc[t] = "rel_wake" /\ alive
        /\ n \in Threads /\ pc[n] = "blocked" /\ n # t
    BY <1>0, <1>11 DEF ReleaseWake, PlaceInv, NextThreadOK, Handing
  <2>2. /\ \A u \in Threads : pc'[u] = IF u = n THEN "ready"
                                       ELSE IF u = t THEN "user" ELSE pc[u]
        /\ \A u \in Threads : u # t => nextThread'[u] = nextThread[u]
        /\ UNCHANGED <<m_waitingThreads, alive>>
    BY <1>0, <1>11, <2>1 DEF ReleaseWake, TypeOK
  <2>3. /\ \A r \in Threads \ {t} : pc[r] \in Handing => nextThread[r] # n
        /\ \A i \in 1..Len(m_waitingThreads) : m_waitingThreads[i] # n
    BY <1>0, <2>1 DEF PlaceInv, Handing
  <2> HIDE DEF n
  <2>4. /\ \A u \in Threads : pc'[u] \in Enqueued =>
                pc'[u] = pc[u] /\ u # n /\ u # t
        /\ \A u \in Threads : pc'[u] \in Handing =>
                pc'[u] = pc[u] /\ u # n /\ u # t
        /\ \A u \in Threads : pc[u] \in Enqueued /\ u # n => pc'[u] = pc[u]
        /\ \A u \in Threads : pc[u] \in Handing /\ u # t => pc'[u] = pc[u]
    BY <2>1, <2>2 DEF Enqueued, Handing
  <2>5. "blocked" \in Enqueued /\ {"rel_ins", "rel_wake"} \subseteq Handing
    BY DEF Enqueued, Handing
  <2>6. nextThread[t] = n
    BY DEF n
  <2> QED
    BY <1>0, <1>b, <2>1, <2>2, <2>3, <2>4, <2>5, <2>6 DEF PlaceInv, NextThreadOK
<1>12. CASE DestroyUnregister(t)
  <2>1. /\ Goto(t, "des_delete") /\ pc[t] = "des_unreg"
        /\ UNCHANGED <<m_waitingThreads, nextThread, alive>>
    BY <1>12 DEF DestroyUnregister
  <2> QED
    BY <1>0, <1>a, <2>1, PlaceUnaffected
<1>13. CASE DestroyDelete(t) \/ UseAfterFree(t)
  BY <1>13, Zenon DEF DestroyDelete, UseAfterFree, PlaceInv
<1> QED
  BY <1>1, <1>2, <1>3, <1>4, <1>5, <1>6, <1>7, <1>8, <1>9, <1>10, <1>11,
     <1>12, <1>13 DEF Step

-----------------------------------------------------------------------------
(***************************************************************************)
(* Units.                                                                  *)
(***************************************************************************)

\* The units in flight are finitely many, and one thread's move changes their
\* number by at most one.
LEMMA FlightStep ==
    ASSUME TypeOK, NEW t \in Threads, NEW step, Goto(t, step)
    PROVE  LET flying == {"acq_ins", "acq_late", "rel_inc", "rel_ins"}
           IN  /\ Cardinality(InFlight) \in Nat
               /\ Cardinality(InFlight') =
                     Cardinality(InFlight)
                     + (IF step \in flying THEN 1 ELSE 0)
                     - (IF pc[t] \in flying THEN 1 ELSE 0)
<1> DEFINE flying == {"acq_ins", "acq_late", "rel_inc", "rel_ins"}
<1>1. IsFiniteSet(InFlight)
  BY ThreadsAssumption, FS_Subset DEF InFlight
<1>2. \A u \in Threads : pc'[u] = IF u = t THEN step ELSE pc[u]
  BY DEF TypeOK, Goto
<1>3. Cardinality(InFlight) \in Nat
  BY <1>1, FS_CardinalityType
<1>4. t \in InFlight <=> pc[t] \in flying
  BY DEF InFlight
<1>5. CASE step \in flying
  <2>1. InFlight' = InFlight \cup {t}
    BY <1>2, <1>5 DEF InFlight
  <2>2. Cardinality(InFlight \cup {t}) =
           IF t \in InFlight THEN Cardinality(InFlight)
                             ELSE Cardinality(InFlight) + 1
    BY <1>1, FS_AddElement
  <2> QED
    BY <1>3, <1>4, <1>5, <2>1, <2>2
<1>6. CASE step \notin flying
  <2>1. InFlight' = InFlight \ {t}
    BY <1>2, <1>6 DEF InFlight
  <2>2. Cardinality(InFlight \ {t}) =
           IF t \in InFlight THEN Cardinality(InFlight) - 1
                             ELSE Cardinality(InFlight)
    BY <1>1, FS_RemoveElement
  <2> QED
    BY <1>3, <1>4, <1>6, <2>1, <2>2
<1> QED
  BY <1>5, <1>6

\* A change of the sum by a multiple of W keeps UnitsInv.
LEMMA UnitsChange ==
    ASSUME UnitsInv, alive, Units \in Int,
           Units' = Units \/ Units' = Units + W \/ Units' = Units - W
    PROVE  UnitsInv'
<1>1. W \in Int /\ InitialValue \in Int
  BY ValueAssumption
<1>2. PICK k \in Int : Units = InitialValue + k * W
  BY DEF UnitsInv
<1>3. (k + 1) * W = k * W + W /\ (k - 1) * W = k * W - W
  BY <1>1, <1>2
<1>4. k * W \in Int
  BY <1>1, <1>2
<1> HIDE DEF Units
<1>5. \/ Units' = InitialValue + k * W
      \/ Units' = InitialValue + (k + 1) * W
      \/ Units' = InitialValue + (k - 1) * W
  BY <1>1, <1>2, <1>3, <1>4
<1> QED
  BY <1>2, <1>5 DEF UnitsInv

\* Each step moves units between m_value, m_holders and the running calls.
LEMMA UnitsStep ==
    ASSUME IInv, NEW t \in Threads,
           SysAcquire(t) \/ SysRelease(t) \/ SysDestroy(t) \/ Step(t)
    PROVE  UnitsInv'
<1>0. TypeOK /\ NextThreadOK /\ PlaceInv /\ UnitsInv
  BY DEF IInv
<1>a. m_value \in 0..(W - 1) /\ W \in Nat /\ Len(m_holders) \in Nat
  BY <1>0, ValueAssumption, LenProperties DEF TypeOK
<1>b. Cardinality(InFlight) \in Nat
  <2>1. IsFiniteSet(InFlight)
    BY ThreadsAssumption, FS_Subset DEF InFlight
  <2> QED
    BY <2>1, FS_CardinalityType
<1>c. Units \in Int
  BY <1>a, <1>b DEF Units
<1> DEFINE flying == {"acq_ins", "acq_late", "rel_inc", "rel_ins"}
<1>d. ASSUME NEW step, Goto(t, step)
      PROVE  Cardinality(InFlight') =
                Cardinality(InFlight)
                + (IF step \in flying THEN 1 ELSE 0)
                - (IF pc[t] \in flying THEN 1 ELSE 0)
  BY <1>0, <1>d, FlightStep
<1>1. CASE SysAcquire(t) \/ SysRelease(t) \/ SysDestroy(t)
  <2>1. PICK step \in {"user", "acq_lock", "rel_find", "des_unreg"} :
           Goto(t, step)
    BY <1>1 DEF SysAcquire, SysRelease, SysDestroy
  <2>2. pc[t] = "user" /\ UNCHANGED <<m_value, m_holders, alive>>
    BY <1>1 DEF SysAcquire, SysRelease, SysDestroy
  <2>3. Cardinality(InFlight') = Cardinality(InFlight)
    BY <1>b, <1>d, <2>1, <2>2
  <2>4. Units' = Units
    BY <2>2, <2>3 DEF Units
  <2> QED
    BY <1>0, <1>c, <2>2, <2>4, UnitsChange DEF UnitsInv
<1>2. CASE AcquireFast(t) \/ AcquireSlow(t)
  <2>0. alive /\ UNCHANGED m_holders /\ pc[t] \notin flying
    BY <1>2 DEF AcquireFast, AcquireSlow
  <2>1. CASE m_value = 0
    <3>1. UNCHANGED m_value
      BY <1>2, <2>1 DEF AcquireFast, AcquireSlow
    <3>2. PICK step \in {"acq_slow", "acq_block"} : Goto(t, step)
      BY <1>2, <2>1 DEF AcquireFast, AcquireSlow
    <3>3. Cardinality(InFlight') = Cardinality(InFlight)
      BY <1>b, <1>d, <2>0, <3>2
    <3>4. Units' = Units
      BY <2>0, <3>1, <3>3 DEF Units
    <3> QED
      BY <1>0, <1>c, <2>0, <3>4, UnitsChange
  <2>2. CASE m_value # 0
    <3>0. m_value' = Dec(m_value)
      BY <1>2, <2>2 DEF AcquireFast, AcquireSlow
    <3>1. PICK step \in {"acq_ins", "acq_late"} : Goto(t, step)
      BY <1>2, <2>2 DEF AcquireFast, AcquireSlow
    <3>2. Cardinality(InFlight') = Cardinality(InFlight) + 1
      BY <1>b, <1>d, <2>0, <3>1
    <3>3. m_value' = m_value - 1 \/ m_value' = m_value - 1 + W
      BY <1>a, <3>0, CounterFacts
    <3>4. Units' = Units \/ Units' = Units + W
      BY <1>a, <1>b, <2>0, <3>2, <3>3 DEF Units
    <3> QED
      BY <1>0, <1>c, <2>0, <3>4, UnitsChange
  <2> QED
    BY <2>1, <2>2
<1>3. CASE AcquireInsert(t) \/ ReleaseInsert(t)
  <2>0. alive /\ UNCHANGED m_value /\ pc[t] \in flying
    BY <1>3 DEF AcquireInsert, ReleaseInsert
  <2>1. PICK step \in {"user", "wild", "rel_wake"} : Goto(t, step)
    BY <1>3 DEF AcquireInsert, ReleaseInsert
  <2>2. PICK h \in Threads : m_holders' = Append(m_holders, h)
    BY <1>0, <1>3 DEF AcquireInsert, ReleaseInsert, NextThreadOK, Handing
  <2>3. Len(m_holders') = Len(m_holders) + 1
    BY <1>0, <2>2, AppendFacts DEF TypeOK
  <2>4. Cardinality(InFlight') = Cardinality(InFlight) - 1
    BY <1>b, <1>d, <2>0, <2>1
  <2>5. Units' = Units
    BY <1>a, <1>b, <2>0, <2>3, <2>4 DEF Units
  <2> QED
    BY <1>0, <1>c, <2>0, <2>5, UnitsChange
<1>4. CASE AcquireBlock(t) \/ Dispatch(t) \/ ReleasePop(t) \/ DestroyUnregister(t)
  <2>1. PICK step \in {"blocked", "user", "wild", "rel_dec", "des_delete"} :
           Goto(t, step)
    BY <1>4 DEF AcquireBlock, Dispatch, ReleasePop, DestroyUnregister
  <2>2. pc[t] \notin flying /\ UNCHANGED <<m_value, m_holders, alive>>
    BY <1>4 DEF AcquireBlock, Dispatch, ReleasePop, DestroyUnregister
  <2>3. Cardinality(InFlight') = Cardinality(InFlight)
    BY <1>b, <1>d, <2>1, <2>2
  <2>4. Units' = Units
    BY <2>2, <2>3 DEF Units
  <2> QED
    BY <1>0, <1>c, <2>2, <2>4, UnitsChange DEF UnitsInv
<1>5. CASE LeaveCPU(t)
  BY <1>0, <1>5 DEF LeaveCPU, UnitsInv, Units, InFlight
<1>6. CASE ReleaseFind(t)
  <2>0. alive /\ UNCHANGED m_value /\ pc[t] = "rel_find"
    BY <1>6 DEF ReleaseFind
  <2>1. CASE Holds(t)
    <3>1. PICK i \in 1..Len(m_holders) :
             m_holders' = WithoutEntry(m_holders, i) /\ Goto(t, "rel_inc")
      BY <1>6, <2>1 DEF ReleaseFind
    <3>2. Len(m_holders') = Len(m_holders) - 1
      BY <1>0, <3>1, WithoutEntryFacts DEF TypeOK
    <3>3. Cardinality(InFlight') = Cardinality(InFlight) + 1
      BY <1>b, <1>d, <2>0, <3>1
    <3>4. Units' = Units
      BY <1>a, <1>b, <2>0, <3>2, <3>3 DEF Units
    <3> QED
      BY <1>0, <1>c, <2>0, <3>4, UnitsChange
  <2>2. CASE ~Holds(t)
    <3>1. Goto(t, "user") /\ UNCHANGED m_holders
      BY <1>6, <2>2 DEF ReleaseFind
    <3>2. Cardinality(InFlight') = Cardinality(InFlight)
      BY <1>b, <1>d, <2>0, <3>1
    <3>3. Units' = Units
      BY <2>0, <3>1, <3>2 DEF Units
    <3> QED
      BY <1>0, <1>c, <2>0, <3>3, UnitsChange
  <2> QED
    BY <2>1, <2>2
<1>7. CASE ReleaseIncrement(t)
  <2>1. /\ alive /\ UNCHANGED m_holders /\ pc[t] = "rel_inc"
        /\ m_value' = Inc(m_value) /\ Goto(t, "rel_pop")
    BY <1>7 DEF ReleaseIncrement
  <2>2. Cardinality(InFlight') = Cardinality(InFlight) - 1
    BY <1>b, <1>d, <2>1
  <2>3. m_value' = m_value + 1 \/ m_value' = m_value + 1 - W
    BY <1>a, <2>1, CounterFacts
  <2>4. Units' = Units \/ Units' = Units - W
    BY <1>a, <1>b, <2>1, <2>2, <2>3 DEF Units
  <2> QED
    BY <1>0, <1>c, <2>1, <2>4, UnitsChange
<1>8. CASE ReleaseDecrement(t)
  <2>1. /\ alive /\ UNCHANGED m_holders /\ pc[t] = "rel_dec"
        /\ m_value' = Dec(m_value) /\ Goto(t, "rel_ins")
    BY <1>8 DEF ReleaseDecrement
  <2>2. Cardinality(InFlight') = Cardinality(InFlight) + 1
    BY <1>b, <1>d, <2>1
  <2>3. m_value' = m_value - 1 \/ m_value' = m_value - 1 + W
    BY <1>a, <2>1, CounterFacts
  <2>4. Units' = Units \/ Units' = Units + W
    BY <1>a, <1>b, <2>1, <2>2, <2>3 DEF Units
  <2> QED
    BY <1>0, <1>c, <2>1, <2>4, UnitsChange
<1>9. CASE ReleaseWake(t)
  <2>1. /\ alive /\ UNCHANGED <<m_value, m_holders>>
        /\ pc[t] = "rel_wake" /\ nextThread[t] \in Threads
        /\ pc[nextThread[t]] = "blocked"
        /\ pc' = [pc EXCEPT ![t] = "user", ![nextThread[t]] = "ready"]
    BY <1>0, <1>9 DEF ReleaseWake, PlaceInv, NextThreadOK, Handing
  <2>2. InFlight' = InFlight
    BY <1>0, <2>1 DEF InFlight, TypeOK
  <2>3. Units' = Units
    BY <2>1, <2>2 DEF Units
  <2> QED
    BY <1>0, <1>c, <2>1, <2>3, UnitsChange
<1>10. CASE DestroyDelete(t) \/ UseAfterFree(t)
  BY <1>10, Zenon DEF DestroyDelete, UseAfterFree, UnitsInv
<1> QED
  BY <1>1, <1>2, <1>3, <1>4, <1>5, <1>6, <1>7, <1>8, <1>9, <1>10 DEF Step

-----------------------------------------------------------------------------
(***************************************************************************)
(* Wake-ups.                                                               *)
(***************************************************************************)

\* When acquire() finds m_value = 0, some unit is held or in flight: a sum of
\* zero would make the initial value a multiple of W.
LEMMA ZeroMeansTaken ==
    ASSUME TypeOK, UnitsInv, alive, InitialValue > 0, m_value = 0
    PROVE  m_holders # <<>> \/ InFlight # {}
<1>1. W \in Nat /\ InitialValue \in 1..(W - 1)
  BY ValueAssumption
<1>2. PICK k \in Int : Units = InitialValue + k * W
  BY DEF UnitsInv
<1>3. InitialValue + k * W # 0
  <2>1. CASE k >= 0
    <3>1. k * W >= 0
      BY <1>1, <1>2, <2>1
    <3> QED
      BY <1>1, <1>2, <3>1
  <2>2. CASE k <= -1
    <3>1. (-k - 1) * W >= 0
      BY <1>1, <1>2, <2>2
    <3>2. (-k - 1) * W = -(k * W) - W
      BY <1>1, <1>2
    <3>3. k * W \in Int
      BY <1>1, <1>2
    <3> QED
      BY <1>1, <3>1, <3>2, <3>3
  <2> QED
    BY <1>2, <2>1, <2>2
<1>4. Units # 0
  BY <1>2, <1>3
<1>5. CASE m_holders = <<>> /\ InFlight = {}
  <2>1. Len(m_holders) = 0 /\ Cardinality(InFlight) = 0
    BY <1>5, FS_EmptySet
  <2>2. Units = 0
    BY <2>1 DEF Units
  <2> QED
    BY <1>4, <2>2
<1> QED
  BY <1>5

\* Each step that leaves a thread waiting leaves somebody to serve it.
LEMMA WakeupStep ==
    ASSUME IInv, NEW t \in Threads,
           SysAcquire(t) \/ SysRelease(t) \/ SysDestroy(t) \/ Step(t)
    PROVE  WakeupInv'
<1>0. TypeOK /\ NextThreadOK /\ PlaceInv /\ UnitsInv /\ WakeupInv
  BY DEF IInv
<1>a. ASSUME NEW step, Goto(t, step)
      PROVE  \A u \in Threads : pc'[u] = IF u = t THEN step ELSE pc[u]
  BY <1>0, <1>a DEF TypeOK, Goto
<1>b. ASSUME NEW step, Goto(t, step), pc[t] \notin Serving \cup {"acq_late"},
             UNCHANGED <<m_holders, m_waitingThreads, alive>>
      PROVE  WakeupInv'
  BY <1>0, <1>a, <1>b DEF WakeupInv
<1>c. ASSUME NEW step \in Serving \cup {"acq_late"}, Goto(t, step)
      PROVE  WakeupInv'
  BY <1>a, <1>c DEF WakeupInv
<1>1. CASE SysAcquire(t) \/ SysRelease(t) \/ SysDestroy(t)
  <2>1. PICK step : Goto(t, step)
    BY <1>1 DEF SysAcquire, SysRelease, SysDestroy
  <2>2. pc[t] = "user" /\ UNCHANGED <<m_holders, m_waitingThreads, alive>>
    BY <1>1 DEF SysAcquire, SysRelease, SysDestroy
  <2> QED
    BY <1>b, <2>1, <2>2 DEF Serving
<1>2. CASE AcquireFast(t) \/ AcquireBlock(t) \/ Dispatch(t)
           \/ DestroyUnregister(t)
  <2>1. PICK step : Goto(t, step)
    BY <1>2 DEF AcquireFast, AcquireBlock, Dispatch, DestroyUnregister
  <2>2. /\ pc[t] \in {"acq_lock", "acq_block", "ready", "des_unreg"}
        /\ UNCHANGED <<m_holders, m_waitingThreads, alive>>
    BY <1>2 DEF AcquireFast, AcquireBlock, Dispatch, DestroyUnregister
  <2> QED
    BY <1>b, <2>1, <2>2 DEF Serving
<1>3. CASE AcquireSlow(t)
  <2>1. CASE m_value # 0
    <3>1. Goto(t, "acq_late")
      BY <1>3, <2>1 DEF AcquireSlow
    <3> QED
      BY <1>c, <3>1 DEF Serving
  <2>2. CASE m_value = 0
    <3>1. /\ alive /\ Goto(t, "acq_block") /\ pc[t] = "acq_slow"
          /\ UNCHANGED <<m_holders, alive>>
      BY <1>3, <2>2 DEF AcquireSlow
    <3>2. InitialValue > 0 => m_holders # <<>> \/ InFlight # {}
      BY <1>0, <2>2, <3>1, ZeroMeansTaken
    <3>3. \A u \in InFlight : u # t /\ u \in Threads /\ pc'[u] \in Serving \cup {"acq_late"}
      BY <1>a, <3>1 DEF InFlight, Serving
    <3> QED
      BY <3>1, <3>2, <3>3 DEF WakeupInv
  <2> QED
    BY <2>1, <2>2
<1>4. CASE AcquireInsert(t) \/ ReleaseInsert(t)
  <2>1. PICK h \in Threads : m_holders' = Append(m_holders, h)
    BY <1>0, <1>4 DEF AcquireInsert, ReleaseInsert, NextThreadOK, Handing
  <2>2. m_holders' # <<>>
    <3>1. Len(m_holders') = Len(m_holders) + 1 /\ Len(m_holders) \in Nat
      BY <1>0, <2>1, AppendFacts, LenProperties DEF TypeOK
    <3> QED
      BY <3>1
  <2> QED
    BY <2>2 DEF WakeupInv
<1>5. CASE LeaveCPU(t)
  BY <1>0, <1>5 DEF LeaveCPU, WakeupInv
<1>6. CASE ReleaseFind(t)
  <2>1. CASE Holds(t)
    <3>1. Goto(t, "rel_inc")
      BY <1>6, <2>1 DEF ReleaseFind
    <3> QED
      BY <1>c, <3>1 DEF Serving
  <2>2. CASE ~Holds(t)
    <3>1. /\ Goto(t, "user") /\ pc[t] = "rel_find"
          /\ UNCHANGED <<m_holders, m_waitingThreads, alive>>
      BY <1>6, <2>2 DEF ReleaseFind
    <3> QED
      BY <1>b, <3>1 DEF Serving
  <2> QED
    BY <2>1, <2>2
<1>7. CASE ReleaseIncrement(t) \/ ReleaseDecrement(t)
  <2>1. PICK step \in {"rel_pop", "rel_ins"} : Goto(t, step)
    BY <1>7 DEF ReleaseIncrement, ReleaseDecrement
  <2> QED
    BY <1>c, <2>1 DEF Serving
<1>8. CASE ReleasePop(t)
  <2>1. CASE m_waitingThreads # <<>>
    <3>1. Goto(t, "rel_dec")
      BY <1>8, <2>1 DEF ReleasePop
    <3> QED
      BY <1>c, <3>1 DEF Serving
  <2>2. CASE m_waitingThreads = <<>>
    BY <1>8, <2>2 DEF ReleasePop, WakeupInv
  <2> QED
    BY <2>1, <2>2
<1>9. CASE ReleaseWake(t)
  <2>1. /\ UNCHANGED <<m_holders, m_waitingThreads, alive>> /\ alive
        /\ pc[t] = "rel_wake" /\ nextThread[t] \in Threads
        /\ pc[nextThread[t]] = "blocked"
        /\ pc' = [pc EXCEPT ![t] = "user", ![nextThread[t]] = "ready"]
    BY <1>0, <1>9 DEF ReleaseWake, PlaceInv, NextThreadOK, Handing
  <2>2. \A u \in Threads : pc[u] \in Serving \cup {"acq_late"} => pc'[u] = pc[u]
    BY <1>0, <2>1 DEF Serving, TypeOK
  <2> QED
    BY <1>0, <2>1, <2>2, Zenon DEF WakeupInv
<1>10. CASE DestroyDelete(t) \/ UseAfterFree(t)
  BY <1>10, Zenon DEF DestroyDelete, UseAfterFree, WakeupInv
<1> QED
  BY <1>1, <1>2, <1>3, <1>4, <1>5, <1>6, <1>7, <1>8, <1>9, <1>10 DEF Step

-----------------------------------------------------------------------------
(***************************************************************************)
(* The invariant holds of every behaviour.                                 *)
(***************************************************************************)

\* A new semaphore satisfies the invariant.
LEMMA InitInv == Init => IInv
<1> SUFFICES ASSUME Init PROVE IInv
  OBVIOUS
<1>1. TypeOK /\ NextThreadOK
  BY ValueAssumption, EmptySeq
     DEF Init, TypeOK, NextThreadOK, Handing, Steps, ObjectSteps
<1>2. LockInv
  BY ThreadsAssumption DEF Init, LockInv
<1>3. Len(m_waitingThreads) = 0 /\ Len(m_holders) = 0
  BY EmptySeq DEF Init
<1>4. PlaceInv
  BY <1>3 DEF Init, PlaceInv, Enqueued, Handing
<1>5. UnitsInv
  <2>1. InFlight = {}
    BY DEF Init, InFlight
  <2>2. Cardinality(InFlight) = 0
    BY <2>1, FS_EmptySet
  <2>3. Units = InitialValue + 0 * W
    BY <1>3, <2>2, ValueAssumption DEF Init, Units
  <2> QED
    BY <2>3 DEF UnitsInv
<1>6. WakeupInv
  BY DEF Init, WakeupInv
<1> QED
  BY <1>1, <1>2, <1>4, <1>5, <1>6 DEF IInv

\* Every step keeps the invariant.
LEMMA NextInv == IInv /\ [Next]_vars => IInv'
<1> SUFFICES ASSUME IInv, [Next]_vars PROVE IInv'
  OBVIOUS
<1>1. CASE Next
  <2>1. PICK t \in Threads :
           SysAcquire(t) \/ SysRelease(t) \/ SysDestroy(t) \/ Step(t)
    BY <1>1 DEF Next
  <2>2. TypeOK' /\ NextThreadOK'
    BY <2>1, TypeStep DEF IInv
  <2>3. LockInv'
    BY <2>1, LockStep
  <2>4. PlaceInv'
    BY <2>1, PlaceStep
  <2>5. UnitsInv'
    BY <2>1, UnitsStep
  <2>6. WakeupInv'
    BY <2>1, WakeupStep
  <2> QED
    BY <2>2, <2>3, <2>4, <2>5, <2>6 DEF IInv
<1>2. CASE UNCHANGED vars
  BY <1>2 DEF vars, IInv, TypeOK, NextThreadOK, LockInv, PlaceInv, UnitsInv,
              Units, InFlight, WakeupInv
<1> QED
  BY <1>1, <1>2

\* The inductive invariant, from which the properties follow.
THEOREM Invariance == Spec => []IInv
  BY InitInv, NextInv, PTL DEF Spec

\* Every variable keeps the type of its declaration in Semaphore.hpp.
THEOREM TypeCorrect == Spec => []TypeOK
<1>1. IInv => TypeOK
  BY DEF IInv
<1> QED
  BY <1>1, Invariance, PTL

\* No waiter of acquire() is left behind with nobody to serve it.
THEOREM WakeupsKept == Spec => []NoLostWakeup
<1>1. IInv => NoLostWakeup
  BY DEF IInv, WakeupInv, NoLostWakeup, Wild
<1> QED
  BY <1>1, Invariance, PTL

\* release() only re-adds threads that have finished blocking.
THEOREM WakesFollowBlocks == Spec => []WakeAfterBlock
<1>1. IInv => WakeAfterBlock
  BY DEF IInv, PlaceInv, WakeAfterBlock
<1> QED
  BY <1>1, Invariance, PTL

\* acquire and release neither lose nor make units, for every width of
\* m_value: the number of wrap-arounds is at most the units accounted for.
THEOREM Conservation == Spec => []UnitConservation
<1>1. IInv => UnitConservation
  <2> SUFFICES ASSUME IInv, alive
               PROVE  \E k \in 0..(Len(m_holders) + Cardinality(InFlight)) :
                          Units = InitialValue + k * W
    BY DEF UnitConservation
  <2> DEFINE L == Len(m_holders) + Cardinality(InFlight)
  <2>1. W \in Nat \ {0} /\ InitialValue \in 0..(W - 1) /\ m_value \in 0..(W - 1)
    BY ValueAssumption DEF IInv, TypeOK
  <2>2. L \in Nat
    <3>1. Len(m_holders) \in Nat
      BY LenProperties DEF IInv, TypeOK
    <3>2. IsFiniteSet(InFlight)
      BY ThreadsAssumption, FS_Subset DEF InFlight
    <3>3. Cardinality(InFlight) \in Nat
      BY <3>2, FS_CardinalityType
    <3> QED
      BY <3>1, <3>3
  <2>3. PICK k \in Int : Units = InitialValue + k * W
    BY DEF IInv, UnitsInv
  <2>4. Units = m_value + L
    <3>1. Len(m_holders) \in Nat
      BY LenProperties DEF IInv, TypeOK
    <3>2. Cardinality(InFlight) \in Nat
      BY ThreadsAssumption, FS_Subset, FS_CardinalityType DEF InFlight
    <3> QED
      BY <2>1, <3>1, <3>2 DEF Units
  <2> HIDE DEF L
  <2>5. k >= 0
    <3>1. CASE k <= -1
      <4>1. (-k - 1) * W >= 0
        BY <2>1, <2>3, <3>1
      <4>2. (-k - 1) * W = -(k * W) - W /\ k * W \in Int
        BY <2>1, <2>3
      <4> QED
        BY <2>1, <2>2, <2>3, <2>4, <4>1, <4>2
    <3> QED
      BY <2>3, <3>1
  <2>6. k <= L
    <3>1. CASE k >= L + 1
      <4>1. (k - L - 1) * W >= 0
        BY <2>1, <2>2, <2>3, <3>1
      <4>2. (k - L - 1) * W = k * W - L * W - W
        BY <2>1, <2>2, <2>3
      <4>3. L * W >= L /\ L * W \in Int /\ k * W \in Int
        <5>1. L * (W - 1) >= 0
          BY <2>1, <2>2
        <5>2. L * (W - 1) = L * W - L
          BY <2>1, <2>2
        <5>3. L * W \in Int /\ k * W \in Int
          BY <2>1, <2>2, <2>3
        <5> QED
          BY <2>2, <5>1, <5>2, <5>3
      <4> QED
        BY <2>1, <2>2, <2>3, <2>4, <4>1, <4>2, <4>3
    <3> QED
      BY <2>2, <2>3, <3>1
  <2>7. k \in 0..L
    BY <2>2, <2>3, <2>5, <2>6
  <2> QED
    BY <2>3, <2>7 DEF L
<1> QED
  BY <1>1, Invariance, PTL

\* Every thread blocked by acquire() is in exactly one place, and no other
\* thread is in any: nobody is forgotten and nobody is woken twice.
THEOREM OnePlace == Spec => []BlockedOnce
<1>1. IInv => BlockedOnce
  <2> SUFFICES ASSUME IInv, alive, NEW t \in Threads
               PROVE  Cardinality(WaitPlaces(t)) + Cardinality(HandedBy(t)) =
                          IF pc[t] \in {"acq_block", "blocked"} THEN 1 ELSE 0
    BY DEF BlockedOnce
  <2>1. PlaceInv /\ TypeOK
    BY DEF IInv
  <2>2. CASE pc[t] \notin Enqueued
    <3>1. WaitPlaces(t) = {} /\ HandedBy(t) = {}
      BY <2>1, <2>2 DEF PlaceInv, WaitPlaces, HandedBy
    <3>2. Cardinality(WaitPlaces(t)) = 0 /\ Cardinality(HandedBy(t)) = 0
      BY <3>1, FS_EmptySet
    <3> QED
      BY <2>2, <3>2 DEF Enqueued
  <2>3. CASE \E i \in 1..Len(m_waitingThreads) : m_waitingThreads[i] = t
    <3>1. PICK i \in 1..Len(m_waitingThreads) : m_waitingThreads[i] = t
      BY <2>3
    <3>2. WaitPlaces(t) = {i} /\ HandedBy(t) = {} /\ pc[t] \in Enqueued
      BY <2>1, <3>1 DEF PlaceInv, WaitPlaces, HandedBy
    <3>3. Cardinality(WaitPlaces(t)) = 1 /\ Cardinality(HandedBy(t)) = 0
      BY <3>2, FS_EmptySet, FS_Singleton, Zenon
    <3> QED
      BY <3>2, <3>3 DEF Enqueued
  <2>4. CASE \E r \in Threads : pc[r] \in Handing /\ nextThread[r] = t
    <3>1. PICK r \in Threads : pc[r] \in Handing /\ nextThread[r] = t
      BY <2>4
    <3>2. HandedBy(t) = {r} /\ WaitPlaces(t) = {} /\ pc[t] \in Enqueued
      BY <2>1, <3>1 DEF PlaceInv, WaitPlaces, HandedBy
    <3>3. Cardinality(WaitPlaces(t)) = 0 /\ Cardinality(HandedBy(t)) = 1
      BY <3>2, FS_EmptySet, FS_Singleton, Zenon
    <3> QED
      BY <3>2, <3>3 DEF Enqueued
  <2> QED
    BY <2>1, <2>2, <2>3, <2>4 DEF PlaceInv
<1> QED
  BY <1>1, Invariance, PTL

\* No interleaving of acquire() and release() wakes a thread twice, or before
\* it has blocked.
THEOREM WokenOnlyOnce == Spec => []WokenOnce
  BY OnePlace, WakesFollowBlocks, PTL DEF WokenOnce
=============================================================================
