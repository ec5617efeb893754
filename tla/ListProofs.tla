----------------------------- MODULE ListProofs -----------------------------
(***************************************************************************)
(* Proofs about the two linked lists of the kernel.  For any threads and   *)
(* any lists, the intrusive ThreadLists keep their links consistent and    *)
(* implement double-ended queues; for any objects and any pool of nodes,   *)
(* SimpleLinkedList keeps its links and implements a list.                 *)
(***************************************************************************)
EXTENDS ThreadList, FiniteSetTheorems, SequenceTheorems, WellFoundedInduction, TLAPS

IInv == TypeOK /\ LinksOK

(***************************************************************************)
(* The contents of a list after each operation, element by element.        *)
(***************************************************************************)

\* Append adds one element at the end.
LEMMA AppendFacts ==
    ASSUME NEW s \in Seq(Threads), NEW x \in Threads
    PROVE  /\ Append(s, x) \in Seq(Threads)
           /\ Len(Append(s, x)) = Len(s) + 1
           /\ \A i \in 1..Len(s) : Append(s, x)[i] = s[i]
           /\ Append(s, x)[Len(s) + 1] = x
  BY LenProperties

\* <<x>> \o s moves every element up by one.
LEMMA ConsFacts ==
    ASSUME NEW s \in Seq(Threads), NEW x \in Threads
    PROVE  /\ <<x>> \o s \in Seq(Threads)
           /\ Len(<<x>> \o s) = Len(s) + 1
           /\ (<<x>> \o s)[1] = x
           /\ \A i \in 1..Len(s) : (<<x>> \o s)[i + 1] = s[i]
<1>1. <<x>> \in Seq(Threads) /\ Len(<<x>>) = 1 /\ <<x>>[1] = x
  OBVIOUS
<1>2. Len(s) \in Nat
  BY LenProperties
<1> DEFINE p == <<x>>
<1>3. /\ p \o s \in Seq(Threads)
      /\ Len(p \o s) = Len(p) + Len(s)
      /\ \A i \in 1..(Len(p) + Len(s)) :
            (p \o s)[i] = IF i <= Len(p) THEN p[i] ELSE s[i - Len(p)]
  <2>1. p \in Seq(Threads)
    BY <1>1
  <2> HIDE DEF p
  <2> QED
    BY <2>1, ConcatProperties
<1>4. Len(p) = 1 /\ p[1] = x
  BY <1>1
<1> HIDE DEF p
<1>5. /\ p \o s \in Seq(Threads)
      /\ Len(p \o s) = Len(s) + 1
      /\ (p \o s)[1] = x
      /\ \A i \in 1..Len(s) : (p \o s)[i + 1] = s[i]
  BY <1>2, <1>3, <1>4
<1> QED
  BY <1>5 DEF p

\* Tail moves every element down by one.
LEMMA TailFacts ==
    ASSUME NEW s \in Seq(Threads), Len(s) > 0
    PROVE  /\ s # <<>>
           /\ Head(s) = s[1]
           /\ Tail(s) \in Seq(Threads)
           /\ Len(Tail(s)) = Len(s) - 1
           /\ \A i \in 1..(Len(s) - 1) : Tail(s)[i] = s[i + 1]
<1>1. s # <<>>
  BY EmptySeq
<1> QED
  BY <1>1, HeadTailProperties, LenProperties

\* Cutting the last element keeps the others in place.
LEMMA FrontFacts ==
    ASSUME NEW s \in Seq(Threads), Len(s) > 0
    PROVE  /\ SubSeq(s, 1, Len(s) - 1) \in Seq(Threads)
           /\ Len(SubSeq(s, 1, Len(s) - 1)) = Len(s) - 1
           /\ \A i \in 1..(Len(s) - 1) : SubSeq(s, 1, Len(s) - 1)[i] = s[i]
<1>1. Len(s) \in Nat /\ \A i \in 1..Len(s) : s[i] \in Threads
  BY LenProperties, ElementOfSeq
<1>2. \A i \in 1..(Len(s) - 1) : s[i] \in Threads
  BY <1>1
<1>3. /\ SubSeq(s, 1, Len(s) - 1) \in Seq(Threads)
      /\ Len(SubSeq(s, 1, Len(s) - 1)) =
            IF 1 <= Len(s) - 1 THEN (Len(s) - 1) - 1 + 1 ELSE 0
      /\ \A i \in 1..((Len(s) - 1) - 1 + 1) :
            SubSeq(s, 1, Len(s) - 1)[i] = s[1 + i - 1]
  BY <1>1, <1>2, SubSeqProperties
<1> DEFINE p == SubSeq(s, 1, Len(s) - 1)
           n == Len(s)
<1>4. /\ p \in Seq(Threads)
      /\ Len(p) = n - 1
      /\ \A i \in 1..(n - 1) : p[i] = s[i]
  <2>1. /\ p \in Seq(Threads)
        /\ Len(p) = IF 1 <= n - 1 THEN (n - 1) - 1 + 1 ELSE 0
        /\ \A i \in 1..((n - 1) - 1 + 1) : p[i] = s[1 + i - 1]
    BY <1>3
  <2>2. n \in Nat /\ n > 0
    BY <1>1
  <2> HIDE DEF p, n
  <2> QED
    BY <2>1, <2>2
<1> QED
  BY <1>4

-----------------------------------------------------------------------------
(***************************************************************************)
(* What the invariant says of one list, with the definitions opened.       *)
(***************************************************************************)
LEMMA SpellsFacts ==
    ASSUME IInv, NEW l \in Lists
    PROVE  /\ queue[l] \in Seq(Threads)
           /\ Len(queue[l]) \in Nat
           /\ m_count[l] = Len(queue[l])
           /\ \A i \in 1..Len(queue[l]) : queue[l][i] \in Threads
           /\ Len(queue[l]) = 0 => m_start[l] = NoThread /\ m_end[l] = NoThread
           /\ Len(queue[l]) > 0 =>
                 /\ m_start[l] = queue[l][1] /\ m_end[l] = queue[l][Len(queue[l])]
                 /\ m_start[l] \in Threads /\ m_end[l] \in Threads
                 /\ prev[m_start[l]] = NoThread /\ next[m_end[l]] = NoThread
           /\ \A i \in 1..(Len(queue[l]) - 1) :
                 /\ next[queue[l][i]] = queue[l][i + 1]
                 /\ prev[queue[l][i + 1]] = queue[l][i]
<1>1. queue[l] \in Seq(Threads)
  BY DEF IInv, TypeOK
<1>2. Len(queue[l]) \in Nat /\ \A i \in 1..Len(queue[l]) : queue[l][i] \in Threads
  BY <1>1, LenProperties, ElementOfSeq
<1>3. Spells(l)
  BY DEF IInv, LinksOK
<1> QED
  BY <1>1, <1>2, <1>3 DEF Spells

\* One list changes its contents to s; the others keep theirs, and no link of
\* their threads changes.  Then it is enough to look at the list that changed
\* and at the threads in no list.
LEMMA OneListChanges ==
    ASSUME IInv, NEW l \in Lists, NEW s \in Seq(Threads),
           queue' = [queue EXCEPT ![l] = s],
           \A k \in Lists \ {l} : /\ m_start'[k] = m_start[k]
                                  /\ m_end'[k] = m_end[k]
                                  /\ m_count'[k] = m_count[k],
           \A k \in Lists \ {l} : \A i \in 1..Len(queue[k]) :
               /\ next'[queue[k][i]] = next[queue[k][i]]
               /\ prev'[queue[k][i]] = prev[queue[k][i]],
           \A i, j \in 1..Len(s) : s[i] = s[j] => i = j,
           \A k \in Lists \ {l} : \A i \in 1..Len(queue[k]), j \in 1..Len(s) :
               queue[k][i] # s[j],
           Spells(l)',
           \A t \in Threads : ~Queued(t)' => next'[t] = NoThread /\ prev'[t] = NoThread
    PROVE  LinksOK'
<1>1. \A k \in Lists : queue'[k] = IF k = l THEN s ELSE queue[k]
  BY DEF IInv, TypeOK
<1>2. Distinct'
  BY <1>1 DEF IInv, LinksOK, Distinct
<1>3. ASSUME NEW k \in Lists \ {l}
      PROVE  Spells(k)'
  <2>1. /\ queue'[k] = queue[k] /\ m_start'[k] = m_start[k]
        /\ m_end'[k] = m_end[k] /\ m_count'[k] = m_count[k]
    BY <1>1, <1>3
  <2>2. \A i \in 1..Len(queue[k]) : /\ next'[queue[k][i]] = next[queue[k][i]]
                                    /\ prev'[queue[k][i]] = prev[queue[k][i]]
    BY <1>3
  <2>3. Spells(k) /\ Len(queue[k]) \in Nat
    BY <1>3, SpellsFacts DEF IInv, LinksOK
  <2> DEFINE q == queue[k]
             n == Len(q)
  <2>4. /\ m_count[k] = n
        /\ n = 0 => m_start[k] = NoThread /\ m_end[k] = NoThread
        /\ n > 0 => /\ m_start[k] = q[1] /\ m_end[k] = q[n]
                    /\ prev'[q[1]] = NoThread /\ next'[q[n]] = NoThread
        /\ \A i \in 1..(n - 1) : next'[q[i]] = q[i + 1] /\ prev'[q[i + 1]] = q[i]
    BY <2>2, <2>3 DEF Spells
  <2> QED
    BY <2>1, <2>4 DEF Spells
<1> QED
  BY <1>2, <1>3 DEF LinksOK

-----------------------------------------------------------------------------
(***************************************************************************)
(* One lemma for each operation.                                           *)
(***************************************************************************)
LEMMA PushBackStep ==
    ASSUME IInv, NEW l \in Lists, NEW t \in Threads, PushBack(l, t)
    PROVE  IInv'
<1> DEFINE q == queue[l]
           n == Len(q)
           s == Append(q, t)
<1>1. TypeOK /\ NoThread \notin Threads
  BY ListAssumption DEF IInv
<1>2. /\ s \in Seq(Threads) /\ Len(s) = n + 1 /\ s[n + 1] = t
      /\ \A i \in 1..n : s[i] = q[i]
  BY SpellsFacts, AppendFacts
<1>3. \A k \in Lists : \A i \in 1..Len(queue[k]) : queue[k][i] # t
  BY DEF PushBack, Queued
<1>4. next[t] = NoThread /\ prev[t] = NoThread
  BY DEF PushBack, IInv, LinksOK
<1>5. /\ n \in Nat /\ m_count[l] = n
      /\ \A i \in 1..n : q[i] \in Threads
      /\ n = 0 => m_start[l] = NoThread /\ m_end[l] = NoThread
      /\ n > 0 => /\ m_start[l] = q[1] /\ m_end[l] = q[n]
                  /\ prev[q[1]] = NoThread /\ next[q[n]] = NoThread
      /\ \A i \in 1..(n - 1) : next[q[i]] = q[i + 1] /\ prev[q[i + 1]] = q[i]
  BY SpellsFacts
<1>6. \A k, j \in Lists : \A i \in 1..Len(queue[k]), h \in 1..Len(queue[j]) :
         queue[k][i] = queue[j][h] => k = j /\ i = h
  BY DEF IInv, LinksOK, Distinct
<1>7. /\ queue' = [queue EXCEPT ![l] = s]
      /\ m_start' = [m_start EXCEPT ![l] = IF n = 0 THEN t ELSE q[1]]
      /\ m_end' = [m_end EXCEPT ![l] = t]
      /\ m_count' = [m_count EXCEPT ![l] = n + 1]
      /\ ret' = NoThread
  <2>1. (IF m_start[l] = NoThread THEN t ELSE m_start[l]) =
        (IF n = 0 THEN t ELSE q[1])
    BY <1>1, <1>5
  <2>2. m_start' = [m_start EXCEPT ![l] = IF n = 0 THEN t ELSE q[1]]
    BY <1>1, <2>1, Zenon DEF PushBack, TypeOK
  <2>3. queue' = [queue EXCEPT ![l] = s] /\ ret' = NoThread
    BY DEF PushBack
  <2> HIDE DEF n, q
  <2>4. /\ m_end' = [m_end EXCEPT ![l] = t]
        /\ m_count' = [m_count EXCEPT ![l] = n + 1]
    BY <1>5 DEF PushBack
  <2> QED
    BY <2>2, <2>3, <2>4
<1>8. /\ next' \in [Threads -> Cells] /\ prev' \in [Threads -> Cells]
      /\ \A u \in Threads :
            /\ next'[u] = IF n > 0 /\ u = q[n] THEN t ELSE next[u]
            /\ prev'[u] = IF u # t THEN prev[u]
                          ELSE IF n = 0 THEN NoThread ELSE q[n]
  <2>1. m_end[l] \in Cells
    BY <1>1 DEF TypeOK
  <2>2. CASE n = 0
    BY <1>1, <1>5, <2>1, <2>2 DEF PushBack, TypeOK, SetLink, Cells
  <2>3. CASE n > 0
    BY <1>1, <1>5, <2>1, <2>3 DEF PushBack, TypeOK, SetLink, Cells
  <2> QED
    BY <1>5, <2>2, <2>3
<1> HIDE DEF s, n, q
<1>9. TypeOK'
  BY <1>1, <1>2, <1>5, <1>7, <1>8 DEF TypeOK, Cells
<1>10. /\ queue'[l] = s /\ m_count'[l] = n + 1 /\ m_end'[l] = t
       /\ m_start'[l] = IF n = 0 THEN t ELSE q[1]
  BY <1>1, <1>7 DEF TypeOK
<1>11. \A i \in 1..n : q[i] # t
  BY <1>3 DEF q, n
<1>12. \A i, j \in 1..n : q[i] = q[j] => i = j
  BY <1>6 DEF q, n
<1>13. Spells(l)'
  <2>1. m_start'[l] = s[1] /\ m_end'[l] = s[n + 1]
    BY <1>2, <1>5, <1>10
  <2>2. prev'[s[1]] = NoThread /\ next'[s[n + 1]] = NoThread
    BY <1>2, <1>4, <1>5, <1>8, <1>11
  <2>3. ASSUME NEW i \in 1..n
        PROVE  next'[s[i]] = s[i + 1] /\ prev'[s[i + 1]] = s[i]
    <3>1. CASE i = n
      BY <1>2, <1>5, <1>8, <3>1
    <3>2. CASE i < n
      BY <1>2, <1>5, <1>8, <1>11, <1>12, <3>2, SMTT(30)
    <3> QED
      BY <1>5, <3>1, <3>2
  <2>4. (n + 1) - 1 = n
    BY <1>5
  <2> QED
    BY <1>2, <1>5, <1>10, <2>1, <2>2, <2>3, <2>4 DEF Spells
<1>14. \A k \in Lists \ {l} : \A i \in 1..Len(queue[k]) :
          /\ next'[queue[k][i]] = next[queue[k][i]]
          /\ prev'[queue[k][i]] = prev[queue[k][i]]
  <2> SUFFICES ASSUME NEW k \in Lists \ {l}, NEW i \in 1..Len(queue[k])
               PROVE  /\ next'[queue[k][i]] = next[queue[k][i]]
                      /\ prev'[queue[k][i]] = prev[queue[k][i]]
    OBVIOUS
  <2>1. queue[k][i] \in Threads /\ queue[k][i] # t
    BY <1>3, SpellsFacts
  <2>2. n > 0 => queue[k][i] # q[n]
    BY <1>5, <1>6 DEF q, n
  <2> QED
    BY <1>8, <2>1, <2>2
<1>15. \A u \in Threads : ~Queued(u)' => next'[u] = NoThread /\ prev'[u] = NoThread
  <2> SUFFICES ASSUME NEW u \in Threads, ~Queued(u)'
               PROVE  next'[u] = NoThread /\ prev'[u] = NoThread
    OBVIOUS
  <2>1. \A k \in Lists : queue'[k] = IF k = l THEN s ELSE queue[k]
    BY <1>1, <1>7 DEF TypeOK
  <2>2. \A i \in 1..(n + 1) : s[i] # u
    BY <1>2, <2>1 DEF Queued
  <2>3. u # t /\ \A i \in 1..n : q[i] # u
    BY <1>2, <1>5, <2>2
  <2>4. ~Queued(u)
    BY <2>1, <2>3 DEF Queued, q, n
  <2>5. next[u] = NoThread /\ prev[u] = NoThread
    BY <2>4 DEF IInv, LinksOK
  <2> QED
    BY <1>5, <1>8, <2>3, <2>5
<1>16. \A i, j \in 1..Len(s) : s[i] = s[j] => i = j
  BY <1>2, <1>5, <1>11, <1>12
<1>17. \A k \in Lists \ {l} : \A i \in 1..Len(queue[k]), j \in 1..Len(s) :
          queue[k][i] # s[j]
  <2> SUFFICES ASSUME NEW k \in Lists \ {l}, NEW i \in 1..Len(queue[k]),
                      NEW j \in 1..(n + 1)
               PROVE  queue[k][i] # s[j]
    BY <1>2
  <2>1. queue[k][i] # t /\ \A h \in 1..n : queue[k][i] # q[h]
    BY <1>3, <1>6 DEF q, n
  <2> QED
    BY <1>2, <1>5, <2>1
<1>18. \A k \in Lists \ {l} : /\ m_start'[k] = m_start[k]
                              /\ m_end'[k] = m_end[k]
                              /\ m_count'[k] = m_count[k]
  BY <1>1, <1>7 DEF TypeOK
<1>19. LinksOK'
  BY <1>2, <1>7, <1>13, <1>14, <1>15, <1>16, <1>17, <1>18, OneListChanges, Zenon
<1> QED
  BY <1>9, <1>19 DEF IInv

\* PushFront keeps the links.
LEMMA PushFrontStep ==
    ASSUME IInv, NEW l \in Lists, NEW t \in Threads, PushFront(l, t)
    PROVE  IInv'
<1> DEFINE q == queue[l]
           n == Len(q)
           s == <<t>> \o q
<1>1. TypeOK /\ NoThread \notin Threads
  BY ListAssumption DEF IInv
<1>2. /\ s \in Seq(Threads) /\ Len(s) = n + 1 /\ s[1] = t
      /\ \A i \in 1..n : s[i + 1] = q[i]
  BY SpellsFacts, ConsFacts
<1>3. \A k \in Lists : \A i \in 1..Len(queue[k]) : queue[k][i] # t
  BY DEF PushFront, Queued
<1>4. next[t] = NoThread /\ prev[t] = NoThread
  BY DEF PushFront, IInv, LinksOK
<1>5. /\ n \in Nat /\ m_count[l] = n
      /\ \A i \in 1..n : q[i] \in Threads
      /\ n = 0 => m_start[l] = NoThread /\ m_end[l] = NoThread
      /\ n > 0 => /\ m_start[l] = q[1] /\ m_end[l] = q[n]
                  /\ prev[q[1]] = NoThread /\ next[q[n]] = NoThread
      /\ \A i \in 1..(n - 1) : next[q[i]] = q[i + 1] /\ prev[q[i + 1]] = q[i]
  BY SpellsFacts
<1>6. \A k, j \in Lists : \A i \in 1..Len(queue[k]), h \in 1..Len(queue[j]) :
         queue[k][i] = queue[j][h] => k = j /\ i = h
  BY DEF IInv, LinksOK, Distinct
<1>7. /\ queue' = [queue EXCEPT ![l] = s]
      /\ m_start' = [m_start EXCEPT ![l] = t]
      /\ m_end' = [m_end EXCEPT ![l] = IF n = 0 THEN t ELSE q[n]]
      /\ m_count' = [m_count EXCEPT ![l] = n + 1]
      /\ ret' = NoThread
  <2>1. (IF m_end[l] = NoThread THEN t ELSE m_end[l]) =
        (IF n = 0 THEN t ELSE q[n])
    BY <1>1, <1>5
  <2>2. m_end' = [m_end EXCEPT ![l] = IF n = 0 THEN t ELSE q[n]]
    BY <1>1, <2>1, Zenon DEF PushFront, TypeOK
  <2>3. queue' = [queue EXCEPT ![l] = s] /\ ret' = NoThread
    BY DEF PushFront
  <2> HIDE DEF n, q
  <2>4. /\ m_start' = [m_start EXCEPT ![l] = t]
        /\ m_count' = [m_count EXCEPT ![l] = n + 1]
    BY <1>5 DEF PushFront
  <2> QED
    BY <2>2, <2>3, <2>4
<1>8. /\ next' \in [Threads -> Cells] /\ prev' \in [Threads -> Cells]
      /\ \A u \in Threads :
            /\ prev'[u] = IF n > 0 /\ u = q[1] THEN t ELSE prev[u]
            /\ next'[u] = IF u # t THEN next[u]
                          ELSE IF n = 0 THEN NoThread ELSE q[1]
  <2>1. m_start[l] \in Cells
    BY <1>1 DEF TypeOK
  <2>2. CASE n = 0
    BY <1>1, <1>5, <2>1, <2>2 DEF PushFront, TypeOK, SetLink, Cells
  <2>3. CASE n > 0
    BY <1>1, <1>5, <2>1, <2>3 DEF PushFront, TypeOK, SetLink, Cells
  <2> QED
    BY <1>5, <2>2, <2>3
<1> HIDE DEF s, n, q
<1>9. TypeOK'
  BY <1>1, <1>2, <1>5, <1>7, <1>8 DEF TypeOK, Cells
<1>10. /\ queue'[l] = s /\ m_count'[l] = n + 1 /\ m_start'[l] = t
       /\ m_end'[l] = IF n = 0 THEN t ELSE q[n]
  BY <1>1, <1>7 DEF TypeOK
<1>11. \A i \in 1..n : q[i] # t
  BY <1>3 DEF q, n
<1>12. \A i, j \in 1..n : q[i] = q[j] => i = j
  BY <1>6 DEF q, n
<1>13. Spells(l)'
  <2>1. m_start'[l] = s[1] /\ m_end'[l] = s[n + 1]
    BY <1>2, <1>5, <1>10
  <2>2. prev'[s[1]] = NoThread /\ next'[s[n + 1]] = NoThread
    BY <1>2, <1>4, <1>5, <1>8, <1>11
  <2>3. ASSUME NEW i \in 1..n
        PROVE  next'[s[i]] = s[i + 1] /\ prev'[s[i + 1]] = s[i]
    <3>1. CASE i = 1
      BY <1>2, <1>5, <1>8, <3>1
    <3>2. CASE i > 1
      <4>1. /\ s[i] = q[i - 1] /\ s[i + 1] = q[i]
            /\ next[q[i - 1]] = q[i] /\ prev[q[i]] = q[i - 1]
            /\ q[i] \in Threads /\ q[i - 1] \in Threads
            /\ q[i - 1] # t /\ q[i] # t
        <5>1. /\ i - 1 \in 1..n /\ i - 1 \in 1..(n - 1)
              /\ (i - 1) + 1 = i /\ i \in 1..n
          BY <1>5, <3>2
        <5> QED
          BY <1>2, <1>5, <1>11, <5>1
      <4>2. q[i] # q[1]
        BY <1>5, <1>12, <3>2
      <4> QED
        BY <1>8, <4>1, <4>2
    <3> QED
      BY <1>5, <3>1, <3>2
  <2>4. (n + 1) - 1 = n
    BY <1>5
  <2> QED
    BY <1>2, <1>5, <1>10, <2>1, <2>2, <2>3, <2>4 DEF Spells
<1>14. \A k \in Lists \ {l} : \A i \in 1..Len(queue[k]) :
          /\ next'[queue[k][i]] = next[queue[k][i]]
          /\ prev'[queue[k][i]] = prev[queue[k][i]]
  <2> SUFFICES ASSUME NEW k \in Lists \ {l}, NEW i \in 1..Len(queue[k])
               PROVE  /\ next'[queue[k][i]] = next[queue[k][i]]
                      /\ prev'[queue[k][i]] = prev[queue[k][i]]
    OBVIOUS
  <2>1. queue[k][i] \in Threads /\ queue[k][i] # t
    BY <1>3, SpellsFacts
  <2>2. n > 0 => queue[k][i] # q[1]
    BY <1>5, <1>6 DEF q, n
  <2> QED
    BY <1>8, <2>1, <2>2
<1>15. \A u \in Threads : ~Queued(u)' => next'[u] = NoThread /\ prev'[u] = NoThread
  <2> SUFFICES ASSUME NEW u \in Threads, ~Queued(u)'
               PROVE  next'[u] = NoThread /\ prev'[u] = NoThread
    OBVIOUS
  <2>1. \A k \in Lists : queue'[k] = IF k = l THEN s ELSE queue[k]
    BY <1>1, <1>7 DEF TypeOK
  <2>2. \A i \in 1..(n + 1) : s[i] # u
    BY <1>2, <2>1 DEF Queued
  <2>3. u # t /\ \A i \in 1..n : q[i] # u
    <3>1. 1 \in 1..(n + 1) /\ \A i \in 1..n : i + 1 \in 1..(n + 1)
      BY <1>5
    <3> QED
      BY <1>2, <2>2, <3>1
  <2>4. ~Queued(u)
    BY <2>1, <2>3 DEF Queued, q, n
  <2>5. next[u] = NoThread /\ prev[u] = NoThread
    BY <2>4 DEF IInv, LinksOK
  <2> QED
    BY <1>5, <1>8, <2>3, <2>5
<1>16. \A i, j \in 1..Len(s) : s[i] = s[j] => i = j
  <2>1. \A i \in 1..(n + 1) : i = 1 \/ (i - 1 \in 1..n /\ s[i] = q[i - 1])
    BY <1>2, <1>5
  <2> QED
    BY <1>2, <1>5, <1>11, <1>12, <2>1
<1>17. \A k \in Lists \ {l} : \A i \in 1..Len(queue[k]), j \in 1..Len(s) :
          queue[k][i] # s[j]
  <2> SUFFICES ASSUME NEW k \in Lists \ {l}, NEW i \in 1..Len(queue[k]),
                      NEW j \in 1..(n + 1)
               PROVE  queue[k][i] # s[j]
    BY <1>2
  <2>1. queue[k][i] # t /\ \A h \in 1..n : queue[k][i] # q[h]
    BY <1>3, <1>6 DEF q, n
  <2>2. j = 1 \/ (j - 1 \in 1..n /\ s[j] = q[j - 1])
    BY <1>2, <1>5
  <2> QED
    BY <1>2, <2>1, <2>2
<1>18. \A k \in Lists \ {l} : /\ m_start'[k] = m_start[k]
                              /\ m_end'[k] = m_end[k]
                              /\ m_count'[k] = m_count[k]
  BY <1>1, <1>7 DEF TypeOK
<1>19. LinksOK'
  BY <1>2, <1>7, <1>13, <1>14, <1>15, <1>16, <1>17, <1>18, OneListChanges, Zenon
<1> QED
  BY <1>9, <1>19 DEF IInv

\* PopFront of several threads keeps the links.
LEMMA PopFrontStep ==
    ASSUME IInv, NEW l \in Lists, PopFrontMany(l)
    PROVE  IInv'
<1> DEFINE q == queue[l]
           n == Len(q)
           s == Tail(q)
<1>1. TypeOK /\ NoThread \notin Threads /\ m_count[l] > 1
  BY ListAssumption DEF IInv, PopFrontMany
<1>2. n \in Nat /\ n > 1
  BY <1>1, SpellsFacts
<1>3. /\ s \in Seq(Threads) /\ Len(s) = n - 1
      /\ \A i \in 1..(n - 1) : s[i] = q[i + 1]
  BY <1>2, SpellsFacts, TailFacts
<1>5. /\ m_count[l] = n
      /\ \A i \in 1..n : q[i] \in Threads
      /\ m_start[l] = q[1] /\ m_end[l] = q[n]
      /\ prev[q[1]] = NoThread /\ next[q[n]] = NoThread
      /\ \A i \in 1..(n - 1) : next[q[i]] = q[i + 1] /\ prev[q[i + 1]] = q[i]
  BY <1>2, SpellsFacts
<1>6. \A k, j \in Lists : \A i \in 1..Len(queue[k]), h \in 1..Len(queue[j]) :
         queue[k][i] = queue[j][h] => k = j /\ i = h
  BY DEF IInv, LinksOK, Distinct
<1>7. queue' = [queue EXCEPT ![l] = s]
  BY DEF PopFrontMany
<1> HIDE DEF s, n, q
<1>8. /\ m_start' = [m_start EXCEPT ![l] = q[2]]
      /\ m_end' = [m_end EXCEPT ![l] = q[n]]
      /\ m_count' = [m_count EXCEPT ![l] = n - 1]
      /\ ret' = q[1]
      /\ next' = [next EXCEPT ![q[1]] = NoThread]
      /\ prev' = [prev EXCEPT ![q[2]] = NoThread]
  <2>1. next[q[1]] = q[2]
    BY <1>2, <1>5
  <2>2. m_count' = [m_count EXCEPT ![l] = n - 1]
    BY <1>5 DEF PopFrontMany
  <2>3. m_end' = [m_end EXCEPT ![l] = q[n]]
    BY <1>1, <1>5 DEF PopFrontMany, TypeOK
  <2> QED
    BY <1>5, <2>1, <2>2, <2>3, Zenon DEF PopFrontMany
<1>9. q[1] \in Threads /\ q[2] \in Threads /\ q[n - 1] \in Threads /\ q[n] \in Threads
  BY <1>2, <1>5
<1>10. TypeOK'
  BY <1>1, <1>2, <1>3, <1>7, <1>8, <1>9 DEF TypeOK, Cells
<1>11. \A i, j \in 1..n : q[i] = q[j] => i = j
  BY <1>6 DEF q, n
<1>12. Spells(l)'
  <2>1. /\ queue'[l] = s /\ m_count'[l] = n - 1
        /\ m_start'[l] = q[2] /\ m_end'[l] = q[n]
    BY <1>1, <1>7, <1>8 DEF TypeOK
  <2>2. \A u \in Threads : /\ next'[u] = IF u = q[1] THEN NoThread ELSE next[u]
                           /\ prev'[u] = IF u = q[2] THEN NoThread ELSE prev[u]
    BY <1>1, <1>8 DEF TypeOK
  <2>3. s[1] = q[2] /\ s[n - 1] = q[n]
    BY <1>2, <1>3
  <2>4. prev'[s[1]] = NoThread /\ next'[s[n - 1]] = NoThread
    BY <1>2, <1>5, <1>9, <1>11, <2>2, <2>3
  <2>5. ASSUME NEW i \in 1..(n - 2)
        PROVE  next'[s[i]] = s[i + 1] /\ prev'[s[i + 1]] = s[i]
    <3> DEFINE j == i + 1
    <3>1. /\ j \in 1..(n - 1) /\ j \in 1..n /\ j + 1 \in 1..n
          /\ s[i] = q[j] /\ s[i + 1] = q[j + 1]
          /\ j # 1 /\ j + 1 # 2
      BY <1>2, <1>3
    <3> HIDE DEF j
    <3>2. next[q[j]] = q[j + 1] /\ prev[q[j + 1]] = q[j]
      BY <1>5, <3>1
    <3>3. q[j] # q[1] /\ q[j + 1] # q[2]
      BY <1>2, <1>11, <3>1
    <3> QED
      BY <1>5, <2>2, <3>1, <3>2, <3>3
  <2>6. n - 1 > 0 /\ (n - 1) - 1 = n - 2 /\ n - 1 \in Nat
    BY <1>2
  <2> QED
    BY <1>3, <2>1, <2>3, <2>4, <2>5, <2>6 DEF Spells
<1>13. \A k \in Lists \ {l} : \A i \in 1..Len(queue[k]) :
          /\ next'[queue[k][i]] = next[queue[k][i]]
          /\ prev'[queue[k][i]] = prev[queue[k][i]]
  <2> SUFFICES ASSUME NEW k \in Lists \ {l}, NEW i \in 1..Len(queue[k])
               PROVE  /\ next'[queue[k][i]] = next[queue[k][i]]
                      /\ prev'[queue[k][i]] = prev[queue[k][i]]
    OBVIOUS
  <2>1. queue[k][i] \in Threads
    BY SpellsFacts
  <2>2. \A j \in 1..n : queue[k][i] # q[j]
    BY <1>6 DEF q, n
  <2>3. queue[k][i] # q[1] /\ queue[k][i] # q[2]
    BY <1>2, <2>2
  <2> QED
    BY <1>1, <1>8, <2>1, <2>3 DEF TypeOK
<1>14. \A u \in Threads : ~Queued(u)' => next'[u] = NoThread /\ prev'[u] = NoThread
  <2> SUFFICES ASSUME NEW u \in Threads, ~Queued(u)'
               PROVE  next'[u] = NoThread /\ prev'[u] = NoThread
    OBVIOUS
  <2>1. \A k \in Lists : queue'[k] = IF k = l THEN s ELSE queue[k]
    BY <1>1, <1>7 DEF TypeOK
  <2>2. \A i \in 1..(n - 1) : s[i] # u
    BY <1>3, <2>1 DEF Queued
  <2>3. CASE u = q[1]
    <3>1. q[1] # q[2]
      BY <1>2, <1>11
    <3> QED
      BY <1>1, <1>5, <1>8, <1>9, <2>3, <3>1 DEF TypeOK
  <2>4. CASE u # q[1]
    <3>1. \A i \in 1..n : q[i] # u
      <4>1. \A i \in 1..n : i = 1 \/ \E j \in 1..(n - 1) : s[j] = q[i]
        <5> SUFFICES ASSUME NEW i \in 1..n, i # 1
                     PROVE  \E j \in 1..(n - 1) : s[j] = q[i]
          OBVIOUS
        <5>1. i - 1 \in 1..(n - 1) /\ s[i - 1] = q[i]
          BY <1>2, <1>3
        <5> QED
          BY <5>1
      <4> QED
        BY <2>2, <2>4, <4>1
    <3>2. ~Queued(u)
      BY <2>1, <3>1 DEF Queued, q, n
    <3>3. next[u] = NoThread /\ prev[u] = NoThread
      BY <3>2 DEF IInv, LinksOK
    <3> QED
      BY <1>1, <1>8, <3>3 DEF TypeOK
  <2> QED
    BY <2>3, <2>4
<1>15. \A i, j \in 1..Len(s) : s[i] = s[j] => i = j
  BY <1>2, <1>3, <1>11
<1>16. \A k \in Lists \ {l} : \A i \in 1..Len(queue[k]), j \in 1..Len(s) :
          queue[k][i] # s[j]
  <2> SUFFICES ASSUME NEW k \in Lists \ {l}, NEW i \in 1..Len(queue[k]),
                      NEW j \in 1..(n - 1)
               PROVE  queue[k][i] # s[j]
    BY <1>3
  <2>1. \A h \in 1..n : queue[k][i] # q[h]
    BY <1>6 DEF q, n
  <2> QED
    BY <1>2, <1>3, <2>1
<1>17. \A k \in Lists \ {l} : /\ m_start'[k] = m_start[k]
                              /\ m_end'[k] = m_end[k]
                              /\ m_count'[k] = m_count[k]
  BY <1>1, <1>8 DEF TypeOK
<1>18. LinksOK'
  BY <1>3, <1>7, <1>12, <1>13, <1>14, <1>15, <1>16, <1>17, OneListChanges, Zenon
<1> QED
  BY <1>10, <1>18 DEF IInv

\* PopBack of several threads keeps the links.
LEMMA PopBackStep ==
    ASSUME IInv, NEW l \in Lists, PopBackMany(l)
    PROVE  IInv'
<1> DEFINE q == queue[l]
           n == Len(q)
           s == SubSeq(q, 1, Len(q) - 1)
<1>1. TypeOK /\ NoThread \notin Threads /\ m_count[l] > 1
  BY ListAssumption DEF IInv, PopBackMany
<1>2. n \in Nat /\ n > 1
  BY <1>1, SpellsFacts
<1>3. /\ s \in Seq(Threads) /\ Len(s) = n - 1
      /\ \A i \in 1..(n - 1) : s[i] = q[i]
  BY <1>2, SpellsFacts, FrontFacts
<1>5. /\ m_count[l] = n
      /\ \A i \in 1..n : q[i] \in Threads
      /\ m_start[l] = q[1] /\ m_end[l] = q[n]
      /\ prev[q[1]] = NoThread /\ next[q[n]] = NoThread
      /\ \A i \in 1..(n - 1) : next[q[i]] = q[i + 1] /\ prev[q[i + 1]] = q[i]
  BY <1>2, SpellsFacts
<1>6. \A k, j \in Lists : \A i \in 1..Len(queue[k]), h \in 1..Len(queue[j]) :
         queue[k][i] = queue[j][h] => k = j /\ i = h
  BY DEF IInv, LinksOK, Distinct
<1>7. queue' = [queue EXCEPT ![l] = s]
  BY DEF PopBackMany
<1> HIDE DEF s, n, q
<1>8. /\ m_start' = [m_start EXCEPT ![l] = q[1]]
      /\ m_end' = [m_end EXCEPT ![l] = q[n - 1]]
      /\ m_count' = [m_count EXCEPT ![l] = n - 1]
      /\ ret' = q[n]
      /\ next' = [next EXCEPT ![q[n - 1]] = NoThread]
      /\ prev' = [prev EXCEPT ![q[n]] = NoThread]
  <2>1. prev[q[n]] = q[n - 1]
    BY <1>2, <1>5
  <2>2. m_count' = [m_count EXCEPT ![l] = n - 1]
    BY <1>5 DEF PopBackMany
  <2>3. m_start' = [m_start EXCEPT ![l] = q[1]]
    BY <1>1, <1>5 DEF PopBackMany, TypeOK
  <2> QED
    BY <1>5, <2>1, <2>2, <2>3, Zenon DEF PopBackMany
<1>9. q[1] \in Threads /\ q[2] \in Threads /\ q[n - 1] \in Threads /\ q[n] \in Threads
  BY <1>2, <1>5
<1>10. TypeOK'
  BY <1>1, <1>2, <1>3, <1>7, <1>8, <1>9 DEF TypeOK, Cells
<1>11. \A i, j \in 1..n : q[i] = q[j] => i = j
  BY <1>6 DEF q, n
<1>12. Spells(l)'
  <2>1. /\ queue'[l] = s /\ m_count'[l] = n - 1
        /\ m_start'[l] = q[1] /\ m_end'[l] = q[n - 1]
    BY <1>1, <1>7, <1>8 DEF TypeOK
  <2>2. \A u \in Threads : /\ next'[u] = IF u = q[n - 1] THEN NoThread ELSE next[u]
                           /\ prev'[u] = IF u = q[n] THEN NoThread ELSE prev[u]
    BY <1>1, <1>8 DEF TypeOK
  <2>3. s[1] = q[1] /\ s[n - 1] = q[n - 1]
    BY <1>2, <1>3
  <2>4. prev'[s[1]] = NoThread /\ next'[s[n - 1]] = NoThread
    BY <1>2, <1>5, <1>9, <1>11, <2>2, <2>3
  <2>5. ASSUME NEW i \in 1..(n - 2)
        PROVE  next'[s[i]] = s[i + 1] /\ prev'[s[i + 1]] = s[i]
    <3> DEFINE j == i
    <3>1. /\ j \in 1..(n - 1) /\ j \in 1..n /\ j + 1 \in 1..n
          /\ s[i] = q[j] /\ s[i + 1] = q[j + 1]
          /\ j # n - 1 /\ j + 1 # n
      BY <1>2, <1>3
    <3> HIDE DEF j
    <3>2. next[q[j]] = q[j + 1] /\ prev[q[j + 1]] = q[j]
      BY <1>5, <3>1
    <3>3. q[j] # q[n - 1] /\ q[j + 1] # q[n]
      BY <1>2, <1>11, <3>1
    <3> QED
      BY <1>5, <2>2, <3>1, <3>2, <3>3
  <2>6. n - 1 > 0 /\ (n - 1) - 1 = n - 2 /\ n - 1 \in Nat
    BY <1>2
  <2> QED
    BY <1>3, <2>1, <2>3, <2>4, <2>5, <2>6 DEF Spells
<1>13. \A k \in Lists \ {l} : \A i \in 1..Len(queue[k]) :
          /\ next'[queue[k][i]] = next[queue[k][i]]
          /\ prev'[queue[k][i]] = prev[queue[k][i]]
  <2> SUFFICES ASSUME NEW k \in Lists \ {l}, NEW i \in 1..Len(queue[k])
               PROVE  /\ next'[queue[k][i]] = next[queue[k][i]]
                      /\ prev'[queue[k][i]] = prev[queue[k][i]]
    OBVIOUS
  <2>1. queue[k][i] \in Threads
    BY SpellsFacts
  <2>2. \A j \in 1..n : queue[k][i] # q[j]
    BY <1>6 DEF q, n
  <2>3. queue[k][i] # q[n - 1] /\ queue[k][i] # q[n]
    BY <1>2, <2>2
  <2> QED
    BY <1>1, <1>8, <2>1, <2>3 DEF TypeOK
<1>14. \A u \in Threads : ~Queued(u)' => next'[u] = NoThread /\ prev'[u] = NoThread
  <2> SUFFICES ASSUME NEW u \in Threads, ~Queued(u)'
               PROVE  next'[u] = NoThread /\ prev'[u] = NoThread
    OBVIOUS
  <2>1. \A k \in Lists : queue'[k] = IF k = l THEN s ELSE queue[k]
    BY <1>1, <1>7 DEF TypeOK
  <2>2. \A i \in 1..(n - 1) : s[i] # u
    BY <1>3, <2>1 DEF Queued
  <2>3. CASE u = q[n]
    <3>1. q[n] # q[n - 1]
      BY <1>2, <1>11
    <3> QED
      BY <1>1, <1>5, <1>8, <1>9, <2>3, <3>1 DEF TypeOK
  <2>4. CASE u # q[n]
    <3>1. \A i \in 1..n : q[i] # u
      <4>1. \A i \in 1..n : i = n \/ \E j \in 1..(n - 1) : s[j] = q[i]
        <5> SUFFICES ASSUME NEW i \in 1..n, i # n
                     PROVE  \E j \in 1..(n - 1) : s[j] = q[i]
          OBVIOUS
        <5>1. i \in 1..(n - 1) /\ s[i] = q[i]
          BY <1>2, <1>3
        <5> QED
          BY <5>1
      <4> QED
        BY <2>2, <2>4, <4>1
    <3>2. ~Queued(u)
      BY <2>1, <3>1 DEF Queued, q, n
    <3>3. next[u] = NoThread /\ prev[u] = NoThread
      BY <3>2 DEF IInv, LinksOK
    <3> QED
      BY <1>1, <1>8, <3>3 DEF TypeOK
  <2> QED
    BY <2>3, <2>4
<1>15. \A i, j \in 1..Len(s) : s[i] = s[j] => i = j
  BY <1>2, <1>3, <1>11
<1>16. \A k \in Lists \ {l} : \A i \in 1..Len(queue[k]), j \in 1..Len(s) :
          queue[k][i] # s[j]
  <2> SUFFICES ASSUME NEW k \in Lists \ {l}, NEW i \in 1..Len(queue[k]),
                      NEW j \in 1..(n - 1)
               PROVE  queue[k][i] # s[j]
    BY <1>3
  <2>1. \A h \in 1..n : queue[k][i] # q[h]
    BY <1>6 DEF q, n
  <2> QED
    BY <1>2, <1>3, <2>1
<1>17. \A k \in Lists \ {l} : /\ m_start'[k] = m_start[k]
                              /\ m_end'[k] = m_end[k]
                              /\ m_count'[k] = m_count[k]
  BY <1>1, <1>8 DEF TypeOK
<1>18. LinksOK'
  BY <1>3, <1>7, <1>12, <1>13, <1>14, <1>15, <1>16, <1>17, OneListChanges, Zenon
<1> QED
  BY <1>10, <1>18 DEF IInv

\* Popping the only thread, from either end, keeps the links and returns it.
LEMMA PopLastStep ==
    ASSUME IInv, NEW l \in Lists, NEW x,
           x = m_start[l] \/ x = m_end[l], PopLast(l, x)
    PROVE  IInv' /\ x = queue[l][1] /\ Len(queue[l]) = 1
<1>1. TypeOK /\ NoThread \notin Threads /\ m_count[l] = 1
  BY ListAssumption DEF IInv, PopLast
<1>2. /\ Len(queue[l]) = 1 /\ m_start[l] = queue[l][1] /\ m_end[l] = queue[l][1]
      /\ x = queue[l][1] /\ x \in Threads
      /\ next[x] = NoThread /\ prev[x] = NoThread
  <2>1. Len(queue[l]) = 1
    BY <1>1, SpellsFacts, Zenon
  <2>2. /\ m_start[l] = queue[l][1] /\ m_end[l] = queue[l][Len(queue[l])]
        /\ m_start[l] \in Threads
        /\ prev[m_start[l]] = NoThread /\ next[m_end[l]] = NoThread
    BY <2>1, SpellsFacts
  <2> QED
    BY <2>1, <2>2
<1>3. <<>> \in Seq(Threads) /\ Len(<<>>) = 0
  BY EmptySeq
<1> DEFINE e == <<>>
<1>4. /\ queue' = [queue EXCEPT ![l] = e]
      /\ m_start' = [m_start EXCEPT ![l] = NoThread]
      /\ m_end' = [m_end EXCEPT ![l] = NoThread]
      /\ m_count' = [m_count EXCEPT ![l] = 0]
      /\ ret' = x /\ next' = next /\ prev' = prev
  BY DEF PopLast
<1>5. e \in Seq(Threads) /\ Len(e) = 0
  BY <1>3
<1> HIDE DEF e
<1>6. TypeOK'
  BY <1>1, <1>2, <1>4, <1>5 DEF TypeOK, Cells
<1>7. Spells(l)'
  BY <1>1, <1>4, <1>5 DEF Spells, TypeOK
<1>8. \A u \in Threads : ~Queued(u)' => next'[u] = NoThread /\ prev'[u] = NoThread
  <2> SUFFICES ASSUME NEW u \in Threads, ~Queued(u)', u # x
               PROVE  next[u] = NoThread /\ prev[u] = NoThread
    BY <1>2, <1>4
  <2>1. \A k \in Lists : k # l => queue'[k] = queue[k]
    BY <1>1, <1>4 DEF TypeOK
  <2>2. ~Queued(u)
    BY <1>2, <2>1 DEF Queued
  <2> QED
    BY <2>2 DEF IInv, LinksOK
<1>9. \A k \in Lists \ {l} : /\ m_start'[k] = m_start[k]
                             /\ m_end'[k] = m_end[k]
                             /\ m_count'[k] = m_count[k]
  BY <1>1, <1>4 DEF TypeOK
<1>10. LinksOK'
  <2>1. \A k \in Lists \ {l} : \A i \in 1..Len(queue[k]) :
           /\ next'[queue[k][i]] = next[queue[k][i]]
           /\ prev'[queue[k][i]] = prev[queue[k][i]]
    BY <1>4
  <2>2. \A i, j \in 1..Len(e) : e[i] = e[j] => i = j
    BY <1>5
  <2>3. \A k \in Lists \ {l} : \A i \in 1..Len(queue[k]), j \in 1..Len(e) :
           queue[k][i] # e[j]
    BY <1>5
  <2> QED
    BY <1>4, <1>5, <1>7, <1>8, <1>9, <2>1, <2>2, <2>3, OneListChanges, Zenon
<1> QED
  BY <1>2, <1>6, <1>10 DEF IInv

-----------------------------------------------------------------------------
\* Empty lists and fresh threads satisfy the invariant.
LEMMA InitInv == Init => IInv
<1> SUFFICES ASSUME Init PROVE IInv
  OBVIOUS
<1>1. <<>> \in Seq(Threads) /\ Len(<<>>) = 0
  BY EmptySeq
<1>2. \A l \in Lists : Len(queue[l]) = 0
  BY <1>1 DEF Init
<1>3. TypeOK
  BY <1>1 DEF Init, TypeOK, Cells
<1>4. LinksOK
  BY <1>2 DEF Init, LinksOK, Distinct, Spells
<1> QED
  BY <1>3, <1>4 DEF IInv

\* Every operation keeps the invariant.
LEMMA NextInv == IInv /\ [Next]_vars => IInv'
<1> SUFFICES ASSUME IInv, [Next]_vars PROVE IInv'
  OBVIOUS
<1>1. ASSUME NEW l \in Lists, NEW t \in Threads, PushBack(l, t)
      PROVE  IInv'
  BY <1>1, PushBackStep
<1>2. ASSUME NEW l \in Lists, NEW t \in Threads, PushFront(l, t)
      PROVE  IInv'
  BY <1>2, PushFrontStep
<1>3. ASSUME NEW l \in Lists, PopEmpty(l)
      PROVE  IInv'
  BY <1>3 DEF PopEmpty, links, IInv, TypeOK, LinksOK, Distinct, Spells, Queued,
              Cells
<1>4. ASSUME NEW l \in Lists, PopLast(l, m_start[l]) \/ PopLast(l, m_end[l])
      PROVE  IInv'
  BY <1>4, PopLastStep
<1>5. ASSUME NEW l \in Lists, PopFrontMany(l)
      PROVE  IInv'
  BY <1>5, PopFrontStep
<1>6. ASSUME NEW l \in Lists, PopBackMany(l)
      PROVE  IInv'
  BY <1>6, PopBackStep
<1>7. CASE UNCHANGED vars
  BY <1>7 DEF vars, links, IInv, TypeOK, LinksOK, Distinct, Spells, Queued
<1> QED
  BY <1>1, <1>2, <1>3, <1>4, <1>5, <1>6, <1>7 DEF Next, PopFront, PopBack

\* The inductive invariant of the lists.
THEOREM Invariance == Spec => []IInv
  BY InitInv, NextInv, PTL DEF Spec

\* The links of every list keep spelling its contents (PushBack, PushFront,
\* PopBack and PopFront of Scheduler.cpp).
THEOREM LinksCorrect == Spec => []LinksOK
<1>1. IInv => LinksOK
  BY DEF IInv
<1> QED
  BY <1>1, Invariance, PTL

\* Each operation on a list in a good state does what the queue promises.
LEMMA StepRefines == IInv /\ [Next]_vars => [Queues!Next]_(Queues!vars)
<1> SUFFICES ASSUME IInv, [Next]_vars PROVE [Queues!Next]_(Queues!vars)
  OBVIOUS
<1>1. ASSUME NEW l \in Lists, NEW t \in Threads, PushBack(l, t)
      PROVE  Queues!PushBack(l, t)
  BY <1>1 DEF PushBack, Queues!PushBack, Queued, Queues!Queued
<1>2. ASSUME NEW l \in Lists, NEW t \in Threads, PushFront(l, t)
      PROVE  Queues!PushFront(l, t)
  BY <1>2 DEF PushFront, Queues!PushFront, Queued, Queues!Queued
<1>3. ASSUME NEW l \in Lists, PopEmpty(l)
      PROVE  Queues!PopFront(l)
  <2>1. queue[l] = <<>>
    BY <1>3, SpellsFacts, EmptySeq DEF PopEmpty
  <2> QED
    BY <1>3, <2>1 DEF PopEmpty, Queues!PopFront
<1>4. ASSUME NEW l \in Lists, PopLast(l, m_start[l]) \/ PopLast(l, m_end[l])
      PROVE  Queues!PopFront(l)
  <2>1. PICK x : PopLast(l, x) /\ (x = m_start[l] \/ x = m_end[l])
    BY <1>4
  <2>2. x = queue[l][1] /\ Len(queue[l]) = 1 /\ queue[l] \in Seq(Threads)
    BY <2>1, PopLastStep, SpellsFacts
  <2>3. /\ queue[l] # <<>> /\ Head(queue[l]) = queue[l][1]
        /\ Tail(queue[l]) \in Seq(Threads) /\ Len(Tail(queue[l])) = 0
    BY <2>2, TailFacts
  <2>4. Tail(queue[l]) = <<>>
    BY <2>3, EmptySeq, Zenon
  <2>5. ret' = x /\ queue' = [queue EXCEPT ![l] = <<>>]
    BY <2>1 DEF PopLast
  <2> QED
    BY <2>2, <2>3, <2>4, <2>5, Zenon DEF Queues!PopFront
<1>5. ASSUME NEW l \in Lists, PopFrontMany(l)
      PROVE  Queues!PopFront(l)
  <2>1. /\ Len(queue[l]) > 0 /\ m_start[l] = queue[l][1]
        /\ queue[l] \in Seq(Threads)
    BY <1>5, SpellsFacts DEF PopFrontMany
  <2>2. queue[l] # <<>> /\ Head(queue[l]) = queue[l][1]
    BY <2>1, TailFacts
  <2>3. ret' = m_start[l] /\ queue' = [queue EXCEPT ![l] = Tail(@)]
    BY <1>5 DEF PopFrontMany
  <2> QED
    BY <2>1, <2>2, <2>3 DEF Queues!PopFront
<1>6. ASSUME NEW l \in Lists, PopBackMany(l)
      PROVE  Queues!PopBack(l)
  <2>1. /\ Len(queue[l]) > 0 /\ m_end[l] = queue[l][Len(queue[l])]
        /\ queue[l] \in Seq(Threads)
    BY <1>6, SpellsFacts DEF PopBackMany
  <2>2. queue[l] # <<>>
    BY <2>1, TailFacts
  <2>3. ret' = m_end[l] /\ queue' = [queue EXCEPT ![l] = SubSeq(@, 1, Len(@) - 1)]
    BY <1>6 DEF PopBackMany
  <2> QED
    BY <2>1, <2>2, <2>3 DEF Queues!PopBack
<1>7. CASE UNCHANGED vars
  BY <1>7 DEF vars, Queues!vars
<1> QED
  BY <1>1, <1>2, <1>3, <1>4, <1>5, <1>6, <1>7
     DEF Next, PopFront, PopBack, Queues!Next

\* The intrusive lists implement double-ended queues: each PopFront returns the
\* thread that was pushed first, whatever lists it has been in before.
THEOREM ListsAreQueues == Spec => QueuesSpec
<1>1. Init => Queues!Init
  BY DEF Init, Queues!Init
<1> QED
  BY <1>1, StepRefines, Invariance, PTL DEF Spec, QueuesSpec, Queues!Spec

-----------------------------------------------------------------------------
(***************************************************************************)
(* LinkedList::SimpleLinkedList, for any objects and any size of the pool  *)
(* of nodes.  The invariant ListInv says that the chain from m_start goes  *)
(* through the nodes that are in use, each once, that previous is the      *)
(* converse of next, and that m_count is behind by the removals that found *)
(* nothing.  Each operation is a function on heaps of nodes first, and a   *)
(* step of the list then.                                                  *)
(***************************************************************************)

CONSTANTS Objects, POOL_SIZE, CountW, MaxMisses

VARIABLES nodes, first, count, misses, destroying, entries, crashed

Linked == INSTANCE LinkedList WITH m_start <- first, m_count <- count, size <- entries

\* The instance counts with the Cardinality of this module.
LEMMA SameCardinality ==
    ASSUME NEW S
    PROVE  Linked!Cardinality(S) = Cardinality(S)
  BY DEF Cardinality, Linked!Cardinality

\* A set of natural numbers that is not empty has a least element.
LEMMA HasLeast ==
    ASSUME NEW S \in SUBSET Nat, S # {}
    PROVE  \E x \in S : \A y \in S : x <= y
<1> DEFINE R == {ss \in Nat \X Nat : ss[1] < ss[2]}
<1>1. PICK x \in S : \A y \in S : ~(<<y, x>> \in R)
  BY NatLessThanWellFounded, WFMin, Zenon DEF OpToRel
<1>2. \A y \in S : ~(y < x)
  BY <1>1, Zenon
<1> QED
  BY <1>2

-----------------------------------------------------------------------------
(***************************************************************************)
(* Nodes that form a list.                                                 *)
(***************************************************************************)

\* The sequence s goes through the nodes of the heap once, as their pointers
\* do.
LinkedAs(s, heap, start) ==
    /\ s \in Seq(DOMAIN heap)
    /\ \A j, k \in 1..Len(s) : s[j] = s[k] => j = k
    /\ \A n \in DOMAIN heap : \E k \in 1..Len(s) : s[k] = n
    /\ start = IF Len(s) = 0 THEN Linked!nullptr ELSE s[1]
    /\ \A k \in 1..Len(s) : heap[s[k]].next = IF k = Len(s) THEN Linked!nullptr ELSE s[k + 1]
    /\ \A k \in 1..Len(s) : heap[s[k]].previous = IF k = 1 THEN Linked!nullptr ELSE s[k - 1]

\* The nodes in use, as a heap of them.
Nodes(heap) ==
    /\ DOMAIN heap \subseteq 1..POOL_SIZE
    /\ heap \in [DOMAIN heap -> [previous : Int, data : Objects, next : Int]]

\* Chain and Contents, of any nodes.
NextOf(heap, n) == IF n = Linked!nullptr THEN Linked!nullptr ELSE heap[n].next

ChainOf(heap, start) ==
    LET at[k \in 1..Cardinality(DOMAIN heap)] == IF k = 1 THEN start ELSE NextOf(heap, at[k - 1])
    IN  SubSeq(at, 1, Cardinality({k \in DOMAIN at : at[k] # Linked!nullptr}))

ContentsOf(heap, s) == [k \in DOMAIN s |-> heap[s[k]].data]

\* A list has as many entries as there are nodes.
LEMMA Counted ==
    ASSUME NEW s, NEW heap, NEW start, LinkedAs(s, heap, start)
    PROVE  IsFiniteSet(DOMAIN heap) /\ Cardinality(DOMAIN heap) = Len(s) /\ Len(s) \in Nat
<1>1. Len(s) \in Nat /\ s \in [1..Len(s) -> DOMAIN heap]
  BY DEF LinkedAs
<1>2. s \in Bijection(1..Len(s), DOMAIN heap)
  BY <1>1, Zenon DEF LinkedAs, Bijection, Injection, Surjection, IsInjective
<1>3. ExistsBijection(1..Len(s), DOMAIN heap)
  BY <1>2 DEF ExistsBijection
<1> QED
  BY <1>1, <1>3, FS_NatBijection, FS_CountingElements

\* The entries are nodes, and no node is null.
LEMMA EntriesAreNodes ==
    ASSUME Linked!Pool, NEW s, NEW heap, NEW start, LinkedAs(s, heap, start), Nodes(heap)
    PROVE  /\ Len(s) \in Nat /\ s \in Seq(DOMAIN heap)
           /\ \A k \in 1..Len(s) : s[k] \in DOMAIN heap /\ s[k] # Linked!nullptr /\ s[k] \in Int
<1>1. Len(s) \in Nat /\ s \in Seq(DOMAIN heap) /\ s \in [1..Len(s) -> DOMAIN heap]
  BY DEF LinkedAs
<1>2. \A k \in 1..Len(s) : s[k] \in DOMAIN heap
  BY <1>1, Zenon
<1>3. \A o \in DOMAIN heap : o # Linked!nullptr /\ o \in Int
  BY DEF Nodes, Linked!nullptr, Linked!Pool
<1> QED
  BY <1>1, <1>2, <1>3, Zenon

\* Following the pointers from the start, one comes to the nodes in order.
LEMMA Walked ==
    ASSUME Linked!Pool, NEW s, NEW heap, NEW start, LinkedAs(s, heap, start), Nodes(heap)
    PROVE  ChainOf(heap, start) = s
<1> DEFINE n == Len(s)
           Walks(f) == f = [k \in 1..n |-> IF k = 1 THEN start ELSE NextOf(heap, f[k - 1])]
           at == CHOOSE f : Walks(f)
<1>1. n \in Nat /\ Cardinality(DOMAIN heap) = n /\ s \in Seq(DOMAIN heap)
  BY Counted, Zenon DEF LinkedAs
<1>2. \A k \in 1..n : s[k] \in DOMAIN heap /\ s[k] # Linked!nullptr
  BY EntriesAreNodes
<1>3. \A k \in 1..n : s[k] = IF k = 1 THEN start ELSE NextOf(heap, s[k - 1])
  <2>0. n # 0 => s[1] = start
    BY Zenon DEF LinkedAs
  <2> SUFFICES ASSUME NEW k \in 1..n, k # 1 PROVE s[k] = NextOf(heap, s[k - 1])
    <3>1. \A k \in 1..n : n # 0
      BY <1>1
    <3> HIDE DEF n
    <3> QED
      BY <3>1, <2>0, Zenon
  <2>1. k - 1 \in 1..n /\ k - 1 # n /\ (k - 1) + 1 = k
    BY <1>1
  <2>2. heap[s[k - 1]].next = s[k]
    BY <2>1, Zenon DEF LinkedAs
  <2> QED
    BY <2>1, <2>2, <1>2 DEF NextOf
<1>4. Walks(s)
  <2>1. s = [k \in 1..n |-> s[k]]
    BY <1>1
  <2> QED
    BY <2>1, <1>3
<1>5. Walks(at)
  BY <1>4
<1>6. at = s
  <2> HIDE DEF at
  <2>1. DOMAIN at = 1..n /\ DOMAIN s = 1..n
    BY <1>5, <1>1
  <2>2. \A k \in 1..n : at[k] = s[k]
    <3> DEFINE D == {k \in 1..n : at[k] # s[k]}
    <3> SUFFICES ASSUME D # {} PROVE FALSE
      OBVIOUS
    <3>1. PICK k \in D : \A j \in D : k <= j
      <4>1. D \in SUBSET Nat
        BY <1>1
      <4> HIDE DEF D
      <4> QED
        BY <4>1, HasLeast
    <3>2. at[k] = IF k = 1 THEN start ELSE NextOf(heap, at[k - 1])
      BY <1>5
    <3>3. s[k] = IF k = 1 THEN start ELSE NextOf(heap, s[k - 1])
      BY <1>3
    <3>4. k # 1 => k - 1 \in 1..n /\ ~(k <= k - 1)
      BY <1>1
    <3>5. k # 1 => at[k - 1] = s[k - 1]
      BY <3>1, <3>4
    <3> QED
      BY <3>2, <3>3, <3>5
  <2>3. at = [k \in 1..n |-> at[k]] /\ s = [k \in 1..n |-> s[k]]
    BY <1>5, <1>1
  <2> QED
    BY <2>2, <2>3
<1>7. ChainOf(heap, start) = SubSeq(at, 1, Cardinality({k \in DOMAIN at : at[k] # Linked!nullptr}))
  BY <1>1, Zenon DEF ChainOf
<1> HIDE DEF at
<1>8. {k \in DOMAIN at : at[k] # Linked!nullptr} = 1..n
  BY <1>1, <1>2, <1>6
<1>9. Cardinality(1..n) = n
  <2> HIDE DEF n
  <2>1. Cardinality(1..n) = IF 1 > n THEN 0 ELSE n - 1 + 1
    BY <1>1, FS_Interval
  <2> QED
    BY <2>1, <1>1
<1>10. SubSeq(s, 1, n) = s
  BY <1>1
<1> QED
  BY <1>6, <1>7, <1>8, <1>9, <1>10, Zenon

\* A list without its entry at i.
Without(s, i) == SubSeq(s, 1, i - 1) \o SubSeq(s, i + 1, Len(s))

\* The entries of a sequence with the i-th taken out.
LEMMA WithoutEntry ==
    ASSUME NEW S, NEW s \in Seq(S), NEW i \in 1..Len(s)
    PROVE  /\ Without(s, i) \in Seq(S)
           /\ Len(Without(s, i)) = Len(s) - 1
           /\ \A k \in 1..(Len(s) - 1) : Without(s, i)[k] = IF k < i THEN s[k] ELSE s[k + 1]
<1> DEFINE u == SubSeq(s, 1, i - 1)
           w == SubSeq(s, i + 1, Len(s))
<1>1. u \in Seq(S) /\ Len(u) = i - 1 /\ \A k \in 1..(i - 1) : u[k] = s[k]
  OBVIOUS
<1>2. w \in Seq(S) /\ Len(w) = Len(s) - i /\ \A k \in 1..(Len(s) - i) : w[k] = s[k + i]
  OBVIOUS
<1> HIDE DEF u, w
<1>3. /\ u \o w \in Seq(S) /\ Len(u \o w) = Len(u) + Len(w)
      /\ \A k \in 1..(Len(u) + Len(w)) : (u \o w)[k] = IF k <= Len(u) THEN u[k] ELSE w[k - Len(u)]
  BY <1>1, <1>2, ConcatProperties, Zenon
<1>4. Len(u) + Len(w) = Len(s) - 1
  BY <1>1, <1>2
<1>5. ASSUME NEW k \in 1..(Len(s) - 1) PROVE (u \o w)[k] = IF k < i THEN s[k] ELSE s[k + 1]
  <2>1. CASE k < i
    BY <2>1, <1>1, <1>3, <1>4
  <2>2. CASE k >= i
    <3>1. k - (i - 1) \in 1..(Len(s) - i) /\ (k - (i - 1)) + i = k + 1 /\ ~(k <= i - 1) /\ ~(k < i)
      BY <2>2
    <3>2. w[k - (i - 1)] = s[k + 1]
      BY <3>1, <1>2
    <3> QED
      BY <3>1, <3>2, <1>1, <1>3, <1>4
  <2>3. k < i \/ k >= i
    OBVIOUS
  <2> QED
    BY <2>1, <2>2, <2>3, Zenon
<1> QED
  BY <1>3, <1>4, <1>5, Zenon DEF Without, u, w

\* A sequence is the function of its entries.
LEMMA AsFunction ==
    ASSUME NEW S, NEW s \in Seq(S)
    PROVE  s = [k \in 1..Len(s) |-> s[k]]
  OBVIOUS

\* What insertNode makes of the nodes.
Inserted(heap, last, n, x) ==
    [o \in DOMAIN heap \cup {n} |->
        IF o = n THEN Linked!Node(last, x, Linked!nullptr)
        ELSE IF o = last THEN [heap[o] EXCEPT !.next = n] ELSE heap[o]]

LastOf(s, start) == IF start = Linked!nullptr THEN Linked!nullptr ELSE s[Len(s)]

\* A list of which t are the nodes and which has these contents.
Becomes(t, contents, heap, start) ==
    LinkedAs(t, heap, start) /\ Nodes(heap) /\ ContentsOf(heap, t) = contents

\* insertNode appends a node to the list.
LEMMA InsertLinks ==
    ASSUME Linked!Pool, NEW s, NEW heap, NEW start, LinkedAs(s, heap, start), Nodes(heap),
           NEW n \in 1..POOL_SIZE, n \notin DOMAIN heap, NEW x \in Objects
    PROVE  Becomes(Append(s, n), Append(ContentsOf(heap, s), x),
                   Inserted(heap, LastOf(s, start), n, x),
                   IF LastOf(s, start) = Linked!nullptr THEN n ELSE start)
<1> DEFINE m == Len(s)
           last == LastOf(s, start)
           new == Inserted(heap, last, n, x)
           t == Append(s, n)
           start2 == IF last = Linked!nullptr THEN n ELSE start
<1>1. /\ m \in Nat /\ s \in Seq(DOMAIN heap) /\ n \in Int /\ n # Linked!nullptr
      /\ \A k \in 1..m : s[k] \in DOMAIN heap /\ s[k] # Linked!nullptr /\ s[k] # n /\ s[k] \in Int
  <2>1. n \in Int /\ n # Linked!nullptr
    BY DEF Linked!nullptr, Linked!Pool
  <2> QED
    BY <2>1, EntriesAreNodes, Zenon
<1>2. IF m = 0 THEN start = Linked!nullptr /\ last = Linked!nullptr ELSE start = s[1] /\ start # Linked!nullptr /\ last = s[m]
  <2>1. start = IF m = 0 THEN Linked!nullptr ELSE s[1]
    BY DEF LinkedAs
  <2>2. m # 0 => s[1] # Linked!nullptr
    BY <1>1
  <2> QED
    BY <2>1, <2>2, Zenon DEF LastOf
<1>3. last \in Int
  BY <1>1, <1>2 DEF Linked!nullptr
<1>4. /\ t \in Seq(DOMAIN heap \cup {n}) /\ Len(t) = m + 1 /\ t[m + 1] = n
      /\ \A k \in 1..m : t[k] = s[k]
  <2>1. s \in Seq(DOMAIN heap \cup {n})
    BY <1>1
  <2> QED
    BY <2>1, AppendProperties
<1> HIDE DEF last, t
<1>5. DOMAIN new = DOMAIN heap \cup {n} /\ new[n] = Linked!Node(last, x, Linked!nullptr)
  BY DEF Inserted
<1>6. \A o \in DOMAIN heap : /\ new[o].previous = heap[o].previous /\ new[o].data = heap[o].data
                             /\ new[o].next = IF o = last THEN n ELSE heap[o].next
                             /\ new[o] \in [previous : Int, data : Objects, next : Int]
  <2> SUFFICES ASSUME NEW o \in DOMAIN heap
               PROVE  /\ new[o].previous = heap[o].previous /\ new[o].data = heap[o].data
                      /\ new[o].next = IF o = last THEN n ELSE heap[o].next
                      /\ new[o] \in [previous : Int, data : Objects, next : Int]
    OBVIOUS
  <2>1. heap[o] \in [previous : Int, data : Objects, next : Int] /\ o # n
    BY DEF Nodes
  <2>2. new[o] = IF o = last THEN [heap[o] EXCEPT !.next = n] ELSE heap[o]
    BY <2>1 DEF Inserted
  <2> HIDE DEF new
  <2> QED
    BY <2>1, <2>2, <1>1
<1>7. new[n] \in [previous : Int, data : Objects, next : Int]
  BY <1>3, <1>5 DEF Linked!Node, Linked!nullptr
<1>8. Nodes(new)
  <2>1. DOMAIN new \subseteq 1..POOL_SIZE
    BY <1>5 DEF Nodes
  <2>2. new = [o \in DOMAIN new |-> new[o]]
    BY DEF Inserted
  <2> HIDE DEF new
  <2> QED
    BY <2>1, <2>2, <1>5, <1>6, <1>7 DEF Nodes
<1> HIDE DEF new
<1>9. \A k \in 1..(m + 1) : k \in 1..m \/ k = m + 1
  BY <1>1
<1>10. \A j, k \in 1..(m + 1) : t[j] = t[k] => j = k
  <2>1. \A j, k \in 1..m : s[j] = s[k] => j = k
    BY DEF LinkedAs
  <2> QED
    BY <2>1, <1>1, <1>4, <1>9, Zenon
<1>11. \A o \in DOMAIN new : \E k \in 1..(m + 1) : t[k] = o
  <2>1. m + 1 \in 1..(m + 1) /\ 1..m \subseteq 1..(m + 1)
    BY <1>1
  <2> QED
    BY <2>1, <1>4, <1>5, Zenon DEF LinkedAs
<1>12. \A k \in 1..(m + 1) : new[t[k]].next = IF k = m + 1 THEN Linked!nullptr ELSE t[k + 1]
  <2>1. new[t[m + 1]].next = Linked!nullptr
    BY <1>4, <1>5 DEF Linked!Node
  <2>2. ASSUME NEW k \in 1..m PROVE new[t[k]].next = t[k + 1]
    <3>1. CASE k = m
      BY <3>1, <1>1, <1>2, <1>4, <1>6
    <3>2. CASE k # m
      <4>1. k + 1 \in 1..m /\ m \in 1..m /\ m # 0
        BY <3>2, <1>1
      <4>2. s[k] # last
        <5>1. \A j, i \in 1..m : s[j] = s[i] => j = i
          BY DEF LinkedAs
        <5> QED
          BY <5>1, <4>1, <3>2, <1>2
      <4>3. heap[s[k]].next = s[k + 1]
        BY <3>2 DEF LinkedAs
      <4> QED
        BY <4>1, <4>2, <4>3, <1>1, <1>4, <1>6
    <3> QED
      BY <3>1, <3>2
  <2>3. \A k \in 1..m : k # m + 1
    BY <1>1
  <2> QED
    BY <2>1, <2>2, <2>3, <1>9
<1>13. \A k \in 1..(m + 1) : new[t[k]].previous = IF k = 1 THEN Linked!nullptr ELSE t[k - 1]
  <2>1. new[t[m + 1]].previous = IF m + 1 = 1 THEN Linked!nullptr ELSE t[(m + 1) - 1]
    <3>1. CASE m = 0
      BY <3>1, <1>2, <1>4, <1>5 DEF Linked!Node
    <3>2. CASE m # 0
      <4>1. m \in 1..m /\ (m + 1) - 1 = m /\ m + 1 # 1
        BY <3>2, <1>1
      <4> QED
        BY <3>2, <4>1, <1>2, <1>4, <1>5 DEF Linked!Node
    <3> QED
      BY <3>1, <3>2
  <2>2. ASSUME NEW k \in 1..m PROVE new[t[k]].previous = IF k = 1 THEN Linked!nullptr ELSE t[k - 1]
    <3>1. k # 1 => k - 1 \in 1..m
      BY <1>1
    <3>2. heap[s[k]].previous = IF k = 1 THEN Linked!nullptr ELSE s[k - 1]
      BY Zenon DEF LinkedAs
    <3> QED
      BY <3>1, <3>2, <1>1, <1>4, <1>6, ZenonT(40)
  <2> QED
    BY <2>1, <2>2, <1>9, Zenon
<1>14. start2 = t[1] /\ Len(t) # 0
  <2>1. CASE m = 0
    BY <2>1, <1>2, <1>4
  <2>2. CASE m # 0
    <3>1. 1 \in 1..m /\ m \in 1..m /\ m + 1 # 0
      BY <2>2, <1>1
    <3> QED
      BY <2>2, <3>1, <1>1, <1>2, <1>4
  <2> QED
    BY <2>1, <2>2
<1>15. LinkedAs(t, new, start2)
  BY <1>4, <1>5, <1>10, <1>11, <1>12, <1>13, <1>14, Zenon DEF LinkedAs
<1>16. ContentsOf(new, t) = Append(ContentsOf(heap, s), x)
  <2> DEFINE c == ContentsOf(heap, s)
             d == ContentsOf(new, t)
  <2>1. c = [k \in 1..m |-> heap[s[k]].data] /\ d = [k \in 1..(m + 1) |-> new[t[k]].data]
    BY <1>1, <1>4 DEF ContentsOf
  <2>2. c \in Seq(Objects) /\ Len(c) = m
    <3>1. \A k \in 1..m : heap[s[k]].data \in Objects
      BY <1>1 DEF Nodes
    <3> QED
      BY <2>1, <3>1, <1>1
  <2>3. /\ Append(c, x) \in Seq(Objects) /\ Len(Append(c, x)) = m + 1 /\ Append(c, x)[m + 1] = x
        /\ \A k \in 1..m : Append(c, x)[k] = c[k]
    BY <2>2, AppendProperties
  <2>4. \A k \in 1..(m + 1) : Append(c, x)[k] = new[t[k]].data
    <3>1. new[t[m + 1]].data = x
      BY <1>4, <1>5 DEF Linked!Node
    <3>2. \A k \in 1..m : new[t[k]].data = c[k]
      BY <2>1, <1>1, <1>4, <1>6
    <3> QED
      BY <3>1, <3>2, <2>3, <1>9
  <2> HIDE DEF c, d
  <2>5. Append(c, x) = [k \in 1..(m + 1) |-> Append(c, x)[k]]
    BY <2>3, AsFunction, Zenon
  <2>6. Append(c, x) = d
    BY <2>1, <2>4, <2>5, Zenon
  <2> QED
    BY <2>6 DEF c, d
<1> QED
  BY <1>8, <1>15, <1>16 DEF Becomes, last, t, new

-----------------------------------------------------------------------------
\* What deleteNode makes of the nodes.
Deleted(heap, n) ==
    [o \in DOMAIN heap \ {n} |->
        [heap[o] EXCEPT !.previous = IF @ = n THEN heap[n].previous ELSE @,
                        !.next = IF @ = n THEN heap[n].next ELSE @]]

\* deleteNode takes one node out and leaves the others in their order.
LEMMA DeleteLinks ==
    ASSUME Linked!Pool, NEW s, NEW heap, NEW start, LinkedAs(s, heap, start), Nodes(heap),
           NEW i \in 1..Len(s)
    PROVE  Becomes(Without(s, i), Without(ContentsOf(heap, s), i), Deleted(heap, s[i]),
                   IF s[i] = start THEN heap[s[i]].next ELSE start)
<1> DEFINE m == Len(s)
           n == s[i]
           new == Deleted(heap, n)
           t == Without(s, i)
           start2 == IF n = start THEN heap[n].next ELSE start
<1>1. /\ m \in Nat /\ s \in Seq(DOMAIN heap) /\ i \in 1..m
      /\ \A k \in 1..m : s[k] \in DOMAIN heap /\ s[k] # Linked!nullptr /\ s[k] \in Int
  BY EntriesAreNodes, Zenon
<1>2. /\ \A j, k \in 1..m : s[j] = s[k] => j = k
      /\ start = IF m = 0 THEN Linked!nullptr ELSE s[1]
      /\ \A k \in 1..m : heap[s[k]].next = IF k = m THEN Linked!nullptr ELSE s[k + 1]
      /\ \A k \in 1..m : heap[s[k]].previous = IF k = 1 THEN Linked!nullptr ELSE s[k - 1]
  BY DEF LinkedAs
<1>3. /\ Len(t) = m - 1 /\ t \in Seq(DOMAIN heap)
      /\ \A k \in 1..(m - 1) : t[k] = IF k < i THEN s[k] ELSE s[k + 1]
  BY <1>1, WithoutEntry, Zenon
<1>4. DOMAIN new = DOMAIN heap \ {n} /\ new = [o \in DOMAIN new |-> new[o]]
  BY Zenon DEF Deleted
<1>5. \A o \in DOMAIN heap \ {n} :
          /\ new[o].data = heap[o].data
          /\ new[o].previous = IF heap[o].previous = n THEN heap[n].previous ELSE heap[o].previous
          /\ new[o].next = IF heap[o].next = n THEN heap[n].next ELSE heap[o].next
          /\ new[o] \in [previous : Int, data : Objects, next : Int]
  <2> SUFFICES ASSUME NEW o \in DOMAIN heap \ {n}
               PROVE  /\ new[o].data = heap[o].data
                      /\ new[o].previous = IF heap[o].previous = n THEN heap[n].previous ELSE heap[o].previous
                      /\ new[o].next = IF heap[o].next = n THEN heap[n].next ELSE heap[o].next
                      /\ new[o] \in [previous : Int, data : Objects, next : Int]
    OBVIOUS
  <2>1. /\ heap[o] \in [previous : Int, data : Objects, next : Int]
        /\ heap[n] \in [previous : Int, data : Objects, next : Int]
    BY <1>1 DEF Nodes
  <2>2. new[o] = [heap[o] EXCEPT !.previous = IF @ = n THEN heap[n].previous ELSE @,
                                 !.next = IF @ = n THEN heap[n].next ELSE @]
    BY Zenon DEF Deleted
  <2> HIDE DEF new, n
  <2> QED
    BY <2>1, <2>2, Zenon
<1> HIDE DEF new, t
<1>6. Nodes(new)
  <2>1. DOMAIN new \subseteq 1..POOL_SIZE
    BY <1>4 DEF Nodes
  <2> QED
    BY <2>1, <1>4, <1>5 DEF Nodes
<1>7. /\ \A k \in 1..(m - 1) : k < i => k \in 1..m /\ t[k] = s[k]
      /\ \A k \in 1..(m - 1) : ~(k < i) => k + 1 \in 1..m /\ t[k] = s[k + 1]
  BY <1>1, <1>3
<1>8. \A k \in 1..(m - 1) : t[k] \in DOMAIN heap \ {n}
  <2> SUFFICES ASSUME NEW k \in 1..(m - 1) PROVE t[k] \in DOMAIN heap /\ t[k] # n
    OBVIOUS
  <2>1. CASE k < i
    BY <2>1, <1>1, <1>2, <1>7
  <2>2. CASE ~(k < i)
    BY <2>2, <1>1, <1>2, <1>7
  <2> QED
    BY <2>1, <2>2
<1>9. t \in Seq(DOMAIN new)
  <2>1. t = [k \in 1..(m - 1) |-> t[k]]
    BY <1>3, AsFunction
  <2> QED
    BY <2>1, <1>1, <1>3, <1>4, <1>8
<1>10. \A j, k \in 1..(m - 1) : t[j] = t[k] => j = k
  <2> SUFFICES ASSUME NEW j \in 1..(m - 1), NEW k \in 1..(m - 1), t[j] = t[k] PROVE j = k
    OBVIOUS
  <2>1. CASE j < i /\ k < i
    BY <2>1, <1>2, <1>7
  <2>2. CASE j < i /\ ~(k < i)
    <3>1. j = k + 1
      BY <2>2, <1>2, <1>7
    <3> QED
      BY <3>1, <2>2, <1>1
  <2>3. CASE ~(j < i) /\ k < i
    <3>1. j + 1 = k
      BY <2>3, <1>2, <1>7
    <3> QED
      BY <3>1, <2>3, <1>1
  <2>4. CASE ~(j < i) /\ ~(k < i)
    <3>1. j + 1 = k + 1
      BY <2>4, <1>2, <1>7
    <3> QED
      BY <3>1, <1>1
  <2> QED
    BY <2>1, <2>2, <2>3, <2>4
<1>11. \A o \in DOMAIN new : \E k \in 1..(m - 1) : t[k] = o
  <2> SUFFICES ASSUME NEW o \in DOMAIN heap, o # n PROVE \E k \in 1..(m - 1) : t[k] = o
    BY <1>4
  <2>1. PICK k \in 1..m : s[k] = o
    BY DEF LinkedAs
  <2>2. CASE k < i
    <3>1. k \in 1..(m - 1)
      BY <2>2, <1>1
    <3> QED
      BY <2>1, <2>2, <3>1, <1>7
  <2>3. CASE k > i
    <3>1. k - 1 \in 1..(m - 1) /\ ~(k - 1 < i) /\ (k - 1) + 1 = k
      BY <2>3, <1>1
    <3>2. t[k - 1] = s[(k - 1) + 1]
      BY <3>1, <1>7
    <3> QED
      BY <2>1, <3>1, <3>2
  <2>4. k < i \/ k > i
    <3>1. k # i
      BY <2>1
    <3> QED
      BY <3>1, <1>1
  <2> QED
    BY <2>2, <2>3, <2>4
<1>12. \A k \in 1..(m - 1) : new[t[k]].next = IF k = m - 1 THEN Linked!nullptr ELSE t[k + 1]
  <2> SUFFICES ASSUME NEW k \in 1..(m - 1)
               PROVE  new[t[k]].next = IF k = m - 1 THEN Linked!nullptr ELSE t[k + 1]
    OBVIOUS
  <2>0. new[t[k]].next = IF heap[t[k]].next = n THEN heap[n].next ELSE heap[t[k]].next
    BY <1>5, <1>8
  <2>1. CASE k + 1 < i
    <3>1. k < i /\ k # m /\ k # m - 1 /\ k + 1 \in 1..m /\ k + 1 \in 1..(m - 1) /\ k + 1 # i
      BY <2>1, <1>1
    <3>2. heap[t[k]].next = s[k + 1] /\ s[k + 1] # n
      BY <3>1, <1>1, <1>2, <1>7
    <3> QED
      BY <2>0, <2>1, <3>1, <3>2, <1>7
  <2>2. CASE k + 1 = i
    <3>1. k < i /\ k # m /\ k \in 1..m
      BY <2>2, <1>1
    <3>2. heap[t[k]].next = n
      BY <2>2, <3>1, <1>2, <1>7
    <3>3. heap[n].next = IF i = m THEN Linked!nullptr ELSE s[i + 1]
      BY <1>1, <1>2
    <3>4. i = m <=> k = m - 1
      BY <2>2, <1>1
    <3>5. k # m - 1 => k + 1 \in 1..(m - 1) /\ ~(k + 1 < i)
      BY <2>2, <1>1
    <3>6. k # m - 1 => t[k + 1] = s[i + 1]
      BY <3>5, <2>2, <1>7
    <3> QED
      BY <2>0, <3>2, <3>3, <3>4, <3>6
  <2>3. CASE k >= i
    <3>1. ~(k < i) /\ k + 1 \in 1..m /\ (k + 1 = m <=> k = m - 1) /\ k \in Int
      BY <2>3, <1>1
    <3>2. heap[t[k]].next = IF k + 1 = m THEN Linked!nullptr ELSE s[(k + 1) + 1]
      BY <3>1, <1>2, <1>7
    <3>3. k # m - 1 => /\ k + 1 \in 1..(m - 1) /\ ~(k + 1 < i) /\ (k + 1) + 1 \in 1..m /\ (k + 1) + 1 # i
      BY <2>3, <1>1
    <3>4. k # m - 1 => t[k + 1] = s[(k + 1) + 1] /\ s[(k + 1) + 1] # n
      BY <3>3, <1>1, <1>2, <1>7
    <3>5. Linked!nullptr # n
      BY <1>1
    <3> QED
      BY <2>0, <3>1, <3>2, <3>4, <3>5
  <2>4. k + 1 < i \/ k + 1 = i \/ k >= i
    BY <1>1
  <2> QED
    BY <2>1, <2>2, <2>3, <2>4, Zenon
<1>13. \A k \in 1..(m - 1) : new[t[k]].previous = IF k = 1 THEN Linked!nullptr ELSE t[k - 1]
  <2> SUFFICES ASSUME NEW k \in 1..(m - 1)
               PROVE  new[t[k]].previous = IF k = 1 THEN Linked!nullptr ELSE t[k - 1]
    OBVIOUS
  <2>0. new[t[k]].previous = IF heap[t[k]].previous = n THEN heap[n].previous ELSE heap[t[k]].previous
    BY <1>5, <1>8
  <2>1. CASE k < i
    <3>1. k \in 1..m /\ (k # 1 => k - 1 \in 1..m /\ k - 1 \in 1..(m - 1) /\ k - 1 < i /\ k - 1 # i)
      BY <2>1, <1>1
    <3>2. heap[t[k]].previous = IF k = 1 THEN Linked!nullptr ELSE s[k - 1]
      BY <2>1, <3>1, <1>2, <1>7
    <3>3. k # 1 => t[k - 1] = s[k - 1] /\ s[k - 1] # n
      BY <3>1, <1>1, <1>2, <1>7, SMTT(30)
    <3>4. Linked!nullptr # n
      BY <1>1
    <3> QED
      BY <2>0, <3>2, <3>3, <3>4
  <2>2. CASE k = i
    <3>1. ~(k < i) /\ k + 1 \in 1..m /\ k + 1 # 1 /\ (k + 1) - 1 = k
      BY <2>2, <1>1
    <3>2. heap[t[k]].previous = n
      BY <2>2, <3>1, <1>2, <1>7, SMTT(30)
    <3>3. heap[n].previous = IF k = 1 THEN Linked!nullptr ELSE s[k - 1]
      BY <2>2, <1>1, <1>2
    <3>4. k # 1 => k - 1 \in 1..(m - 1) /\ k - 1 < i
      BY <2>2, <1>1
    <3>5. k # 1 => t[k - 1] = s[k - 1]
      BY <3>4, <1>7
    <3> QED
      BY <2>0, <3>2, <3>3, <3>5
  <2>3. CASE k > i
    <3>1. /\ ~(k < i) /\ k + 1 \in 1..m /\ k + 1 # 1 /\ (k + 1) - 1 = k /\ k \in 1..m /\ k # i /\ k # 1
          /\ k - 1 \in 1..(m - 1) /\ ~(k - 1 < i) /\ (k - 1) + 1 = k
      BY <2>3, <1>1
    <3>2. heap[t[k]].previous = s[k]
      BY <3>1, <1>2, <1>7
    <3>3. t[k - 1] = s[k] /\ s[k] # n
      BY <3>1, <1>1, <1>2, <1>7
    <3> QED
      BY <2>0, <3>1, <3>2, <3>3
  <2>4. k < i \/ k = i \/ k > i
    BY <1>1
  <2> QED
    BY <2>1, <2>2, <2>3, <2>4, Zenon
<1>14. start2 = IF Len(t) = 0 THEN Linked!nullptr ELSE t[1]
  <2>1. m # 0 /\ start = s[1] /\ 1 \in 1..m
    BY <1>1, <1>2
  <2>2. CASE i = 1
    <3>1. start2 = IF m = 1 THEN Linked!nullptr ELSE s[1 + 1]
      BY <2>1, <2>2, <1>2, Zenon
    <3>2. m = 1 <=> Len(t) = 0
      BY <1>1, <1>3
    <3>3. m # 1 => 1 \in 1..(m - 1) /\ ~(1 < i)
      <4>1. m \in Nat /\ m # 0
        BY <2>1, <1>1, Zenon
      <4> HIDE DEF m
      <4> QED
        BY <2>2, <4>1
    <3>4. m # 1 => t[1] = s[1 + 1]
      BY <3>3, <1>7
    <3> QED
      BY <3>1, <3>2, <3>4
  <2>3. CASE i # 1
    <3>1. start2 = s[1]
      BY <2>1, <2>3, <1>1, <1>2
    <3>2. 1 \in 1..(m - 1) /\ 1 < i /\ Len(t) # 0
      BY <2>3, <1>1, <1>3
    <3> QED
      BY <3>1, <3>2, <1>7
  <2> QED
    BY <2>2, <2>3
<1>15. LinkedAs(t, new, start2)
  BY <1>3, <1>9, <1>10, <1>11, <1>12, <1>13, <1>14, Zenon DEF LinkedAs
<1>16. ContentsOf(new, t) = Without(ContentsOf(heap, s), i)
  <2> DEFINE c == ContentsOf(heap, s)
             d == ContentsOf(new, t)
             w == Without(c, i)
  <2>1. c = [k \in 1..m |-> heap[s[k]].data] /\ d = [k \in 1..(m - 1) |-> new[t[k]].data]
    BY <1>1, <1>3 DEF ContentsOf
  <2>2. c \in Seq(Objects) /\ Len(c) = m
    <3>1. \A k \in 1..m : heap[s[k]].data \in Objects
      BY <1>1, SMTT(30) DEF Nodes
    <3> QED
      BY <2>1, <3>1, <1>1
  <2> HIDE DEF c, d
  <2>3. /\ w \in Seq(Objects) /\ Len(w) = m - 1
        /\ \A k \in 1..(m - 1) : w[k] = IF k < i THEN c[k] ELSE c[k + 1]
    BY <2>2, WithoutEntry, Zenon
  <2> HIDE DEF w
  <2>4. \A k \in 1..(m - 1) : w[k] = new[t[k]].data
    <3> SUFFICES ASSUME NEW k \in 1..(m - 1) PROVE w[k] = new[t[k]].data
      OBVIOUS
    <3>1. new[t[k]].data = heap[t[k]].data
      BY <1>5, <1>8
    <3>2. CASE k < i
      BY <3>1, <3>2, <2>1, <2>3, <1>7, Zenon
    <3>3. CASE ~(k < i)
      BY <3>1, <3>3, <2>1, <2>3, <1>7, Zenon
    <3> QED
      BY <3>2, <3>3
  <2>5. w = [k \in 1..(m - 1) |-> w[k]]
    BY <2>3, AsFunction, Zenon
  <2>6. w = d
    BY <2>1, <2>4, <2>5
  <2> QED
    BY <2>6 DEF c, d, w
<1> QED
  BY <1>6, <1>15, <1>16 DEF Becomes, t, new

-----------------------------------------------------------------------------
(***************************************************************************)
(* The invariant.                                                          *)
(***************************************************************************)

\* While the destructor runs, the count has not wrapped and each of its steps
\* took one entry; it stops when its index has caught up with the count.
ListCounts ==
    /\ misses \in 0..MaxMisses /\ entries \in 0..POOL_SIZE /\ crashed \in BOOLEAN
    /\ Len(Linked!Chain) < POOL_SIZE
    /\ count = IF misses <= Len(Linked!Chain) THEN Len(Linked!Chain) - misses
               ELSE CountW + Len(Linked!Chain) - misses
    /\ destroying \in Int
    /\ \/ destroying = -1
       \/ /\ misses <= Len(Linked!Chain) /\ destroying >= 0 /\ destroying <= entries
          /\ count = entries - destroying /\ 2 * destroying <= entries + 1

ListInv == LinkedAs(Linked!Chain, nodes, first) /\ Nodes(nodes) /\ ListCounts

\* A list that is linked as t is the chain.
LEMMA ChainAfter ==
    ASSUME Linked!Pool, NEW t, NEW c, Becomes(t, c, nodes', first')
    PROVE  /\ Linked!Chain' = t /\ Linked!Contents' = c
           /\ LinkedAs(Linked!Chain', nodes', first') /\ Nodes(nodes')
<1>1. ChainOf(nodes', first') = t
  BY Walked DEF Becomes
<1>2. Linked!Chain' = ChainOf(nodes', first')
  BY DEF Linked!Chain, ChainOf, Linked!Step, NextOf, Cardinality, Linked!Cardinality
<1>3. Linked!Contents' = ContentsOf(nodes', Linked!Chain')
  BY DEF Linked!Contents, ContentsOf
<1> QED
  BY <1>1, <1>2, <1>3 DEF Becomes

\* What the invariant says of the chain and the contents, entry by entry.
LEMMA ChainNow ==
    ASSUME Linked!Pool, ListInv
    PROVE  /\ Len(Linked!Chain) \in Nat /\ Linked!Contents = ContentsOf(nodes, Linked!Chain)
           /\ Linked!Contents \in Seq(Objects) /\ Len(Linked!Contents) = Len(Linked!Chain)
           /\ DOMAIN Linked!Chain = 1..Len(Linked!Chain) /\ DOMAIN Linked!Contents = 1..Len(Linked!Chain)
           /\ \A k \in 1..Len(Linked!Chain) : Linked!Contents[k] = nodes[Linked!Chain[k]].data /\ Linked!Contents[k] \in Objects
<1>1. /\ Len(Linked!Chain) \in Nat /\ Linked!Chain \in Seq(DOMAIN nodes) /\ DOMAIN Linked!Chain = 1..Len(Linked!Chain)
      /\ \A k \in 1..Len(Linked!Chain) : Linked!Chain[k] \in DOMAIN nodes
  BY EntriesAreNodes DEF ListInv
<1>2. Linked!Contents = [k \in 1..Len(Linked!Chain) |-> nodes[Linked!Chain[k]].data]
  BY <1>1 DEF Linked!Contents
<1>3. \A k \in 1..Len(Linked!Chain) : nodes[Linked!Chain[k]].data \in Objects
  BY <1>1 DEF ListInv, Nodes
<1> HIDE DEF Linked!Chain
<1>4. Linked!Contents \in Seq(Objects) /\ Len(Linked!Contents) = Len(Linked!Chain)
  BY <1>1, <1>2, <1>3
<1> QED
  BY <1>1, <1>2, <1>3, <1>4 DEF ContentsOf, Linked!Contents

\* A new list has no nodes.
LEMMA ListInit ==
    ASSUME Linked!Pool, Linked!Init
    PROVE  ListInv /\ Linked!List!Init
<1> DEFINE s == <<>>
<1>1. LinkedAs(s, nodes, first) /\ Nodes(nodes)
  BY DEF Linked!Init, LinkedAs, Nodes
<1>2. ChainOf(nodes, first) = s
  BY <1>1, Walked
<1>3. Linked!Chain = s
  BY <1>2, Zenon DEF Linked!Chain, ChainOf, Linked!Step, NextOf, Cardinality, Linked!Cardinality
<1>4. Linked!Contents = <<>>
  BY <1>3 DEF Linked!Contents
<1>5. ListCounts
  <2>1. Len(Linked!Chain) = 0
    BY <1>3
  <2>2. crashed \in BOOLEAN
    BY Zenon DEF Linked!Init
  <2>3. destroying = -1 /\ destroying \in Int
    BY DEF Linked!Init
  <2> QED
    BY <2>1, <2>2, <2>3 DEF ListCounts, Linked!Init, Linked!Pool
<1> QED
  BY <1>1, <1>3, <1>4, <1>5 DEF ListInv, Linked!List!Init

\* insert appends the object, or finds the pool empty.
LEMMA InsertStep ==
    ASSUME Linked!Pool, ListInv, NEW x \in Objects, Linked!insert(x)
    PROVE  ListInv' /\ (Linked!List!Insert(x) \/ UNCHANGED Linked!Contents)
<1> DEFINE n == Linked!NodePool_AllocateNode
<1>1. CASE n # Linked!nullptr /\ Linked!insertNode(n, x) /\ count' = Linked!More /\ UNCHANGED crashed
  <2>1. Len(Linked!Chain) # POOL_SIZE - 1 /\ Cardinality(DOMAIN nodes) = Len(Linked!Chain) /\ IsFiniteSet(DOMAIN nodes)
    <3>1. Cardinality(DOMAIN nodes) = Len(Linked!Chain) /\ IsFiniteSet(DOMAIN nodes)
      BY Counted DEF ListInv
    <3> QED
      BY <3>1, <1>1, SameCardinality DEF Linked!NodePool_AllocateNode
  <2>2. n \in 1..POOL_SIZE /\ n \notin DOMAIN nodes
    <3> DEFINE F == 1..POOL_SIZE \ DOMAIN nodes
    <3>1. F # {}
      <4>1. DOMAIN nodes # 1..POOL_SIZE
        <5>1. Cardinality(1..POOL_SIZE) = POOL_SIZE
          BY FS_Interval DEF Linked!Pool
        <5> QED
          BY <5>1, <2>1 DEF ListInv, ListCounts, Linked!Pool
      <4> QED
        BY <4>1, Zenon DEF ListInv, Nodes
    <3>2. F \in SUBSET Nat
      BY DEF Linked!Pool
    <3>3. \E k \in F : \A o \in F : k <= o
      BY <3>1, <3>2, HasLeast, Zenon
    <3>4. n = CHOOSE k \in F : \A o \in F : k <= o
      BY <2>1, SameCardinality, Zenon DEF Linked!NodePool_AllocateNode
    <3> QED
      BY <3>3, <3>4
  <2>3. /\ nodes' = Inserted(nodes, LastOf(Linked!Chain, first), n, x)
        /\ first' = IF LastOf(Linked!Chain, first) = Linked!nullptr THEN n ELSE first
    BY <1>1 DEF Linked!insertNode, Inserted, LastOf
  <2> HIDE DEF n
  <2>4. Becomes(Append(Linked!Chain, n), Append(ContentsOf(nodes, Linked!Chain), x), nodes', first')
    BY <2>2, <2>3, InsertLinks DEF ListInv
  <2>5. /\ Linked!Chain' = Append(Linked!Chain, n) /\ Linked!Contents' = Append(Linked!Contents, x)
        /\ LinkedAs(Linked!Chain', nodes', first') /\ Nodes(nodes')
    BY <2>4, ChainAfter, ChainNow, Zenon
  <2>6. Len(Linked!Chain') = Len(Linked!Chain) + 1 /\ Len(Linked!Chain) \in Nat
    BY <2>5, EntriesAreNodes, AppendProperties DEF ListInv
  <2>7. ListCounts'
    <3>1. destroying = -1 /\ UNCHANGED <<misses, destroying, entries, crashed>>
      BY <1>1 DEF Linked!insert
    <3> QED
      BY <3>1, <2>1, <2>6, <1>1 DEF ListInv, ListCounts, Linked!Pool, Linked!More
  <2> QED
    BY <2>5, <2>7 DEF ListInv, Linked!List!Insert
<1>2. CASE UNCHANGED <<nodes, first, count>> /\ crashed' = TRUE
  <2>1. Linked!Chain' = Linked!Chain /\ Linked!Contents' = Linked!Contents
    BY <1>2 DEF Linked!Chain, Linked!Contents, Linked!Step
  <2>2. UNCHANGED <<misses, destroying, entries>>
    BY DEF Linked!insert
  <2> QED
    BY <2>1, <2>2, <1>2 DEF ListInv, ListCounts
<1> QED
  BY <1>1, <1>2, Zenon DEF Linked!insert

\* The first entry for the object leaves, or there is none.
Took(x) ==
    \E i \in 1..Len(Linked!Chain) :
        /\ Linked!Contents[i] = x /\ \A j \in 1..(i - 1) : Linked!Contents[j] # x
        /\ Linked!Contents' = Without(Linked!Contents, i)
        /\ Len(Linked!Chain') = Len(Linked!Chain) - 1
        /\ UNCHANGED <<misses, crashed>>

\* deleteNode takes the first node that holds x out of the chain, or misses.
LEMMA DeleteStep ==
    ASSUME Linked!Pool, ListInv, NEW x, Linked!deleteNode(x), crashed = FALSE
    PROVE  /\ LinkedAs(Linked!Chain', nodes', first') /\ Nodes(nodes')
           /\ \/ Took(x)
              \/ /\ \A k \in 1..Len(Linked!Chain) : Linked!Contents[k] # x
                 /\ Linked!Chain' = Linked!Chain /\ Linked!Contents' = Linked!Contents
                 /\ misses' = misses + 1 /\ crashed' \in BOOLEAN
<1> DEFINE at == {k \in DOMAIN Linked!Chain : nodes[Linked!Chain[k]].data = x}
           i == CHOOSE k \in at : \A j \in at : k <= j
           n == Linked!Chain[i]
<1>1. /\ Len(Linked!Chain) \in Nat /\ Linked!Contents = ContentsOf(nodes, Linked!Chain) /\ DOMAIN Linked!Chain = 1..Len(Linked!Chain)
      /\ \A k \in 1..Len(Linked!Chain) : Linked!Contents[k] = nodes[Linked!Chain[k]].data
  BY ChainNow
<1>2. CASE at # {}
  <2>1. i \in at /\ \A j \in at : i <= j
    <3>1. at \in SUBSET Nat
      BY <1>1
    <3>2. \E k \in at : \A j \in at : k <= j
      <4> HIDE DEF at
      <4> QED
        BY <3>1, <1>2, HasLeast, SMTT(30)
    <3> QED
      BY <3>2, Zenon
  <2>2. i \in 1..Len(Linked!Chain) /\ Linked!Contents[i] = x
    BY <2>1, <1>1
  <2>3. \A j \in 1..(i - 1) : Linked!Contents[j] # x
    <3> SUFFICES ASSUME NEW j \in 1..(i - 1), Linked!Contents[j] = x PROVE FALSE
      OBVIOUS
    <3>1. j \in 1..Len(Linked!Chain) /\ ~(i <= j)
      BY <2>2, <1>1
    <3>2. j \in at
      BY <3>1, <1>1
    <3> QED
      BY <3>1, <3>2, <2>1
  <2>4. /\ nodes' = Deleted(nodes, n)
        /\ first' = IF n = first THEN nodes[n].next ELSE first
        /\ UNCHANGED <<misses, crashed>>
    <3>1. n \in DOMAIN nodes
      <4>1. LinkedAs(Linked!Chain, nodes, first) /\ Nodes(nodes)
        BY DEF ListInv
      <4>2. \A k \in 1..Len(Linked!Chain) : Linked!Chain[k] \in DOMAIN nodes
        BY <4>1, EntriesAreNodes, ZenonT(40)
      <4> HIDE DEF i
      <4> QED
        BY <4>2, <2>2, Zenon
    <3>2. /\ nodes' = Linked!NodePool_FreeNode(Linked!Unlink(n), n)
          /\ first' = IF n = first THEN nodes[n].next ELSE first
          /\ UNCHANGED <<misses, crashed>>
      BY <1>2 DEF Linked!deleteNode
    <3> HIDE DEF n
    <3> QED
      BY <3>2, Zenon DEF Deleted, Linked!NodePool_FreeNode, Linked!Unlink
  <2> HIDE DEF i
  <2>5. Becomes(Without(Linked!Chain, i), Without(ContentsOf(nodes, Linked!Chain), i), nodes', first')
    BY <2>2, <2>4, DeleteLinks DEF ListInv
  <2>6. /\ Linked!Chain' = Without(Linked!Chain, i) /\ Linked!Contents' = Without(Linked!Contents, i)
        /\ LinkedAs(Linked!Chain', nodes', first') /\ Nodes(nodes')
    BY <2>5, <1>1, ChainAfter
  <2>7. Len(Linked!Chain') = Len(Linked!Chain) - 1
    <3>1. Linked!Chain \in Seq(DOMAIN nodes)
      BY DEF ListInv, LinkedAs
    <3> QED
      BY <3>1, <2>2, <2>6, WithoutEntry
  <2> QED
    BY <2>2, <2>3, <2>4, <2>6, <2>7 DEF Took
<1>3. CASE at = {}
  <2>1. UNCHANGED <<nodes, first>> /\ misses' = misses + 1 /\ crashed' \in BOOLEAN
    BY <1>3, Zenon DEF Linked!deleteNode
  <2>2. Linked!Chain' = Linked!Chain /\ Linked!Contents' = Linked!Contents
    BY <2>1 DEF Linked!Chain, Linked!Contents, Linked!Step
  <2>3. \A k \in 1..Len(Linked!Chain) : Linked!Contents[k] # x
    BY <1>1, <1>3
  <2> QED
    BY <2>1, <2>2, <2>3 DEF ListInv
<1> QED
  BY <1>2, <1>3

\* What leaves the nodes leaves the abstract list.
LEMMA TookRemoves ==
    ASSUME Linked!Pool, ListInv, NEW x, Took(x)
    PROVE  x \in Objects /\ Linked!List!Remove(x)
<1>1. /\ Linked!Contents \in Seq(Objects) /\ Len(Linked!Contents) = Len(Linked!Chain)
      /\ \A k \in 1..Len(Linked!Chain) : Linked!Contents[k] \in Objects
  BY ChainNow
<1> QED
  BY <1>1, Zenon DEF Took, Linked!List!Remove, Without

\* remove, remove(index) and a step of the destructor take one entry out, but
\* for a remove that misses; all lower the count.
LEMMA RemoveStep ==
    ASSUME Linked!Pool, ListInv, NEW x, Linked!remove(x)
    PROVE  ListInv' /\ (UNCHANGED Linked!Contents \/ Linked!List!Remove(x))
<1>1. /\ ~crashed /\ destroying = -1 /\ Linked!deleteNode(x) /\ count' = Linked!Fewer
      /\ UNCHANGED <<destroying, entries>>
      /\ misses < MaxMisses \/ \E k \in DOMAIN Linked!Contents : Linked!Contents[k] = x
  BY DEF Linked!remove
<1>2. crashed = FALSE /\ ListCounts /\ Len(Linked!Chain) \in Nat /\ DOMAIN Linked!Contents = 1..Len(Linked!Chain)
  BY <1>1, ChainNow, Zenon DEF ListInv, ListCounts
<1>3. LinkedAs(Linked!Chain', nodes', first') /\ Nodes(nodes')
  BY <1>1, <1>2, DeleteStep, Zenon
<1>4. CASE Took(x)
  <2>1. UNCHANGED <<misses, crashed>> /\ Len(Linked!Chain') = Len(Linked!Chain) - 1
    BY <1>4 DEF Took
  <2>2. ListCounts'
    BY <2>1, <1>1, <1>2 DEF ListCounts, Linked!Pool, Linked!Fewer
  <2> QED
    BY <2>2, <1>3, <1>4, TookRemoves DEF ListInv
<1>5. CASE /\ \A k \in 1..Len(Linked!Chain) : Linked!Contents[k] # x
           /\ Linked!Chain' = Linked!Chain /\ Linked!Contents' = Linked!Contents
           /\ misses' = misses + 1 /\ crashed' \in BOOLEAN
  <2>1. misses < MaxMisses
    BY <1>1, <1>2, <1>5
  <2>2. ListCounts'
    BY <2>1, <1>1, <1>2, <1>5 DEF ListCounts, Linked!Pool, Linked!Fewer
  <2>3. ListInv'
    BY <2>2, <1>3, Zenon DEF ListInv
  <2> QED
    BY <2>3, <1>5
<1> QED
  BY <1>1, <1>2, <1>4, <1>5, DeleteStep, Zenon

\* What get returns, when there is such an entry.
LEMMA Got ==
    ASSUME Linked!Pool, ListInv, NEW i \in Nat, i < count, i < Len(Linked!Chain)
    PROVE  \E k \in 1..Len(Linked!Chain) : Linked!get(i) = Linked!Contents[k]
<1>1. i + 1 \in 1..Len(Linked!Chain) /\ i < Len(Linked!Chain)
  BY ChainNow DEF ListInv, ListCounts
<1> QED
  BY <1>1 DEF Linked!get

\* remove(index) takes out one of the objects that the list holds.
LEMMA RemoveIndexStep ==
    ASSUME Linked!Pool, ListInv, NEW i \in Nat, Linked!removeIndex(i)
    PROVE  ListInv' /\ \E x \in Objects : Linked!List!Remove(x)
<1> DEFINE x == Linked!get(i)
<1>1. /\ ~crashed /\ destroying = -1 /\ i < count /\ Linked!deleteNode(x) /\ count' = Linked!Fewer
      /\ UNCHANGED <<destroying, entries>>
  BY DEF Linked!removeIndex
<1>2. crashed = FALSE /\ ListCounts /\ Len(Linked!Chain) \in Nat
  BY <1>1, ChainNow, Zenon DEF ListInv, ListCounts
<1>3. \E k \in 1..Len(Linked!Chain) : Linked!Contents[k] = x
  <2>1. i < Len(Linked!Chain)
    BY DEF Linked!removeIndex, Linked!get
  <2> QED
    BY <2>1, <1>1, Got
<1> HIDE DEF x
<1>4. LinkedAs(Linked!Chain', nodes', first') /\ Nodes(nodes') /\ Took(x)
  BY <1>1, <1>2, <1>3, DeleteStep, Zenon
<1>5. UNCHANGED <<misses, crashed>> /\ Len(Linked!Chain') = Len(Linked!Chain) - 1
  BY <1>4 DEF Took
<1>6. ListCounts'
  BY <1>1, <1>2, <1>5 DEF ListCounts, Linked!Pool, Linked!Fewer
<1> QED
  BY <1>4, <1>6, TookRemoves DEF ListInv

\* The destructor starts with the list as it is.
LEMMA DestroyStep ==
    ASSUME Linked!Pool, ListInv, Linked!Destroy
    PROVE  ListInv' /\ UNCHANGED Linked!Contents
<1>1. Linked!Chain' = Linked!Chain /\ Linked!Contents' = Linked!Contents
  BY DEF Linked!Destroy, Linked!Chain, Linked!Contents, Linked!Step
<1>2. Len(Linked!Chain) \in Nat
  BY ChainNow
<1>3. ListCounts'
  BY <1>1, <1>2 DEF Linked!Destroy, ListInv, ListCounts, Linked!Pool
<1> QED
  BY <1>1, <1>3 DEF ListInv, Linked!Destroy

\* A step of the destructor takes out the object at its index.
LEMMA DestroyNextStep ==
    ASSUME Linked!Pool, ListInv, Linked!DestroyNext
    PROVE  ListInv' /\ \E x \in Objects : Linked!List!Remove(x)
<1> DEFINE x == Linked!get(destroying)
<1>1. /\ ~crashed /\ destroying >= 0 /\ destroying < count /\ Linked!deleteNode(x)
      /\ count' = Linked!Fewer /\ destroying' = destroying + 1 /\ entries' = entries
  BY DEF Linked!DestroyNext
<1>2. crashed = FALSE /\ ListCounts /\ Len(Linked!Chain) \in Nat /\ destroying \in Nat
  BY <1>1, ChainNow DEF ListInv, ListCounts
<1>3. \E k \in 1..Len(Linked!Chain) : Linked!Contents[k] = x
  <2>1. destroying < Len(Linked!Chain)
    BY <1>1, <1>2 DEF ListCounts
  <2> QED
    BY <2>1, <1>1, <1>2, Got
<1> HIDE DEF x
<1>4. LinkedAs(Linked!Chain', nodes', first') /\ Nodes(nodes') /\ Took(x)
  BY <1>1, <1>2, <1>3, DeleteStep, Zenon
<1>5. UNCHANGED <<misses, crashed>> /\ Len(Linked!Chain') = Len(Linked!Chain) - 1
  BY <1>4 DEF Took
<1>6. ListCounts'
  BY <1>1, <1>2, <1>5 DEF ListCounts, Linked!Pool, Linked!Fewer
<1> QED
  BY <1>4, <1>6, TookRemoves DEF ListInv

\* Every step keeps the invariant, and is a step of the abstract list.
LEMMA ListStep ==
    ASSUME Linked!Pool, ListInv, [Linked!Next]_(Linked!vars)
    PROVE  ListInv' /\ [Linked!List!Next]_(Linked!Contents)
<1>1. CASE UNCHANGED Linked!vars
  <2>1. Linked!Chain' = Linked!Chain /\ Linked!Contents' = Linked!Contents
    BY <1>1 DEF Linked!vars, Linked!Chain, Linked!Contents, Linked!Step
  <2>2. ListCounts' = ListCounts /\ nodes' = nodes /\ first' = first
    BY <2>1, <1>1 DEF Linked!vars, ListCounts
  <2> QED
    BY <2>1, <2>2 DEF ListInv
<1>2. ASSUME NEW x \in Objects, Linked!insert(x) PROVE ListInv' /\ [Linked!List!Next]_(Linked!Contents)
  BY <1>2, InsertStep DEF Linked!List!Next
<1>3. ASSUME NEW x \in Objects, Linked!remove(x) PROVE ListInv' /\ [Linked!List!Next]_(Linked!Contents)
  BY <1>3, RemoveStep DEF Linked!List!Next
<1>4. ASSUME NEW i \in 0..(POOL_SIZE - 1), Linked!removeIndex(i) PROVE ListInv' /\ [Linked!List!Next]_(Linked!Contents)
  <2>1. i \in Nat
    BY DEF Linked!Pool
  <2> QED
    BY <2>1, <1>4, RemoveIndexStep DEF Linked!List!Next
<1>5. CASE Linked!Destroy
  BY <1>5, DestroyStep
<1>6. CASE Linked!DestroyNext
  BY <1>6, DestroyNextStep DEF Linked!List!Next
<1> QED
  BY <1>1, <1>2, <1>3, <1>4, <1>5, <1>6 DEF Linked!Next

\* The nodes form a list in every reachable state.
LEMMA ListInvariance ==
    ASSUME Linked!Pool
    PROVE  Linked!Spec => []ListInv
<1>1. Linked!Init => ListInv
  BY ListInit
<1>2. ListInv /\ [Linked!Next]_(Linked!vars) => ListInv'
  BY ListStep
<1> QED
  BY <1>1, <1>2, PTL DEF Linked!Spec

\* The nodes and their pointers implement the list of objects: for any pool,
\* in any order of insertions, removals by object or index, and destruction,
\* what is reached from m_start changes only as the abstract list may.
THEOREM NodesAreList ==
    ASSUME Linked!Pool
    PROVE  Linked!Spec => Linked!ImplementsList
<1>1. Linked!Init => Linked!List!Init
  BY ListInit
<1>2. ListInv /\ [Linked!Next]_(Linked!vars) => [Linked!List!Next]_(Linked!Contents)
  BY ListStep
<1> QED
  BY <1>1, <1>2, ListInvariance, PTL DEF Linked!Spec, Linked!ImplementsList, Linked!List!Spec

\* Every node in use is in the list, once, and points back at the one before
\* it.
THEOREM NodesLinked ==
    ASSUME Linked!Pool
    PROVE  Linked!Spec => []Linked!LinkedBothWays
<1>1. ListInv => Linked!LinkedBothWays
  <2> SUFFICES ASSUME ListInv PROVE Linked!LinkedBothWays
    OBVIOUS
  <2>1. /\ DOMAIN Linked!Chain = 1..Len(Linked!Chain) /\ \A k \in 1..Len(Linked!Chain) : Linked!Chain[k] \in DOMAIN nodes
    BY EntriesAreNodes, ChainNow DEF ListInv
  <2>2. /\ \A k \in 1..Len(Linked!Chain) : nodes[Linked!Chain[k]].previous = IF k = 1 THEN Linked!nullptr ELSE Linked!Chain[k - 1]
        /\ \A n \in DOMAIN nodes : \E k \in 1..Len(Linked!Chain) : Linked!Chain[k] = n
    BY Zenon DEF ListInv, LinkedAs
  <2> HIDE DEF Linked!Chain
  <2>3. {Linked!Chain[k] : k \in DOMAIN Linked!Chain} = DOMAIN nodes
    <3>1. \A k \in DOMAIN Linked!Chain : Linked!Chain[k] \in DOMAIN nodes
      BY <2>1, Zenon
    <3>2. \A n \in DOMAIN nodes : \E k \in DOMAIN Linked!Chain : Linked!Chain[k] = n
      BY <2>1, <2>2, Zenon
    <3> QED
      BY <3>1, <3>2, Zenon
  <2> QED
    BY <2>1, <2>2, <2>3 DEF Linked!LinkedBothWays
<1> QED
  BY <1>1, ListInvariance, PTL

\* The count is short by exactly the removals that missed and hides as many
\* entries from get, until it wraps around and get reaches all of them; and the
\* destructor, whose index overtakes the count, leaves half of the entries behind.
THEOREM CountsExplained ==
    ASSUME Linked!Pool
    PROVE  Linked!Spec => [](Linked!CountBehindByMisses /\ Linked!LeavesHalf)
<1>1. ListInv => Linked!CountBehindByMisses /\ Linked!LeavesHalf
  <2> SUFFICES ASSUME ListInv PROVE Linked!CountBehindByMisses /\ Linked!LeavesHalf
    OBVIOUS
  <2>1. Len(Linked!Chain) \in Nat
    BY ChainNow
  <2>2. Linked!CountBehindByMisses
    BY <2>1 DEF ListInv, ListCounts, Linked!CountBehindByMisses, Linked!get, Linked!Pool
  <2>3. Linked!LeavesHalf
    BY <2>1 DEF ListInv, ListCounts, Linked!LeavesHalf
  <2> QED
    BY <2>2, <2>3
<1> QED
  BY <1>1, ListInvariance, PTL
=============================================================================
