----------------------------- MODULE ThreadList -----------------------------
(***************************************************************************)
(* The intrusive doubly linked thread lists of Scheduling/Scheduler.cpp.   *)
(* The links are fields of the thread, so all lists share them: the ready  *)
(* queues, the idle and sleeping lists and the waiting list of every       *)
(* semaphore.  Each operation runs under its list's lock, and a thread is  *)
(* pushed only while it is in no list, so an operation is one step.        *)
(*                                                                         *)
(* queue is a history variable: the contents each list should have.        *)
(***************************************************************************)
EXTENDS Integers, Sequences, FiniteSets

CONSTANTS Threads, NoThread, Lists

ASSUME ListAssumption == NoThread \notin Threads

VARIABLES
    m_start, m_end, m_count,    \* of each list
    next, prev,                 \* m_next_thread, m_previous_thread of each thread
    ret,                        \* the thread returned by the last operation
    queue

links == <<m_start, m_end, m_count, next, prev>>
vars == <<links, ret, queue>>

Cells == Threads \cup {NoThread}

Queued(t) == \E l \in Lists : \E i \in 1..Len(queue[l]) : queue[l][i] = t

\* A thread comes zeroed from operator new.
Init ==
    /\ m_start = [l \in Lists |-> NoThread]
    /\ m_end = [l \in Lists |-> NoThread]
    /\ m_count = [l \in Lists |-> 0]
    /\ next = [t \in Threads |-> NoThread]
    /\ prev = [t \in Threads |-> NoThread]
    /\ ret = NoThread
    /\ queue = [l \in Lists |-> <<>>]

\* SetNextThread or SetPreviousThread on a thread that was tested for null.
SetLink(f, t, n) == IF t = NoThread THEN f ELSE [f EXCEPT ![t] = n]

-----------------------------------------------------------------------------
\* Fault: the end is set for an empty list only.
PushBackEndKept(l, t) ==
    /\ ~Queued(t)
    /\ next' = SetLink(next, m_end[l], t)
    /\ prev' = [prev EXCEPT ![t] = m_end[l]]
    /\ m_end' = [m_end EXCEPT ![l] = IF @ = NoThread THEN t ELSE @]
    /\ m_start' = [m_start EXCEPT ![l] = IF @ = NoThread THEN t ELSE @]
    /\ m_count' = [m_count EXCEPT ![l] = @ + 1]
    /\ queue' = [queue EXCEPT ![l] = Append(@, t)]
    /\ ret' = NoThread

PushBack(l, t) ==
    /\ ~Queued(t)
    /\ next' = SetLink(next, m_end[l], t)
    /\ prev' = [prev EXCEPT ![t] = m_end[l]]
    /\ m_end' = [m_end EXCEPT ![l] = t]
    /\ m_start' = [m_start EXCEPT ![l] = IF @ = NoThread THEN t ELSE @]
    /\ m_count' = [m_count EXCEPT ![l] = @ + 1]
    /\ queue' = [queue EXCEPT ![l] = Append(@, t)]
    /\ ret' = NoThread

PushFront(l, t) ==
    /\ ~Queued(t)
    /\ next' = [next EXCEPT ![t] = m_start[l]]
    /\ prev' = SetLink(prev, m_start[l], t)
    /\ m_start' = [m_start EXCEPT ![l] = t]
    /\ m_end' = [m_end EXCEPT ![l] = IF @ = NoThread THEN t ELSE @]
    /\ m_count' = [m_count EXCEPT ![l] = @ + 1]
    /\ queue' = [queue EXCEPT ![l] = <<t>> \o @]
    /\ ret' = NoThread

PopEmpty(l) ==
    /\ m_count[l] = 0
    /\ ret' = NoThread
    /\ UNCHANGED <<links, queue>>

\* The last thread leaves: its own links are not touched.
PopLast(l, thread) ==
    /\ m_count[l] = 1
    /\ ret' = thread
    /\ m_start' = [m_start EXCEPT ![l] = NoThread]
    /\ m_end' = [m_end EXCEPT ![l] = NoThread]
    /\ m_count' = [m_count EXCEPT ![l] = 0]
    /\ queue' = [queue EXCEPT ![l] = <<>>]
    /\ UNCHANGED <<next, prev>>

PopFrontMany(l) ==
    /\ m_count[l] > 1
    /\ LET thread == m_start[l] IN
       /\ ret' = thread
       /\ m_start' = [m_start EXCEPT ![l] = next[thread]]
       /\ prev' = [prev EXCEPT ![next[thread]] = NoThread]
       /\ next' = [next EXCEPT ![thread] = NoThread]
    /\ m_count' = [m_count EXCEPT ![l] = @ - 1]
    /\ queue' = [queue EXCEPT ![l] = Tail(@)]
    /\ UNCHANGED m_end

PopFront(l) == PopEmpty(l) \/ PopLast(l, m_start[l]) \/ PopFrontMany(l)

\* Fault: the popped thread keeps its link to the old last but one.
PopBackManyStale(l) ==
    /\ m_count[l] > 1
    /\ LET thread == m_end[l] IN
       /\ ret' = thread
       /\ m_end' = [m_end EXCEPT ![l] = prev[thread]]
       /\ next' = [next EXCEPT ![prev[thread]] = NoThread]
       /\ UNCHANGED prev
    /\ m_count' = [m_count EXCEPT ![l] = @ - 1]
    /\ queue' = [queue EXCEPT ![l] = SubSeq(@, 1, Len(@) - 1)]
    /\ UNCHANGED m_start

PopBackMany(l) ==
    /\ m_count[l] > 1
    /\ LET thread == m_end[l] IN
       /\ ret' = thread
       /\ m_end' = [m_end EXCEPT ![l] = prev[thread]]
       /\ next' = [next EXCEPT ![prev[thread]] = NoThread]
       /\ prev' = [prev EXCEPT ![thread] = NoThread]
    /\ m_count' = [m_count EXCEPT ![l] = @ - 1]
    /\ queue' = [queue EXCEPT ![l] = SubSeq(@, 1, Len(@) - 1)]
    /\ UNCHANGED m_start

PopBack(l) == PopEmpty(l) \/ PopLast(l, m_end[l]) \/ PopBackMany(l)

\* RemoveThread finds the thread by walking the list.  m_count is not
\* changed, nor is m_end when the thread is first in the list.
RemoveThread(l, t) ==
    /\ \E i \in 1..Len(queue[l]) :
          /\ queue[l][i] = t
          /\ queue' = [queue EXCEPT ![l] =
                          SubSeq(@, 1, i - 1) \o SubSeq(@, i + 1, Len(@))]
    /\ IF t = m_start[l]
       THEN /\ m_start' = [m_start EXCEPT ![l] = next[t]]
            /\ prev' = [SetLink(prev, next[t], NoThread) EXCEPT ![t] = NoThread]
            /\ next' = [next EXCEPT ![t] = NoThread]
            /\ UNCHANGED m_end
       ELSE LET n == IF t = m_end[l] THEN NoThread ELSE next[t] IN
            /\ next' = [next EXCEPT ![prev[t]] = n, ![t] = NoThread]
            /\ prev' = [SetLink(prev, n, prev[t]) EXCEPT ![t] = NoThread]
            /\ m_end' = [m_end EXCEPT ![l] = IF t = @ THEN prev[t] ELSE @]
            /\ UNCHANGED m_start
    /\ UNCHANGED m_count
    /\ ret' = NoThread

\* Get(index): m_count bounds the index, the links give the thread.
Get(l, index) ==
    LET at[i \in 0..index] ==
            IF i = 0 THEN m_start[l]
            ELSE IF at[i - 1] = NoThread THEN NoThread ELSE next[at[i - 1]]
    IN  at[index]

-----------------------------------------------------------------------------
\* The lists that only ever push and pop: a semaphore's waiting list always,
\* the ready queues as long as no queued thread is killed or put to sleep.
Next ==
    \E l \in Lists :
        \/ \E t \in Threads : PushBack(l, t) \/ PushFront(l, t)
        \/ PopFront(l) \/ PopBack(l)

Spec == Init /\ [][Next]_vars

\* The sleeping list, from which TimerTick removes threads.
NextRemove == Next \/ \E l \in Lists, t \in Threads : RemoveThread(l, t)

SpecRemove == Init /\ [][NextRemove]_vars

-----------------------------------------------------------------------------
(* Properties *)

\* Type correctness; the count of an empty list is not decremented.
TypeOK ==
    /\ m_start \in [Lists -> Cells]
    /\ m_end \in [Lists -> Cells]
    /\ m_count \in [Lists -> Nat]
    /\ next \in [Threads -> Cells]
    /\ prev \in [Threads -> Cells]
    /\ ret \in Cells
    /\ queue \in [Lists -> Seq(Threads)]

\* No thread is twice in the lists.
Distinct ==
    \A l, k \in Lists : \A i \in 1..Len(queue[l]), j \in 1..Len(queue[k]) :
        queue[l][i] = queue[k][j] => l = k /\ i = j

\* The links of a list spell its contents in both directions.
Spells(l) ==
    LET q == queue[l]
        n == Len(q)
    IN  /\ m_count[l] = n
        /\ n = 0 => m_start[l] = NoThread /\ m_end[l] = NoThread
        /\ n > 0 => /\ m_start[l] = q[1] /\ m_end[l] = q[n]
                    /\ prev[q[1]] = NoThread /\ next[q[n]] = NoThread
        /\ \A i \in 1..(n - 1) : next[q[i]] = q[i + 1] /\ prev[q[i + 1]] = q[i]

\* Although all lists share the links of the threads, and although PushBack
\* and PushFront set only one of a thread's two links, the links always spell
\* the contents of every list, and a thread in no list has null links.
LinksOK ==
    /\ Distinct
    /\ \A l \in Lists : Spells(l)
    /\ \A t \in Threads : ~Queued(t) => next[t] = NoThread /\ prev[t] = NoThread

\* Every index below GetCount() names a thread, as the loop of TimerTick over
\* the sleeping threads takes for granted.
GetInRange ==
    \A l \in Lists : \A i \in 0..(m_count[l] - 1) : Get(l, i) # NoThread

\* The lists implement double-ended queues: what Get and the links spell is
\* hidden, the contents and the returned thread stay.
Queues == INSTANCE ThreadQueues WITH queue <- queue, ret <- ret
QueuesSpec == Queues!Spec
=============================================================================
