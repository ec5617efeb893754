---------------------------- MODULE ThreadQueues ----------------------------
(***************************************************************************)
(* What the scheduler's thread lists promise: double-ended queues of       *)
(* threads, in which a thread is at most once.  ret is the thread that the *)
(* last operation returned.                                                *)
(***************************************************************************)
EXTENDS Integers, Sequences

CONSTANTS Threads, NoThread, Lists

VARIABLES queue, ret

vars == <<queue, ret>>

Queued(t) == \E l \in Lists : \E i \in 1..Len(queue[l]) : queue[l][i] = t

Init ==
    /\ queue = [l \in Lists |-> <<>>]
    /\ ret = NoThread

PushBack(l, t) ==
    /\ ~Queued(t)
    /\ queue' = [queue EXCEPT ![l] = Append(@, t)]
    /\ ret' = NoThread

PushFront(l, t) ==
    /\ ~Queued(t)
    /\ queue' = [queue EXCEPT ![l] = <<t>> \o @]
    /\ ret' = NoThread

PopFront(l) ==
    IF queue[l] = <<>>
    THEN ret' = NoThread /\ UNCHANGED queue
    ELSE ret' = Head(queue[l]) /\ queue' = [queue EXCEPT ![l] = Tail(@)]

PopBack(l) ==
    IF queue[l] = <<>>
    THEN ret' = NoThread /\ UNCHANGED queue
    ELSE /\ ret' = queue[l][Len(queue[l])]
         /\ queue' = [queue EXCEPT ![l] = SubSeq(@, 1, Len(@) - 1)]

Next ==
    \E l \in Lists :
        \/ \E t \in Threads : PushBack(l, t) \/ PushFront(l, t)
        \/ PopFront(l) \/ PopBack(l)

Spec == Init /\ [][Next]_vars
=============================================================================
