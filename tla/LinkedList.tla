----------------------------- MODULE LinkedList -----------------------------
(***************************************************************************)
(* SimpleLinkedList and the nodes it is made of (Data-structures/          *)
(* LinkedList.hpp and .cpp), with nodes from the fixed pool that is used   *)
(* until the kernel heap exists.  The list of processors, of processes, of *)
(* semaphores, of a semaphore's holders and of a process's threads are     *)
(* such lists.  The callers hold a lock, so an operation is one step; the  *)
(* destructor is a loop of removals and takes a step for each.             *)
(*                                                                         *)
(* rotateLeft and rotateRight have no caller and are left out.             *)
(***************************************************************************)
EXTENDS Integers, FiniteSets, Sequences

CONSTANTS
    Objects,        \* what the entries point at
    POOL_SIZE,
    CountW,         \* how many values m_count has; 2^64 in the code
    MaxMisses       \* bound: removals of what is not in the list

\* There is a node that the pool keeps back, and a count that has wrapped does
\* not come down to the number of entries.
Pool ==
    /\ POOL_SIZE \in Nat \ {0} /\ MaxMisses \in Nat /\ CountW \in Nat
    /\ POOL_SIZE + MaxMisses < CountW

VARIABLES
    nodes,          \* node -> [previous, data, next] for the nodes in use
    m_start,
    m_count,
    misses,         \* how often an object that was not there was removed
    destroying,     \* the destructor's i, or -1
    size,           \* how many entries there were when the destructor began
    crashed         \* a null pointer was followed

vars == <<nodes, m_start, m_count, misses, destroying, size, crashed>>

nullptr == 0
NoObject == "nullptr"
Node(previous, data, next) == [previous |-> previous, data |-> data, next |-> next]

Init ==
    /\ nodes = <<>> /\ m_start = nullptr /\ m_count = 0
    /\ misses = 0 /\ destroying = -1 /\ size = 0 /\ crashed = FALSE

Step(n) == IF n = nullptr THEN nullptr ELSE nodes[n].next

\* The nodes that are reached from m_start, in order.
Chain ==
    LET at[k \in 1..Cardinality(DOMAIN nodes)] == IF k = 1 THEN m_start ELSE Step(at[k - 1])
    IN  SubSeq(at, 1, Cardinality({k \in DOMAIN at : at[k] # nullptr}))
Contents == [k \in DOMAIN Chain |-> nodes[Chain[k]].data]

-----------------------------------------------------------------------------
\* NodePool_AllocateNode keeps the last node back.
NodePool_AllocateNode ==
    IF Cardinality(DOMAIN nodes) = POOL_SIZE - 1 THEN nullptr
    ELSE CHOOSE n \in 1..POOL_SIZE \ DOMAIN nodes :
            \A o \in 1..POOL_SIZE \ DOMAIN nodes : n <= o

NodePool_FreeNode(heap, n) == [o \in DOMAIN heap \ {n} |-> heap[o]]

\* Fault: the new node is put before the others.
insertNodeFront(n, x) ==
    /\ nodes' = [o \in DOMAIN nodes \cup {n} |->
                    IF o = n THEN Node(nullptr, x, m_start)
                    ELSE IF o = m_start THEN [nodes[o] EXCEPT !.previous = n] ELSE nodes[o]]
    /\ m_start' = n

\* The new node becomes the head or follows the last one.
insertNode(n, x) ==
    LET last == IF m_start = nullptr THEN nullptr ELSE Chain[Len(Chain)]
    IN  /\ nodes' = [o \in DOMAIN nodes \cup {n} |->
                        IF o = n THEN Node(last, x, nullptr)
                        ELSE IF o = last THEN [nodes[o] EXCEPT !.next = n] ELSE nodes[o]]
        /\ m_start' = IF last = nullptr THEN n ELSE m_start

\* m_count++ and m_count--, of an unsigned number.
More == IF m_count = CountW - 1 THEN 0 ELSE m_count + 1
Fewer == IF m_count = 0 THEN CountW - 1 ELSE m_count - 1

\* insert looks for its own parameter's address and so takes every object;
\* with no node left the last entry's next is null and is followed.
insert(x) ==
    /\ ~crashed /\ destroying = -1
    /\ LET n == NodePool_AllocateNode
       IN  \/ n # nullptr /\ insertNode(n, x) /\ m_count' = More /\ UNCHANGED crashed
           \/ n = nullptr /\ crashed' = TRUE /\ UNCHANGED <<nodes, m_start, m_count>>
    /\ UNCHANGED <<misses, destroying, size>>

\* The neighbours of n point past it.
Unlink(n) ==
    [o \in DOMAIN nodes |->
        [nodes[o] EXCEPT
            !.previous = IF @ = n THEN nodes[n].previous ELSE @,
            !.next = IF @ = n THEN nodes[n].next ELSE @]]

\* deleteNode walks to the first node with the data; a list without nodes
\* is not expected by its loop.
deleteNode(x) ==
    LET at == {k \in DOMAIN Chain : nodes[Chain[k]].data = x}
        n == Chain[CHOOSE k \in at : \A j \in at : k <= j]
    IN  IF at # {}
        THEN /\ nodes' = NodePool_FreeNode(Unlink(n), n)
             /\ m_start' = IF n = m_start THEN nodes[n].next ELSE m_start
             /\ UNCHANGED <<misses, crashed>>
        ELSE /\ crashed' = (m_start = nullptr)
             /\ misses' = misses + 1
             /\ UNCHANGED <<nodes, m_start>>

\* The count goes down whether or not there was such an entry.
remove(x) ==
    /\ ~crashed /\ destroying = -1
    /\ misses < MaxMisses \/ \E k \in DOMAIN Contents : Contents[k] = x
    /\ deleteNode(x)
    /\ m_count' = Fewer
    /\ UNCHANGED <<destroying, size>>

\* get(index), as far as the count and the nodes go.
get(i) == IF i < m_count /\ i < Len(Chain) THEN Contents[i + 1] ELSE NoObject

\* remove(index): the object at the index is looked up, then removed.
removeIndex(i) ==
    /\ ~crashed /\ destroying = -1 /\ i < m_count
    /\ get(i) # NoObject
    /\ deleteNode(get(i))
    /\ m_count' = Fewer
    /\ UNCHANGED <<destroying, size>>

\* ~SimpleLinkedList: for (i = 0; i < m_count; i++) remove(i).  Bound: a list
\* whose count has wrapped, for which the loop is endless, is not destroyed.
Destroy ==
    /\ ~crashed /\ destroying = -1 /\ misses <= Len(Chain)
    /\ destroying' = 0 /\ size' = m_count
    /\ UNCHANGED <<nodes, m_start, m_count, misses, crashed>>

DestroyNext ==
    /\ ~crashed /\ destroying >= 0 /\ destroying < m_count
    /\ deleteNode(get(destroying))
    /\ m_count' = Fewer
    /\ destroying' = destroying + 1
    /\ UNCHANGED size

Next ==
    \/ \E x \in Objects : insert(x) \/ remove(x)
    \/ \E i \in 0..(POOL_SIZE - 1) : removeIndex(i)
    \/ Destroy \/ DestroyNext

Spec == Init /\ [][Next]_vars

-----------------------------------------------------------------------------
\* Type correctness.
TypeOK ==
    /\ DOMAIN nodes \subseteq 1..POOL_SIZE
    /\ \A n \in DOMAIN nodes :
        /\ {nodes[n].previous, nodes[n].next} \subseteq DOMAIN nodes \cup {nullptr}
        /\ nodes[n].data \in Objects
    /\ m_start \in DOMAIN nodes \cup {nullptr}
    /\ m_count \in 0..(CountW - 1)
    /\ destroying \in -1..POOL_SIZE

\* deleteNode and insertNode keep the list linked both ways: every node of
\* the list is reached once from m_start and points back at the one before,
\* and every node in use is in the list (none leaks).
LinkedBothWays ==
    /\ \A k \in DOMAIN Chain :
        nodes[Chain[k]].previous = IF k = 1 THEN nullptr ELSE Chain[k - 1]
    /\ {Chain[k] : k \in DOMAIN Chain} = DOMAIN nodes

\* m_count falls behind the entries by one for each removal of an object
\* that was not there, and by nothing else: Semaphore::release and
\* Scheduler::RemoveProcess, which remove without looking, hide the last
\* entries from get when they miss, until one miss more than there are entries
\* makes the count wrap around and get reach them all again.
CountBehindByMisses ==
    /\ m_count = IF misses <= Len(Chain) THEN Len(Chain) - misses
                 ELSE CountW + Len(Chain) - misses
    /\ \A i \in 0..(Len(Chain) - 1) :
        get(i) = IF i < Len(Chain) - misses \/ misses > Len(Chain) THEN Contents[i + 1]
                 ELSE NoObject

\* The destructor's index overtakes the count that its removals lower: half
\* of the entries counted, rounded down, stay behind, with those that were not
\* counted, and their nodes with them.
LeavesHalf ==
    destroying >= 0 /\ destroying >= m_count => Len(Chain) = misses + size \div 2

\* The nodes implement the list of objects.
List == INSTANCE ObjectList WITH list <- Contents

\* Every operation is, for the entries, one of the abstract list's or none.
ImplementsList == List!Spec

=============================================================================
