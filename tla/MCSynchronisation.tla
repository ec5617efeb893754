-------------------------- MODULE MCSynchronisation --------------------------
(***************************************************************************)
(* Semaphores, the table and the lists they are kept in, and the           *)
(* shootdowns by which CPUs wait for one another, in one run.  The parts   *)
(* share no state, so a behaviour exercises the one that "part" names and  *)
(* leaves the others as they were created.                                 *)
(***************************************************************************)
EXTENDS Semaphore

CONSTANTS TableThreads, Addresses, MaxIDs, Objects, POOL_SIZE, CountW, MaxMisses, CPUs, Senders, NoCPU

VARIABLES
    part,
    g_semaphores, g_NextSemaphoreID, m_id, tablePc, call, asked, semaphore,
    known, raced, late,
    nodes, m_start, m_count, misses, destroying, size, crashed,
    mapped, tlb, on, senderPc, left, done, procsLock, list, listLock, pending, handler

tableVars == <<g_semaphores, g_NextSemaphoreID, m_id, tablePc, call, asked,
               semaphore, known, raced, late>>
listVars == <<nodes, m_start, m_count, misses, destroying, size, crashed>>
tlbVars == <<mapped, tlb, on, senderPc, left, done, procsLock, list, listLock, pending, handler>>

Table == INSTANCE SemaphoreTable WITH Threads <- TableThreads, pc <- tablePc
Linked == INSTANCE LinkedList
TLB == INSTANCE Shootdown WITH Followed <- {}, pc <- senderPc

\* The pool of nodes is one that the list's proofs are about.
ASSUME ProvedList == Linked!Pool

PartsInit ==
    /\ part \in {"semaphore", "table", "list", "shootdown"}
    /\ Init /\ Table!Init /\ Linked!Init /\ TLB!Init

SemaphoreStep == part = "semaphore" /\ Next /\ UNCHANGED <<part, tableVars, listVars, tlbVars>>
TableStep == part = "table" /\ Table!Next /\ UNCHANGED <<part, vars, listVars, tlbVars>>
ListStep == part = "list" /\ Linked!Next /\ UNCHANGED <<part, vars, tableVars, tlbVars>>
ShootdownStep == part = "shootdown" /\ TLB!Next /\ UNCHANGED <<part, vars, tableVars, listVars>>

PartsNext == SemaphoreStep \/ TableStep \/ ListStep \/ ShootdownStep

\* The fairness of the FairSpecs of Semaphore and Shootdown, for the behaviours
\* that exercise them.
PartsSpec ==
    /\ PartsInit
    /\ [][PartsNext]_<<part, vars, tableVars, listVars, tlbVars>>
    /\ \A t \in Threads :
           /\ WF_vars(part = "semaphore" /\ Step(t))
           /\ WF_vars(part = "semaphore" /\ Holds(t) /\ SysRelease(t))
    /\ \A c \in CPUs : WF_tlbVars(part = "shootdown" /\ TLB!IPIHandler(c))
    /\ \A t \in Senders :
           /\ SF_tlbVars(part = "shootdown" /\ TLB!Dispatch(t))
           /\ SF_tlbVars(part = "shootdown" /\ TLB!Proceed(t))

-----------------------------------------------------------------------------
\* Semaphores, their table, the linked lists and the shootdowns keep their
\* types; m_value stays within its width.
PartsTypeOK == TypeOK /\ Table!TypeOK /\ Linked!TypeOK /\ TLB!TypeOK

\* SemaphoreTable: an ID names one semaphore.  No two in the table have the
\* same one; a call that uses GetSemaphore's pointer without the lock never
\* takes a semaphore that is alive for another one; and the table holds a freed
\* one only after two calls of sys_destroySemaphore for one ID overlapped.
IDNamesOne == Table!IDsUnique /\ Table!StaleOnlyDestroyed /\ Table!ListedAlive

\* LinkedList: the nodes implement the list that ObjectList describes, linked in
\* both directions and none leaked.  The count is short by exactly the removals
\* of what was not there, and the destructor leaves every second entry behind.
ImplementsList ==
    /\ Linked!ImplementsList
    /\ [](Linked!LinkedBothWays /\ Linked!CountBehindByMisses /\ Linked!LeavesHalf)

\* Shootdown: a shootdown that has sent its NMIs returns, unless a handler spins
\* on a lock whose holder does not execute.
ShootdownReturns == part = "shootdown" => TLB!ShootdownReturns
=============================================================================
