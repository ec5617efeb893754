--------------------------- MODULE SemaphoreTable ---------------------------
(***************************************************************************)
(* The table of the semaphores that system calls create, use and destroy   *)
(* (SystemCalls/Synchronisation.cpp, Scheduler.cpp), and the life of a     *)
(* semaphore as an object.  What acquire and release do to a semaphore is  *)
(* the subject of module Semaphore; here a call only uses it.              *)
(*                                                                         *)
(* Each operation on g_semaphores runs under its lock and is one step, and *)
(* so is the assignment of an ID under g_global_lock.  Between them other  *)
(* processors run: a thread holds on to a pointer while the semaphore may  *)
(* be destroyed and its memory given to the next one.                      *)
(***************************************************************************)
EXTENDS Integers, Sequences, SequencesExt

CONSTANTS
    Threads,
    Addresses,      \* heap blocks, 1..n
    MaxIDs          \* bound: how many semaphores are created

VARIABLES
    g_semaphores,
    g_NextSemaphoreID,
    m_id,           \* address -> ID of the semaphore there; Freed when none
    pc, call, asked, semaphore,     \* a call, its argument and its local variable
    known,          \* IDs that create has returned
    raced,          \* IDs that two calls of destroy held at once
    late            \* IDs whose semaphore a call used when it was no longer there

vars == <<g_semaphores, g_NextSemaphoreID, m_id, pc, call, asked, semaphore,
          known, raced, late>>

nullptr == 0
Unset == -1         \* m_id before SetID
Freed == -2

Init ==
    /\ g_semaphores = <<>> /\ g_NextSemaphoreID = 0
    /\ m_id = [a \in Addresses |-> Freed]
    /\ pc = [t \in Threads |-> "user"]
    /\ call = [t \in Threads |-> "none"]
    /\ asked = [t \in Threads |-> Unset]
    /\ semaphore = [t \in Threads |-> nullptr]
    /\ known = {} /\ raced = {} /\ late = {}

Goto(t, to) == pc' = [pc EXCEPT ![t] = to]

Return(t) ==
    /\ Goto(t, "user")
    /\ call' = [call EXCEPT ![t] = "none"]
    /\ asked' = [asked EXCEPT ![t] = Unset]
    /\ semaphore' = [semaphore EXCEPT ![t] = nullptr]

\* The semaphore that a call asked for is not what its pointer leads to.
Stale(t) == IF m_id[semaphore[t]] = asked[t] THEN {} ELSE {asked[t]}

tables == <<g_semaphores, g_NextSemaphoreID, m_id>>
ghosts == <<known, raced, late>>

-----------------------------------------------------------------------------
\* new Semaphore(value): the heap hands out a block that is free.
sys_createSemaphore(t) ==
    /\ pc[t] = "user" /\ g_NextSemaphoreID < MaxIDs
    /\ \E a \in Addresses :
        /\ m_id[a] = Freed
        /\ m_id' = [m_id EXCEPT ![a] = Unset]
        /\ semaphore' = [semaphore EXCEPT ![t] = a]
    /\ call' = [call EXCEPT ![t] = "create"]
    /\ Goto(t, "insert")
    /\ UNCHANGED <<g_semaphores, g_NextSemaphoreID, asked, ghosts>>

\* RegisterSemaphore enters the semaphore in the table first...
RegisterSemaphore(t) ==
    /\ pc[t] = "insert"
    /\ g_semaphores' = Append(g_semaphores, semaphore[t])
    /\ Goto(t, "number")
    /\ UNCHANGED <<g_NextSemaphoreID, m_id, call, asked, semaphore, ghosts>>

\* int ID = g_NextSemaphoreID
NewID == g_NextSemaphoreID

\* ...and numbers it under the other lock.
SetID(t) ==
    /\ pc[t] = "number" /\ g_NextSemaphoreID < MaxIDs
    /\ m_id' = [m_id EXCEPT ![semaphore[t]] = NewID]
    /\ g_NextSemaphoreID' = g_NextSemaphoreID + 1
    /\ known' = known \cup {NewID}
    /\ Return(t)
    /\ UNCHANGED <<g_semaphores, raced, late>>

-----------------------------------------------------------------------------
\* sys_acquireSemaphore, sys_releaseSemaphore and sys_destroySemaphore, and
\* the calls for mutexes, which are the same.
Call(t, what, ID) ==
    /\ pc[t] = "user" /\ ID \in known
    /\ call' = [call EXCEPT ![t] = what]
    /\ asked' = [asked EXCEPT ![t] = ID]
    /\ Goto(t, "get")
    /\ UNCHANGED <<tables, semaphore, ghosts>>

\* Fault: a semaphore that has no ID yet is taken for the one.
IndexUnset(ID) == SelectInSeq(g_semaphores, LAMBDA a : m_id[a] \in {ID, Unset})

\* The first entry with the ID, 0 if there is none.
Index(ID) == SelectInSeq(g_semaphores, LAMBDA a : m_id[a] = ID)

\* GetSemaphore.  The pointer outlives the lock.
GetSemaphore(t) ==
    LET i == Index(asked[t])
        others == {o \in Threads \ {t} : /\ call[o] = "destroy" /\ asked[o] = asked[t]
                                         /\ pc[o] \in {"unregister", "delete"}}
    IN  /\ pc[t] = "get"
        /\ \/ i = 0 /\ Return(t) /\ UNCHANGED raced
           \/ /\ i # 0
              /\ semaphore' = [semaphore EXCEPT ![t] = g_semaphores[i]]
              /\ Goto(t, IF call[t] = "destroy" THEN "unregister" ELSE "use")
              /\ raced' = IF call[t] = "destroy" /\ others # {}
                          THEN raced \cup {asked[t]} ELSE raced
              /\ UNCHANGED <<call, asked>>
        /\ UNCHANGED <<tables, known, late>>

\* acquire or release; the thread has what the pointer led to.
Use(t) ==
    /\ pc[t] = "use"
    /\ late' = late \cup Stale(t)
    /\ Return(t)
    /\ UNCHANGED <<tables, known, raced>>

\* What UnregisterSemaphore leaves.
EntriesWithout(ID) ==
    IF Index(ID) = 0 THEN g_semaphores ELSE RemoveAt(g_semaphores, Index(ID))

\* UnregisterSemaphore looks the ID up again; what it says is not looked at.
UnregisterSemaphore(t) ==
    /\ pc[t] = "unregister"
    /\ g_semaphores' = EntriesWithout(asked[t])
    /\ Goto(t, "delete")
    /\ UNCHANGED <<g_NextSemaphoreID, m_id, call, asked, semaphore, ghosts>>

\* delete semaphore.  The destructor readies the waiting threads first.
Delete(t) ==
    /\ pc[t] = "delete"
    /\ m_id' = [m_id EXCEPT ![semaphore[t]] = Freed]
    /\ late' = late \cup Stale(t)
    /\ Return(t)
    /\ UNCHANGED <<g_semaphores, g_NextSemaphoreID, known, raced>>

Next ==
    \E t \in Threads :
        \/ sys_createSemaphore(t) \/ RegisterSemaphore(t) \/ SetID(t)
        \/ \E what \in {"acquire", "destroy"}, ID \in 0..(MaxIDs - 1) : Call(t, what, ID)
        \/ GetSemaphore(t) \/ Use(t) \/ UnregisterSemaphore(t) \/ Delete(t)

Spec == Init /\ [][Next]_vars

-----------------------------------------------------------------------------
\* Type correctness.
TypeOK ==
    /\ ToSet(g_semaphores) \subseteq Addresses
    /\ g_NextSemaphoreID \in 0..MaxIDs
    /\ \A a \in Addresses : m_id[a] \in {Unset, Freed} \cup 0..(MaxIDs - 1)
    /\ \A t \in Threads : semaphore[t] \in Addresses \cup {nullptr}

\* Two semaphores never have one ID, although a semaphore is in the table
\* before RegisterSemaphore numbers it and several are numbered at a time.
IDsUnique ==
    \A a, b \in Addresses : a # b /\ m_id[a] = m_id[b] => m_id[a] \in {Unset, Freed}

\* GetSemaphore never meets a freed semaphore in the table unless two calls
\* of sys_destroySemaphore for one ID overlapped: the second delete may then
\* free the semaphore that was given the first one's memory.
ListedAlive ==
    raced = {} => \A i \in DOMAIN g_semaphores : m_id[g_semaphores[i]] # Freed

\* A call finds something else behind its pointer only when the semaphore
\* it asked for has been destroyed since GetSemaphore: a semaphore that is
\* alive is never mistaken for another, whatever memory is reused.
StaleOnlyDestroyed == \A a \in Addresses : m_id[a] \notin late

=============================================================================
