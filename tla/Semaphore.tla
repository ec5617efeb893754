----------------------------- MODULE Semaphore -----------------------------
(***************************************************************************)
(* One counting semaphore of the kernel (Scheduling/Semaphore.cpp) driven  *)
(* by the system calls of SystemCalls/Synchronisation.cpp.  A mutex is a   *)
(* semaphore created with the value 1.                                     *)
(*                                                                         *)
(* A step is one section of the code between two points where another CPU  *)
(* can come in between: the body under m_holders' lock, the body under the *)
(* waiting list's lock, or a part of the body under m_lock.  Only m_lock   *)
(* is held across steps, so only m_lock has an owner here.                 *)
(***************************************************************************)
EXTENDS Integers, Sequences, FiniteSets

CONSTANTS
    Threads,        \* the threads that know the semaphore's ID
    NoThread,       \* the null Thread*
    InitialValue,   \* the argument of sys_createSemaphore
    W,              \* number of values of m_value (2^64 in the code)
    MaxHeld,        \* bound: units one program holds before it acquires again
    Destroyers      \* the threads whose program calls destroySemaphore

ASSUME ThreadsAssumption == IsFiniteSet(Threads) /\ NoThread \notin Threads
ASSUME ValueAssumption == W \in Nat \ {0} /\ InitialValue \in 0..(W - 1)
ASSUME ProgramAssumption == MaxHeld \in Nat /\ Destroyers \subseteq Threads

VARIABLES
    m_value,            \* uint64_t
    m_lock,             \* owner of the spinlock
    m_holders,          \* list of holding threads; one entry for each unit
    m_waitingThreads,   \* FIFO list of blocked threads
    pc,                 \* where each thread is in the system calls
    nextThread,         \* release(): the waiter popped by each thread
    leaving,            \* threads whose CPU has yet to leave acquire()
    registered,         \* the ID is in g_semaphores
    alive               \* the object has not been deleted

vars == <<m_value, m_lock, m_holders, m_waitingThreads, pc, nextThread,
          leaving, registered, alive>>

\* Steps that read or write the object through a pointer already looked up.
ObjectSteps == {"acq_lock", "acq_slow", "acq_ins", "acq_late", "acq_block",
                "rel_find", "rel_inc", "rel_pop", "rel_dec", "rel_ins",
                "rel_wake", "des_delete"}

Steps == ObjectSteps \cup {"user", "des_unreg", "blocked", "ready", "wild"}

\* Unsigned arithmetic on m_value.
Inc(v) == IF v = W - 1 THEN 0 ELSE v + 1
\* Fault: the decrement does not wrap.
DecSigned(v) == v - 1

Dec(v) == IF v = 0 THEN W - 1 ELSE v - 1

\* m_holders: getIndex finds the first entry, remove deletes that entry.
Holds(t) == \E i \in 1..Len(m_holders) : m_holders[i] = t

WithoutEntry(s, i) == SubSeq(s, 1, i - 1) \o SubSeq(s, i + 1, Len(s))

HeldBy(t) == Cardinality({i \in 1..Len(m_holders) : m_holders[i] = t})

Goto(t, step) == pc' = [pc EXCEPT ![t] = step]

Init ==
    /\ m_value = InitialValue
    /\ m_lock = NoThread
    /\ m_holders = <<>>
    /\ m_waitingThreads = <<>>
    /\ pc = [t \in Threads |-> "user"]
    /\ nextThread = [t \in Threads |-> NoThread]
    /\ leaving = {}
    /\ registered = TRUE
    /\ alive = TRUE

-----------------------------------------------------------------------------
(* acquire *)

\* GetSemaphore: an unknown ID returns -EINVAL and changes nothing.
SysAcquire(t) ==
    /\ pc[t] = "user"
    /\ HeldBy(t) < MaxHeld
    /\ Goto(t, IF registered THEN "acq_lock" ELSE "user")
    /\ UNCHANGED <<m_value, m_lock, m_holders, m_waitingThreads, nextThread,
                   leaving, registered, alive>>

\* The value is tested under m_lock; at zero the lock is dropped again and
\* semaphore_acquire starts over.
AcquireFast(t) ==
    /\ pc[t] = "acq_lock" /\ alive
    /\ m_lock = NoThread
    /\ IF m_value = 0
       THEN Goto(t, "acq_slow") /\ UNCHANGED <<m_value, m_lock>>
       ELSE Goto(t, "acq_ins") /\ m_value' = Dec(m_value) /\ m_lock' = t
    /\ UNCHANGED <<m_holders, m_waitingThreads, nextThread, leaving,
                   registered, alive>>

\* Fault: acquire() enqueues without testing the value again.
AcquireSlowNoRetest(t) ==
    /\ pc[t] = "acq_slow" /\ alive
    /\ m_lock = NoThread
    /\ m_lock' = t
    /\ m_waitingThreads' = Append(m_waitingThreads, t)
    /\ Goto(t, "acq_block")
    /\ UNCHANGED <<m_value, m_holders, nextThread, leaving, registered, alive>>

\* Fault: acquire() drops m_lock as soon as the thread is enqueued.
AcquireSlowUnlocked(t) ==
    /\ pc[t] = "acq_slow" /\ alive
    /\ m_lock = NoThread
    /\ IF m_value = 0
       THEN /\ m_waitingThreads' = Append(m_waitingThreads, t)
            /\ Goto(t, "acq_block")
            /\ UNCHANGED <<m_value, m_lock>>
       ELSE /\ m_value' = Dec(m_value)
            /\ m_lock' = t
            /\ Goto(t, "acq_late")
            /\ UNCHANGED m_waitingThreads
    /\ UNCHANGED <<m_holders, nextThread, leaving, registered, alive>>

\* Semaphore::acquire up to the enqueueing; m_lock stays held in both cases.
\* It was entered by the jump at the end of x86_64_Prep_SemaphoreAcquire, on
\* top of the registers pushed there.
AcquireSlow(t) ==
    /\ pc[t] = "acq_slow" /\ alive
    /\ m_lock = NoThread
    /\ m_lock' = t
    /\ IF m_value = 0
       THEN /\ m_waitingThreads' = Append(m_waitingThreads, t)
            /\ Goto(t, "acq_block")
            /\ UNCHANGED m_value
       ELSE /\ m_value' = Dec(m_value)
            /\ Goto(t, "acq_late")
            /\ UNCHANGED m_waitingThreads
    /\ UNCHANGED <<m_holders, nextThread, leaving, registered, alive>>

\* The unit just taken is recorded, then m_lock is dropped.  acquire_nolock
\* returns to sys_acquireSemaphore.  acquire(), when it finds a unit after all,
\* returns through x86_64_HandleSemaphoreAcquire, whose ret takes the pushed
\* rax for the return address.
AcquireInsert(t) ==
    /\ pc[t] \in {"acq_ins", "acq_late"} /\ alive
    /\ m_holders' = Append(m_holders, t)
    /\ m_lock' = NoThread
    /\ Goto(t, IF pc[t] = "acq_ins" THEN "user" ELSE "wild")
    /\ UNCHANGED <<m_value, m_waitingThreads, nextThread, leaving, registered,
                   alive>>

\* RemoveThread, SetBlocked(true), unlock.  The CPU still runs PickNext and
\* Next on the thread's kernel stack: the thread is in leaving until then.
AcquireBlock(t) ==
    /\ pc[t] = "acq_block" /\ alive
    /\ m_lock' = NoThread
    /\ leaving' = leaving \cup {t}
    /\ Goto(t, "blocked")
    /\ UNCHANGED <<m_value, m_holders, m_waitingThreads, nextThread,
                   registered, alive>>

\* PickNext(); Next(): the CPU switches to another thread's stack.
LeaveCPU(t) ==
    /\ t \in leaving
    /\ leaving' = leaving \ {t}
    /\ UNCHANGED <<m_value, m_lock, m_holders, m_waitingThreads, pc,
                   nextThread, registered, alive>>

\* The scheduler resumes a re-added thread; acquire() has returned for it.
\* If its old CPU is still on its stack, both run on one stack and the
\* outcome is undefined.
Dispatch(t) ==
    /\ pc[t] = "ready"
    /\ \E step \in IF t \in leaving THEN {"user", "wild"} ELSE {"user"} :
          Goto(t, step)
    /\ UNCHANGED <<m_value, m_lock, m_holders, m_waitingThreads, nextThread,
                   leaving, registered, alive>>

-----------------------------------------------------------------------------
(* release *)

SysRelease(t) ==
    /\ pc[t] = "user"
    /\ Goto(t, IF registered THEN "rel_find" ELSE "user")
    /\ UNCHANGED <<m_value, m_lock, m_holders, m_waitingThreads, nextThread,
                   leaving, registered, alive>>

\* Under m_holders' lock: a thread that holds nothing has nothing to release.
ReleaseFind(t) ==
    /\ pc[t] = "rel_find" /\ alive
    /\ IF Holds(t)
       THEN \E i \in 1..Len(m_holders) :
               /\ m_holders[i] = t
               /\ \A j \in 1..(i - 1) : m_holders[j] # t
               /\ m_holders' = WithoutEntry(m_holders, i)
               /\ Goto(t, "rel_inc")
       ELSE Goto(t, "user") /\ UNCHANGED m_holders
    /\ UNCHANGED <<m_value, m_lock, m_waitingThreads, nextThread, leaving,
                   registered, alive>>

\* Under m_lock: m_value++.
ReleaseIncrement(t) ==
    /\ pc[t] = "rel_inc" /\ alive
    /\ m_lock = NoThread
    /\ m_value' = Inc(m_value)
    /\ Goto(t, "rel_pop")
    /\ UNCHANGED <<m_lock, m_holders, m_waitingThreads, nextThread, leaving,
                   registered, alive>>

\* Fault: PopBack instead of PopFront.
ReleasePopBack(t) ==
    /\ pc[t] = "rel_pop" /\ alive
    /\ LET n == Len(m_waitingThreads)
       IN  IF n > 0
           THEN /\ nextThread' = [nextThread EXCEPT ![t] = m_waitingThreads[n]]
                /\ m_waitingThreads' = SubSeq(m_waitingThreads, 1, n - 1)
                /\ Goto(t, "rel_dec")
           ELSE Goto(t, "user") /\ UNCHANGED <<nextThread, m_waitingThreads>>
    /\ UNCHANGED <<m_value, m_lock, m_holders, leaving, registered, alive>>

\* Under the waiting list's lock only.
ReleasePop(t) ==
    /\ pc[t] = "rel_pop" /\ alive
    /\ IF m_waitingThreads # <<>>
       THEN /\ nextThread' = [nextThread EXCEPT ![t] = Head(m_waitingThreads)]
            /\ m_waitingThreads' = Tail(m_waitingThreads)
            /\ Goto(t, "rel_dec")
       ELSE Goto(t, "user") /\ UNCHANGED <<nextThread, m_waitingThreads>>
    /\ UNCHANGED <<m_value, m_lock, m_holders, leaving, registered, alive>>

\* Fault: the unit handed to the waiter stays in m_value.
ReleaseKeepValue(t) ==
    /\ pc[t] = "rel_dec" /\ alive
    /\ m_lock = NoThread
    /\ Goto(t, "rel_ins")
    /\ UNCHANGED <<m_value, m_lock, m_holders, m_waitingThreads, nextThread,
                   leaving, registered, alive>>

\* Under m_lock: m_value-- on behalf of the popped thread.
ReleaseDecrement(t) ==
    /\ pc[t] = "rel_dec" /\ alive
    /\ m_lock = NoThread
    /\ m_value' = Dec(m_value)
    /\ Goto(t, "rel_ins")
    /\ UNCHANGED <<m_lock, m_holders, m_waitingThreads, nextThread, leaving,
                   registered, alive>>

\* Under m_holders' lock.
ReleaseInsert(t) ==
    /\ pc[t] = "rel_ins" /\ alive
    /\ m_holders' = Append(m_holders, nextThread[t])
    /\ Goto(t, "rel_wake")
    /\ UNCHANGED <<m_value, m_lock, m_waitingThreads, nextThread, leaving,
                   registered, alive>>

\* SetBlocked(false) and ReaddThread.
ReleaseWake(t) ==
    /\ pc[t] = "rel_wake" /\ alive
    /\ pc' = [pc EXCEPT ![t] = "user", ![nextThread[t]] = "ready"]
    /\ nextThread' = [nextThread EXCEPT ![t] = NoThread]
    /\ UNCHANGED <<m_value, m_lock, m_holders, m_waitingThreads, leaving,
                   registered, alive>>

-----------------------------------------------------------------------------
(* destroy *)

SysDestroy(t) ==
    /\ pc[t] = "user" /\ t \in Destroyers
    /\ Goto(t, IF registered THEN "des_unreg" ELSE "user")
    /\ UNCHANGED <<m_value, m_lock, m_holders, m_waitingThreads, nextThread,
                   leaving, registered, alive>>

\* UnregisterSemaphore's result is ignored.
DestroyUnregister(t) ==
    /\ pc[t] = "des_unreg"
    /\ registered' = FALSE
    /\ Goto(t, "des_delete")
    /\ UNCHANGED <<m_value, m_lock, m_holders, m_waitingThreads, nextThread,
                   leaving, alive>>

\* ~Semaphore re-adds every waiter, without a unit, and the object is freed.
DestroyDelete(t) ==
    /\ pc[t] = "des_delete" /\ alive
    /\ alive' = FALSE
    /\ m_waitingThreads' = <<>>
    /\ pc' = [u \in Threads |->
                 IF u = t THEN "user"
                 ELSE IF /\ pc[u] = "blocked"
                         /\ \E i \in 1..Len(m_waitingThreads) :
                               m_waitingThreads[i] = u
                      THEN "ready" ELSE pc[u]]
    /\ UNCHANGED <<m_value, m_lock, m_holders, nextThread, leaving,
                   registered>>

\* A thread that goes on with the pointer of a deleted semaphore: undefined.
UseAfterFree(t) ==
    /\ pc[t] \in ObjectSteps /\ ~alive
    /\ Goto(t, "wild")
    /\ UNCHANGED <<m_value, m_lock, m_holders, m_waitingThreads, nextThread,
                   leaving, registered, alive>>

-----------------------------------------------------------------------------
Step(t) ==
    \/ AcquireFast(t) \/ AcquireSlow(t) \/ AcquireInsert(t) \/ AcquireBlock(t)
    \/ LeaveCPU(t) \/ Dispatch(t)
    \/ ReleaseFind(t) \/ ReleaseIncrement(t) \/ ReleasePop(t)
    \/ ReleaseDecrement(t) \/ ReleaseInsert(t) \/ ReleaseWake(t)
    \/ DestroyUnregister(t) \/ DestroyDelete(t) \/ UseAfterFree(t)

Next ==
    \E t \in Threads : SysAcquire(t) \/ SysRelease(t) \/ SysDestroy(t) \/ Step(t)

Spec == Init /\ [][Next]_vars

\* Every CPU keeps executing kernel code, and a program that holds a unit
\* calls releaseSemaphore in the end.
FairSpec ==
    /\ Spec
    /\ \A t \in Threads : WF_vars(Step(t)) /\ WF_vars(Holds(t) /\ SysRelease(t))

-----------------------------------------------------------------------------
(* Properties *)

\* Every variable keeps the type of its C++ declaration.
TypeOK ==
    /\ m_value \in 0..(W - 1)
    /\ m_lock \in Threads \cup {NoThread}
    /\ m_holders \in Seq(Threads)
    /\ m_waitingThreads \in Seq(Threads)
    /\ pc \in [Threads -> Steps]
    /\ nextThread \in [Threads -> Threads \cup {NoThread}]
    /\ leaving \subseteq Threads
    /\ registered \in BOOLEAN
    /\ alive \in BOOLEAN

\* A unit taken out of m_value or m_holders and not put back yet.
InFlight ==
    {t \in Threads : pc[t] \in {"acq_ins", "acq_late", "rel_inc", "rel_ins"}}

Units == m_value + Len(m_holders) + Cardinality(InFlight)

\* No unit is lost or made, whatever acquire and release calls overlap: up to
\* wrap-around of m_value, the counter, the holders and the units in the hands
\* of a running call always add up to the value the semaphore was created with.
UnitConservation ==
    alive => \E k \in 0..(Len(m_holders) + Cardinality(InFlight)) :
                 Units = InitialValue + k * W

\* Where a holder, or the unit of a waiting thread, is on its way to the test
\* of the waiting list or to the waiter.
Serving == {"acq_ins", "rel_inc", "rel_pop", "rel_dec", "rel_ins"}

\* A thread executes whatever its registers and its stack happen to hold, or
\* is about to: acquire() has found a unit and will return to the wrong place.
Wild == \E t \in Threads : pc[t] \in {"acq_late", "wild"}

\* No lost wake-up: until a thread has gone wild, while a thread waits somebody
\* holds a unit (and will look at the waiting list on release) or is inside a
\* call that will.  sys_acquireSemaphore drops m_lock between its test of the
\* value and acquire().  A release in between does not leave the caller waiting
\* for ever, but acquire() then finds the unit and its caller goes wild.
NoLostWakeup ==
    alive /\ ~Wild /\ InitialValue > 0 /\ m_waitingThreads # <<>> =>
        m_holders # <<>> \/ \E t \in Threads : pc[t] \in Serving

Handing == {"rel_dec", "rel_ins", "rel_wake"}

WaitPlaces(t) == {i \in 1..Len(m_waitingThreads) : m_waitingThreads[i] = t}

HandedBy(t) == {r \in Threads : pc[r] \in Handing /\ nextThread[r] = t}

\* While the semaphore exists, a thread that acquire() has enqueued is in
\* exactly one place: once in the waiting list or in the hands of exactly one
\* release(); every other thread is in neither.  So no blocked thread is
\* forgotten and none is woken twice.
BlockedOnce ==
    alive => \A t \in Threads :
        Cardinality(WaitPlaces(t)) + Cardinality(HandedBy(t)) =
            IF pc[t] \in {"acq_block", "blocked"} THEN 1 ELSE 0

\* release() never re-adds a thread that has not finished blocking: holding
\* m_lock from the enqueueing to SetBlocked(true) in acquire(), and taking it
\* for m_value-- in release(), orders the two.
WakeAfterBlock ==
    alive => \A r \in Threads :
        pc[r] \in {"rel_ins", "rel_wake"} => pc[nextThread[r]] = "blocked"

\* A thread that acquire() has blocked is woken once, and only once it is
\* blocked.
WokenOnce == BlockedOnce /\ WakeAfterBlock

\* The holders never outnumber the value given to createSemaphore; for a
\* mutex, at most one thread holds it.
MutualExclusion == Len(m_holders) <= InitialValue

\* Every thread in the waiting list is taken off it in the end (unless the
\* kernel has entered undefined behaviour): the list is FIFO and a release
\* that finds it non-empty always pops.
WaiterServed ==
    \A t \in Threads :
        WaitPlaces(t) # {} ~>
            WaitPlaces(t) = {} \/ Wild
=============================================================================
