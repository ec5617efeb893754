----------------------------- MODULE Shootdown -----------------------------
(***************************************************************************)
(* TLB shootdowns by inter-processor interrupts (Memory/PageTable.cpp,     *)
(* PageMapIndexer.cpp, interrupts/APIC/IPI.cpp).  A CPU changes a page     *)
(* table entry, puts an IPI on the list of every CPU, sends an NMI to all, *)
(* itself included, and waits until every IPI is marked as done.           *)
(*                                                                         *)
(* Each thread changes a page of its own; the page is named by its thread, *)
(* and so is the IPI it has in flight to a CPU.  An NMI interrupts a       *)
(* thread anywhere and is held back while an NMI is being handled; a timer *)
(* tick may move the thread to another CPU at any step.                    *)
(***************************************************************************)
EXTENDS Integers, Sequences, FiniteSets

CONSTANTS
    CPUs,           \* ids, in the order of g_processors
    Senders,        \* threads that change page tables
    Followed,       \* the senders whose pages are followed into the TLBs
    NoCPU, NoThread

ASSUME ShootdownAssumption ==
    /\ CPUs \subseteq Nat /\ IsFiniteSet(CPUs) /\ NoCPU \notin CPUs
    /\ NoThread \notin Senders /\ Followed \subseteq Senders

VARIABLES
    mapped,         \* the pages that are mapped
    tlb,            \* the pages each CPU has a translation of
    on,             \* the CPU a thread executes on, or NoCPU
    pc,             \* where each thread is in IssueIPI
    left,           \* the CPUs whose lists the thread has still to extend
    done,           \* the CPUs that have marked the thread's IPI as done
    procsLock,      \* holder of the lock of g_processors
    list,           \* the IPI list of each CPU
    listLock,       \* the thread that holds a list's lock
    pending,        \* the CPUs with an NMI latched
    handler         \* where each CPU's NMI handler is

senderVars == <<pc, left, done, procsLock>>
vars == <<mapped, tlb, on, senderVars, list, listLock, pending, handler>>

Init ==
    /\ mapped = Senders
    /\ tlb = [c \in CPUs |-> {}]
    /\ on = [t \in Senders |-> NoCPU]
    /\ pc = [t \in Senders |-> "run"]
    /\ left = [t \in Senders |-> {}]
    /\ done = [t \in Senders |-> {}]
    /\ procsLock = NoThread
    /\ list = [c \in CPUs |-> <<>>]
    /\ listLock = [c \in CPUs |-> NoThread]
    /\ pending = {}
    /\ handler = [c \in CPUs |-> "none"]

\* Thread t executes: it has a CPU, and no NMI is being handled there.
Thread(t, step) == pc[t] = step /\ on[t] # NoCPU /\ handler[on[t]] = "none"

\* A list's lock is free; the handler holds the one of its CPU as it drains it.
Unlocked(c) == listLock[c] = NoThread /\ handler[c] # "drain"

Goto(t, step) == pc' = [pc EXCEPT ![t] = step]

\* The processor whose list EnumerateProcessors has come to.
Target(t) == CHOOSE d \in left[t] : \A e \in left[t] : d <= e

-----------------------------------------------------------------------------
(* The hardware *)

\* A memory access fills the TLB from the page table.
Fill(c, p) ==
    /\ p \in mapped \ tlb[c]
    /\ tlb' = [tlb EXCEPT ![c] = @ \cup {p}]
    /\ UNCHANGED <<mapped, on, senderVars, list, listLock, pending, handler>>

\* A timer tick takes the thread off its CPU, or puts it on a CPU.
Preempt(t) ==
    /\ on[t] # NoCPU /\ handler[on[t]] = "none"
    /\ on' = [on EXCEPT ![t] = NoCPU]
    /\ UNCHANGED <<mapped, tlb, senderVars, list, listLock, pending, handler>>

Dispatch(t) ==
    /\ on[t] = NoCPU
    /\ \E c \in CPUs :
          /\ handler[c] = "none" /\ \A u \in Senders : on[u] # c
          /\ on' = [on EXCEPT ![t] = c]
    /\ UNCHANGED <<mapped, tlb, senderVars, list, listLock, pending, handler>>

TakeNMI(c) ==
    /\ c \in pending /\ handler[c] = "none"
    /\ pending' = pending \ {c}
    /\ handler' = [handler EXCEPT ![c] = "lock"]
    /\ UNCHANGED <<mapped, on, tlb, senderVars, list, listLock>>

-----------------------------------------------------------------------------
(* The sender *)

\* MapPage, UnmapPage: change the entry, then start the shootdown.
ChangePage(t) ==
    /\ Thread(t, "run")
    /\ mapped' = IF t \in mapped THEN mapped \ {t} ELSE mapped \cup {t}
    /\ done' = [done EXCEPT ![t] = {}]
    /\ Goto(t, "enumerate")
    /\ UNCHANGED <<tlb, on, left, procsLock, list, listLock, pending, handler>>

\* EnumerateProcessors takes the lock of g_processors.  (GetProcessorCount
\* takes and releases it before; the number of processors does not change.)
Enumerate(t) ==
    /\ Thread(t, "enumerate") /\ procsLock = NoThread
    /\ procsLock' = t
    /\ left' = [left EXCEPT ![t] = CPUs]
    /\ Goto(t, "push")
    /\ UNCHANGED <<mapped, on, tlb, done, list, listLock, pending, handler>>

\* Lock, PushBack for the next processor.
Push(t) ==
    LET d == Target(t)
    IN  /\ Thread(t, "push") /\ left[t] # {} /\ Unlocked(d)
        /\ listLock' = [listLock EXCEPT ![d] = t]
        /\ list' = [list EXCEPT ![d] = Append(@, t)]
        /\ Goto(t, "unlock")
        /\ UNCHANGED <<mapped, on, tlb, left, done, procsLock, pending, handler>>

PushUnlock(t) ==
    /\ Thread(t, "unlock")
    /\ listLock' = [listLock EXCEPT ![Target(t)] = NoThread]
    /\ left' = [left EXCEPT ![t] = @ \ {Target(t)}]
    /\ Goto(t, "push")
    /\ UNCHANGED <<mapped, on, tlb, done, procsLock, list, pending, handler>>

EnumerateEnd(t) ==
    /\ Thread(t, "push") /\ left[t] = {}
    /\ procsLock' = NoThread
    /\ Goto(t, "send")
    /\ UNCHANGED <<mapped, on, tlb, left, done, list, listLock, pending, handler>>

\* x86_64_SendIPI: an NMI to all CPUs, the sender included.
Send(t) ==
    /\ Thread(t, "send")
    /\ pending' = CPUs
    /\ Goto(t, "wait")
    /\ UNCHANGED <<mapped, on, tlb, left, done, procsLock, list, listLock, handler>>

\* Every IPI is done and deleted; the shootdown returns.
Wait(t) ==
    /\ Thread(t, "wait") /\ done[t] = CPUs
    /\ Goto(t, "run")
    /\ UNCHANGED <<mapped, on, tlb, left, done, procsLock, list, listLock, pending, handler>>

-----------------------------------------------------------------------------
(* The NMI handler *)

HandlerLock(c) ==
    /\ handler[c] = "lock" /\ Unlocked(c)
    /\ handler' = [handler EXCEPT ![c] = "drain"]
    /\ UNCHANGED <<mapped, on, tlb, senderVars, list, listLock, pending>>

\* Fault: one IPI for each NMI.
HandleOne(c) ==
    /\ handler[c] = "drain" /\ list[c] # <<>>
    /\ tlb' = [tlb EXCEPT ![c] = @ \ {Head(list[c])}]
    /\ done' = [done EXCEPT ![Head(list[c])] = @ \cup {c}]
    /\ list' = [list EXCEPT ![c] = Tail(@)]
    /\ handler' = [handler EXCEPT ![c] = "none"]
    /\ UNCHANGED <<mapped, on, pc, left, procsLock, listLock, pending>>

\* Fault: the loop over the pages to invalidate does nothing.
HandleKept(c) ==
    /\ handler[c] = "drain" /\ list[c] # <<>>
    /\ done' = [done EXCEPT ![Head(list[c])] = @ \cup {c}]
    /\ list' = [list EXCEPT ![c] = Tail(@)]
    /\ UNCHANGED <<mapped, on, tlb, pc, left, procsLock, listLock, pending, handler>>

\* Fault: the IPI is handled and not marked as done.
HandleUnmarked(c) ==
    /\ handler[c] = "drain" /\ list[c] # <<>>
    /\ tlb' = [tlb EXCEPT ![c] = @ \ {Head(list[c])}]
    /\ list' = [list EXCEPT ![c] = Tail(@)]
    /\ UNCHANGED <<mapped, on, senderVars, listLock, pending, handler>>

\* PopFront, invalidate, mark as done.
Handle(c) ==
    /\ handler[c] = "drain" /\ list[c] # <<>>
    /\ tlb' = [tlb EXCEPT ![c] = @ \ {Head(list[c])}]
    /\ done' = [done EXCEPT ![Head(list[c])] = @ \cup {c}]
    /\ list' = [list EXCEPT ![c] = Tail(@)]
    /\ UNCHANGED <<mapped, on, pc, left, procsLock, listLock, pending, handler>>

HandlerReturn(c) ==
    /\ handler[c] = "drain" /\ list[c] = <<>>
    /\ handler' = [handler EXCEPT ![c] = "none"]
    /\ UNCHANGED <<mapped, on, tlb, senderVars, list, listLock, pending>>

-----------------------------------------------------------------------------
\* The steps of a sender that wait for no spinlock.
Proceed(t) == PushUnlock(t) \/ EnumerateEnd(t) \/ Send(t) \/ Wait(t)

IPIHandler(c) == TakeNMI(c) \/ HandlerLock(c) \/ Handle(c) \/ HandlerReturn(c)

Next ==
    \/ \E t \in Senders :
          \/ ChangePage(t) \/ Enumerate(t) \/ Push(t) \/ Proceed(t)
          \/ Preempt(t) \/ Dispatch(t)
    \/ \E c \in CPUs : IPIHandler(c) \/ \E p \in Followed : Fill(c, p)

Spec == Init /\ [][Next]_vars

\* A CPU takes its NMIs and executes their handler.  The scheduler gives a
\* thread a CPU again and again, and neither ticks nor NMIs keep it from
\* executing for ever.  Nothing is assumed of which contender gets a spinlock.
FairSpec ==
    /\ Spec
    /\ \A c \in CPUs : WF_vars(IPIHandler(c))
    /\ \A t \in Senders : SF_vars(Dispatch(t)) /\ SF_vars(Proceed(t))

-----------------------------------------------------------------------------
(* Properties *)

\* Type correctness.
TypeOK ==
    /\ mapped \subseteq Senders
    /\ tlb \in [CPUs -> SUBSET Senders]
    /\ on \in [Senders -> CPUs \cup {NoCPU}]
    /\ pc \in [Senders -> {"run", "enumerate", "push", "unlock", "send", "wait"}]
    /\ left \in [Senders -> SUBSET CPUs]
    /\ done \in [Senders -> SUBSET CPUs]
    /\ procsLock \in Senders \cup {NoThread}
    /\ list \in [CPUs -> Seq(Senders)]
    /\ listLock \in [CPUs -> Senders \cup {NoThread}]
    /\ pending \subseteq CPUs
    /\ handler \in [CPUs -> {"none", "lock", "drain"}]

\* When UnmapPage has returned, no CPU has a translation of the page.
NoStaleTranslation ==
    \A p \in Followed : pc[p] = "run" /\ p \notin mapped =>
        \A c \in CPUs : p \notin tlb[c]

\* An IPI whose NMI has been sent is not forgotten: as long as it is on a
\* CPU's list, that CPU has an NMI pending or is on its way to drain the list,
\* although NMIs of several senders are merged into one.  And an IPI is on a
\* list only while its sender waits for it: none is deleted before it is done.
IPIServed ==
    \A c \in CPUs : \A i \in 1..Len(list[c]) :
        LET s == list[c][i]
        IN  /\ pc[s] \in {"push", "unlock", "send", "wait"} /\ c \notin done[s]
            /\ pc[s] = "wait" => c \in pending \/ handler[c] # "none"

\* The handler of a CPU spins on a lock that a thread holds which does not
\* execute: the NMI interrupted it, or a tick took its CPU.
HandlerSpins ==
    \E c \in CPUs :
        /\ handler[c] = "lock" /\ listLock[c] # NoThread
        /\ on[listLock[c]] \in {c, NoCPU}

\* A shootdown that has sent its NMIs returns, whatever the other CPUs do,
\* unless a handler comes to spin on a lock whose holder does not execute:
\* that is the only way for the wait loop of x86_64_IssueIPI not to end.
ShootdownReturns ==
    \A t \in Senders : pc[t] = "wait" ~> pc[t] = "run" \/ HandlerSpins
=============================================================================
