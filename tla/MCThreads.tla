----------------------------- MODULE MCThreads -----------------------------
(***************************************************************************)
(* Threads: the lists that hold them (ThreadList), the choice of the one   *)
(* that runs (Scheduler) and their registers (UserContext), in one run.    *)
(* The models share no state, so a behaviour exercises the one that "part"  *)
(* names:                                                                  *)
(*   "lists"   two lists of five threads                                   *)
(*   "switch"  two CPUs, threads that are started and that end             *)
(*   "calls"   one CPU, threads that also wait for semaphores              *)
(*   "context" one CPU; one program catches signals, sleeps and waits, the *)
(*             other sends signals, sleeps and exits                       *)
(*   "contexts" two CPUs; one program sleeps and waits, the other signals  *)
(* Every instance of Scheduler has a kernel thread that never blocks or    *)
(* ends and one idle thread for each further CPU, as in kernel.cpp.        *)
(***************************************************************************)
EXTENDS ThreadList, TLC

CONSTANTS
    ThreadK, ThreadK2, ThreadH, ThreadN, ThreadL, ThreadI,
    p1, p2, idle1, idle2, cpu1, cpu2, Own, Garbage

VARIABLES
    part,
    ready_queue, lock, g_total_threads, current, runs, cpu, info, removing, exec,
    saved, tpc, panicked,
    cur, live, gs, ready, asleep, blocked, m_regs, kframe, proc, lost, halted

schedulerVars == <<ready_queue, lock, g_total_threads, current, runs, cpu, info,
                   removing, exec, saved, tpc, panicked>>
contextVars == <<cur, live, gs, ready, asleep, blocked, m_regs, kframe, proc, lost, halted>>

MCLists == {"ready", "other"}

Classes(T) ==
    [t \in T |-> CASE t \in {ThreadK, ThreadK2} -> "kernel"
                   [] t = ThreadH -> "high"
                   [] t = ThreadN -> "normal"
                   [] t = ThreadL -> "low"
                   [] OTHER -> "idle"]

SwitchThreads == {ThreadK, ThreadK2, ThreadN, ThreadL, ThreadI}
CallsThreads == {ThreadK, ThreadH, ThreadN, ThreadL}

Switching == INSTANCE Scheduler WITH
    queue <- ready_queue, Threads <- SwitchThreads, CPUs <- {0, 1},
    ClassOf <- Classes(SwitchThreads), RunLimit <- 2, CountW <- 4,
    Fresh <- {ThreadN, ThreadL}, Blockers <- {}, Enders <- {ThreadK2}

Waiting == INSTANCE Scheduler WITH
    queue <- ready_queue, Threads <- CallsThreads, CPUs <- {0},
    ClassOf <- Classes(CallsThreads), RunLimit <- 4, CountW <- 8,
    Fresh <- {ThreadL}, Blockers <- {ThreadH, ThreadN}, Enders <- {ThreadN, ThreadL}

Context == INSTANCE UserContext WITH
    Threads <- {p1, p2}, Idles <- {idle1}, Processors <- {cpu1}, BSP <- cpu1,
    Signals <- {"SIGSEGV", "SIGINT"},
    Handler <- ("SIGSEGV" :> "segv") @@ ("SIGINT" :> "int"),
    Flow <- ("main" :> "main") @@ ("segv" :> "back") @@ ("back" :> "ret")
            @@ ("int" :> "ret"),
    Entry <- "main", Ret <- "ret",
    Calls <- (p1 :> {"onsignal", "sendsig", "sleep", "other"})
             @@ (p2 :> {"sendsig", "acquire", "exit"})

Contexts == INSTANCE UserContext WITH
    Threads <- {p1, p2}, Idles <- {idle1, idle2}, Processors <- {cpu1, cpu2},
    BSP <- cpu1, Signals <- {"SIGSEGV"}, Handler <- ("SIGSEGV" :> "segv"),
    Flow <- ("main" :> "main") @@ ("segv" :> "ret"), Entry <- "main", Ret <- "ret",
    Calls <- (p1 :> {"sleep", "acquire"}) @@ (p2 :> {"sendsig"})


SchedulerUnused ==
    /\ ready_queue = {} /\ lock = {} /\ g_total_threads = {} /\ current = {} /\ runs = {}
    /\ cpu = {} /\ info = {} /\ removing = {} /\ exec = {} /\ saved = {} /\ tpc = {}
    /\ panicked = {}

ContextUnused ==
    /\ cur = {} /\ live = {} /\ gs = {} /\ ready = {} /\ asleep = {} /\ blocked = {}
    /\ m_regs = {} /\ kframe = {} /\ proc = {} /\ lost = {} /\ halted = {}

PartsInit ==
    /\ Init
    /\ \/ part = "lists" /\ SchedulerUnused /\ ContextUnused
       \/ part = "switch" /\ Switching!Init /\ ContextUnused
       \/ part = "calls" /\ Waiting!Init /\ ContextUnused
       \/ part = "context" /\ Context!Init /\ SchedulerUnused
       \/ part = "contexts" /\ Contexts!Init /\ SchedulerUnused

ListsStep == part = "lists" /\ Next /\ UNCHANGED <<part, schedulerVars, contextVars>>
SwitchStep == part = "switch" /\ Switching!Next /\ UNCHANGED <<part, vars, contextVars>>
CallsStep == part = "calls" /\ Waiting!Next /\ UNCHANGED <<part, vars, contextVars>>
ContextStep == part = "context" /\ Context!Next /\ UNCHANGED <<part, vars, schedulerVars>>
ContextsStep == part = "contexts" /\ Contexts!Next /\ UNCHANGED <<part, vars, schedulerVars>>

PartsNext == ListsStep \/ SwitchStep \/ CallsStep \/ ContextStep \/ ContextsStep

PartsSpec == PartsInit /\ [][PartsNext]_<<part, vars, schedulerVars, contextVars>>

-----------------------------------------------------------------------------
\* The variables of the lists, the scheduler and the contexts keep their types.
PartsTypeOK ==
    /\ TypeOK
    /\ part = "switch" => Switching!TypeOK
    /\ part = "calls" => Waiting!TypeOK
    /\ part = "context" => Context!TypeOK
    /\ part = "contexts" => Contexts!TypeOK

\* Scheduler: a thread that can run is in one ready queue or current on one
\* CPU, and one that is new, blocked or ended is in none.
PlacedOnce ==
    /\ part = "switch" => Switching!PlacedOnce
    /\ part = "calls" => Waiting!PlacedOnce

\* Scheduler: PickNext never leaves its CPU without a thread; and a CPU
\* executes its current thread, which no other executes, as long as no user
\* thread waits for a semaphore or exits.
CPUsServed ==
    /\ part = "switch" => Switching!NextFindsThread /\ Switching!ExecutesCurrent
    /\ part = "calls" => Waiting!NextFindsThread

\* UserContext: a program runs under its own name and on one CPU only.
RunsOnce ==
    /\ part = "context" => Context!RunsOnce
    /\ part = "contexts" => Contexts!RunsOnce

\* UserContext: once every handler of the signals that a program raises itself,
\* by a call or by an exception, has returned, the program is where they
\* interrupted it, with its code and its stack as they were; and until
\* then the return instructions of each active signal are in exactly one place,
\* however the handlers nest.
SignalsUndone ==
    /\ part = "context" => Context!BackWhereInterrupted /\ Context!EachUndone
    /\ part = "contexts" => Contexts!BackWhereInterrupted /\ Contexts!EachUndone
=============================================================================
