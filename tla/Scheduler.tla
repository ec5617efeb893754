----------------------------- MODULE Scheduler -----------------------------
(***************************************************************************)
(* The multi-core scheduler (Scheduling/Scheduler.cpp): the ready queues,  *)
(* the idle list, PickNext with its run counts, and the operations that    *)
(* move threads: the timer tick, blocking, waking, starting and ending.    *)
(*                                                                         *)
(* A CPU either executes a thread or is inside PickNext and Next.  Each    *)
(* section under a lock is one step.  The timer interrupts a thread also   *)
(* in the middle of the system calls that start or wake another thread, so *)
(* there the locks are held across steps.                                  *)
(*                                                                         *)
(* info->current_thread and the thread a CPU really executes are separate: *)
(* the first is a field other CPUs write, the second changes only when     *)
(* registers are loaded.                                                   *)
(*                                                                         *)
(* No thread sleeps and no thread is killed by another one here.           *)
(***************************************************************************)
EXTENDS Integers, Sequences, FiniteSets, FiniteSetsExt

CONSTANTS
    CPUs,           \* ids, in the order of g_processors
    Threads,
    NoThread,       \* the null Thread*
    ClassOf,        \* the queue of each thread: its priority, or "idle"
    RunLimit,       \* 4 in PickNext
    CountW,         \* number of values of a run count (2^8 in the code)
    Fresh,          \* threads not started yet
    Blockers,       \* threads whose program waits for a semaphore
    Enders          \* threads whose program ends

Levels == {"kernel", "high", "normal", "low"}
Classes == Levels \cup {"idle"}
Counted == {"kernel", "high", "normal"}
Locks == Levels \cup {"global"}

ASSUME SchedulerAssumption ==
    /\ CPUs \subseteq Nat /\ IsFiniteSet(CPUs)
    /\ IsFiniteSet(Threads) /\ NoThread \notin Threads
    /\ ClassOf \in [Threads -> Classes]
    /\ CountW \in Nat /\ RunLimit \in 1..(CountW - 1)
    /\ Fresh \cup Blockers \cup Enders \subseteq {t \in Threads : ClassOf[t] # "idle"}

VARIABLES
    queue,          \* g_kernel_threads ... g_low_threads, g_idle_threads
    lock,           \* holders of the locks that are held across steps
    g_total_threads,
    current,        \* info->current_thread of each CPU
    runs,           \* kernel_run_count, high_run_count, normal_run_count
    cpu,            \* where each CPU is: in its thread or in PickNext
    info,           \* the CPU that PickNext, running on a CPU, picks for
    removing,       \* the CPU in RemoveThread: it has g_processors locked
    exec,           \* the thread whose registers and stack a CPU uses
    saved,          \* whose context a thread's CPU_Registers hold
    tpc,            \* where each thread is
    panicked

threadVars == <<queue, lock, g_total_threads>>
cpuVars == <<current, runs, cpu, info, removing, exec, saved>>
vars == <<threadVars, cpuVars, tpc, panicked>>

\* Places of a thread that is ready or running.
Active == {"user", "readd", "sched_push", "sched_count", "sched_done"}

\* The threads of a class that were started, in any order.
Started(k) ==
    LET S == {t \in Threads \ Fresh : ClassOf[t] = k}
    IN  Injection(1..Cardinality(S), S)

\* Start() runs PickNext for every CPU.
Init ==
    /\ queue \in {q \in [Classes -> UNION {Started(k) : k \in Classes}] :
                     \A k \in Classes : q[k] \in Started(k)}
    /\ lock = [k \in Locks |-> NoThread]
    /\ g_total_threads = Cardinality(Threads \ Fresh)
    /\ current = [c \in CPUs |-> NoThread]
    /\ runs = [c \in CPUs |-> [k \in Counted |-> 0]]
    /\ cpu = [c \in CPUs |-> "check"]
    /\ info = [c \in CPUs |-> c]
    /\ removing = {}
    /\ exec = [c \in CPUs |-> NoThread]
    /\ saved = [t \in Threads |-> t]
    /\ tpc = [t \in Threads |-> IF t \in Fresh THEN "new" ELSE "user"]
    /\ panicked = FALSE

Free(k) == lock[k] = NoThread

At(c, step) == cpu[c] = step /\ ~panicked

GoCPU(c, step) == cpu' = [cpu EXCEPT ![c] = step]

\* A CPU that executes a thread which is at the given place.
Runs(c, t, place) == At(c, "thread") /\ exec[c] = t /\ tpc[t] = place

\* A thread making a system call; not followed once the CPU executes another
\* thread than its current one.
Calls(c, t) == Runs(c, t, "user") /\ current[c] = t /\ ClassOf[t] # "idle"

Inc(n) == (n + 1) % CountW

-----------------------------------------------------------------------------
(* PickNext(info) and Next *)

\* Under g_global_lock.
PickCheck(c) ==
    /\ At(c, "check") /\ Free("global")
    /\ IF g_total_threads = 0
       THEN panicked' = TRUE /\ UNCHANGED cpu
       ELSE /\ GoCPU(c, IF current[info[c]] = NoThread THEN "select"
                        ELSE IF g_total_threads = 1 THEN "return" ELSE "push")
            /\ UNCHANGED panicked
    /\ UNCHANGED <<threadVars, current, runs, info, removing, exec, saved, tpc>>

\* The current thread goes to the back of its queue.  current_thread still
\* points to it until another thread is selected.
PickPush(c) ==
    LET t == current[info[c]]
        k == ClassOf[t]
    IN  /\ At(c, "push") /\ (k # "idle" => Free(k))
        /\ queue' = [queue EXCEPT ![k] = Append(@, t)]
        /\ runs' = IF k \in Counted THEN [runs EXCEPT ![info[c]][k] = Inc(@)] ELSE runs
        /\ GoCPU(c, "select")
        /\ UNCHANGED <<lock, g_total_threads, current, info, removing, exec, saved, tpc, panicked>>

\* Fault: strict priorities.
PassStrict(p, k, below) ==
    /\ queue[k] = <<>>
    /\ \E r \in below : queue[r] # <<>>

\* A level is passed over for the ones below it.
Pass(p, k, below) ==
    /\ runs[p][k] >= RunLimit \/ queue[k] = <<>>
    /\ \E r \in below : queue[r] # <<>>

\* The level PickNext takes a thread from, or "idle".
Selected(p) ==
    IF Pass(p, "kernel", {"high", "normal", "low"})
    THEN IF Pass(p, "high", {"normal", "low"})
         THEN IF Pass(p, "normal", {"low"}) THEN "low" ELSE "normal"
         ELSE "high"
    ELSE IF queue["kernel"] # <<>> THEN "kernel" ELSE "idle"

\* The run counts that a pick from level k resets.
Reset(k) == CASE k = "low" -> Counted
              [] k = "normal" -> {"kernel", "high"}
              [] k = "high" -> {"kernel"}
              [] OTHER -> {}

\* Fault: the thread selected stays in its queue.
PickSelectPeek(c) ==
    LET k == Selected(info[c])
    IN  /\ At(c, "select") /\ \A r \in Levels : Free(r)
        /\ IF k = "idle"
           THEN GoCPU(c, "idle") /\ UNCHANGED current
           ELSE /\ current' = [current EXCEPT ![info[c]] = Head(queue[k])]
                /\ GoCPU(c, "return")
        /\ runs' = [runs EXCEPT ![info[c]] = [r \in Counted |->
                       IF r \in Reset(k) THEN 0 ELSE @[r]]]
        /\ UNCHANGED <<threadVars, info, removing, exec, saved, tpc, panicked>>

\* Under the locks of all four ready queues.
PickSelect(c) ==
    LET k == Selected(info[c])
    IN  /\ At(c, "select") /\ \A r \in Levels : Free(r)
        /\ IF k = "idle"
           THEN GoCPU(c, "idle") /\ UNCHANGED <<queue, current>>
           ELSE /\ current' = [current EXCEPT ![info[c]] = Head(queue[k])]
                /\ queue' = [queue EXCEPT ![k] = Tail(@)]
                /\ GoCPU(c, "return")
        /\ runs' = [runs EXCEPT ![info[c]] = [r \in Counted |->
                       IF r \in Reset(k) THEN 0 ELSE @[r]]]
        /\ UNCHANGED <<lock, g_total_threads, info, removing, exec, saved, tpc, panicked>>

\* Under the idle list's lock, with no other lock held.
PickIdle(c) ==
    /\ At(c, "idle")
    /\ IF queue["idle"] # <<>>
       THEN /\ current' = [current EXCEPT ![info[c]] = Head(queue["idle"])]
            /\ queue' = [queue EXCEPT !["idle"] = Tail(@)]
       ELSE current' = [current EXCEPT ![info[c]] = NoThread] /\ UNCHANGED queue
    /\ GoCPU(c, "return")
    /\ UNCHANGED <<lock, g_total_threads, runs, info, removing, exec, saved, tpc, panicked>>

\* Next: load the registers of the current thread.
Switch(c) ==
    /\ At(c, "return") /\ c \notin removing
    /\ IF current[c] = NoThread
       THEN panicked' = TRUE /\ UNCHANGED <<cpu, exec>>
       ELSE /\ GoCPU(c, "thread")
            /\ exec' = [exec EXCEPT ![c] = saved[current[c]]]
            /\ UNCHANGED panicked
    /\ UNCHANGED <<threadVars, current, runs, info, removing, saved, tpc>>

-----------------------------------------------------------------------------
(* The callers of PickNext *)

\* The tick that ends a scheduler cycle: registers are saved into the current
\* thread.
TimerTick(c) ==
    /\ At(c, "thread")
    /\ IF current[c] = NoThread
       THEN panicked' = TRUE /\ UNCHANGED <<cpu, info, saved>>
       ELSE /\ saved' = [saved EXCEPT ![current[c]] = exec[c]]
            /\ info' = [info EXCEPT ![c] = c]
            /\ GoCPU(c, "check")
            /\ UNCHANGED panicked
    /\ UNCHANGED <<threadVars, current, runs, removing, exec, tpc>>

\* Fault: current_thread is not cleared before the pick.
RemoveThreadKeep(c, t) ==
    /\ Free(ClassOf[t]) /\ removing = {} /\ Free("global")
    /\ removing' = {c}
    /\ g_total_threads' = g_total_threads - 1
    /\ info' = [info EXCEPT ![c] = c]
    /\ GoCPU(c, "check")
    /\ UNCHANGED <<queue, lock, current, runs, exec, panicked>>

\* RemoveThread of the caller, which is in no queue: the first CPU whose
\* current thread it is loses it, and the caller picks for that CPU with the
\* lock of g_processors held.
RemoveThread(c, t) ==
    LET p == Min({q \in CPUs : current[q] = t})
    IN  /\ Free(ClassOf[t]) /\ removing = {} /\ Free("global")
        /\ removing' = {c}
        /\ g_total_threads' = g_total_threads - 1
        /\ current' = [current EXCEPT ![p] = NoThread]
        /\ info' = [info EXCEPT ![c] = p]
        /\ GoCPU(c, "check")
        /\ UNCHANGED <<queue, lock, runs, exec, panicked>>

\* Semaphore::acquire with interrupts disabled; the registers were saved.
Block(c, t) ==
    /\ t \in Blockers /\ Calls(c, t)
    /\ RemoveThread(c, t)
    /\ saved' = [saved EXCEPT ![t] = t]
    /\ tpc' = [tpc EXCEPT ![t] = "blocking"]

\* sys_exit of the caller.  Until Resume, ticks are ignored on this CPU.
Exit(c, t) ==
    /\ t \in Enders /\ ClassOf[t] # "kernel" /\ Calls(c, t)
    /\ RemoveThread(c, t)
    /\ tpc' = [tpc EXCEPT ![t] = "exiting"]
    /\ UNCHANGED saved

\* RemoveThread returns.  acquire marks the thread as blocked, drops m_lock
\* and picks again; do_exit goes on to Resume, which picks again only when
\* there is no current thread.
RemoveReturn(c) ==
    LET t == exec[c]
        blocks == tpc[t] = "blocking"
    IN  /\ At(c, "return") /\ c \in removing
        /\ removing' = {}
        /\ tpc' = [tpc EXCEPT ![t] = IF blocks THEN "blocked" ELSE "resuming"]
        /\ GoCPU(c, IF blocks \/ current[c] = NoThread THEN "check" ELSE "thread")
        /\ info' = [info EXCEPT ![c] = c]
        /\ UNCHANGED <<threadVars, current, runs, exec, saved, panicked>>

\* The Next of Resume; ticks are handled again and interrupts are enabled.
Resume(c, t) ==
    /\ Runs(c, t, "resuming")
    /\ GoCPU(c, "return")
    /\ UNCHANGED <<threadVars, current, runs, info, removing, exec, saved, tpc, panicked>>

\* End: a kernel thread's function returns; interrupts disabled.
End(c, t) ==
    /\ t \in Enders /\ ClassOf[t] = "kernel" /\ Calls(c, t)
    /\ current' = [current EXCEPT ![c] = NoThread]
    /\ info' = [info EXCEPT ![c] = c]
    /\ GoCPU(c, "check")
    /\ tpc' = [tpc EXCEPT ![t] = "ended"]
    /\ UNCHANGED <<threadVars, runs, removing, exec, saved, panicked>>

-----------------------------------------------------------------------------
(* System calls that make another thread ready, interrupts enabled *)

\* Up to the push onto the ready queue, whose lock is held.
MakeReady(c, t, u, place) ==
    /\ Calls(c, t) /\ Free(ClassOf[u])
    /\ lock' = [lock EXCEPT ![ClassOf[u]] = t]
    /\ queue' = [queue EXCEPT ![ClassOf[u]] = Append(@, u)]
    /\ tpc' = [tpc EXCEPT ![t] = place, ![u] = "user"]
    /\ UNCHANGED <<g_total_threads, cpuVars, panicked>>

\* release() calls it for a blocked thread.
ReaddThread(c, t, u) == tpc[u] = "blocked" /\ MakeReady(c, t, u, "readd")

ScheduleThread(c, t, u) == tpc[u] = "new" /\ MakeReady(c, t, u, "sched_push")

ScheduleCount(c, t) ==
    /\ Runs(c, t, "sched_count") /\ Free("global")
    /\ lock' = [lock EXCEPT !["global"] = t]
    /\ g_total_threads' = g_total_threads + 1
    /\ tpc' = [tpc EXCEPT ![t] = "sched_done"]
    /\ UNCHANGED <<queue, cpuVars, panicked>>

\* The end of a section that can be interrupted.
Unlock(c, t) ==
    /\ \E place \in {"readd", "sched_push", "sched_done"} :
          /\ Runs(c, t, place)
          /\ tpc' = [tpc EXCEPT ![t] =
                        IF place = "sched_push" THEN "sched_count" ELSE "user"]
    /\ lock' = [k \in Locks |-> IF lock[k] = t THEN NoThread ELSE lock[k]]
    /\ UNCHANGED <<queue, g_total_threads, cpuVars, panicked>>

-----------------------------------------------------------------------------
\* The steps a CPU takes with ticks disabled or ignored.
PickNext(c) ==
    \/ PickCheck(c) \/ PickPush(c) \/ PickSelect(c) \/ PickIdle(c)
    \/ RemoveReturn(c) \/ Switch(c)

SystemCall(c) ==
    \E t \in Threads :
        \/ Block(c, t) \/ Exit(c, t) \/ Resume(c, t) \/ End(c, t)
        \/ ScheduleCount(c, t) \/ Unlock(c, t)
        \/ \E u \in Threads : ReaddThread(c, t, u) \/ ScheduleThread(c, t, u)

Next == \E c \in CPUs : PickNext(c) \/ TimerTick(c) \/ SystemCall(c)

Spec == Init /\ [][Next]_vars

\* Every CPU goes on executing, and its timer goes on ticking.
FairSpec == Spec /\ \A c \in CPUs : WF_vars(PickNext(c)) /\ WF_vars(TimerTick(c))

-----------------------------------------------------------------------------
\* Type correctness; the run counts stay within their 8 bits.
TypeOK ==
    /\ queue \in [Classes -> Seq(Threads)]
    /\ lock \in [Locks -> Threads \cup {NoThread}]
    /\ g_total_threads \in 0..Cardinality(Threads)
    /\ current \in [CPUs -> Threads \cup {NoThread}]
    /\ runs \in [CPUs -> [Counted -> 0..(CountW - 1)]]
    /\ cpu \in [CPUs -> {"thread", "check", "push", "select", "idle", "return"}]
    /\ info \in [CPUs -> CPUs] /\ removing \subseteq CPUs
    /\ exec \in [CPUs -> Threads \cup {NoThread}]
    /\ saved \in [Threads -> Threads]
    /\ tpc \in [Threads -> Active \cup {"new", "blocking", "blocked",
                                        "exiting", "resuming", "ended"}]
    /\ panicked \in BOOLEAN

\* The current thread of CPU p counts as p's unless PickNext has already put
\* it back into a queue.
Owns(p, t) ==
    /\ current[p] = t
    /\ \A c \in CPUs : info[c] = p => cpu[c] \notin {"select", "idle"}

\* The places of a thread in the queues.
Queued(t) ==
    {at \in UNION {{k} \X DOMAIN queue[k] : k \in Classes} : queue[at[1]][at[2]] = t}

\* The number of places a thread can be scheduled from.
Places(t) == Cardinality({p \in CPUs : Owns(p, t)}) + Cardinality(Queued(t))

\* A thread that can run is in exactly one ready queue or current on exactly
\* one CPU, and one that is new, blocked or ended is in none: PickNext on two
\* CPUs, waking, starting and ending neither lose nor duplicate a thread.
PlacedOnce == \A t \in Threads : Places(t) = IF tpc[t] \in Active THEN 1 ELSE 0

\* Next never finds that PickNext left its CPU without a thread: one kernel
\* thread that never blocks and an idle thread for every other CPU suffice,
\* although PickNext drops all locks before it turns to the idle list.
NextFindsThread == \A c \in CPUs : cpu[c] = "return" => current[info[c]] # NoThread

\* A CPU outside the scheduler executes its current thread, and no thread is
\* executed by two CPUs.
ExecutesCurrent ==
    /\ \A c \in CPUs : cpu[c] = "thread" => exec[c] = current[c]
    /\ \A c, d \in CPUs : cpu[c] = "thread" /\ cpu[d] = "thread" /\ c # d
                             => exec[c] # exec[d]

\* Every CPU that leaves PickNext has a thread, and executes that one alone.
CPUsServed == NextFindsThread /\ ExecutesCurrent

\* Every ready thread gets a CPU, of whatever priority: the run counts make
\* PickNext pass over the higher levels in time.
NoStarvation ==
    \A t \in Threads : ClassOf[t] # "idle" =>
        (tpc[t] = "user" ~> \E c \in CPUs : cpu[c] = "thread" /\ exec[c] = t)

\* The PANIC of PickNext and Next says that all threads have ended.
PanicMeansAllEnded ==
    panicked => \A t \in Threads : tpc[t] \notin Active \cup {"blocked"}

\* A blocked thread is not scheduled: no CPU and no ready queue has it.
BlockedIsOut == \A t \in Threads : tpc[t] = "blocked" => Places(t) = 0

\* The locks that PickNext takes next on a CPU.
Awaits(c) == CASE cpu[c] = "check" -> {"global"}
               [] cpu[c] = "push" -> {ClassOf[current[info[c]]]} \ {"idle"}
               [] cpu[c] = "select" -> Levels
               [] OTHER -> {}

\* PickNext never waits for a lock that the thread it interrupted holds: the
\* thread cannot go on to release it, and the CPU would spin for ever.
NoSelfDeadlock ==
    \A c \in CPUs : exec[c] # NoThread => \A k \in Awaits(c) : lock[k] # exec[c]
=============================================================================
