-------------------------- MODULE ProcessorStart --------------------------
(***************************************************************************)
(* How the boot processor brings up the others.  For every application     *)
(* processor in turn x86_64_LocalAPIC::StartCPU maps page 0, copies the     *)
(* trampoline there, sends INIT and start-up interrupts, waits until the    *)
(* trampoline has counted itself in aps_running, leaves the arguments in    *)
(* the last words of the page and clears the start lock.  The processor     *)
(* then initialises itself (unmapping page 0), enters g_processors and      *)
(* waits for Scheduler::Start, and after that for its timer lock.           *)
(*                                                                          *)
(* All of this happens before HAL_TimeInit, while GetTimer answers 0.       *)
(***************************************************************************)
EXTENDS Integers, Sequences, SequencesExt

CONSTANTS N         \* application processors, 1 .. N in MADT order

APs == 1 .. N

VARIABLES
    page0,          \* [mapped, lock, arg, stack]: page 0 and its last words
    aps_running,
    bsp,            \* [pc, ap, old, attempt, threads]: the boot processor
    ap,             \* [APs -> [pc, arg, stack, id]]: the application processors
    m_timerLock,    \* [APs -> 0..1], in the processor's LocalAPIC object
    g_processors,   \* the list, without the boot processor that is always first
    start_allowed,  \* those Start has let go
    current_thread, \* those Start found a thread for
    g_timerRunning,
    allowed,        \* ghost: in the list when InitProcessorTimers walked it
    hurried         \* ghost: a start began before the one before it was finished

vars == <<page0, aps_running, bsp, ap, m_timerLock, g_processors, start_allowed,
          current_thread, g_timerRunning, allowed, hurried>>

lists == <<g_processors, start_allowed, current_thread, g_timerRunning, allowed>>

\* What memcpy leaves in the words that hold no argument yet: assembler padding,
\* which is no address of anything and, as a start lock, is not 0.
Padding == 0

\* time.cpp: no time passes for the kernel before its timer runs.
GetTimer(elapsed) == IF g_timerRunning THEN elapsed ELSE 0
---------------------------------------------------------------------------
Init ==
    /\ page0 = [mapped |-> FALSE, lock |-> 1, arg |-> Padding, stack |-> Padding]
    /\ aps_running = 0
    /\ bsp = [pc |-> IF N = 0 THEN "time" ELSE "map", ap |-> 1, old |-> 0,
              attempt |-> 0, threads |-> 1]
    /\ ap = [p \in APs |-> [pc |-> "off", arg |-> Padding, stack |-> Padding, id |-> 0]]
    /\ m_timerLock = [p \in APs |-> 0]
    /\ g_processors = <<>> /\ start_allowed = {} /\ current_thread = {}
    /\ g_timerRunning = FALSE /\ allowed = {} /\ hurried = FALSE

InKernel == {"init", "id", "insert", "hold", "timer", "run", "panic"}

\* LocalAPIC::Init is behind it: the processor will not touch page 0 again.
Finished(p) == ap[p].pc \in InKernel \ {"init"}

Map == /\ bsp.pc = "map"
       /\ page0' = [page0 EXCEPT !.mapped = TRUE]
       /\ bsp' = [bsp EXCEPT !.pc = "copy"]
       /\ hurried' = (hurried \/ \E p \in 1 .. (bsp.ap - 1) : ~Finished(p))
       /\ UNCHANGED <<aps_running, ap, m_timerLock, lists>>

\* The boot processor writes to page 0; if a processor it started has unmapped
\* the page in the meantime it takes a page fault, which is a panic.
OnPage0(written, next) ==
    /\ page0' = IF page0.mapped THEN written ELSE page0
    /\ bsp' = IF page0.mapped THEN next ELSE [bsp EXCEPT !.pc = "panic"]

Held(locks, k) == [locks EXCEPT ![k] = 1]

Copy == /\ bsp.pc = "copy"
        /\ OnPage0([page0 EXCEPT !.lock = 1, !.arg = Padding, !.stack = Padding],
                   [bsp EXCEPT !.pc = "sipi", !.attempt = 0])
        /\ m_timerLock' = IF page0.mapped THEN Held(m_timerLock, bsp.ap) ELSE m_timerLock
        /\ UNCHANGED <<aps_running, ap, lists, hurried>>

\* INIT and a start-up interrupt.  A processor that is already running its
\* trampoline ignores the second one.
SendStartUp ==
    /\ bsp.pc = "sipi"
    /\ bsp' = [bsp EXCEPT !.pc = "await", !.old = IF bsp.attempt = 0 THEN aps_running ELSE @]
    /\ ap' = IF ap[bsp.ap].pc = "off" THEN [ap EXCEPT ![bsp.ap].pc = "boot"] ELSE ap
    /\ UNCHANGED <<page0, aps_running, m_timerLock, lists, hurried>>

Came == aps_running # bsp.old

\* The loop that waits for the processor, and what follows it.
Await ==
    /\ bsp.pc = "await"
    /\ Came \/ GetTimer(1000) >= (IF bsp.attempt = 0 THEN 1 ELSE 1000)
    /\ bsp' = IF Came THEN [bsp EXCEPT !.pc = "argument"]
              ELSE IF bsp.attempt = 0 THEN [bsp EXCEPT !.pc = "sipi", !.attempt = 1]
              ELSE [bsp EXCEPT !.pc = "panic"]
    /\ UNCHANGED <<page0, aps_running, ap, m_timerLock, lists, hurried>>

\* new Processor, its entry function and itself as the argument.
Given(page) == [page EXCEPT !.arg = bsp.ap]

GiveArgument ==
    /\ bsp.pc = "argument"
    /\ OnPage0(Given(page0), [bsp EXCEPT !.pc = "stack"])
    /\ UNCHANGED <<aps_running, ap, m_timerLock, lists, hurried>>
GiveStack ==
    /\ bsp.pc = "stack"
    /\ OnPage0([page0 EXCEPT !.stack = bsp.ap], [bsp EXCEPT !.pc = "release"])
    /\ UNCHANGED <<aps_running, ap, m_timerLock, lists, hurried>>

\* start_lock = 0, and EnumerateMADTEntries goes on to the next processor.
Release ==
    /\ bsp.pc = "release"
    /\ OnPage0([page0 EXCEPT !.lock = 0],
               IF bsp.ap < N THEN [bsp EXCEPT !.pc = "map", !.ap = @ + 1]
                             ELSE [bsp EXCEPT !.pc = "time"])
    /\ UNCHANGED <<aps_running, ap, m_timerLock, lists, hurried>>

\* HAL_TimeInit, then the boot processor's own timer (its lock is free).
TimeInit == /\ bsp.pc = "time"
            /\ g_timerRunning' = TRUE
            /\ bsp' = [bsp EXCEPT !.pc = "allow"]
            /\ UNCHANGED <<page0, aps_running, ap, m_timerLock, g_processors, start_allowed,
                           current_thread, allowed, hurried>>

\* Fault: no lock is opened.
InitProcessorTimersNone(locks) == locks
InitProcessorTimers(locks) ==
    [k \in APs |-> IF \E p \in Range(g_processors) : ap[p].arg = k THEN 0 ELSE locks[k]]

AllowTimers == /\ bsp.pc = "allow"
               /\ m_timerLock' = InitProcessorTimers(m_timerLock)
               /\ allowed' = Range(g_processors)
               /\ bsp' = [bsp EXCEPT !.pc = "idle"]
               /\ UNCHANGED <<page0, aps_running, ap, g_processors, start_allowed,
                              current_thread, g_timerRunning, hurried>>

Wanted == Len(g_processors) + 1

\* StartKernel adds idle threads while there are fewer than processors; the
\* count is read again before each one.
AddIdleThread == /\ bsp.pc = "idle"
                 /\ bsp' = IF bsp.threads < Wanted
                           THEN [bsp EXCEPT !.threads = @ + 1]
                           ELSE [bsp EXCEPT !.pc = "start"]
                 /\ UNCHANGED <<page0, aps_running, ap, m_timerLock, lists, hurried>>

\* Scheduler::Start: the boot processor is first in the list and takes the
\* kernel thread, the others take what PickNext finds, in list order.
Start == /\ bsp.pc = "start"
         /\ current_thread' = {g_processors[i] : i \in
                                 {j \in 1 .. Len(g_processors) : j < bsp.threads}}
         /\ start_allowed' = Range(g_processors)
         /\ bsp' = [bsp EXCEPT !.pc = "run"]
         /\ UNCHANGED <<page0, aps_running, ap, m_timerLock, g_processors, g_timerRunning,
                        allowed, hurried>>
---------------------------------------------------------------------------
Goes(p, pc) == ap' = [ap EXCEPT ![p].pc = pc]

\* Real and protected mode use physical addresses; from long mode on the page
\* must be mapped.  A processor whose extensions are missing stays in lmode_fail.
Trampoline(p) == /\ ap[p].pc = "boot"
                 /\ \/ /\ aps_running' = aps_running + 1
                       /\ Goes(p, "spin")
                    \/ /\ aps_running' = aps_running
                       /\ Goes(p, IF page0.mapped THEN "fail" ELSE "fault")
                 /\ UNCHANGED <<page0, bsp, m_timerLock, lists, hurried>>

\* The words at the end of page 0, if the page is there (a translation the
\* processor still holds serves as well as a mapped page).
SpinDone(p) == /\ ap[p].pc = "spin"
               /\ \/ page0.lock = 0 /\ Goes(p, "argument")
                  \/ ~page0.mapped /\ Goes(p, "fault")
               /\ UNCHANGED <<page0, aps_running, bsp, m_timerLock, lists, hurried>>

TakeArgument(p) ==
    /\ ap[p].pc = "argument"
    /\ \/ ap' = [ap EXCEPT ![p].arg = page0.arg, ![p].pc = "stack"]
       \/ ~page0.mapped /\ Goes(p, "fault")
    /\ UNCHANGED <<page0, aps_running, bsp, m_timerLock, lists, hurried>>

\* mov [rdi+rcx], rsp and the call: padding is an address of nothing.
TakeStack(p) ==
    /\ ap[p].pc = "stack"
    /\ \/ ap' = [ap EXCEPT ![p].stack = page0.stack,
                           ![p].pc = IF Padding \in {ap[p].arg, page0.stack}
                                     THEN "fault" ELSE "init"]
       \/ ~page0.mapped /\ Goes(p, "fault")
    /\ UNCHANGED <<page0, aps_running, bsp, m_timerLock, lists, hurried>>

\* Processor::Init and LocalAPIC::Init: the first page is unmapped.
InitLocalAPIC(p) == /\ ap[p].pc = "init"
                    /\ page0' = [page0 EXCEPT !.mapped = FALSE]
                    /\ Goes(p, "id")
                    /\ UNCHANGED <<aps_running, bsp, m_timerLock, lists, hurried>>

\* AddProcessor: the number is taken before the list is locked.
TakeID(p) == /\ ap[p].pc = "id"
             /\ ap' = [ap EXCEPT ![p].id = Len(g_processors) + 1, ![p].pc = "insert"]
             /\ UNCHANGED <<page0, aps_running, bsp, m_timerLock, lists, hurried>>
Insert(p) == /\ ap[p].pc = "insert"
             /\ g_processors' = Append(g_processors, p)
             /\ Goes(p, "hold")
             /\ UNCHANGED <<page0, aps_running, bsp, m_timerLock, start_allowed,
                            current_thread, g_timerRunning, allowed, hurried>>
Allowed(p) == /\ ap[p].pc = "hold" /\ p \in start_allowed
              /\ Goes(p, IF p \in current_thread THEN "timer" ELSE "panic")
              /\ UNCHANGED <<page0, aps_running, bsp, m_timerLock, lists, hurried>>

\* InitTimer takes the lock StartCPU took for this processor.
InitTimer(p) == /\ ap[p].pc = "timer" /\ m_timerLock[ap[p].arg] = 0
                /\ m_timerLock' = [m_timerLock EXCEPT ![ap[p].arg] = 1]
                /\ Goes(p, "run")
                /\ UNCHANGED <<page0, aps_running, bsp, lists, hurried>>

Boot == \/ Map \/ Copy \/ SendStartUp \/ Await \/ GiveArgument \/ GiveStack \/ Release
        \/ TimeInit \/ AllowTimers \/ AddIdleThread \/ Start

Application(p) ==
    \/ Trampoline(p) \/ SpinDone(p) \/ TakeArgument(p) \/ TakeStack(p) \/ InitLocalAPIC(p)
    \/ TakeID(p) \/ Insert(p) \/ Allowed(p) \/ InitTimer(p)

Next == Boot \/ \E p \in APs : Application(p)

Fairness == WF_vars(Boot) /\ \A p \in APs : WF_vars(Application(p))

Spec == Init /\ [][Next]_vars /\ Fairness
---------------------------------------------------------------------------
Pcs == {"off", "boot", "spin", "argument", "stack", "fail", "fault"} \cup InKernel

\* Every word of page 0 and every lock holds a value the code gives it.
TypeOK ==
    /\ page0 \in [mapped : BOOLEAN, lock : 0 .. 1, arg : 0 .. N, stack : 0 .. N]
    /\ aps_running \in 0 .. N
    /\ bsp \in [pc : {"map", "copy", "sipi", "await", "argument", "stack", "release", "time",
                      "allow", "idle", "start", "run", "panic"},
                ap : 1 .. (N + 1), old : 0 .. N, attempt : 0 .. 1, threads : 1 .. (N + 1)]
    /\ ap \in [APs -> [pc : Pcs, arg : 0 .. N, stack : 0 .. N, id : 0 .. N]]
    /\ m_timerLock \in [APs -> 0 .. 1]
    /\ Range(g_processors) \subseteq APs /\ start_allowed \subseteq APs /\ current_thread \subseteq APs
    /\ g_timerRunning \in BOOLEAN /\ allowed \subseteq APs /\ hurried \in BOOLEAN

\* As long as the boot processor does not begin a start before the processor of
\* the previous one is through LocalAPIC::Init, every processor runs as itself
\* on its own stack and nobody finds page 0 gone.  (Nothing in StartCPU makes it
\* wait: it returns as soon as it has cleared the start lock.)
RunsAsItself ==
    ~hurried =>
        /\ bsp.pc # "panic"
        /\ \A p \in APs : /\ ap[p].pc # "fault"
                          /\ ap[p].pc \in InKernel => ap[p].arg = p /\ ap[p].stack = p

\* "We can't have the APIC timer being configured until after the HPET is
\* initialized" (LocalAPIC.cpp:87): a processor that has passed InitTimer was in
\* the list when InitProcessorTimers released the locks, so the clock is running.
TimerAfterClock ==
    \A p \in APs : ~hurried /\ ap[p].pc = "run" => p \in allowed /\ g_timerRunning

\* A processor that InitProcessorTimers found in the list runs in the end: it is
\* let go by Start, finds a thread, and its timer lock is free.  (Unless one that
\* came later finds no thread and panics, which stops them all.)
AllowedRun ==
    \A p \in APs : (p \in allowed /\ ~hurried)
                        ~> (ap[p].pc = "run" \/ \E q \in APs \ allowed : ap[q].pc = "panic")

\* "timeout of 1ms for first attempt, 1000ms for second" (LocalAPIC.cpp:98): a
\* start ends, with the processor counted or with the panic that follows the
\* second attempt.
StartEnds == (bsp.pc = "await") ~> (bsp.pc # "await")
===========================================================================
