---------------------------- MODULE UserContext ----------------------------
(***************************************************************************)
(* Where the registers of a user program are while the kernel works for it: *)
(* on a CPU, in the frame that the system call entry pushes, in the m_regs  *)
(* of its thread, or in the copy that a signal handler will come back to.   *)
(*                                                                         *)
(* Every process has one thread and its own address space.  An address of   *)
(* the program stands for the 14 bytes that a signal's return instructions  *)
(* overwrite, a stack slot for 8 bytes.  Inside the kernel a context is only *)
(* the point that the system call has reached:                              *)
(*   "entry"  interrupts are on, SystemCallHandler has not saved the frame  *)
(*   "serve"  the frame is in m_regs, the call is being carried out         *)
(*   "none"   SleepThread has taken current_thread away                     *)
(*   "switch" PickNext has chosen, Next has not loaded the registers yet    *)
(*   "leave"  SystemCallHandler has returned                                *)
(*   "start"  the idle thread before its sti, "idle" after it               *)
(* The ready lists are a set: their order is the subject of Scheduler.       *)
(***************************************************************************)
EXTENDS Naturals, FiniteSets

CONSTANTS Threads,    \* the threads, one per process
          Idles,      \* the idle threads, one per CPU
          Processors, \* the CPUs
          BSP,        \* the one that calls Scheduler::Start
          Signals,    \* the signals used, "SIGSEGV" among them
          Handler,    \* the function a program registers for each signal
          Flow,       \* the address after each address of the program, or Ret
          Entry,      \* the address the program starts at
          Calls,      \* the system calls each program makes
          Ret,        \* a return instruction
          Own,        \* an address or stack slot holds what the program put there
          NoThread,   \* the null pointer
          Garbage     \* the user_stack of a Register_Frame, which nothing writes

VARIABLES cur,     \* ProcessorInfo::current_thread
          live,    \* the registers of each CPU
          gs,      \* ProcessorInfo::thread_metadata.user_stack, that is [gs:16]
          ready,   \* the threads in a ready list or in g_idle_threads
          asleep,  \* g_sleeping_threads
          blocked, \* the threads that wait for a semaphore
          m_regs,  \* Thread::m_regs
          kframe,  \* the frame x86_64_HandleSystemCall pushed on the kernel stack
          proc,    \* Process: m_sigActions, m_sigMetadata, and the user memory
          lost,    \* threads whose context some step has mixed up
          halted   \* why the kernel can not go on, or "no"

vars == <<cur, live, gs, ready, asleep, blocked, m_regs, kframe, proc, lost, halted>>

Addresses == DOMAIN Flow
Top == Cardinality(Signals)

(* A context: whose it is, where it is, its stack pointer, and the interrupt *)
(* flag of its RFLAGS.                                                       *)
User(t, rip, rsp, if) == [who |-> t, mode |-> "user", rip |-> rip, rsp |-> rsp, if |-> if]
Kernel(t, at, if) == [who |-> t, mode |-> "kernel", rip |-> at, rsp |-> 0, if |-> if]

NoSignal == [in_signal_handler |-> FALSE, old_regs |-> Own, old_ins |-> Own, extra_data |-> Own]

NoFrame == [rip |-> Entry, rsp |-> Top, if |-> TRUE, ins |-> Own]

(* Process::Start: every action is SIG_DFL.                                  *)
Start ==
    [ alive |-> TRUE,
      m_sigActions |-> [s \in Signals |-> "SIG_DFL"],
      m_sigMetadata |-> [s \in Signals |-> NoSignal],
      code |-> [a \in Addresses |-> Own],
      stack |-> [i \in 0..Top |-> Own] ]

(* ScheduleThread and AddIdleThread prepare the registers of a new thread.    *)
ScheduleThread(t) ==
    IF t \in Idles THEN Kernel(t, "start", TRUE) ELSE User(t, Entry, Top, TRUE)

(* x86_64_context_switch loads every register of the thread but RFLAGS, which *)
(* it takes from the CPU as it was called.                                    *)
x86_64_context_switch(regs, if) == [regs EXCEPT !.if = if]

(* Scheduler::Start picks a thread for every CPU and starts the one of the    *)
(* BSP, on which it has disabled interrupts; the others enabled theirs when   *)
(* they set up their timers.                                                  *)
Init ==
    /\ m_regs = [t \in Threads \cup Idles |-> ScheduleThread(t)]
    /\ \E first \in [Processors -> Threads \cup Idles] :
        /\ \A c, d \in Processors : first[c] = first[d] => c = d
        /\ Threads \subseteq {first[c] : c \in Processors}
             \/ {first[c] : c \in Processors} \subseteq Threads
        /\ cur = first
        /\ live = [c \in Processors |-> x86_64_context_switch(m_regs[first[c]], c # BSP)]
        /\ ready = (Threads \cup Idles) \ {first[c] : c \in Processors}
    /\ gs = [c \in Processors |-> Garbage]
    /\ asleep = {} /\ blocked = {}
    /\ kframe = [t \in Threads |-> NoFrame]
    /\ proc = [t \in Threads |-> Start]
    /\ lost = {} /\ halted = "no"

----------------------------------------------------------------------------
(* The scheduler, as far as registers are concerned.                         *)

(* The threads PickNext can choose once back is in its list again: the idle   *)
(* threads only when there is nothing else.                                   *)
Runnable(back) ==
    LET all == ready \cup back IN IF all \subseteq Idles THEN all ELSE all \ Idles

(* Fault: the thread picked is not taken out of its list.                     *)
PickNextKept(c, back) ==
    \E n \in Runnable(back) : cur' = [cur EXCEPT ![c] = n] /\ ready' = ready \cup back

PickNext(c, back) ==
    \E n \in Runnable(back) :
        /\ cur' = [cur EXCEPT ![c] = n]
        /\ ready' = (ready \cup back) \ {n}

(* SetThreadFrame copies the whole Register_Frame of the thread over the     *)
(* CPU's, its user_stack included; nothing ever copies user_stack back.      *)
SetThreadFrame(c) == gs' = [gs EXCEPT ![c] = Garbage]

(* Scheduler::Next() switches to the CPU's current thread.                   *)
NextThread(c) ==
    /\ live[c].rip = "switch"
    /\ SetThreadFrame(c)
    /\ live' = [live EXCEPT ![c] = x86_64_context_switch(m_regs[cur[c]], live[c].if)]
    /\ UNCHANGED <<cur, ready, asleep, blocked, m_regs, kframe, proc, lost, halted>>

(* The local APIC timer: the interrupted registers go to the thread that     *)
(* current_thread names, whoever it was that ran, and Next(iregs) prepares    *)
(* the registers of the thread picked.                                        *)
x86_64_SaveIRegistersToThread(c) == [m_regs EXCEPT ![cur[c]] = live[c]]

TimerTick(c) ==
    LET saved == x86_64_SaveIRegistersToThread(c) IN
    /\ live[c].if /\ cur[c] # NoThread
    /\ PickNext(c, {cur[c]})
    /\ m_regs' = saved
    /\ SetThreadFrame(c)
    /\ live' = [live EXCEPT ![c] = saved[cur'[c]]]
    /\ lost' = IF live[c].who = cur[c] /\ live[c].rip # "switch"
                 THEN lost ELSE lost \cup {cur[c], live[c].who}
    /\ UNCHANGED <<asleep, blocked, kframe, proc, halted>>

(* The same with no current thread: the registers go to the null pointer.     *)
TimerTickNull(c) ==
    /\ live[c].if /\ cur[c] = NoThread
    /\ halted' = "no current thread"
    /\ UNCHANGED <<cur, live, gs, ready, asleep, blocked, m_regs, kframe, proc, lost>>

(* Fault: a sleeper is given back and stays in g_sleeping_threads.            *)
AwakeKept(t) == UNCHANGED asleep /\ blocked' = blocked \ {t}

Awake(t) == asleep' = asleep \ {t} /\ blocked' = blocked \ {t}

(* The tick of some CPU gives a sleeper back, Semaphore::release by a running *)
(* thread gives a waiter back.                                                *)
ReaddThread(t) ==
    /\ \/ t \in asleep /\ \E c \in Processors : live[c].if
       \/ t \in blocked /\ \E c \in Processors : live[c].mode = "user"
    /\ IF proc[t].alive
         THEN ready' = ready \cup {t} /\ UNCHANGED halted
         ELSE halted' = "freed thread" /\ UNCHANGED ready
    /\ Awake(t)
    /\ UNCHANGED <<cur, live, gs, m_regs, kframe, proc, lost>>

x86_64_idle_loop(c) ==
    /\ live[c].rip = "start"
    /\ live' = [live EXCEPT ![c] = Kernel(live[c].who, "idle", TRUE)]
    /\ UNCHANGED <<cur, gs, ready, asleep, blocked, m_regs, kframe, proc, lost, halted>>

----------------------------------------------------------------------------
(* The program, and the way into and out of a system call.  What a lost       *)
(* thread does is not followed.                                               *)

Runs(c, mode) == live[c].mode = mode /\ live[c].who \in Threads \ lost

(* One instruction of the program (not the kernel's code): go on, or return   *)
(* to the address on the stack.                                               *)
Step(c) ==
    LET r == live[c]  p == proc[r.who] IN
    /\ Runs(c, "user") /\ p.code[r.rip] = Own
    /\ live' = [live EXCEPT ![c] =
          IF Flow[r.rip] = Ret THEN User(r.who, p.stack[r.rsp], r.rsp + 1, r.if)
                               ELSE User(r.who, Flow[r.rip], r.rsp, r.if)]
    /\ UNCHANGED <<cur, gs, ready, asleep, blocked, m_regs, kframe, proc, lost, halted>>

(* The syscall instruction, in the program or in the return instructions of a *)
(* signal: the user stack pointer is kept in the CPU's slot and in the frame. *)
(* A CPU may still be on the kernel stack, on its way out of a sleep.         *)
x86_64_HandleSystemCall(c) ==
    LET r == live[c]  t == r.who  i == proc[t].code[r.rip] IN
    /\ Runs(c, "user") /\ (i = Own => Flow[r.rip] # Ret)
    /\ gs' = [gs EXCEPT ![c] = r.rsp]
    /\ kframe' = [kframe EXCEPT ![t] =
          [rip |-> IF i = Own THEN Flow[r.rip] ELSE r.rip, rsp |-> r.rsp, if |-> r.if, ins |-> i]]
    /\ live' = [live EXCEPT ![c] = Kernel(t, "entry", TRUE)]
    /\ lost' = IF \E d \in Processors \ {c} : live[d].who = t THEN lost \cup {t} ELSE lost
    /\ UNCHANGED <<cur, ready, asleep, blocked, m_regs, proc, halted>>

(* SystemCallHandler first saves the frame in m_regs, interrupts disabled.    *)
SystemCallHandler(c) ==
    LET t == live[c].who  f == kframe[t] IN
    /\ Runs(c, "kernel") /\ live[c].rip = "entry"
    /\ m_regs' = [m_regs EXCEPT ![t] = User(t, f.rip, f.rsp, f.if)]
    /\ live' = [live EXCEPT ![c] = Kernel(t, "serve", TRUE)]
    /\ UNCHANGED <<cur, gs, ready, asleep, blocked, kframe, proc, lost, halted>>

(* sysret: everything comes from the frame but the stack pointer, which comes *)
(* from the slot of the CPU.                                                  *)
SystemCallReturn(c) ==
    LET t == live[c].who  f == kframe[t] IN
    /\ Runs(c, "kernel") /\ live[c].rip = "leave"
    /\ live' = [live EXCEPT ![c] = User(t, f.rip, gs[c], f.if)]
    /\ kframe' = [kframe EXCEPT ![t] = NoFrame]
    /\ lost' = IF gs[c] = f.rsp THEN lost ELSE lost \cup {t}
    /\ UNCHANGED <<cur, gs, ready, asleep, blocked, m_regs, proc, halted>>

----------------------------------------------------------------------------
(* The system calls that move a context.                                      *)

Serves(c, t) == Runs(c, "kernel") /\ live[c].rip = "serve" /\ live[c].who = t

Called(c, t, call) == Serves(c, t) /\ kframe[t].ins = Own /\ call \in Calls[t]

(* Carry on with the user registers in m_regs.  After a tick inside the call  *)
(* they are not there any more: m_regs holds a point of this very call.       *)
FromRegisters(t) == IF m_regs[t].mode = "user" THEN {} ELSE {t}

(* Every other call: it leaves the contexts alone.                            *)
sys_other(c, t) ==
    /\ Called(c, t, "other")
    /\ live' = [live EXCEPT ![c].rip = "leave"]
    /\ UNCHANGED <<cur, gs, ready, asleep, blocked, m_regs, kframe, proc, lost, halted>>

sys_onsignal(c, t, s, action) ==
    /\ Called(c, t, "onsignal")
    /\ proc' = [proc EXCEPT ![t].m_sigActions[s] = action]
    /\ live' = [live EXCEPT ![c].rip = "leave"]
    /\ UNCHANGED <<cur, gs, ready, asleep, blocked, m_regs, kframe, lost, halted>>

(* sys_sleep and sys_msleep: SleepThread takes the thread off its CPU, then   *)
(* picks the next one, then switches, all with interrupts on.                 *)
SleepThread(c, t) ==
    /\ Called(c, t, "sleep")
    /\ cur' = [cur EXCEPT ![c] = NoThread]
    /\ asleep' = asleep \cup {t}
    /\ live' = [live EXCEPT ![c].rip = "none"]
    /\ lost' = lost \cup FromRegisters(t)
    /\ UNCHANGED <<gs, ready, blocked, m_regs, kframe, proc, halted>>

SleepThreadPick(c) ==
    /\ live[c].rip = "none"
    /\ PickNext(c, {})
    /\ live' = [live EXCEPT ![c].rip = "switch"]
    /\ UNCHANGED <<gs, asleep, blocked, m_regs, kframe, proc, lost, halted>>

(* sys_acquireSemaphore of a semaphore that is taken: interrupts are disabled *)
(* before the kernel registers are saved, and still are at the switch.        *)
x86_64_HandleSemaphoreAcquire(c, t) ==
    /\ Called(c, t, "acquire")
    /\ m_regs' = [m_regs EXCEPT ![t] = Kernel(t, "leave", live[c].if)]
    /\ blocked' = blocked \cup {t}
    /\ PickNext(c, {})
    /\ live' = [live EXCEPT ![c] = Kernel(t, "switch", FALSE)]
    /\ UNCHANGED <<gs, asleep, kframe, proc, lost, halted>>

----------------------------------------------------------------------------
(* Exits and signals.                                                         *)

Fatal == {"SIGABRT", "SIGFPE", "SIGILL", "SIGINT", "SIGSEGV", "SIGTERM", "SIGKILL"}

(* sys_exit of the thread that runs: do_exit removes it, which picks the next *)
(* one, and Resume makes the CPU take ticks again before it calls Next.       *)
Exit(c, t) ==
    /\ proc' = [proc EXCEPT ![t].alive = FALSE]
    /\ PickNext(c, {})
    /\ live' = [live EXCEPT ![c].rip = "switch"]
    /\ UNCHANGED <<gs, asleep, blocked, m_regs, kframe, lost, halted>>

sys_exit(c, t) == Called(c, t, "exit") /\ Exit(c, t)

(* sys_exit of another thread, from ReceiveSignal: it is taken out of its     *)
(* ready list or from the CPU that runs it, which is not told; a sleeper and a *)
(* waiter stay where they are.  Resume then switches to the sender.           *)
ExitOther(c, u, t) ==
    LET on == {d \in Processors : cur[d] = t} IN
    /\ proc' = [proc EXCEPT ![t].alive = FALSE]
    /\ IF on = {} THEN ready' = ready \ {t} /\ UNCHANGED cur
                  ELSE \E d \in on : PickNext(d, {})
    /\ live' = [live EXCEPT ![c].rip = "switch"]
    /\ lost' = lost \cup FromRegisters(u) \cup (IF on = {} THEN {} ELSE {t})
    /\ UNCHANGED <<gs, asleep, blocked, m_regs, kframe, halted>>

(* What ReceiveSignal returns to: SendSignal, or the exception's panic.       *)
Back(c) ==
    /\ IF live[c].rip = "fault" THEN halted' = "panic" /\ UNCHANGED live
                                ELSE live' = [live EXCEPT ![c].rip = "leave"] /\ UNCHANGED halted
    /\ UNCHANGED <<cur, gs, ready, asleep, blocked, m_regs, kframe, proc, lost>>

Saved(p, r, s) == [in_signal_handler |-> TRUE, old_regs |-> r,
                   old_ins |-> p.code[r.rip], extra_data |-> p.stack[r.rsp - 1]]

(* The thread is sent to its handler: the interrupted address goes on the     *)
(* stack and the return instructions go to that address, both read and written *)
(* in the address space that the CPU is in, which is the one of u.             *)
Deliver(c, u, t, s) ==
    LET r == m_regs[t] IN
    /\ m_regs' = [m_regs EXCEPT ![t].rip = Handler[s], ![t].rsp = r.rsp - 1]
    /\ proc' = [proc EXCEPT
          ![t].m_sigMetadata[s] = Saved(proc[u], r, s),
          ![u].stack[r.rsp - 1] = r.rip,
          ![u].code[r.rip] = s]
    /\ IF u = t
         THEN PickNext(c, {t}) /\ live' = [live EXCEPT ![c].rip = "switch"]
         ELSE live' = [live EXCEPT ![c].rip = "leave"] /\ UNCHANGED <<cur, ready>>
    /\ lost' = IF u # t THEN lost \cup {u, t} ELSE lost
    /\ UNCHANGED <<gs, asleep, blocked, kframe, halted>>

(* The sender's memory at these addresses may also be absent or read-only: the *)
(* kernel faults.                                                              *)
DeliverFault(u, t) ==
    /\ u # t /\ halted' = "kernel fault"
    /\ UNCHANGED <<cur, live, gs, ready, asleep, blocked, m_regs, kframe, proc, lost>>

Terminate(c, u, t) == IF u = t THEN Exit(c, t) ELSE ExitOther(c, u, t)

(* ReceiveSignal(s) of t's process, called on CPU c by u.  Registers that are *)
(* not the program's fail the checks, and SIGSEGV is received instead; where  *)
(* that returns, the code goes on to patch the kernel.                        *)
ReceiveSignal(c, u, t, s) ==
    LET p == proc[t]
        a(x) == p.m_sigActions[x]
        in(x) == p.m_sigMetadata[x].in_signal_handler
        ignored(x) == \/ a(x) = "SIG_IGN"
                      \/ a(x) = "SIG_DFL" /\ x \notin Fatal
                      \/ a(x) = "handler" /\ in(x)
    IN  \/ ignored(s) /\ Back(c)
        \/ a(s) = "SIG_DFL" /\ s \in Fatal /\ Terminate(c, u, t)
        \/ /\ a(s) = "handler" /\ ~in(s) /\ m_regs[t].mode = "user"
           /\ Deliver(c, u, t, s) \/ DeliverFault(u, t)
        \/ /\ a(s) = "handler" /\ ~in(s) /\ m_regs[t].mode = "kernel"
           /\ IF s # "SIGSEGV" /\ ignored("SIGSEGV")
                THEN /\ halted' = "kernel code patched"
                     /\ UNCHANGED <<cur, live, gs, ready, asleep, blocked, m_regs, kframe, proc, lost>>
                ELSE Terminate(c, u, t)

sys_sendsig(c, u, t, s) ==
    /\ Called(c, u, "sendsig")
    /\ proc[t].alive /\ t \notin lost
    /\ IF proc[t].m_sigMetadata[s].in_signal_handler THEN Back(c) ELSE ReceiveSignal(c, u, t, s)

(* An exception of the program: its registers are saved as it enters.         *)
PageFault(c, t) ==
    /\ Runs(c, "user") /\ live[c].who = t
    /\ m_regs' = [m_regs EXCEPT ![t] = live[c]]
    /\ live' = [live EXCEPT ![c] = Kernel(t, "fault", FALSE)]
    /\ UNCHANGED <<cur, gs, ready, asleep, blocked, kframe, proc, lost, halted>>

PageFaultHandler(c, t) ==
    /\ Runs(c, "kernel") /\ live[c].who = t /\ live[c].rip = "fault"
    /\ ReceiveSignal(c, t, t, "SIGSEGV")

(* Fault: the stack slot keeps the address that was pushed.                   *)
RestoredCode(p, m, s) ==
    [p EXCEPT !.code[m.old_regs.rip] = m.old_ins, !.m_sigMetadata[s] = NoSignal]

Restored(p, m, s) ==
    [p EXCEPT !.code[m.old_regs.rip] = m.old_ins,
              !.stack[m.old_regs.rsp - 1] = m.extra_data,
              !.m_sigMetadata[s] = NoSignal]

(* The return instructions ask for the interrupted context back.              *)
sys_sigreturn(c, t) ==
    LET s == kframe[t].ins  m == proc[t].m_sigMetadata[s] IN
    /\ Serves(c, t) /\ s # Own
    /\ m_regs' = [m_regs EXCEPT ![t] = m.old_regs]
    /\ proc' = [proc EXCEPT ![t] = Restored(proc[t], m, s)]
    /\ PickNext(c, {t})
    /\ live' = [live EXCEPT ![c].rip = "switch"]
    /\ UNCHANGED <<gs, asleep, blocked, kframe, lost, halted>>

Actions == {"SIG_DFL", "SIG_IGN", "handler"}

Next ==
    /\ halted = "no"
    /\ \/ \E t \in Threads : ReaddThread(t)
       \/ \E c \in Processors :
            \/ NextThread(c) \/ TimerTick(c) \/ TimerTickNull(c) \/ x86_64_idle_loop(c)
            \/ Step(c) \/ x86_64_HandleSystemCall(c) \/ SystemCallHandler(c)
            \/ SystemCallReturn(c) \/ SleepThreadPick(c)
            \/ \E t \in Threads :
                 \/ sys_other(c, t) \/ SleepThread(c, t) \/ x86_64_HandleSemaphoreAcquire(c, t)
                 \/ sys_exit(c, t) \/ sys_sigreturn(c, t)
                 \/ PageFault(c, t) \/ PageFaultHandler(c, t)
                 \/ \E s \in Signals, a \in Actions : sys_onsignal(c, t, s, a)
                 \/ \E u \in Threads, s \in Signals : sys_sendsig(c, u, t, s)

Spec == Init /\ [][Next]_vars

----------------------------------------------------------------------------
Contexts ==
    [ who : Threads \cup Idles, mode : {"user"}, rip : Addresses,
      rsp : (0..Top) \cup {Garbage}, if : BOOLEAN ]
    \cup
    [ who : Threads \cup Idles, mode : {"kernel"}, rsp : {0}, if : BOOLEAN,
      rip : {"entry", "serve", "none", "switch", "leave", "fault", "start", "idle"} ]

(* The contexts have their shape and every thread has its place: it runs, is   *)
(* in one list, or has exited.                                                 *)
TypeOK ==
    /\ cur \in [Processors -> Threads \cup Idles \cup {NoThread}]
    /\ live \in [Processors -> Contexts] /\ m_regs \in [Threads \cup Idles -> Contexts]
    /\ gs \in [Processors -> (0..Top) \cup {Garbage}]
    /\ \A t \in Threads : proc[t].alive =>
          Cardinality({c \in Processors : cur[c] = t})
            + Cardinality({q \in {1, 2, 3} : t \in <<ready, asleep, blocked>>[q]}) = 1

(* The threads that are what the model still follows. *)
Followed == {t \in Threads \ lost : proc[t].alive}

(* A program runs under its own name only, and on one CPU only: current_thread *)
(* names it wherever its instructions or its system call are executed.         *)
RunsOnce ==
    \A t \in Followed, c, d \in Processors :
        LET on(x) == live[x].who = t /\ live[x].rip \notin {"none", "switch"} IN
        on(c) => /\ cur[c] = t
                 /\ on(d) => c = d

Active(t) == {s \in Signals : proc[t].m_sigMetadata[s].in_signal_handler}

(* The context a thread has in user mode, wherever it is kept.                  *)
UserContext(t) ==
    LET on == {c \in Processors : live[c].who = t /\ live[c].rip \notin {"none", "switch", "fault"}} IN
    IF on = {} THEN IF m_regs[t].mode = "user" THEN {m_regs[t]} ELSE {}
    ELSE {live[c] : c \in {x \in on : live[x].mode = "user"}}

(* The signals a program raises itself leave no trace: once every handler has  *)
(* come back through sys_sigreturn, the program is where it was interrupted,   *)
(* its stack pointer too, and its code and its stack are as they were.         *)
BackWhereInterrupted ==
    \A t \in Followed : Active(t) = {} =>
        /\ \A a \in Addresses : proc[t].code[a] = Own
        /\ \A i \in 0..Top : proc[t].stack[i] = Own
        /\ \A r \in UserContext(t) : r.rip = Entry /\ r.rsp = Top

(* Every handler can come back, in whatever order they nest: the return        *)
(* instructions of each active signal are in exactly one place, at the address  *)
(* it interrupted or among the instructions another one saved there.            *)
EachUndone ==
    \A t \in Followed, s \in Signals :
        LET m(x) == proc[t].m_sigMetadata[x]
            kept == {a \in Addresses : proc[t].code[a] = s}
            saved == {x \in Active(t) : m(x).old_ins = s}
        IN  /\ Cardinality(kept) + Cardinality(saved) = IF s \in Active(t) THEN 1 ELSE 0
            /\ \A a \in kept : m(s).old_regs.rip = a
            /\ \A x \in saved : m(s).old_regs.rip = m(x).old_regs.rip
=============================================================================
