----------------------------- MODULE MCProgress -----------------------------
(***************************************************************************)
(* What must eventually happen, in one run: a ready thread gets a CPU, the *)
(* initialisation of the PS/2 controller ends, the clock goes on, and the  *)
(* processors that were allowed to start run.  The models share no state, so*)
(* a behaviour exercises the one that "part" names, and fairness is asked of*)
(* that one.                                                               *)
(***************************************************************************)
EXTENDS Scheduler

CONSTANTS
    ThreadK, ThreadH, ThreadN, ThreadL, ThreadI

VARIABLES
    part, ps2Pc, plugged, config, out, latest, late, m_DualChannel, resetStage,
    attempts, bytes, m_Devices, stage, firmware, g_IOAPICs, IOREGSEL, entry, g_ISRHandlers,
    g_IRQHandlers, g_IRQBitmap, m_timers, comparator, irr, bootCpu, g_timerTicks, keys,
    served, page0, aps_running, bsp, ap, m_timerLock, g_processors, start_allowed,
    current_thread, g_timerRunning, allowed, hurried

ps2Vars == <<ps2Pc, plugged, config, out, latest, late, m_DualChannel, resetStage,
             attempts, bytes, m_Devices>>
irqVars == <<stage, firmware, g_IOAPICs, IOREGSEL, entry, g_ISRHandlers, g_IRQHandlers, g_IRQBitmap,
             m_timers, comparator, irr, bootCpu, g_timerTicks, keys, served>>
smpVars == <<page0, aps_running, bsp, ap, m_timerLock, g_processors, start_allowed,
             current_thread, g_timerRunning, allowed, hurried>>

\* One thread of every priority, and the idle thread of the second CPU.
PriorityOf ==
    [t \in Threads |-> CASE t = ThreadK -> "kernel"
                         [] t = ThreadH -> "high"
                         [] t = ThreadN -> "normal"
                         [] t = ThreadL -> "low"
                         [] OTHER -> "idle"]

Unplugged == << <<"none", "none">>, {}, <<>> >>

\* One or two I/O APICs, reported in either order, and timers with few lines,
\* with lines that other devices have, and with none.
Layouts ==
    {<<[base |-> 0, lines |-> 24]>>,
     <<[base |-> 0, lines |-> 16], [base |-> 16, lines |-> 8]>>,
     <<[base |-> 16, lines |-> 8], [base |-> 0, lines |-> 16]>>}
Overrides == {{}, {2, 9}}
Capabilities ==
    {<<{2}>>, <<{1}>>, <<{2, 8}, {8}>>, <<{}, {20, 21}>>, <<{16}>>, <<{23}>>, <<{}>>, <<{1, 2, 12}>>}
PlainFirmware == [layout |-> <<[base |-> 0, lines |-> 24]>>, overrides |-> {}, caps |-> <<{2}>>]

PS2 == INSTANCE PS2Controller WITH
    pc <- ps2Pc, stage <- resetStage, MaxAttempts <- 5, MaxLate <- 2

IRQ == INSTANCE Interrupts WITH
    cpu <- bootCpu, MaxKeys <- 2

SMP == INSTANCE ProcessorStart WITH
    N <- 2

PartsInit ==
    /\ part \in {"scheduler", "ps2", "interrupts", "start"}
    /\ Init /\ PS2!Init /\ (part = "ps2" \/ <<plugged, config, out>> = Unplugged)
    /\ IRQ!Init /\ (part = "interrupts" \/ firmware = PlainFirmware) /\ SMP!Init

SchedulerStep ==
    /\ part = "scheduler" /\ Next
    /\ UNCHANGED <<part, ps2Vars, irqVars, smpVars>>
Ps2Step == part = "ps2" /\ PS2!Next /\ UNCHANGED <<part, vars, irqVars, smpVars>>
InterruptsStep ==
    /\ part = "interrupts" /\ IRQ!Next
    /\ UNCHANGED <<part, vars, ps2Vars, smpVars>>
StartStep == part = "start" /\ SMP!Next /\ UNCHANGED <<part, vars, ps2Vars, irqVars>>

PartsNext ==
    \/ SchedulerStep \/ Ps2Step \/ InterruptsStep \/ StartStep

partsVars == <<part, vars, ps2Vars, irqVars, smpVars>>

\* Scheduler: a CPU goes on executing and its timer goes on ticking.
\* PS2Controller, ProcessorStart: the code runs on.  Interrupts: the boot does
\* too, interrupts are delivered, and the counter of the HPET comes to its
\* comparators.
PartsFairness ==
    /\ \A c \in CPUs :
          /\ WF_vars(part = "scheduler" /\ PickNext(c))
          /\ WF_vars(part = "scheduler" /\ TimerTick(c))
    /\ WF_ps2Vars(part = "ps2" /\ PS2!Next)
    /\ WF_irqVars(part = "interrupts" /\ bootCpu # "dead" /\ IRQ!Boot)
    /\ WF_irqVars(part = "interrupts" /\ IRQ!Deliver)
    /\ WF_irqVars(part = "interrupts" /\ \E t \in 1..Len(m_timers) : IRQ!Match(t))
    /\ WF_smpVars(part = "start" /\ SMP!Boot)
    /\ \A p \in 1..2 : WF_smpVars(part = "start" /\ SMP!Application(p))

PartsSpec == PartsInit /\ [][PartsNext]_partsVars /\ PartsFairness

-----------------------------------------------------------------------------
\* The variables of the part that runs keep their types.
PartsTypeOK ==
    /\ part = "scheduler" => TypeOK
    /\ part = "ps2" => PS2!TypeOK
    /\ part = "interrupts" => IRQ!TypeOK
    /\ part = "start" => SMP!TypeOK

\* Scheduler: every ready thread gets a CPU, whatever its priority.
ReadyRun == part = "scheduler" => NoStarvation

\* PS2Controller: Init comes to an end, with a device or a panic; with a device
\* only when a keyboard is on the first port, whose interrupt is then on, and
\* always when it is there and every answer was in time.
ControllerReady ==
    /\ part = "ps2" => PS2!Comes
    /\ [](part = "ps2" => PS2!KeyboardFound)

\* Interrupts: every tick is followed by another; the handler of a device serves
\* its interrupts, on the layouts the model names, a timer shares a reserved line
\* only when every line it could use is reserved, and the keyboard's line is open
\* when the clock is on another I/O APIC.
InterruptsServed ==
    /\ part = "interrupts" => IRQ!ClockGoesOn
    /\ [](part = "interrupts" => IRQ!HandledByItsDevice /\ IRQ!ReservedLast /\ IRQ!KeyboardHeard)

\* ProcessorStart: a processor that InitProcessorTimers found runs in the end,
\* unless one that came later panics; it runs on the stack and as the processor
\* that it was started as, unless the next start hurried, and not before the
\* clock.
ProcessorsRun ==
    /\ part = "start" => SMP!AllowedRun
    /\ [](part = "start" => SMP!RunsAsItself /\ SMP!TimerAfterClock)
=============================================================================
