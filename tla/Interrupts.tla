----------------------------- MODULE Interrupts -----------------------------
(***************************************************************************)
(* Device interrupts, from the interrupt line to the handler: the I/O APICs *)
(* found in the MADT and their redirection tables, the vectors and IRQ      *)
(* numbers IRQ.cpp gives them, the reservation bitmap, and the two devices   *)
(* that ask for an interrupt: the HPET, whose timer drives the kernel clock  *)
(* (HAL/time.cpp), and the keyboard controller.  All device interrupts go to *)
(* the boot processor, whose handlers run with interrupts disabled.         *)
(***************************************************************************)
EXTENDS Integers, Sequences, FiniteSets, FiniteSetsExt

CONSTANTS Layouts,       \* I/O APICs in MADT order: sequences of [base, lines]
          Overrides,     \* sets of interrupt source overrides' lines
          Capabilities,  \* the lines each HPET timer can use: sequences of sets
          MaxKeys        \* keyboard interrupts in a behaviour

Byte == 8
INVALID_IRQ == 255
PIC_REMAP_OFFSET == 32
FirstVector == PIC_REMAP_OFFSET + 16
KeyboardIRQ == 1
MouseIRQ == 12
SpuriousVector == 255

VARIABLES stage,          \* how far StartKernel is
          firmware,       \* [layout, overrides, caps]: what the MADT and the HPET report
          g_IOAPICs,      \* <<[base, end, table]>>, table: index -> [Vector, Mask]
          IOREGSEL,       \* of each, what IOWIN is: <<index, "low" or "high" word>>
          entry,          \* the low word RegisterIRQHandler has read
          g_ISRHandlers,  \* vector -> "PIC" or "IRQ", where registered
          g_IRQHandlers,  \* IRQ -> handler
          g_IRQBitmap,    \* the reserved IRQs
          m_timers,       \* the HPET's timers: [active, usable, IRQ]
          comparator,     \* the timers whose comparator is set
          irr,            \* vectors the local APIC has accepted
          cpu,            \* "kernel", "handler" (before its EOI) or "dead"
          g_timerTicks,   \* modulo 2
          keys,           \* keyboard interrupts so far
          served          \* ghost: the line and the handler of the last interrupt

vars == <<stage, firmware, g_IOAPICs, IOREGSEL, entry, g_ISRHandlers, g_IRQHandlers,
          g_IRQBitmap, m_timers, comparator, irr, cpu, g_timerTicks, keys, served>>

tables == <<g_IOAPICs, IOREGSEL, g_ISRHandlers, g_IRQHandlers, g_IRQBitmap>>

NoHandler == <<"none", 0>>
Keyboard == <<"keyboard", 0>>
HPET_INT(t) == <<"hpet", t>>
NoLine == -1
NoEntry == [Vector |-> 0, Mask |-> 0]

Timers == 1 .. Len(firmware.caps)
---------------------------------------------------------------------------
\* x86_64_IRQ_FullInit: the count of handlers is the last line's number.
g_IRQHandlersCount == Cardinality(DOMAIN g_IRQHandlers)

\* The bitmap has one bit for each IRQ of its whole bytes; others read as free
\* and are not kept.
Bits(count) == (count \div Byte) * Byte
Set(bitmap, irq) == IF irq < Bits(g_IRQHandlersCount) THEN bitmap \cup {irq} ELSE bitmap

\* x86_64_IRQ_AllocateIRQ(mask, 0): the lowest free line of the mask; when none
\* is free the loop leaves the last one it tried in IRQ.
Allocate(mask) ==
    IF mask = {} THEN INVALID_IRQ
    ELSE IF mask \subseteq g_IRQBitmap THEN Max(mask)
    ELSE Min(mask \ g_IRQBitmap)

\* x86_64_IOAPIC_GetIOAPICForIRQ accepts an I/O APIC's end as one of its lines.
GetIOAPICForIRQ(irq) ==
    Min({i \in DOMAIN g_IOAPICs : irq >= g_IOAPICs[i].base /\ irq <= g_IOAPICs[i].end})

\* Entry.Mask = 0 written back; an index past the table is no register.
Unmasked(irq) ==
    LET i == GetIOAPICForIRQ(irq)
        x == irq - g_IOAPICs[i].base
    IN  IF x \in DOMAIN g_IOAPICs[i].table
        THEN [g_IOAPICs EXCEPT ![i].table[x].Mask = 0]
        ELSE g_IOAPICs

\* SetRedirectionEntry and GetRedirectionEntry select a register and then use
\* the window.
Selected(irq, word) ==
    LET i == GetIOAPICForIRQ(irq) IN [IOREGSEL EXCEPT ![i] = <<irq - g_IOAPICs[i].base, word>>]

\* What IOWIN reads as.  A high word has the destination, in its last byte.
Window(i) ==
    LET r == IOREGSEL[i] IN IF r[2] = "low" THEN g_IOAPICs[i].table[r[1]] ELSE NoEntry

Register(irq, handler) ==
    IF irq < g_IRQHandlersCount THEN [g_IRQHandlers EXCEPT ![irq] = handler] ELSE g_IRQHandlers
---------------------------------------------------------------------------
Init ==
    /\ stage = "cold"
    /\ firmware \in [layout : Layouts, overrides : Overrides, caps : Capabilities]
    /\ g_IOAPICs = <<>> /\ IOREGSEL = <<>> /\ entry = NoEntry
    /\ g_ISRHandlers = [v \in {} |-> ""] /\ g_IRQHandlers = [q \in {} |-> NoHandler]
    /\ g_IRQBitmap = {} /\ m_timers = <<>> /\ comparator = {} /\ irr = {}
    /\ cpu = "kernel" /\ g_timerTicks = 0 /\ keys = 0
    /\ served = [line |-> NoLine, handler |-> NoHandler]

\* x86_64_IRQ_EarlyInit: the PICs are remapped and masked, and their vectors
\* only acknowledged.
EarlyInit ==
    /\ stage = "cold" /\ stage' = "early"
    /\ g_ISRHandlers' = [v \in PIC_REMAP_OFFSET .. (FirstVector - 1) |-> "PIC"]
    /\ UNCHANGED <<firmware, g_IOAPICs, IOREGSEL, entry, g_IRQHandlers, g_IRQBitmap, m_timers,
                   comparator, irr, cpu, g_timerTicks, keys, served>>

LinesBefore(i) == MapThenSumSet(LAMBDA j : firmware.layout[j].lines, 1 .. (i - 1))

\* Fault: every I/O APIC begins at the first vector.
INTStartAgain(i) == FirstVector

\* SetINTStart: the vectors run on from one I/O APIC to the next.
INTStart(i) == FirstVector + LinesBefore(i)

IRQEnd(a) == a.base + a.lines

\* EnumerateMADTEntries masks every line; FullInit gives it its vector.
EnumerateMADTEntries ==
    /\ stage = "early" /\ stage' = "routed"
    /\ LET layout == firmware.layout
           last == layout[Len(layout)]
           count == IRQEnd(last) - 1
           total == LinesBefore(Len(layout) + 1)
           reserved == {KeyboardIRQ, MouseIRQ} \cup firmware.overrides
       IN  /\ g_IOAPICs' = [i \in DOMAIN layout |->
                 [base |-> layout[i].base, end |-> IRQEnd(layout[i]),
                  table |-> [x \in 0 .. (layout[i].lines - 1) |->
                                [Vector |-> INTStart(i) + x, Mask |-> 1]]]]
           /\ IOREGSEL' = [i \in DOMAIN layout |-> <<layout[i].lines - 1, "high">>]
           /\ g_ISRHandlers' = [v \in DOMAIN g_ISRHandlers
                                        \cup (FirstVector .. (FirstVector + total - 1)) |->
                                    IF v < FirstVector THEN g_ISRHandlers[v] ELSE "IRQ"]
           /\ g_IRQHandlers' = [q \in 0 .. (count - 1) |-> NoHandler]
           /\ g_IRQBitmap' = {q \in reserved : q < Bits(count)}
    /\ UNCHANGED <<firmware, entry, m_timers, comparator, irr, cpu, g_timerTicks, keys, served>>

HPETInit ==
    /\ stage = "routed" /\ stage' = "hpet"
    /\ m_timers' = [t \in Timers |-> [active |-> FALSE, usable |-> TRUE, IRQ |-> INVALID_IRQ]]
    /\ UNCHANGED <<firmware, tables, entry, comparator, irr, cpu, g_timerTicks, keys, served>>

\* HPET::StartTimer on the timers ts: the first one that is usable and idle; one
\* without a line is given up and the next is tried.
Ready(ts) == {t \in Timers : ts[t].usable /\ ~ts[t].active}
Barren(ts, t) == ts[t].IRQ = INVALID_IRQ /\ firmware.caps[t] = {}

StartTimer(ts) ==
    LET good == {t \in Ready(ts) : ~Barren(ts, t)}
        tried == IF good = {} THEN Ready(ts) ELSE {u \in Ready(ts) : u < Min(good)}
        left == [t \in Timers |-> IF t \in tried THEN [ts[t] EXCEPT !.usable = FALSE] ELSE ts[t]]
    IN  IF good = {}
        THEN m_timers' = left /\ UNCHANGED <<tables, comparator>>
        ELSE LET t == Min(good)
                 fresh == ts[t].IRQ = INVALID_IRQ
                 irq == IF fresh THEN Allocate(firmware.caps[t]) ELSE ts[t].IRQ
             IN  /\ m_timers' = [left EXCEPT ![t].active = TRUE, ![t].IRQ = irq]
                 /\ g_IRQBitmap' = IF fresh THEN Set(g_IRQBitmap, irq) ELSE g_IRQBitmap
                 /\ g_IRQHandlers' = IF fresh THEN Register(irq, HPET_INT(t)) ELSE g_IRQHandlers
                 /\ g_IOAPICs' = Unmasked(irq) /\ IOREGSEL' = Selected(irq, "high")
                 /\ comparator' = comparator \cup {t}
                 /\ UNCHANGED g_ISRHandlers

\* HAL_TimeInit (the result of StartTimer is not looked at).
TimeInit == /\ stage = "hpet" /\ stage' = "timed"
            /\ cpu = "kernel"
            /\ StartTimer(m_timers)
            /\ UNCHANGED <<firmware, entry, irr, cpu, g_timerTicks, keys, served>>

\* x86_64_8042_RegisterIRQHandler for the keyboard channel, with interrupts on:
\* the tick of the clock may come between the selection of a register and its
\* use.  (The high words are all alike, and a step here.)
RegisterIRQHandler ==
    /\ stage = "timed" /\ stage' = "reading"
    /\ cpu = "kernel"
    /\ g_IRQHandlers' = Register(KeyboardIRQ, Keyboard)
    /\ IOREGSEL' = Selected(KeyboardIRQ, "low")
    /\ UNCHANGED <<firmware, g_IOAPICs, entry, g_ISRHandlers, g_IRQBitmap, m_timers, comparator,
                   irr, cpu, g_timerTicks, keys, served>>

ReadEntry ==
    /\ stage = "reading" /\ stage' = "writing"
    /\ cpu = "kernel"
    /\ entry' = Window(GetIOAPICForIRQ(KeyboardIRQ))
    /\ IOREGSEL' = Selected(KeyboardIRQ, "low")
    /\ UNCHANGED <<firmware, g_IOAPICs, g_ISRHandlers, g_IRQHandlers, g_IRQBitmap, m_timers,
                   comparator, irr, cpu, g_timerTicks, keys, served>>

\* A low word that is written to a high one leaves the destination 0, the boot
\* processor's.
WriteEntry ==
    LET i == GetIOAPICForIRQ(KeyboardIRQ) IN
    /\ stage = "writing" /\ stage' = "keyboard"
    /\ cpu = "kernel"
    /\ g_IOAPICs' = IF IOREGSEL[i][2] = "low"
                    THEN [g_IOAPICs EXCEPT ![i].table[IOREGSEL[i][1]] = [entry EXCEPT !.Mask = 0]]
                    ELSE g_IOAPICs
    /\ IOREGSEL' = Selected(KeyboardIRQ, "high")
    /\ g_IRQBitmap' = Set(g_IRQBitmap, KeyboardIRQ)
    /\ UNCHANGED <<firmware, entry, g_ISRHandlers, g_IRQHandlers, m_timers, comparator, irr, cpu,
                   g_timerTicks, keys, served>>
---------------------------------------------------------------------------
\* The hardware: a line that is not masked sends its vector to the local APIC.
Accepted(line) ==
    LET on(i) == line >= g_IOAPICs[i].base /\ line < g_IOAPICs[i].end
        sent(i) == g_IOAPICs[i].table[line - g_IOAPICs[i].base]
    IN  {sent(i).Vector : i \in {j \in DOMAIN g_IOAPICs : on(j) /\ sent(j).Mask = 0}}
           \cap FirstVector .. SpuriousVector

LineOf(v) == CHOOSE line \in 0 .. 63 : v \in Accepted(line)

\* A comparator matches once: the timers are not periodic.
Match(t) == /\ t \in comparator
            /\ comparator' = comparator \ {t}
            /\ irr' = irr \cup Accepted(m_timers[t].IRQ)
            /\ UNCHANGED <<stage, firmware, tables, entry, m_timers, cpu, g_timerTicks, keys, served>>

KeyStroke == /\ keys < MaxKeys /\ stage = "keyboard"
             /\ keys' = keys + 1
             /\ irr' = irr \cup Accepted(KeyboardIRQ)
             /\ UNCHANGED <<stage, firmware, tables, entry, m_timers, comparator, cpu,
                            g_timerTicks, served>>

\* Fault: the timer that has fired stays busy.
HandleInterruptBusy(t) == m_timers

\* TimerCallback: count and start a timer again.  HandleInterrupt has made this
\* one idle first.
HandleInterrupt(t) == [m_timers EXCEPT ![t].active = FALSE]

TimerCallback(t) == /\ g_timerTicks' = (g_timerTicks + 1) % 2
                    /\ StartTimer(HandleInterrupt(t))

\* The stubs push the vector, isr_common calls x86_64_ISR_Handler with it, and
\* that the handler registered for it; x86_64_IRQ_Handler finds the device's.
\* An IRQ past the array of handlers reads whatever lies behind it.
Interrupt(v) ==
    LET irq == v - PIC_REMAP_OFFSET - 16
        handler == IF irq < g_IRQHandlersCount THEN g_IRQHandlers[irq] ELSE NoHandler
    IN  /\ cpu = "kernel" /\ v \in irr
        /\ g_ISRHandlers[v] = "IRQ"
        /\ irr' = irr \ {v}
        /\ served' = [line |-> LineOf(v), handler |-> handler]
        /\ IF handler[1] = "hpet"
           THEN TimerCallback(handler[2])
           ELSE UNCHANGED <<g_timerTicks, m_timers, tables, comparator>>
        /\ \/ cpu' = "handler"
           \/ irq >= g_IRQHandlersCount /\ cpu' = "dead"
        /\ UNCHANGED <<stage, firmware, entry, keys>>

SendEOI == /\ cpu = "handler"
           /\ cpu' = "kernel"
           /\ UNCHANGED <<stage, firmware, tables, entry, m_timers, comparator, irr,
                          g_timerTicks, keys, served>>

\* The local APIC's spurious interrupt: nobody registered vector 0xFF, so
\* x86_64_ISR_Handler panics.
Spurious == /\ cpu = "kernel" /\ stage = "keyboard" /\ keys < MaxKeys
            /\ SpuriousVector \notin DOMAIN g_ISRHandlers
            /\ cpu' = "dead"
            /\ UNCHANGED <<stage, firmware, tables, entry, m_timers, comparator, irr,
                           g_timerTicks, keys, served>>

Boot == \/ EarlyInit \/ EnumerateMADTEntries \/ HPETInit \/ TimeInit
        \/ RegisterIRQHandler \/ ReadEntry \/ WriteEntry
Deliver == (\E v \in irr : Interrupt(v)) \/ SendEOI

Next == \/ cpu # "dead" /\ Boot
        \/ \E t \in 1 .. Len(m_timers) : Match(t)
        \/ KeyStroke \/ Deliver \/ Spurious

Fairness == /\ WF_vars(cpu # "dead" /\ Boot) /\ WF_vars(Deliver)
            /\ WF_vars(\E t \in 1 .. Len(m_timers) : Match(t))

Spec == Init /\ [][Next]_vars /\ Fairness
---------------------------------------------------------------------------
Handlers == {NoHandler, Keyboard} \cup {HPET_INT(t) : t \in Timers}

\* Reserved IRQs have a bit, handlers are devices', vectors have a gate's number.
TypeOK ==
    /\ stage \in {"cold", "early", "routed", "hpet", "timed", "reading", "writing",
                "keyboard"}
    /\ g_IRQHandlers \in [0 .. (g_IRQHandlersCount - 1) -> Handlers]
    /\ g_IRQBitmap \subseteq 0 .. (Bits(g_IRQHandlersCount) - 1)
    /\ \A t \in DOMAIN m_timers : m_timers[t].IRQ \in 0 .. INVALID_IRQ
    /\ irr \subseteq DOMAIN g_ISRHandlers
    /\ comparator \subseteq DOMAIN m_timers
    /\ cpu \in {"kernel", "handler", "dead"}

\* The I/O APICs are listed in the order of their lines, starting at 0.
InOrder == \A i \in DOMAIN firmware.layout : firmware.layout[i].base = LinesBefore(i)

\* When the I/O APICs are listed in order, an interrupt is handled by the device
\* whose line it came from: the number IRQ.cpp computes back from the vector is
\* the line's.  (The last line has no entry in g_IRQHandlers and no handler.)
HandledByItsDevice ==
    InOrder =>
        CASE served.handler = Keyboard -> served.line = KeyboardIRQ
          [] served.handler[1] = "hpet" -> served.line = m_timers[served.handler[2]].IRQ
          [] OTHER -> served.line \in DOMAIN g_IRQHandlers => g_IRQHandlers[served.line] = NoHandler

\* A timer is given a line that belongs to the keyboard, the mouse or an override
\* only when every line it could use does.
ReservedLast ==
    \A t \in DOMAIN m_timers :
        LET reserved == {q \in {KeyboardIRQ, MouseIRQ} \cup firmware.overrides :
                            q < Bits(g_IRQHandlersCount)}
        IN  m_timers[t].IRQ \in reserved => firmware.caps[t] \subseteq reserved

\* The keyboard's line has its vector and is open once it is registered, when no
\* timer uses its I/O APIC: a tick in between starts the timer again and leaves
\* that timer's register selected.
KeyboardHeard ==
    LET i == GetIOAPICForIRQ(KeyboardIRQ)
        x == KeyboardIRQ - g_IOAPICs[i].base
    IN  /\ stage = "keyboard"
        /\ \A t \in DOMAIN m_timers :
              m_timers[t].IRQ # INVALID_IRQ => GetIOAPICForIRQ(m_timers[t].IRQ) # i
        => g_IOAPICs[i].table[x] = [Vector |-> INTStart(i) + x, Mask |-> 0]

\* The timer that drives the clock is on a line whose interrupts reach it: not
\* the last line (which has no place in g_IRQHandlers), not the first line of a
\* second I/O APIC (which GetIOAPICForIRQ looks for in the first), not the line
\* the keyboard takes over.
Heard == \E t \in DOMAIN m_timers :
            LET irq == m_timers[t].IRQ
            IN  /\ m_timers[t].active
                /\ InOrder /\ irq < g_IRQHandlersCount /\ irq # KeyboardIRQ
                /\ \A i \in DOMAIN g_IOAPICs : irq # g_IOAPICs[i].end

\* The clock goes on: every tick starts the timer for the next one, and the
\* interrupt of that one is never lost.  sleep and the timeouts of the drivers
\* wait on it.
ClockGoesOn == \A n \in 0 .. 1 :
                  (Heard /\ g_timerTicks = n) ~> (g_timerTicks # n \/ cpu = "dead")
===========================================================================
