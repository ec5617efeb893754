------------------------------ MODULE Keyboard ------------------------------
(***************************************************************************)
(* The PS/2 keyboard driver: bytes of scan code set 2 come one interrupt at  *)
(* a time, HandleInterrupt puts them together, HandleKey turns a whole code  *)
(* into an event, and PushEvent sets the lights when a lock key comes up.    *)
(*                                                                         *)
(* The keyboard itself is outside the code: it sends the make or the break  *)
(* code of a key, and acknowledges each byte written to it.  A ReadData that *)
(* nothing answers yet returns the byte that was read last.                 *)
(***************************************************************************)
EXTENDS Naturals, Sequences, FiniteSets, KeyTables

CONSTANTS Keys,       \* the keys that are pressed and released
          MaxStrokes  \* bound on the number of strokes

VARIABLES wire,                \* bytes on their way from the keyboard
          m_ScanCodeMetadata, m_scancode, m_light_states,
          events,              \* what PushEvent has passed on
          strokes,             \* the strokes made, the oldest first
          down,                \* the keys held down
          swallowed,           \* a scan code byte was taken for an answer
          clean                \* the memory of the metadata held zeros

kbd == <<wire, m_ScanCodeMetadata, m_scancode, m_light_states, events, strokes, down, swallowed,
         clean>>

ACK == 250
Extended == 224
Release == 240

(* What the keyboard sends for a stroke (scan code set 2).                    *)
Code(key, pressed) ==
    CASE key = "KC_PAUSE" -> <<225, 20, 119, 225, 240, 20, 240, 119>>
      [] key = "KC_PRINTSCREEN" /\ pressed -> <<224, 18, 224, 124>>
      [] key = "KC_PRINTSCREEN" /\ ~pressed -> <<224, 240, 124, 224, 240, 18>>
      [] \E b \in DOMAIN ExtendedKey : ExtendedKey[b] = key ->
            LET b == CHOOSE x \in DOMAIN ExtendedKey : ExtendedKey[x] = key IN
            IF pressed THEN <<Extended, b>> ELSE <<Extended, Release, b>>
      [] OTHER ->
            LET b == CHOOSE x \in DOMAIN PlainKey : PlainKey[x] = key IN
            IF pressed THEN <<b>> ELSE <<Release, b>>

Metadata == [{"e0", "e1", "release", "special", "ignore_next"} -> BOOLEAN]
Fresh == [flag \in {"e0", "e1", "release", "special", "ignore_next"} |-> FALSE]

(* The constructor leaves m_ScanCodeMetadata as it finds the memory.           *)
Init ==
    /\ wire = <<>> /\ m_scancode = <<>> /\ m_light_states = {}
    /\ m_ScanCodeMetadata \in Metadata /\ clean = (m_ScanCodeMetadata = Fresh)
    /\ events = <<>> /\ strokes = <<>> /\ down = {} /\ swallowed = FALSE

(* A key goes down, repeats or comes up (not the driver's code).              *)
Stroke(key, pressed) ==
    /\ Len(strokes) < MaxStrokes
    /\ pressed \/ key \in down
    /\ key = "KC_PAUSE" => pressed
    /\ wire' = wire \o Code(key, pressed)
    /\ strokes' = Append(strokes, [keyCode |-> key, pressed |-> pressed])
    /\ down' = IF pressed /\ key # "KC_PAUSE" THEN down \cup {key} ELSE down \ {key}
    /\ UNCHANGED <<m_ScanCodeMetadata, m_scancode, m_light_states, events, swallowed, clean>>

Event(key, pressed) == [keyCode |-> key, pressed |-> pressed]

(* HandleKey: the events a whole code stands for.  The pressed field of an     *)
(* unknown extended code is not set; it is taken as FALSE.                     *)
HandleKey(code) ==
    LET size == Len(code)
        break == code[1] = Release
        byte == code[size]
        table == IF code[1] = Extended THEN ExtendedKey ELSE PlainKey
    IN CASE size \in {4, 6} /\ code[1] = Extended -> <<Event("KC_PRINTSCREEN", size = 4)>>
         [] size = 8 /\ code[1] = 225 -> <<Event("KC_PAUSE", TRUE), Event("KC_PAUSE", FALSE)>>
         [] size <= 2 /\ code[1] # Extended /\ byte = ACK -> <<>>
         [] \/ size = 2 /\ code[1] = Extended
            \/ size = 3 /\ code[1] = Extended /\ code[2] = Release
            \/ size = 1
            \/ size = 2 /\ break ->
               <<Event(IF byte \in DOMAIN table THEN table[byte] ELSE "KC_UNKNOWN",
                       ~ (break \/ size = 3))>>
         [] OTHER -> <<Event("KC_UNKNOWN", FALSE)>>

LockKeys == {"KC_CAPSLOCK", "KC_NUMLOCK", "KC_SCROLLLOCK"}

(* SendCommandToDevice writes the command and the mask, which the keyboard     *)
(* acknowledges one by one behind what it has already sent, and reads one byte: *)
(* the first on the wire, or a stale one when nothing has arrived.             *)
SendCommandToDevice(pending) ==
    \/ /\ wire' = pending \o <<ACK, ACK>>
       /\ UNCHANGED swallowed
    \/ /\ wire' = Tail(pending \o <<ACK, ACK>>)
       /\ swallowed' = (swallowed \/ (pending # <<>> /\ Head(pending) # ACK))

\* A light that is on goes off, and one that is off comes on.
Turned(locks) == (m_light_states \ locks) \cup (locks \ m_light_states)

(* PushEvent: a lock key that comes up turns its light over.                   *)
PushEvent(es, pending) ==
    LET locks == {es[i].keyCode : i \in {j \in DOMAIN es : ~es[j].pressed}} \cap LockKeys IN
    /\ events' = events \o es
    /\ \/ /\ locks = {}
          /\ wire' = pending
          /\ UNCHANGED <<m_light_states, swallowed>>
       \/ /\ locks # {}
          /\ m_light_states' = Turned(locks)
          /\ SendCommandToDevice(pending)

(* HandleInterrupt's tests, in their order, on the byte just stored: what the   *)
(* metadata becomes, and whether the code is whole.                            *)
Marked(md, code) ==
    LET data == code[Len(code)]
        bare == ~md.e0 /\ ~md.e1 /\ ~md.special
    IN CASE bare /\ data = Extended -> [md EXCEPT !.e0 = TRUE]
         [] bare /\ data = 225 -> [md EXCEPT !.e1 = TRUE]
         [] ~md.release /\ data = Release -> [md EXCEPT !.release = TRUE]
         [] ~md.special /\ md.e0 /\ data = (IF md.release THEN 124 ELSE 18) ->
               [md EXCEPT !.special = TRUE]
         [] OTHER -> md

\* Fault: print screen's break code is taken to be as short as its make code.
CodeLengthMake(md) == IF md.e1 THEN 8 ELSE IF md.special THEN 4 ELSE 0

\* The bytes of the codes of pause and print screen.
CodeLength(md) == IF md.e1 THEN 8 ELSE IF ~md.special THEN 0 ELSE IF md.release THEN 6 ELSE 4

Whole(md, code) == Marked(md, code) = md /\ Len(code) >= CodeLength(md)

(* A byte past the eight of m_scancode is written outside it; nothing is said  *)
(* of what follows.                                                            *)
HandleInterrupt ==
    LET code == Append(m_scancode, Head(wire))
        md == m_ScanCodeMetadata
    IN /\ wire # <<>> /\ Len(m_scancode) < 8
       /\ IF md.ignore_next
          THEN /\ m_ScanCodeMetadata' = [md EXCEPT !.ignore_next = FALSE]
               /\ wire' = Tail(wire)
               /\ UNCHANGED <<m_scancode, m_light_states, events, swallowed>>
          ELSE IF Whole(md, code)
          THEN /\ m_scancode' = <<>>
               /\ m_ScanCodeMetadata' = Fresh
               /\ PushEvent(HandleKey(code), Tail(wire))
          ELSE /\ m_scancode' = code
               /\ m_ScanCodeMetadata' = Marked(md, code)
               /\ wire' = Tail(wire)
               /\ UNCHANGED <<m_light_states, events, swallowed>>
       /\ UNCHANGED <<strokes, down, clean>>

Next == HandleInterrupt \/ \E key \in Keys, pressed \in BOOLEAN : Stroke(key, pressed)

Spec == Init /\ [][Next]_kbd

---------------------------------------------------------------------------
\* Type correctness.
TypeOK ==
    /\ m_ScanCodeMetadata \in Metadata
    /\ Len(m_scancode) <= (IF clean THEN 7 ELSE 8)
    /\ m_light_states \subseteq LockKeys
    /\ swallowed \in BOOLEAN

(* The events a stroke should give: pause has no break code and gives both.    *)
Expected(s) ==
    IF s.keyCode = "KC_PAUSE" THEN <<s, Event("KC_PAUSE", FALSE)>> ELSE <<s>>

ExpectedAll[n \in Nat] == IF n = 0 THEN <<>> ELSE ExpectedAll[n - 1] \o Expected(strokes[n])

(* The events HandleKey makes of the bytes are the strokes, in order, whatever  *)
(* bytes the interrupts find on the wire and although the keyboard's            *)
(* acknowledgements come between them: as long as the metadata began as zeros   *)
(* and PushEvent's ReadData has not taken a scan code byte for an answer.       *)
StrokesInOrder ==
    (clean /\ ~swallowed) => LET all == ExpectedAll[Len(strokes)] IN
        /\ Len(events) <= Len(all)
        /\ events = SubSeq(all, 1, Len(events))
        /\ wire = <<>> => events = all

(* A light is on exactly when its key has come up an odd number of times among  *)
(* the events, so that the lights and KeyboardInput's lock states agree.        *)
LightsAgree ==
    \A k \in LockKeys :
        (k \in m_light_states) =
            (Cardinality({i \in DOMAIN events : events[i] = Event(k, FALSE)}) % 2 = 1)
=============================================================================
