---------------------------- MODULE KeyboardInput ----------------------------
(***************************************************************************)
(* Keyboard events become characters in a Buffer, in the keyboard's          *)
(* interrupt, which goes to the first processor; a thread in TTY::getc takes *)
(* them out with GetChar, on any processor.  No lock guards the offsets, the *)
(* count and the blocks: a step here is a load or a store of one of them.    *)
(* One thread reads.                                                         *)
(***************************************************************************)
EXTENDS Integers, Sequences, TLC

CONSTANTS Keys,         \* keys that are pressed and released
          m_blockSize,  \* bytes in a block of the buffer (64 in the code)
          MaxTyped      \* bound on the characters typed

VARIABLES m_blocks, m_bufferOffset, m_bufferReadOffset, m_bufferSize, m_keyboardState,
          append,       \* where AppendChar is: [pc, c, what it has loaded]
          getchar,      \* where GetChar is: [pc, c, rc or what it has loaded]
          held,         \* modifier and lock keys down, as the events tell
          unread,       \* characters typed and not yet returned
          typed,        \* how many have been typed
          lost,         \* "crossed": GetChar and AppendChar went on at once;
                        \* "slipped": a block went with unread characters behind it;
                        \* "list": a block went while Write walked the list
          returned      \* the last character returned, and the one due

input == <<m_blocks, m_bufferOffset, m_bufferReadOffset, m_bufferSize, m_keyboardState,
           append, getchar, held, unread, typed, lost, returned>>

(* The buffer's operators; the calls of its own specification are not used.    *)
B == INSTANCE Buffer WITH Bytes <- {}, MaxSize <- 0, call <- getchar

(* <<alone, with shift or caps lock, with control>>                            *)
Letter ==
       "KC_A" :> <<"a", "A", "^A">> @@ "KC_B" :> <<"b", "B", "^B">>
    @@ "KC_C" :> <<"c", "C", "^C">> @@ "KC_D" :> <<"d", "D", "^D">>
    @@ "KC_E" :> <<"e", "E", "^E">> @@ "KC_F" :> <<"f", "F", "^F">>
    @@ "KC_G" :> <<"g", "G", "^G">> @@ "KC_H" :> <<"h", "H", "^H">>
    @@ "KC_I" :> <<"i", "I", "^I">> @@ "KC_J" :> <<"j", "J", "^J">>
    @@ "KC_K" :> <<"k", "K", "^K">> @@ "KC_L" :> <<"l", "L", "^L">>
    @@ "KC_M" :> <<"m", "M", "^M">> @@ "KC_N" :> <<"n", "N", "^N">>
    @@ "KC_O" :> <<"o", "O", "^O">> @@ "KC_P" :> <<"p", "P", "^P">>
    @@ "KC_Q" :> <<"q", "Q", "^Q">> @@ "KC_R" :> <<"r", "R", "^R">>
    @@ "KC_S" :> <<"s", "S", "^S">> @@ "KC_T" :> <<"t", "T", "^T">>
    @@ "KC_U" :> <<"u", "U", "^U">> @@ "KC_V" :> <<"v", "V", "^V">>
    @@ "KC_W" :> <<"w", "W", "^W">> @@ "KC_X" :> <<"x", "X", "^X">>
    @@ "KC_Y" :> <<"y", "Y", "^Y">> @@ "KC_Z" :> <<"z", "Z", "^Z">>

(* <<alone, with shift, with shift and control>>                               *)
Digit ==
       "KC_0" :> <<"0", ")", ")">> @@ "KC_1" :> <<"1", "!", "!">>
    @@ "KC_2" :> <<"2", "@", "NUL">> @@ "KC_3" :> <<"3", "#", "#">>
    @@ "KC_4" :> <<"4", "$", "$">> @@ "KC_5" :> <<"5", "%", "%">>
    @@ "KC_6" :> <<"6", "^", "RS">> @@ "KC_7" :> <<"7", "&", "&">>
    @@ "KC_8" :> <<"8", "*", "*">> @@ "KC_9" :> <<"9", "(", "(">>

(* <<alone, with shift, with control, with both>>                              *)
Punctuation ==
       "KC_SPACE" :> <<" ", " ", " ", " ">> @@ "KC_MINUS" :> <<"-", "_", "-", "US">>
    @@ "KC_EQUALS" :> <<"=", "+", "=", "+">> @@ "KC_LBRACKET" :> <<"[", "{", "ESC", "{">>
    @@ "KC_RBRACKET" :> <<"]", "}", "GS", "}">>
    @@ "KC_BACKSLASH" :> <<"\\", "|", "FS", "|">>
    @@ "KC_SEMICOLON" :> <<";", ":", ";", ":">>
    @@ "KC_APOSTROPHE" :> <<"'", "\"", "'", "\"">> @@ "KC_COMMA" :> <<",", "<", ",", "<">>
    @@ "KC_PERIOD" :> <<".", ">", ".", ">">> @@ "KC_SLASH" :> <<"/", "?", "/", "?">>
    @@ "KC_GRAVE" :> <<"grave", "tilde", "grave", "tilde">>

NumPad ==
       "KC_NUMPAD_0" :> "0" @@ "KC_NUMPAD_1" :> "1" @@ "KC_NUMPAD_2" :> "2"
    @@ "KC_NUMPAD_3" :> "3" @@ "KC_NUMPAD_4" :> "4" @@ "KC_NUMPAD_5" :> "5"
    @@ "KC_NUMPAD_6" :> "6" @@ "KC_NUMPAD_7" :> "7" @@ "KC_NUMPAD_8" :> "8"
    @@ "KC_NUMPAD_9" :> "9"

Plain ==
       "KC_TAB" :> "TAB" @@ "KC_ENTER" :> "LF" @@ "KC_BACKSPACE" :> "BS"
    @@ "KC_ESC" :> "ESC" @@ "KC_DEL" :> "DEL" @@ "KC_NUMPAD_ENTER" :> "LF"
    @@ "KC_NUMPAD_PLUS" :> "+" @@ "KC_NUMPAD_MINUS" :> "-" @@ "KC_NUMPAD_ASTERISK" :> "*"
    @@ "KC_NUMPAD_SLASH" :> "/"

Modifier ==
       "KC_LCTRL" :> "control" @@ "KC_RCTRL" :> "control" @@ "KC_LSHIFT" :> "shift"
    @@ "KC_RSHIFT" :> "shift" @@ "KC_LALT" :> "alt" @@ "KC_RALT" :> "alt"
Lock == "KC_CAPSLOCK" :> "caps_lock" @@ "KC_NUMLOCK" :> "num_lock"

Special == DOMAIN Modifier \cup DOMAIN Lock

NoChar == <<>>

(* HandleEvent: the characters a pressed key appends, none or one.             *)
Chars(key, st) ==
    CASE key \in DOMAIN Letter ->
            IF st.control THEN <<Letter[key][3]>>
            ELSE IF st.alt THEN NoChar
            ELSE <<Letter[key][IF st.shift \/ st.caps_lock THEN 2 ELSE 1]>>
      [] key \in DOMAIN Digit ->
            <<Digit[key][IF ~st.shift THEN 1 ELSE IF st.control THEN 3 ELSE 2]>>
      [] key \in DOMAIN NumPad -> IF st.num_lock THEN <<NumPad[key]>> ELSE NoChar
      [] key \in DOMAIN Punctuation ->
            <<Punctuation[key][1 + (IF st.shift THEN 1 ELSE 0) + (IF st.control THEN 2 ELSE 0)]>>
      [] key \in DOMAIN Plain -> <<Plain[key]>>
      [] key = "KC_NUMPAD_PERIOD" -> IF st.num_lock THEN <<".">> ELSE <<"DEL">>
      [] OTHER -> NoChar

\* What an event does to the modifiers.
StateAfter(st, key, pressed) ==
    CASE key \in DOMAIN Modifier -> [st EXCEPT ![Modifier[key]] = pressed]
      [] key \in DOMAIN Lock /\ ~pressed -> [st EXCEPT ![Lock[key]] = ~@]
      [] OTHER -> st

Idle == [pc |-> "none", c |-> "", reg |-> 0]

Init ==
    /\ m_blocks = B!AddBlock(<<>>, m_blockSize)
    /\ m_bufferOffset = 0 /\ m_bufferReadOffset = 0 /\ m_bufferSize = 0
    /\ m_keyboardState = [k \in {"control", "shift", "alt", "caps_lock", "num_lock"} |-> FALSE]
    /\ append = Idle /\ getchar = Idle /\ held = {} /\ unread = <<>> /\ typed = 0
    /\ lost = {} /\ returned = <<"", "">>

(* An event from the keyboard's interrupt.  AppendChar, which ends it, first    *)
(* loads m_bufferOffset.                                                       *)
HandleEvent(key, pressed) ==
    LET chars == IF pressed THEN Chars(key, m_keyboardState) ELSE NoChar IN
    /\ append.pc = "none" /\ "list" \notin lost
    /\ typed + Len(chars) <= MaxTyped
    /\ pressed \/ key \in held
    /\ held' = IF pressed THEN held \cup ({key} \cap Special) ELSE held \ {key}
    /\ m_keyboardState' = StateAfter(m_keyboardState, key, pressed)
    /\ append' = IF chars = NoChar THEN Idle
                 ELSE [pc |-> "advance", c |-> Head(chars), reg |-> m_bufferOffset]
    /\ unread' = unread \o chars
    /\ typed' = typed + Len(chars)
    /\ lost' = lost \cup IF chars # NoChar /\ getchar.pc = "counted" THEN {"crossed"} ELSE {}
    /\ UNCHANGED <<m_blocks, m_bufferOffset, m_bufferReadOffset, m_bufferSize, getchar, returned>>

AppendAt(pc) == append.pc = pc /\ "list" \notin lost
AppendOnly == UNCHANGED <<m_bufferReadOffset, m_keyboardState, getchar, held, unread, typed, returned>>

AppendAdvance ==
    /\ AppendAt("advance")
    /\ m_bufferOffset' = append.reg + 1
    /\ append' = [append EXCEPT !.pc = "write"]
    /\ AppendOnly /\ UNCHANGED <<m_blocks, m_bufferSize, lost>>

(* Buffer::Write walks the list of blocks, and AppendStore ends it.  A list      *)
(* that loses a block meanwhile is not followed further.                        *)
AppendWrite ==
    /\ AppendAt("write")
    /\ append' = [append EXCEPT !.pc = "writing"]
    /\ lost' = lost \cup IF getchar.pc = "deleting" THEN {"list"} ELSE {}
    /\ AppendOnly /\ UNCHANGED <<m_blocks, m_bufferOffset, m_bufferSize>>

AppendStore ==
    /\ AppendAt("writing")
    /\ m_blocks' = B!Put(m_blocks, append.reg, <<append.c>>)
    /\ append' = [append EXCEPT !.pc = "count"]
    /\ AppendOnly /\ UNCHANGED <<m_bufferOffset, m_bufferSize, lost>>

(* m_bufferSize++ is no locked instruction: a load and a store.                *)
AppendCount ==
    /\ AppendAt("count")
    /\ append' = [append EXCEPT !.pc = "counted", !.reg = m_bufferSize]
    /\ AppendOnly /\ UNCHANGED <<m_blocks, m_bufferOffset, m_bufferSize, lost>>

AppendCounted ==
    /\ AppendAt("counted")
    /\ m_bufferSize' = append.reg + 1
    /\ append' = Idle
    /\ AppendOnly /\ UNCHANGED <<m_blocks, m_bufferOffset, lost>>

AppendChar ==
    AppendAdvance \/ AppendWrite \/ AppendStore \/ AppendCount \/ AppendCounted

(* A step of GetChar.  On the processor the interrupt came to, there is none     *)
(* before AppendChar has ended, and no interrupt comes inside m_bufferSize--;    *)
(* on another one there is: "crossed".                                          *)
ReaderAt(pc) == getchar.pc = pc /\ "list" \notin lost
Crossing == IF append.pc = "none" THEN {} ELSE {"crossed"}
ReaderOnly == UNCHANGED <<m_keyboardState, append, held, typed>>

GetCharRead ==
    /\ ReaderAt("none") /\ m_bufferSize > 0
    /\ getchar' = [getchar EXCEPT !.pc = "clear",
                     !.c = LET got == B!Get(m_blocks, m_bufferReadOffset, 1) IN
                           IF got = <<>> THEN "EOF" ELSE got[1]]
    /\ lost' = lost \cup Crossing
    /\ ReaderOnly /\ UNCHANGED <<m_blocks, m_bufferOffset, m_bufferReadOffset, m_bufferSize, unread, returned>>

(* ClearUntil: the bytes it zeroes are no others than those already read, and   *)
(* it is over in a step unless it deletes blocks.                               *)
ToClear == B!ClearedUntil(m_blocks, m_bufferReadOffset + 1)
GetCharClear ==
    /\ ReaderAt("clear")
    /\ IF ToClear.deleted = 0
       THEN m_blocks' = ToClear.blocks /\ getchar' = [getchar EXCEPT !.pc = "adjust", !.reg = 0]
       ELSE UNCHANGED m_blocks /\ getchar' = [getchar EXCEPT !.pc = "deleting"]
    /\ lost' = lost \cup Crossing
                    \cup IF ToClear.deleted > 0 /\ append.pc = "writing" THEN {"list"} ELSE {}
    /\ ReaderOnly /\ UNCHANGED <<m_bufferOffset, m_bufferReadOffset, m_bufferSize, unread, returned>>

GetCharDelete ==
    /\ ReaderAt("deleting")
    /\ m_blocks' = ToClear.blocks
    /\ getchar' = [getchar EXCEPT !.pc = "adjust", !.reg = ToClear.deleted]
    /\ lost' = lost \cup Crossing
    /\ ReaderOnly /\ UNCHANGED <<m_bufferOffset, m_bufferReadOffset, m_bufferSize, unread, returned>>

(* The offsets after ClearUntil: one further, or both zero after a block went.  *)
(* m_bufferOffset is compared in one step and set in the next.                  *)
GetCharAdjust ==
    /\ ReaderAt("adjust")
    /\ IF getchar.reg > 0 /\ m_bufferOffset >= m_bufferReadOffset
       THEN getchar' = [getchar EXCEPT !.pc = "reset"] /\ UNCHANGED m_bufferReadOffset
       ELSE /\ getchar' = [getchar EXCEPT !.pc = "count"]
            /\ m_bufferReadOffset' = IF getchar.reg > 0 THEN 0 ELSE m_bufferReadOffset + 1
    /\ lost' = lost \cup Crossing
    /\ ReaderOnly /\ UNCHANGED <<m_blocks, m_bufferOffset, m_bufferSize, unread, returned>>

GetCharReset ==
    /\ ReaderAt("reset")
    /\ m_bufferOffset' = 0 /\ m_bufferReadOffset' = 0
    /\ lost' = lost \cup Crossing
                    \cup IF m_bufferOffset # m_bufferReadOffset + 1 THEN {"slipped"} ELSE {}
    /\ getchar' = [getchar EXCEPT !.pc = "count"]
    /\ ReaderOnly /\ UNCHANGED <<m_blocks, m_bufferSize, unread, returned>>

GetCharCount ==
    /\ ReaderAt("count")
    /\ getchar' = [getchar EXCEPT !.pc = "counted", !.reg = m_bufferSize]
    /\ lost' = lost \cup Crossing
    /\ ReaderOnly /\ UNCHANGED <<m_blocks, m_bufferOffset, m_bufferReadOffset, m_bufferSize, unread, returned>>

\* TTY::getc calls again when it was EOF.
GetCharReturn ==
    /\ ReaderAt("counted")
    /\ m_bufferSize' = getchar.reg - 1
    /\ IF getchar.c = "EOF" THEN UNCHANGED <<returned, unread>>
       ELSE /\ returned' = <<getchar.c, IF unread = <<>> THEN "none" ELSE Head(unread)>>
            /\ unread' = IF unread = <<>> THEN <<>> ELSE Tail(unread)
    /\ getchar' = Idle
    /\ lost' = lost \cup Crossing
    /\ ReaderOnly /\ UNCHANGED <<m_blocks, m_bufferOffset, m_bufferReadOffset>>

GetChar ==
    \/ GetCharRead \/ GetCharClear \/ GetCharDelete \/ GetCharAdjust \/ GetCharReset
    \/ GetCharCount \/ GetCharReturn

Next ==
    \/ \E key \in Keys, pressed \in BOOLEAN : HandleEvent(key, pressed)
    \/ AppendChar
    \/ GetChar

Spec == Init /\ [][Next]_input

---------------------------------------------------------------------------
\* Type correctness.
TypeOK ==
    /\ m_bufferOffset \in Nat /\ m_bufferReadOffset \in Nat /\ m_bufferSize \in Nat
    /\ m_keyboardState \in [{"control", "shift", "alt", "caps_lock", "num_lock"} -> BOOLEAN]
    /\ append.pc \in {"none", "advance", "write", "writing", "count", "counted"}
    /\ getchar.pc \in {"none", "clear", "deleting", "adjust", "reset", "count", "counted"}
    /\ lost \subseteq {"crossed", "slipped", "list"}

(* "Get first character in buffer": GetChar returns the first character of      *)
(* those typed and not yet read.                                                *)
FirstCharacter == returned[1] = returned[2]

(* On one processor, with interrupts between any two steps of GetChar, it does,  *)
(* until a block is deleted while characters behind it are still unread; so far  *)
(* the unread characters lie in the buffer from the read offset on, and          *)
(* m_bufferSize counts them (between two calls).                                 *)
OneProcessor ==
    lost = {} =>
        /\ FirstCharacter
        /\ getchar.pc = "none" /\ append.pc = "none" =>
               /\ m_bufferSize = Len(unread)
               /\ B!Get(m_blocks, m_bufferReadOffset, m_bufferSize) = unread

(* A modifier is set only while one of its two keys is held: HandleEvent treats *)
(* left and right as one key, so it may be off while one is held, never on      *)
(* while none is.                                                               *)
ModifiersHeld ==
    \A key \in DOMAIN Modifier :
        m_keyboardState[Modifier[key]] => \E k \in held : k \in DOMAIN Modifier /\ Modifier[k] = Modifier[key]
=============================================================================
