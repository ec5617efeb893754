------------------------------ MODULE KeyTables ------------------------------
(***************************************************************************)
(* The tables of HandleKey (PS2Keyboard.cpp): the keys of scan code set 2. *)
(***************************************************************************)
EXTENDS Naturals, TLC

(* HandleKey's tables: the key of the byte after E0, and of a byte alone.     *)
ExtendedKey ==
       17 :> "KC_RALT" @@ 20 :> "KC_RCTRL" @@ 31 :> "KC_LMETA" @@ 47 :> "KC_RMETA"
    @@ 74 :> "KC_NUMPAD_SLASH" @@ 90 :> "KC_NUMPAD_ENTER" @@ 105 :> "KC_END"
    @@ 107 :> "KC_LEFT" @@ 108 :> "KC_HOME" @@ 112 :> "KC_INSERT" @@ 113 :> "KC_DEL"
    @@ 114 :> "KC_DOWN" @@ 116 :> "KC_RIGHT" @@ 117 :> "KC_UP" @@ 122 :> "KC_PAGEDOWN"
    @@ 125 :> "KC_PAGEUP"

PlainKeyLow ==
       1 :> "KC_F9" @@ 3 :> "KC_F5" @@ 4 :> "KC_F3" @@ 5 :> "KC_F1" @@ 6 :> "KC_F2"
    @@ 7 :> "KC_F12" @@ 9 :> "KC_F10" @@ 10 :> "KC_F8" @@ 11 :> "KC_F6" @@ 12 :> "KC_F4"
    @@ 13 :> "KC_TAB" @@ 14 :> "KC_GRAVE" @@ 17 :> "KC_LALT" @@ 18 :> "KC_LSHIFT"
    @@ 20 :> "KC_LCTRL" @@ 21 :> "KC_Q" @@ 22 :> "KC_1" @@ 26 :> "KC_Z" @@ 27 :> "KC_S"
    @@ 28 :> "KC_A" @@ 29 :> "KC_W" @@ 30 :> "KC_2" @@ 33 :> "KC_C" @@ 34 :> "KC_X"
    @@ 35 :> "KC_D" @@ 36 :> "KC_E" @@ 37 :> "KC_4" @@ 38 :> "KC_3" @@ 41 :> "KC_SPACE"
    @@ 42 :> "KC_V" @@ 43 :> "KC_F" @@ 44 :> "KC_T" @@ 45 :> "KC_R" @@ 46 :> "KC_5"
    @@ 49 :> "KC_N" @@ 50 :> "KC_B" @@ 51 :> "KC_H" @@ 52 :> "KC_G" @@ 53 :> "KC_Y"
    @@ 54 :> "KC_6" @@ 58 :> "KC_M" @@ 59 :> "KC_J" @@ 60 :> "KC_U"

PlainKeyHigh ==
       61 :> "KC_7" @@ 62 :> "KC_8" @@ 65 :> "KC_COMMA" @@ 66 :> "KC_K" @@ 67 :> "KC_I"
    @@ 68 :> "KC_O" @@ 69 :> "KC_0" @@ 70 :> "KC_9" @@ 73 :> "KC_PERIOD"
    @@ 74 :> "KC_SLASH" @@ 75 :> "KC_L" @@ 76 :> "KC_SEMICOLON" @@ 77 :> "KC_P"
    @@ 78 :> "KC_MINUS" @@ 82 :> "KC_APOSTROPHE" @@ 84 :> "KC_LBRACKET"
    @@ 85 :> "KC_EQUALS" @@ 88 :> "KC_CAPSLOCK" @@ 89 :> "KC_RSHIFT" @@ 90 :> "KC_ENTER"
    @@ 91 :> "KC_RBRACKET" @@ 93 :> "KC_BACKSLASH" @@ 102 :> "KC_BACKSPACE"
    @@ 105 :> "KC_NUMPAD_1" @@ 107 :> "KC_NUMPAD_4" @@ 108 :> "KC_NUMPAD_7"
    @@ 112 :> "KC_NUMPAD_0" @@ 113 :> "KC_NUMPAD_PERIOD" @@ 114 :> "KC_NUMPAD_2"
    @@ 115 :> "KC_NUMPAD_5" @@ 116 :> "KC_NUMPAD_6" @@ 117 :> "KC_NUMPAD_8"
    @@ 118 :> "KC_ESC" @@ 119 :> "KC_NUMLOCK" @@ 120 :> "KC_F11" @@ 121 :> "KC_NUMPAD_PLUS"
    @@ 122 :> "KC_NUMPAD_3" @@ 123 :> "KC_NUMPAD_MINUS" @@ 124 :> "KC_NUMPAD_ASTERISK"
    @@ 125 :> "KC_NUMPAD_9" @@ 126 :> "KC_SCROLLLOCK" @@ 131 :> "KC_F7"

PlainKey == PlainKeyLow @@ PlainKeyHigh
=============================================================================
