------------------------------ MODULE Terminal ------------------------------
(***************************************************************************)
(* The text console: TTY::putc on BasicVGA, which draws characters into the  *)
(* frame buffer or, once double buffering is on, into a back buffer that     *)
(* SwapBuffers copies over.  Pixels are abstracted to character cells, ten   *)
(* by sixteen of them.                                                      *)
(*                                                                         *)
(* Threads call it from every processor, and sys_write holds no lock but    *)
(* that of the thread's own descriptor.  A call begins and ends in steps of *)
(* their own; two that go on at once have `mixed` their cursor, and what     *)
(* they leave behind is not followed.                                       *)
(*                                                                         *)
(* `paper` is what was printed as it would stand on an endless sheet, with   *)
(* `top` rows scrolled off its upper end: the reference for the screen.       *)
(***************************************************************************)
EXTENDS Integers, FiniteSets

CONSTANTS Columns, Rows,  \* FrameBufferWidth / 10 and FrameBufferHeight / 16
          Printable,      \* characters the font has
          Threads,        \* the threads that print
          MaxRow          \* bound on the rows of paper

\* The screen has a cell, and the bound leaves room for it.
Glass ==
    /\ Columns \in Nat \ {0} /\ Rows \in Nat \ {0} /\ MaxRow \in Nat
    /\ Rows - 1 <= MaxRow

VARIABLES front,          \* the frame buffer's cells
          m_buffer,       \* the back buffer's cells
          m_DoubleBuffer, m_CursorPosition,
          paper, top,
          scrolled,       \* a scroll while double buffering was on, since the last
                          \* clearing of the screen
          calls,          \* the call that each thread is in
          mixed, panicked

terminal == <<front, m_buffer, m_DoubleBuffer, m_CursorPosition, paper, top, scrolled, calls,
              mixed, panicked>>

Blank == " "
Cells == (0 .. Rows - 1) \X (0 .. Columns - 1)
Clean == [c \in Cells |-> Blank]
Sheet == (0 .. MaxRow + 4) \X (0 .. Columns - 1)
At(row, column) == [y |-> row, x |-> column]

(* A screen in the middle of its work: what PlotPixel draws on, and the rest.  *)
Now == [front |-> front, back |-> m_buffer, at |-> m_CursorPosition, paper |-> paper, top |-> top,
        scrolled |-> scrolled]

Draw(s, cell, c) ==
    [(IF m_DoubleBuffer THEN [s EXCEPT !.back[cell] = c] ELSE [s EXCEPT !.front[cell] = c])
        EXCEPT !.paper[<<s.top + cell[1], cell[2]>>] = c]

\* Fault: the last row stays as it was.
ScrollTextKeep(s) ==
    [s EXCEPT !.front = [c \in Cells |-> IF c[1] = Rows - 1 THEN @[c] ELSE @[<<c[1] + 1, c[2]>>]],
              !.at.y = @ - 1, !.top = @ + 1, !.scrolled = @ \/ m_DoubleBuffer]

\* ScrollText moves the frame buffer up, whichever buffer is drawn on.
ScrollText(s) ==
    [s EXCEPT !.front = [c \in Cells |-> IF c[1] = Rows - 1 THEN Blank ELSE @[<<c[1] + 1, c[2]>>]],
              !.at.y = @ - 1, !.top = @ + 1, !.scrolled = @ \/ m_DoubleBuffer]

\* Fault: it scrolls one row late.
NewLineLate(s) ==
    LET down == [s EXCEPT !.at = At(@.y + 1, 0)] IN
    IF down.at.y > Rows THEN ScrollText(down) ELSE down

NewLine(s) ==
    LET down == [s EXCEPT !.at = At(@.y + 1, 0)] IN
    IF down.at.y >= Rows THEN ScrollText(down) ELSE down

(* BasicVGA::putc: draw, step right, wrap.                                      *)
Step(s) == IF s.at.x + 1 >= Columns THEN NewLine(s) ELSE [s EXCEPT !.at.x = @ + 1]
DrawChar(s, c) == Step(Draw(s, <<s.at.y, s.at.x>>, c))

(* Backspace.                                                                  *)
Rewound(p) == IF p.x = 0 THEN At(p.y - 1, Columns - 1) ELSE At(p.y, p.x - 1)
Backspace(s) ==
    IF s.at.x = 0 /\ s.at.y = 0 THEN s
    ELSE LET p == Rewound(s.at) IN Draw([s EXCEPT !.at = p], <<p.y, p.x>>, Blank)

(* The cells of the buffer that is drawn on, and those of the sheet in view.    *)
ClearScreen(s) ==
    LET wiped == [c \in Sheet |-> IF c[1] >= s.top THEN Blank ELSE s.paper[c]] IN
    IF m_DoubleBuffer THEN [s EXCEPT !.back = Clean, !.paper = wiped, !.scrolled = FALSE]
    ELSE [s EXCEPT !.front = Clean, !.paper = wiped, !.scrolled = FALSE]

Init ==
    /\ front = Clean /\ m_buffer = Clean /\ m_DoubleBuffer = FALSE
    /\ m_CursorPosition = At(0, 0)
    /\ paper = [c \in Sheet |-> Blank] /\ top = 0 /\ scrolled = FALSE
    /\ calls = [t \in Threads |-> "none"] /\ mixed = FALSE /\ panicked = FALSE

Becomes(s) ==
    /\ s.top + Rows - 1 <= MaxRow
    /\ front' = s.front /\ m_buffer' = s.back /\ m_CursorPosition' = s.at
    /\ paper' = s.paper /\ top' = s.top /\ scrolled' = s.scrolled

Tab(s) == DrawChar(DrawChar(DrawChar(DrawChar(s, Blank), Blank), Blank), Blank)

(* TTY::putc.  A character the font lacks, and '\a', change nothing.            *)
putc(c) ==
    CASE c = "BS" -> Backspace(Now)
      [] c \in {"LF", "VT"} -> NewLine(Now)
      [] c = "TAB" -> Tab(Now)
      [] c = "CR" -> [Now EXCEPT !.at.x = 0]
      [] c = "FF" -> [ClearScreen(Now) EXCEPT !.at = At(0, 0)]
      [] c \in Printable -> DrawChar(Now, c)
      [] OTHER -> Now

\* sys_write's last step.
SwapBuffers == IF m_DoubleBuffer THEN [Now EXCEPT !.front = m_buffer] ELSE Now

(* Thread::Start saves the cursor, the descriptors it makes put it on the first *)
(* cell, and it is put back: alone, nothing changes.                            *)
Start == Now

Running == ~mixed /\ ~panicked
Busy == \E t \in Threads : calls[t] # "none"

Enter(t, c) ==
    /\ Running /\ calls[t] = "none"
    /\ IF Busy THEN mixed' = TRUE /\ UNCHANGED calls
       ELSE calls' = [calls EXCEPT ![t] = c] /\ UNCHANGED mixed
    /\ UNCHANGED <<front, m_buffer, m_DoubleBuffer, m_CursorPosition, paper, top, scrolled, panicked>>

Leave(t) ==
    /\ Running /\ calls[t] # "none"
    /\ Becomes(CASE calls[t] = "swap" -> SwapBuffers
                 [] calls[t] = "start" -> Start
                 [] OTHER -> putc(calls[t]))
    /\ calls' = [calls EXCEPT ![t] = "none"]
    /\ UNCHANGED <<m_DoubleBuffer, mixed, panicked>>

(* The kernel's start, before there is a second thread.  The allocation may     *)
(* fail, and then nothing changes.  The back buffer starts blank, whatever is   *)
(* on the screen.                                                              *)
EnableDoubleBuffering ==
    /\ Running /\ ~m_DoubleBuffer /\ ~Busy
    /\ m_DoubleBuffer' = TRUE
    /\ m_buffer' = Clean
    /\ paper' = [c \in Sheet |-> Blank]
    /\ UNCHANGED <<front, m_CursorPosition, top, scrolled, calls, mixed, panicked>>

(* x86_64_Panic clears the screen, goes to its first cell and swaps.  A call    *)
(* that another thread is in goes on meanwhile.                                *)
Panic ==
    LET s == ClearScreen(Now) IN
    /\ Running /\ panicked' = TRUE
    /\ mixed' = Busy
    /\ m_CursorPosition' = At(0, 0)
    /\ m_buffer' = s.back
    /\ front' = IF m_DoubleBuffer THEN s.back ELSE s.front
    /\ paper' = s.paper /\ scrolled' = s.scrolled
    /\ UNCHANGED <<m_DoubleBuffer, top, calls>>

Next ==
    \/ \E t \in Threads :
          \/ \E c \in Printable \cup {"BS", "BEL", "LF", "TAB", "CR", "FF", "swap", "start"} : Enter(t, c)
          \/ Leave(t)
    \/ EnableDoubleBuffering \/ Panic

Spec == Init /\ [][Next]_terminal

---------------------------------------------------------------------------
(* What the paper shows in the window of the screen.                           *)
InView == [c \in Cells |-> paper[<<top + c[1], c[2]>>]]

(* The cursor is on a cell between two calls.                                  *)
TypeOK ==
    /\ <<m_CursorPosition.y, m_CursorPosition.x>> \in Cells
    /\ front \in [Cells -> Printable \cup {Blank}]
    /\ m_DoubleBuffer \in BOOLEAN /\ mixed \in BOOLEAN

(* As long as no two calls go on at once, the buffer that is drawn on holds the *)
(* last rows of what was printed, wrapped, scrolled and rubbed out as on paper. *)
(* With double buffering this is so from each clearing of the screen to the     *)
(* next scroll: ScrollText moves the frame buffer and leaves the back buffer,   *)
(* so that the next swap brings the unscrolled rows back.                       *)
ShowsPaper ==
    ~mixed => IF m_DoubleBuffer THEN ~scrolled => m_buffer = InView ELSE front = InView
=============================================================================
