------------------------- MODULE MCFilesAndDevices -------------------------
(***************************************************************************)
(* Files, devices and the functions of the C library, in one run: what a   *)
(* thread reads and writes, the tree of inodes and mounts, the keyboard from*)
(* its bytes to getc, the screen, the clock, and the functions that print, *)
(* parse and copy.  The models share no state, so a behaviour exercises the*)
(* one that "part" names.                                                  *)
(***************************************************************************)
EXTENDS MemoryMoves, TLC

CONSTANTS
    t1, t2, Threads, Keys, MaxStrokes

VARIABLES
    part, files, dir, tables, filesHung, inodes, roots, mounts, archive, cwd, opened,
    hung, printCopy, printSize, printFormat, printIndex, printStart, printMode, conv,
    printed, printBuffer, printLast, parseText, parseBase, parseKind, parseIndex,
    parseValue, is_negative, endptr, parseDone, wire, m_ScanCodeMetadata, m_scancode,
    m_light_states, events, strokes, down, swallowed, clean,
    inputBlocks, m_bufferOffset, m_bufferReadOffset, m_bufferSize, m_keyboardState,
    append, getchar, held, unread, typed, keysLost, returned, m_blocks, bufferCall, front,
    m_buffer, m_DoubleBuffer, m_CursorPosition, paper, top, scrolled, printing, mixed,
    panicked, shown,
    uip, clockMode, clockPc, attempt, time1, time2, ticked, result

fileVars == <<files, dir, tables, filesHung>>
treeVars == <<inodes, roots, mounts, archive, cwd, opened, hung>>
printVars == <<printCopy, printSize, printFormat, printIndex, printStart, printMode,
               conv, printed, printBuffer, printLast>>
parseVars == <<parseText, parseBase, parseKind, parseIndex, parseValue, is_negative,
               endptr, parseDone>>
kbd == <<wire, m_ScanCodeMetadata, m_scancode, m_light_states, events, strokes, down,
         swallowed, clean>>
inputVars == <<inputBlocks, m_bufferOffset, m_bufferReadOffset, m_bufferSize,
               m_keyboardState, append, getchar, held, unread, typed, keysLost, returned>>
bufVars == <<m_blocks, bufferCall>>
screenVars == <<front, m_buffer, m_DoubleBuffer, m_CursorPosition, paper, top, scrolled,
                printing, mixed, panicked>>
clockVars == <<shown, uip, clockMode, clockPc, attempt, time1, time2, ticked, result>>

\* One thread of root and one of a user.
Cred == [t \in {t1, t2} |-> IF t = t1 THEN [uid |-> 0, gid |-> 0] ELSE [uid |-> 1, gid |-> 1]]

\* What the initial file system holds: folders, a file and a link, at the root
\* and below.
Item(parent, name, type, target) ==
    [parent |-> parent, name |-> name, type |-> type, target |-> target,
     priv |-> [owner |-> 0, group |-> 0, acl |-> {<<"u", "r">>, <<"u", "w">>}]]

Archives ==
    {<<Item(<<>>, "d", "folder", <<>>), Item(<<>>, "l", "link", <<"d">>), Item(<<>>, "a", "file", <<>>)>>,
     <<Item(<<>>, "d", "folder", <<>>), Item(<<"d">>, "e", "folder", <<>>),
       Item(<<"d">>, "l", "link", <<"d", "e">>)>>}

Abs(names) == [abs |-> TRUE, names |-> names, slash |-> FALSE]
Rel(names) == [abs |-> FALSE, names |-> names, slash |-> FALSE]

Paths ==
    {Abs(<<>>), Abs(<<"d">>), Abs(<<"l">>), Abs(<<"d", "x">>), Abs(<<"l", "x">>), Abs(<<"d", "e">>),
     Abs(<<"d", "l", "x">>), Abs(<<"d", "e", "x">>), Abs(<<"d", "x", "..", "..", "a">>),
     Rel(<<".">>), Rel(<<"..">>), Rel(<<"x">>)}

\* printf on every combination of a few flags, widths, precisions and lengths,
\* alone and followed by a second conversion.
Conversions ==
    {<<"%">> \o f \o w \o p \o l \o sp :
        f \in {<<>>, <<"-">>, <<"0">>, <<"+">>, <<"#">>, <<" ", "0">>, <<"-", "0">>},
        w \in {<<>>, <<"1">>, <<"3">>, <<"*">>},
        p \in {<<>>, <<".">>, <<".", "2">>, <<".", "*">>},
        l \in {<<>>, <<"l">>},
        sp \in {<<"d">>, <<"x">>, <<"s">>}}

Formats ==
    Conversions \cup {cv \o <<"%", "2", "d">> : cv \in {x \in Conversions : Len(x) <= 4}}
        \cup {<<"%", ".", "2", ".">>, <<"%", "2">>, <<"%", "h", "h", "f">>, <<"%", "h", "o">>,
              <<"a", "%", "l", "l", "%", "a">>, <<"%", "z", "q", "c">>}

\* Dates around the ends of months, years and leap days, just before a tick
\* that carries.
Dates ==
    {<<y, m, d>> : y \in {1970, 1999, 2000, 2024, 2068}, m \in 1..12, d \in {1, 28}}
        \cup {<<2000, 2, 29>>, <<1999, 12, 31>>, <<2023, 2, 28>>, <<2024, 4, 30>>}

Opened == INSTANCE Files WITH
    hung <- filesHung, Names <- {"a"}, Modes <- {"READ_WRITE", "APPEND"},
    Acls <- {{<<"u", "r">>, <<"u", "w">>}}, Counts <- {1, 3}, Offsets <- {2},
    MaxOffset <- 3, MaxOpen <- 1, Kept <- (t1 :> 1..3) @@ (t2 :> 0..3), Word <- 8, BlockSize <- 2,
    SeekAlign <- 2

Tree == INSTANCE VFS WITH
    MaxInodes <- 4, MaxMounts <- 2

Formatted == INSTANCE Printf WITH
    n <- printSize, i <- printIndex, s <- printBuffer, format <- printFormat,
    copy <- printCopy, mode <- printMode, start <- printStart, last <- printLast,
    Copies <- {"file", "buffer"} \X {"kernel", "LibC"}, Numbers <- {-3, 0, 2, 12},
    Strings <- {<<>>, <<"s", "s", "s">>}, Sizes <- {0, 1, 3}, SizeMax <- 256

Parse == INSTANCE NumberParse WITH
    i <- parseIndex, text <- parseText, base <- parseBase, kind <- parseKind,
    value <- parseValue, done <- parseDone,
    Characters <- {45, 48, 49, 55, 57, 97, 102, 70, 103}, MaxLength <- 3

Kbd == INSTANCE Keyboard

Typed == INSTANCE KeyboardInput WITH
    m_blocks <- inputBlocks, Keys <- {"KC_A", "KC_LSHIFT", "KC_RSHIFT"},
    lost <- keysLost, m_blockSize <- 2, MaxTyped <- 4

Buf == INSTANCE Buffer WITH
    call <- bufferCall, m_blockSize <- 2, Bytes <- {"a"}, MaxSize <- 5

Screen == INSTANCE Terminal WITH
    calls <- printing, Columns <- 2, Rows <- 2, Printable <- {"a"}, MaxRow <- 2

\* This screen is one that the terminal's proofs are about.
ASSUME ProvedScreen == Screen!Glass

RTC == INSTANCE Clock WITH
    mode <- clockMode, pc <- clockPc, time <- time1,
    Times <- {<<23, 59, 59>>, <<11, 59, 59>>, <<0, 59, 39>>}

TreeUnused ==
    /\ inodes = {} /\ roots = {} /\ mounts = {} /\ archive = {} /\ cwd = {}
    /\ opened = {} /\ hung = {}

PrintUnused ==
    /\ printCopy = {} /\ printSize = {} /\ printFormat = {} /\ printIndex = {}
    /\ printStart = {} /\ printMode = {} /\ conv = {} /\ printed = {} /\ printBuffer = {}
    /\ printLast = {}

ClockUnused ==
    /\ shown = {} /\ uip = {} /\ clockMode = {} /\ clockPc = {} /\ attempt = {}
    /\ time1 = {} /\ time2 = {} /\ ticked = {} /\ result = {}

PartsInit ==
    /\ part \in {"keyboard", "files", "paths", "printf", "parse", "moves", "input",
                 "buffer", "terminal", "clock"}
    /\ Init /\ Kbd!Init /\ (part = "keyboard" \/ clean) /\ Opened!Init /\ Parse!Init
    /\ Typed!Init /\ Buf!Init /\ Screen!Init
    /\ IF part = "paths" THEN Tree!Init ELSE TreeUnused
    /\ IF part = "printf" THEN Formatted!Init ELSE PrintUnused
    /\ IF part = "clock" THEN RTC!Init ELSE ClockUnused

KeyboardStep ==
    /\ part = "keyboard" /\ Kbd!Next
    /\ UNCHANGED <<part, fileVars, treeVars, printVars, parseVars, vars, inputVars,
                   bufVars, screenVars, clockVars>>
FilesStep ==
    /\ part = "files" /\ Opened!Next
    /\ UNCHANGED <<part, kbd, treeVars, printVars, parseVars, vars, inputVars,
                   bufVars, screenVars, clockVars>>
PathsStep ==
    /\ part = "paths" /\ Tree!Next
    /\ UNCHANGED <<part, kbd, fileVars, printVars, parseVars, vars, inputVars,
                   bufVars, screenVars, clockVars>>
PrintfStep ==
    /\ part = "printf" /\ Formatted!Next
    /\ UNCHANGED <<part, kbd, fileVars, treeVars, parseVars, vars, inputVars,
                   bufVars, screenVars, clockVars>>
ParseStep ==
    /\ part = "parse" /\ Parse!Next
    /\ UNCHANGED <<part, kbd, fileVars, treeVars, printVars, vars, inputVars,
                   bufVars, screenVars, clockVars>>
MovesStep ==
    /\ part = "moves" /\ Next
    /\ UNCHANGED <<part, kbd, fileVars, treeVars, printVars, parseVars, inputVars,
                   bufVars, screenVars, clockVars>>
InputStep ==
    /\ part = "input" /\ Typed!Next
    /\ UNCHANGED <<part, kbd, fileVars, treeVars, printVars, parseVars, vars,
                   bufVars, screenVars, clockVars>>
BufferStep ==
    /\ part = "buffer" /\ Buf!Next
    /\ UNCHANGED <<part, kbd, fileVars, treeVars, printVars, parseVars, vars,
                   inputVars, screenVars, clockVars>>
TerminalStep ==
    /\ part = "terminal" /\ Screen!Next
    /\ UNCHANGED <<part, kbd, fileVars, treeVars, printVars, parseVars, vars,
                   inputVars, bufVars, clockVars>>
ClockStep ==
    /\ part = "clock" /\ RTC!Next
    /\ UNCHANGED <<part, kbd, fileVars, treeVars, printVars, parseVars, vars,
                   inputVars, bufVars, screenVars>>

PartsNext ==
    \/ KeyboardStep \/ FilesStep \/ PathsStep \/ PrintfStep \/ ParseStep \/ MovesStep
    \/ InputStep \/ BufferStep \/ TerminalStep \/ ClockStep

partsVars == <<part, kbd, fileVars, treeVars, printVars, parseVars, vars, inputVars,
               bufVars, screenVars, clockVars>>

PartsSpec == PartsInit /\ [][PartsNext]_partsVars

-----------------------------------------------------------------------------
\* The variables of the part that runs keep their types.
PartsTypeOK ==
    /\ TypeOK /\ Kbd!TypeOK
    /\ part = "files" => Opened!TypeOK
    /\ part = "paths" => Tree!TypeOK
    /\ part = "printf" => Formatted!TypeOK
    /\ part = "parse" => Parse!TypeOK
    /\ part = "input" => Typed!TypeOK
    /\ part = "buffer" => Buf!TypeOK
    /\ part = "terminal" => Screen!TypeOK
    /\ part = "clock" => RTC!TypeOK


\* VFS: an absolute path without dots leads to what its parent's directory shows
\* under its last name, across mount points and links; every inode is listed
\* once, where its parent is or leads to; and a working directory pairs a mount
\* point with an inode of its file system.
PathsAgree == part = "paths" => Tree!FoundInParent /\ Tree!ListedOnce /\ Tree!CwdMatches

\* Printf and NumberParse: a conversion is read as the standard says, whatever
\* came before it; the text of a number reads back as the number, but for the
\* flags - and 0 together, and one other than 0 fills its field; a buffer of at
\* least one byte holds as much of the text as it has room for.  strtol and its
\* kin return the number of the longest run of digits, and the place where they
\* stopped in front of another character.
NumbersKept ==
    /\ part = "printf" =>
          /\ Formatted!ReadAsWritten /\ Formatted!ReadsBack
          /\ Formatted!FieldFilled /\ Formatted!BufferHolds
    /\ part = "parse" => Parse!ReadsNumber /\ Parse!EndIsFirstUnread

\* Keyboard and KeyboardInput: scan codes become the strokes in their order,
\* with the lights that belong to them; a modifier is set only while one of its
\* keys is held; on one processor the buffer holds the unread characters between
\* its offsets and GetChar returns the oldest, until a block goes with unread
\* ones behind it.
KeysArrive ==
    /\ Kbd!StrokesInOrder /\ Kbd!LightsAgree
    /\ part = "input" => Typed!ModifiersHeld /\ Typed!OneProcessor

\* Buffer: what is written is read back, across blocks of unequal sizes, with
\* the bytes around it as they were; a Clear inside a block takes nothing in
\* front of it along, and ClearUntil nothing from its offset on.
BufferKept == Buf!ReadsBack /\ Buf!KeepsRest

\* Terminal: while no two threads print at once, the screen shows the last rows
\* of all that was printed, with double buffering from each clearing of the
\* screen to the next scroll.
ShowsPaper == part = "terminal" => Screen!ShowsPaper

\* Clock: getTime never answers with a mixture of two seconds, and the weekday
\* is the one found by counting days from 1970.
NeverTorn == part = "clock" => RTC!NeverTorn /\ RTC!WeekDayCounts
=============================================================================
