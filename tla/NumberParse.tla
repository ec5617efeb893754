---------------------------- MODULE NumberParse ----------------------------
(***************************************************************************)
(* The functions that read numbers: atoi, atol and the kernel's strtoul    *)
(* (which know base ten only) and LibC's strtol, strtoul, strtoimax and    *)
(* strtoumax (stdlib.c and inttypes.c), a character at a time.  Characters *)
(* are their codes.  The numbers are far from the types' limits.           *)
(***************************************************************************)
EXTENDS Integers, Sequences, TLC

CONSTANTS
    Characters,     \* codes of the characters that a text has
    MaxLength       \* bound: characters of a text

VARIABLES
    text, base, kind,       \* the call; kind is the loop it has, "ato" or "strto"
    i, value, is_negative,  \* its local variables
    endptr,                 \* where *endptr points; Unset before it is written
    done

vars == <<text, base, kind, i, value, is_negative, endptr, done>>

Unset == -1
Minus == 45
Zero == 48
Nine == 57
a == 97
f == 102
A == 65
F == 70

Texts == UNION {[1..n -> Characters] : n \in 0..MaxLength}

Init ==
    /\ text = <<>> /\ base = 10 /\ kind = "ato" /\ i = 0 /\ value = 0
    /\ is_negative = FALSE /\ endptr = Unset /\ done = TRUE

\* A call; the functions for unsigned numbers do not look for a sign.
Begin(what, sign, str, b) ==
    LET signed == sign /\ str # <<>> /\ str[1] = Minus
    IN  /\ done' = FALSE
        /\ text' = str /\ base' = b /\ kind' = what
        /\ is_negative' = signed
        /\ i' = IF signed THEN 1 ELSE 0
        /\ value' = 0 /\ endptr' = Unset

atoi(str) == Begin("ato", TRUE, str, 10)
atol(str) == Begin("ato", TRUE, str, 10)
kernel_atoi(str) == Begin("ato", TRUE, str, 10)
kernel_atol(str) == Begin("ato", TRUE, str, 10)
kernel_strtoul(str) == Begin("ato", FALSE, str, 10)
strtol(str, b) == Begin("strto", TRUE, str, b)
strtoul(str, b) == Begin("strto", FALSE, str, b)
strtoimax(str, b) == Begin("strto", TRUE, str, b)
strtoumax(str, b) == Begin("strto", FALSE, str, b)

\* The value of a character in the base, -1 if it has none.
Digit(c, b) ==
    IF b = 16 /\ c \in a..f THEN c - a + 10
    ELSE IF b = 16 /\ c \in A..F THEN c - A + 10
    ELSE IF c \in Zero..(IF b = 16 THEN Nine ELSE Zero + b - 1) THEN c - Zero
    ELSE -1

More == ~done /\ i < Len(text)
Read == text[i + 1]

\* i++
NextIndex == i + 1

\* atoi and atol take every character for a digit.
AtoStep ==
    /\ More /\ kind = "ato"
    /\ value' = (value + Read - Zero) * 10
    /\ i' = NextIndex
    /\ UNCHANGED <<text, base, kind, is_negative, endptr, done>>

\* value *= base; value += digit
NextValue(v, d) == v * base + d

StrtoStep ==
    /\ More /\ kind = "strto" /\ Digit(Read, base) # -1
    /\ value' = NextValue(value, Digit(Read, base))
    /\ i' = NextIndex
    /\ UNCHANGED <<text, base, kind, is_negative, endptr, done>>

Result == IF is_negative THEN -1 * value ELSE value

\* A character that is no digit: the only place where *endptr is written.
StrtoStop ==
    /\ More /\ kind = "strto" /\ Digit(Read, base) = -1
    /\ endptr' = i
    /\ value' = Result /\ done' = TRUE
    /\ UNCHANGED <<text, base, kind, i, is_negative>>

\* The end of the text.
End ==
    /\ ~done /\ i = Len(text)
    /\ value' = Result /\ done' = TRUE
    /\ UNCHANGED <<text, base, kind, i, is_negative, endptr>>

Next ==
    \/ /\ done /\ i = 0 /\ text = <<>>
       /\ \E str \in Texts :
            \/ atoi(str) \/ atol(str)
            \/ kernel_atoi(str) \/ kernel_atol(str) \/ kernel_strtoul(str)
            \/ \E b \in {2, 8, 10, 16} :
                strtol(str, b) \/ strtoul(str, b) \/ strtoimax(str, b) \/ strtoumax(str, b)
    \/ AtoStep \/ StrtoStep \/ StrtoStop \/ End

Spec == Init /\ [][Next]_vars

-----------------------------------------------------------------------------
\* Type correctness.
TypeOK ==
    /\ text \in Texts /\ i \in 0..Len(text) /\ value \in Int
    /\ endptr \in Unset..Len(text) /\ is_negative \in BOOLEAN /\ done \in BOOLEAN

\* What a character is worth, as the C standard has it.
Worth == [c \in Zero..Nine |-> c - Zero] @@ [c \in a..f |-> c - 87] @@ [c \in A..F |-> c - 55]
IsDigit(c) == c \in DOMAIN Worth /\ Worth[c] < base

First == IF is_negative THEN 2 ELSE 1

\* The digits that the text begins with, and the number that they write.
Subject ==
    LET ends == {n \in First - 1..Len(text) : \A k \in First..n : IsDigit(text[k])}
    IN  SubSeq(text, First, CHOOSE n \in ends : \A o \in ends : o <= n)
Written ==
    LET sum[n \in 0..Len(Subject)] ==
            IF n = 0 THEN 0 ELSE sum[n - 1] * base + Worth[Subject[n]]
    IN  IF is_negative THEN -1 * sum[Len(Subject)] ELSE sum[Len(Subject)]

\* strtol and its kin return the number that the longest run of digits of the
\* base writes, whatever follows it.
ReadsNumber == done /\ kind = "strto" => value = Written

\* Where strtol and its kin stop at a character, *endptr is that character, the
\* first that is no digit.
EndIsFirstUnread ==
    done /\ kind = "strto" /\ First - 1 + Len(Subject) < Len(text) =>
        endptr = First - 1 + Len(Subject)

=============================================================================
