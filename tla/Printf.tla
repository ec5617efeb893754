------------------------------- MODULE Printf -------------------------------
(***************************************************************************)
(* printf: the loop over the format in vfprintf and vsnprintf, and the     *)
(* numbers of fprintf_uint, fprintf_int and their snprintf copies.  The    *)
(* kernel (lib/src/stdio.cpp) and LibC (src/stdio.cpp) have one pair each; *)
(* the four differ only in where a character goes.                         *)
(*                                                                         *)
(* One step is one turn of the loop.  Assertions are enabled, so a failed  *)
(* one ends the call.  A number is its value, as va_arg delivers it for the*)
(* length that was given; the lock of the terminal is part of TTY.         *)
(***************************************************************************)
EXTENDS Integers, Sequences, SequencesExt

CONSTANTS
    Copies,         \* <<"file" or "buffer", program>>
    Formats,        \* sequences of characters
    Numbers, Strings,   \* arguments
    Sizes,          \* n of vsnprintf
    SizeMax         \* size_t is a number below SizeMax

VARIABLES
    copy, n, format,
    i,              \* the index of this turn's character
    start,          \* where the conversion that is being read starts
    mode,           \* PRINTF_MODES
    conv,           \* what has been read of the conversion
    printed,        \* everything printed; its length is symbols_printed
    s,              \* the buffer of vsnprintf
    last            \* the last number: [conv, spec, num, chars]

call == <<copy, n, format>>
vars == <<call, i, start, mode, conv, printed, s, last>>

Digit == {"0", "1", "2", "3"}
Flags == {"-", "+", " ", "#", "0"}
Signed == {"d", "i"}
Unsigned == {"u", "o", "p", "x", "X"}
Floating == {"f", "F", "e", "E", "g", "G", "a", "A"}
HexChars == <<"0", "1", "2", "3", "4", "5", "6", "7", "8", "9", "a", "b", "c", "d", "e", "f">>
Value(d) == (CHOOSE k \in DOMAIN HexChars : HexChars[k] = d) - 1
Wider(a, b) == IF a > b THEN a ELSE b

NewConversion == [flags |-> {}, width |-> 0, precision |-> -1, len |-> "normal"]

NoNumber == [conv |-> NewConversion, spec |-> "d", num |-> 0, chars |-> <<"0">>]

Init ==
    /\ copy \in Copies /\ format \in Formats
    /\ n \in (IF copy[1] = "buffer" THEN Sizes ELSE {0})
    /\ i = 1 /\ start = 1
    /\ mode = "NORMAL" /\ conv = NewConversion
    /\ printed = <<>> /\ s = <<>> /\ last = NoNumber

-----------------------------------------------------------------------------
RECURSIVE Digits(_, _)
Digits(num, radix) ==
    IF num < radix THEN <<HexChars[num + 1]>>
    ELSE Append(Digits(num \div radix, radix), HexChars[(num % radix) + 1])

Times(k, char) == [j \in 1..k |-> char]

\* The padding to the left of k places: zeros first, then the padding's own.
Fill(k, zeros, zero_pad) ==
    [j \in 1..k |-> IF zero_pad \/ j <= zeros THEN "0" ELSE " "]

\* The number 0, which a precision of 0 does not print.
fprintf_zero(min_length, min_digits, zero_pad, left) ==
    LET zero == Times(IF min_digits # 0 THEN 1 ELSE 0, "0")
        rest == min_length - Len(zero)
    IN  IF min_length <= 1 THEN zero
        ELSE IF left
        THEN Times(min_digits, "0") \o zero \o Fill(rest - Wider(min_digits, 0), 0, zero_pad)
        ELSE Fill(rest, min_digits - Len(zero), zero_pad) \o zero

fprintf_uint(min_length, min_digits, num, radix, zero_pad, left) ==
    LET buffer == Digits(num, radix)
        rest == min_length - Len(buffer)
        zeros == min_digits - Len(buffer)
    IN  IF num = 0 THEN fprintf_zero(min_length, min_digits, zero_pad, left)
        ELSE IF rest <= 0 THEN buffer
        ELSE IF left
        THEN Times(zeros, "0") \o buffer \o Fill(rest - Wider(zeros, 0), 0, zero_pad)
        ELSE Fill(rest, zeros, zero_pad) \o buffer

Sign(num, flags) ==
    IF num < 0 THEN <<"-">> ELSE IF "+" \in flags THEN <<"+">>
    ELSE IF " " \in flags THEN <<" ">> ELSE <<>>

fprintf_int(num, flags, min_length, min_digits, radix) ==
    LET sign == Sign(num, flags)
    IN  sign \o fprintf_uint(min_length - Len(sign), min_digits, IF num < 0 THEN -num ELSE num,
                             radix, "0" \in flags, "-" \in flags)

\* The copies for a buffer give every character to snputc instead.
snputc(buffer, max_size, chars) ==
    buffer \o SubSeq(chars, 1, IF Len(buffer) + Len(chars) <= max_size THEN Len(chars)
                               ELSE max_size - Len(buffer))

-----------------------------------------------------------------------------
Radix(spec) == CASE spec \in {"p", "x", "X"} -> 16 [] spec = "o" -> 8 [] OTHER -> 10

\* flags_extra: what is printed in front, whatever the conversion's value.
Prefix(spec, flags) ==
    IF "#" \notin flags THEN <<>>
    ELSE CASE Radix(spec) = 16 -> <<"0", IF spec = "X" THEN "X" ELSE "x">>
           [] Radix(spec) = 8 -> <<"0">>
           [] OTHER -> <<>>

Number(spec, cv, num) ==
    LET prefix == Prefix(spec, cv.flags)
        width == IF prefix = <<>> THEN cv.width ELSE Wider(cv.width - Len(prefix), 0)
        min_length == Wider(width, cv.precision)
    IN  prefix \o IF spec \in Signed
                  THEN fprintf_int(num, cv.flags, min_length, cv.precision, Radix(spec))
                  ELSE fprintf_uint(min_length, cv.precision, num, Radix(spec),
                                    "0" \in cv.flags, "-" \in cv.flags)

\* A precision of 0 does not shorten a string, and it is always on the left.
String(cv, str) ==
    LET shown == IF cv.precision > 0 /\ cv.precision < Len(str)
                 THEN SubSeq(str, 1, cv.precision) ELSE str
    IN  shown \o Times(cv.width - Len(shown), " ")

-----------------------------------------------------------------------------
\* A turn of the loop in a mode.
In(m) == mode = m /\ i <= Len(format) /\ UNCHANGED call

c == format[i]

Put(chars) ==
    /\ printed' = printed \o chars
    /\ s' = IF copy[1] = "file" THEN s ELSE snputc(s, (n - 1) % SizeMax, chars)

\* This turn used the character up: the conversion becomes cv in mode m.
Consume(cv, m) ==
    conv' = cv /\ mode' = m /\ i' = i + 1 /\ UNCHANGED <<start, printed, s, last>>

\* The next mode looks at the character again.
Again(m) == mode' = m /\ UNCHANGED <<i, start, conv, printed, s, last>>

Normal ==
    /\ In("NORMAL")
    /\ IF c = "%" THEN mode' = "FLAGS" /\ UNCHANGED <<printed, s>>
       ELSE Put(<<c>>) /\ UNCHANGED mode
    /\ i' = i + 1 /\ start' = i + 1
    /\ UNCHANGED <<conv, last>>

ReadFlags ==
    /\ In("FLAGS")
    /\ IF c \in Flags THEN Consume([conv EXCEPT !.flags = @ \cup {c}], "FLAGS") ELSE Again("WIDTH")

ReadWidth ==
    /\ In("WIDTH")
    /\ IF c = "*" THEN \E num \in Numbers : Consume([conv EXCEPT !.width = num], "LEN")
       ELSE IF c \in Digit THEN Consume([conv EXCEPT !.width = @ * 10 + Value(c)], "WIDTH")
       ELSE Again("LEN")

ReadPrecision ==
    /\ In("PREC")
    /\ IF c = "*" THEN \E num \in Numbers : Consume([conv EXCEPT !.precision = num], "LEN")
       ELSE IF c \in Digit THEN Consume([conv EXCEPT !.precision = @ * 10 + Value(c)], "PREC")
       ELSE Again("LEN")

\* A letter that is given twice has another meaning.  A second precision is
\* an assertion that fails.
ReadLength ==
    /\ In("LEN")
    /\ CASE c = "." /\ conv.precision = -1 -> Consume([conv EXCEPT !.precision = 0], "PREC")
         [] c = "." /\ conv.precision # -1 -> Again("ASSERT")
         [] c = "h" -> Consume([conv EXCEPT !.len = IF @ = "short" THEN "char" ELSE "short"], "LEN")
         [] c = "l" -> Consume([conv EXCEPT !.len = IF @ = "long" THEN "longlong" ELSE "long"], "LEN")
         [] c \in {"j", "z", "t", "L"} -> Consume([conv EXCEPT !.len = c], "LEN")
         [] OTHER -> Again("SPEC")

\* Fault: the precision is kept for the next conversion.
FinishKeep ==
    /\ mode' = "NORMAL" /\ conv' = [NewConversion EXCEPT !.precision = conv.precision]
    /\ i' = i + 1 /\ UNCHANGED start

\* The end of a conversion: everything that was read of it is forgotten.
Finish ==
    /\ mode' = "NORMAL" /\ conv' = NewConversion
    /\ i' = i + 1 /\ UNCHANGED start

ConvertNumber ==
    /\ In("SPEC") /\ c \in Signed \cup Unsigned
    /\ \E num \in Numbers :
          LET chars == Number(c, conv, num)
          IN  /\ c \in Unsigned => num >= 0
              /\ Put(chars)
              /\ last' = [conv |-> conv, spec |-> c, num |-> num, chars |-> chars]
    /\ Finish

\* %n stores the length of what is printed in the caller's memory; a letter
\* that means nothing prints nothing.
Convert ==
    /\ In("SPEC") /\ c \notin Signed \cup Unsigned \cup Floating
    /\ CASE c = "s" -> \E str \in Strings : Put(String(conv, str))
         [] c \in {"c", "%"} -> Put(<<c>>)
         [] OTHER -> Put(<<>>)
    /\ Finish /\ UNCHANGED last

ConvertFloating == In("SPEC") /\ c \in Floating /\ Again("ASSERT")

Reads == Normal \/ ReadFlags \/ ReadWidth \/ ReadPrecision \/ ReadLength
PrintsNumber == ConvertNumber \/ ConvertFloating

\* One turn of the loop in each of the copies: reading a conversion, one that
\* prints no number, and one that does.
kernel_vfprintf == copy = <<"file", "kernel">> /\ (Reads \/ Convert \/ PrintsNumber)

kernel_vsnprintf_reads == copy = <<"buffer", "kernel">> /\ Reads
kernel_vsnprintf_converts == copy = <<"buffer", "kernel">> /\ Convert
kernel_vsnprintf_number == copy = <<"buffer", "kernel">> /\ PrintsNumber

LibC_vfprintf_reads == copy = <<"file", "LibC">> /\ Reads
LibC_vfprintf_converts == copy = <<"file", "LibC">> /\ Convert
LibC_vfprintf_number == copy = <<"file", "LibC">> /\ PrintsNumber

LibC_vsnprintf_reads == copy = <<"buffer", "LibC">> /\ Reads
LibC_vsnprintf_converts == copy = <<"buffer", "LibC">> /\ Convert
LibC_vsnprintf_number == copy = <<"buffer", "LibC">> /\ PrintsNumber

Next ==
    \/ kernel_vfprintf
    \/ kernel_vsnprintf_reads \/ kernel_vsnprintf_converts \/ kernel_vsnprintf_number
    \/ LibC_vfprintf_reads \/ LibC_vfprintf_converts \/ LibC_vfprintf_number
    \/ LibC_vsnprintf_reads \/ LibC_vsnprintf_converts \/ LibC_vsnprintf_number

Spec == Init /\ [][Next]_vars

-----------------------------------------------------------------------------
\* Type correctness.
TypeOK ==
    /\ mode \in {"NORMAL", "FLAGS", "WIDTH", "PREC", "LEN", "SPEC", "ASSERT"}
    /\ i \in 1..(Len(format) + 1) /\ start \in 1..(Len(format) + 1)
    /\ conv.flags \subseteq Flags /\ conv.width \in Int /\ conv.precision \in Int

\* A conversion as the C standard divides it: flags, width, precision, length.
\* The text has no argument for its width or precision.
Parts(text) ==
    {p \in (0..Len(text)) \X (0..Len(text)) \X (0..Len(text)) :
        LET in(a, b, set) == \A k \in (a + 1)..b : text[k] \in set
        IN  /\ p[1] <= p[2] /\ p[2] <= p[3]
            /\ in(0, p[1], Flags) /\ in(p[1], p[2], Digit)
            /\ p[1] < Len(text) => text[p[1] + 1] \notin Flags
            /\ p[2] < p[3] => text[p[2] + 1] = "." /\ in(p[2] + 1, p[3], Digit)
            /\ in(p[3], Len(text), {"h", "l", "j", "z", "t", "L"})}

Decimal(text, a, b) == FoldLeft(LAMBDA x, d : 10 * x + Value(d), 0, SubSeq(text, a + 1, b))

\* Whatever was read before it, a conversion that is written as the standard
\* says is read as the standard says: a 0 in front of the width is a flag, a
\* 0 inside it a digit, and nothing remains of the conversion before.
ReadAsWritten ==
    mode = "SPEC" =>
        LET text == SubSeq(format, start, i - 1)
        IN  \A p \in Parts(text) :
                /\ conv.flags = {text[k] : k \in 1..p[1]}
                /\ conv.width = Decimal(text, p[1], p[2])
                /\ conv.precision = IF p[2] = p[3] THEN -1 ELSE Decimal(text, p[2] + 1, p[3])

\* The number that a text writes: its sign and its digits.
ReadBack(num) ==
    LET body == SubSeq(num.chars, Len(Prefix(num.spec, num.conv.flags)) + 1, Len(num.chars))
        digits == SelectSeq(body, LAMBDA d : d \notin {"-", "+", " "})
        size == FoldLeft(LAMBDA x, d : Radix(num.spec) * x + Value(d), 0, digits)
    IN  IF "-" \in ToSet(body) THEN -size ELSE size

\* The text of a number reads back as the number, sign included, whatever the
\* width, the precision and the flags, as long as not both of - and 0 are given.
ReadsBack == last.conv.flags \cap {"-", "0"} # {"-", "0"} => ReadBack(last) = last.num

\* A number other than 0 fills its field, and is never longer than its width,
\* its precision, its sign and its digits ask for.
FieldFilled ==
    LET cv == last.conv
        digits == Len(Digits(IF last.num < 0 THEN -last.num ELSE last.num, Radix(last.spec)))
        front == Len(Prefix(last.spec, cv.flags))
                    + IF last.spec \in Signed THEN Len(Sign(last.num, cv.flags)) ELSE 0
        length == Len(last.chars)
    IN  last.num # 0 => length \in cv.width..Wider(cv.width, front + Wider(cv.precision, digits))

\* A buffer of n > 0 holds as much of what the other copy prints as there is
\* room for in front of the end mark, and the end mark lies inside it.
BufferHolds ==
    copy[1] = "buffer" /\ n > 0 =>
        /\ IsPrefix(s, printed)
        /\ Len(s) = IF Len(printed) < n THEN Len(printed) ELSE n - 1
=============================================================================
