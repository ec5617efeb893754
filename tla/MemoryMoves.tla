---------------------------- MODULE MemoryMoves ----------------------------
(***************************************************************************)
(* memcpy and memset in assembly (string.asm, and util.asm of the kernel,  *)
(* which is the same text), memmove, fast_memcpy, fast_memmove and         *)
(* fast_memset (util.c, in LibC and in the kernel), and the string         *)
(* functions that write (string.c).  A call is a sequence of moves, each   *)
(* of a word or of a byte: it reads, then writes, before the next one      *)
(* reads.  WORD bytes make a word (eight in the code).                     *)
(***************************************************************************)
EXTENDS Integers, Sequences, FiniteSetsExt

CONSTANTS
    WORD,
    Size,           \* bytes of memory
    Bytes           \* what a byte may be; 0 ends a string

ASSUME MovesAssumption == WORD \in Nat \ {0} /\ Size \in Nat \ {0} /\ 0 \in Bytes

VARIABLES
    mem,            \* address -> byte
    call,           \* [op, dst, src, n]; src is the byte that memset sets
    moves,          \* the moves still to be made
    before          \* mem at the call

vars == <<mem, call, moves, before>>

NoCall == [op |-> "none", dst |-> 0, src |-> 0, n |-> 0]
Addresses == 0..(Size - 1)

Init ==
    /\ mem = [x \in Addresses |-> 0] /\ before = mem
    /\ call = NoCall /\ moves = <<>>

\* A move of some bytes from one address to another.
Move(from, to, bytes) == [from |-> from, to |-> to, bytes |-> bytes]

\* count moves of some bytes each that begin at an offset, upwards.
Upwards(c, at, bytes, count) ==
    [k \in 1..count |-> Move(c.src + at + (k - 1) * bytes, c.dst + at + (k - 1) * bytes, bytes)]

\* The same from the last one down.
Downwards(c, bytes, count) ==
    [k \in 1..count |-> Move(c.src + (count - k) * bytes, c.dst + (count - k) * bytes, bytes)]

-----------------------------------------------------------------------------
\* Words as far as they go, then bytes: the loops of memcpy and memset.
WholeThenRest(c) ==
    Upwards(c, 0, WORD, c.n \div WORD) \o Upwards(c, (c.n \div WORD) * WORD, 1, c.n % WORD)

memcpy(c) == WholeThenRest(c)
kernel_memcpy(c) == WholeThenRest(c)
memset(c) == WholeThenRest(c)
kernel_memset(c) == WholeThenRest(c)

\* Fault: always upwards.
memmoveUp(c) == memcpy(c)

\* Upwards when the destination is below, else downwards by bytes.
memmove(c) == IF c.dst < c.src THEN memcpy(c) ELSE Downwards(c, 1, c.n)
kernel_memmove(c) == IF c.dst < c.src THEN kernel_memcpy(c) ELSE Downwards(c, 1, c.n)

\* Whole words only.
fast_memcpy(c) == Upwards(c, 0, WORD, c.n \div WORD)
fast_memset(c) == Upwards(c, 0, WORD, c.n)
fast_memmove(c) ==
    IF c.dst < c.src THEN fast_memcpy(c) ELSE Downwards(c, WORD, c.n \div WORD)

\* Where the string at an address ends.
Ends(m, s) == {k \in 0..(Size - s - 1) : m[s + k] = 0}
strlen(m, s) == Min(Ends(m, s))

\* The terminator is copied too.
strcpy(m, c) == Upwards(c, 0, 1, strlen(m, c.src) + 1)

\* It stops after n bytes, and does not fill up with zeros.
strncpy(m, c) == Upwards(c, 0, 1, Min({c.n, strlen(m, c.src) + 1}))

Behind(m, c) == [c EXCEPT !.dst = c.dst + strlen(m, c.dst)]

strcat(m, c) == strcpy(m, Behind(m, c))

\* Like strncpy, it writes no terminator after n bytes.
strncat(m, c) == strncpy(m, Behind(m, c))

Moves(m, c) ==
    CASE c.op = "memcpy" -> memcpy(c)
      [] c.op = "memmove" -> memmove(c)
      [] c.op = "kernel_memcpy" -> kernel_memcpy(c)
      [] c.op = "kernel_memmove" -> kernel_memmove(c)
      [] c.op = "memset" -> memset(c)
      [] c.op = "kernel_memset" -> kernel_memset(c)
      [] c.op = "fast_memcpy" -> fast_memcpy(c)
      [] c.op = "fast_memmove" -> fast_memmove(c)
      [] c.op = "fast_memset" -> fast_memset(c)
      [] c.op = "strcpy" -> strcpy(m, c)
      [] c.op = "strncpy" -> strncpy(m, c)
      [] c.op = "strcat" -> strcat(m, c)
      [] c.op = "strncat" -> strncat(m, c)

Setting == {"memset", "kernel_memset", "fast_memset"}
Copying == {"memcpy", "kernel_memcpy", "fast_memcpy"}
Moving == {"memmove", "kernel_memmove", "fast_memmove"}
Strings == {"strcpy", "strncpy", "strcat", "strncat"}

\* A caller stays inside its memory, gives strings that have an end, and lets
\* what is read and what is written overlap only for the functions that move
\* or when memcpy is used to move downwards.
Allowed(m, c) ==
    /\ c.op \in Strings => \A s \in {c.src, c.dst} : Ends(m, s) # {}
    /\ LET span == IF c.op = "fast_memset" THEN c.n * WORD
                   ELSE IF c.op \in {"strcpy", "strcat"} THEN strlen(m, c.src) + 1 ELSE c.n
           to == IF c.op \in {"strcat", "strncat"} THEN c.dst + strlen(m, c.dst) ELSE c.dst
       IN  /\ to + span <= Size
           /\ c.op \in Setting => c.src \in Bytes
           /\ c.op \notin Setting => c.src + span <= Size
           /\ c.op \in Copying => c.dst <= c.src \/ c.dst >= c.src + span
           /\ c.op \in Strings => c.dst > c.src + strlen(m, c.src)
                                    \/ c.src > to + span

Begin(m, c) ==
    /\ call = NoCall /\ Allowed(m, c)
    /\ mem' = m /\ before' = m
    /\ call' = c /\ moves' = Moves(m, c)

\* The next move: all its bytes are read before one is written.
Step ==
    /\ moves # <<>>
    /\ LET d == Head(moves)
       IN  mem' = [x \in Addresses |->
                    IF x \in d.to..(d.to + d.bytes - 1)
                    THEN IF call.op \in Setting THEN call.src ELSE mem[x - d.to + d.from]
                    ELSE mem[x]]
    /\ moves' = Tail(moves)
    /\ UNCHANGED <<call, before>>

Next ==
    \/ /\ call = NoCall
       /\ \E m \in [Addresses -> Bytes], dst \in Addresses, src \in Addresses, n \in 0..Size,
             op \in Setting \cup Copying \cup Moving \cup Strings :
            Begin(m, [op |-> op, dst |-> dst, src |-> src, n |-> n])
    \/ Step

Spec == Init /\ [][Next]_vars

-----------------------------------------------------------------------------
Done == call # NoCall /\ moves = <<>>

\* Type correctness.
TypeOK ==
    /\ mem \in [Addresses -> Bytes]
    /\ \A k \in DOMAIN moves : moves[k].to \in Addresses /\ moves[k].bytes \in {1, WORD}

\* How much a call for memory is to transfer.
Amount ==
    CASE call.op \in {"fast_memcpy", "fast_memmove"} -> (call.n \div WORD) * WORD
      [] call.op = "fast_memset" -> call.n * WORD
      [] OTHER -> call.n

\* Whatever the overlap, the destination ends up with what the source held
\* before the call, and nothing around it changes: memmove relies on memcpy
\* going upwards and moves words across one another.
BytesMoved ==
    Done /\ call.op \notin Strings =>
        mem = [x \in Addresses |->
                IF x \in call.dst..(call.dst + Amount - 1)
                THEN IF call.op \in Setting THEN call.src ELSE before[x - call.dst + call.src]
                ELSE before[x]]

Text(m, s) == [k \in 1..strlen(m, s) |-> m[s + k - 1]]
Prefix(t) == SubSeq(t, 1, Min({Len(t), call.n}))

\* strcpy and strcat leave the string that they promise.  strncpy and strncat
\* leave it, cut to n bytes, only if they met the end of the source or a zero
\* was there already: neither writes an end after n bytes.
StringsAsPromised ==
    Done /\ call.op \in Strings =>
        LET source == Text(before, call.src)
            prior == Text(before, call.dst)
            wanted == CASE call.op = "strcpy" -> source
                        [] call.op = "strncpy" -> Prefix(source)
                        [] call.op = "strcat" -> prior \o source
                        [] OTHER -> prior \o Prefix(source)
            end == call.dst + Len(wanted)
        IN  /\ \A k \in DOMAIN wanted : mem[call.dst + k - 1] = wanted[k]
            /\ call.op \in {"strcpy", "strcat"} \/ call.n > Len(source) => mem[end] = 0
            /\ \A x \in Addresses : x < call.dst \/ x > end => mem[x] = before[x]
            /\ call.op \in {"strncpy", "strncat"} /\ call.n <= Len(source) /\ end < Size =>
                mem[end] = before[end]

\* A finished call has done what it promises, whichever function it is and
\* however what it reads and what it writes lie.
MovesWhole == BytesMoved /\ StringsAsPromised
=============================================================================
