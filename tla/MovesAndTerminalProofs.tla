----------------------- MODULE MovesAndTerminalProofs -----------------------
(***************************************************************************)
(* That the memory and string functions do what they promise, for memory   *)
(* and words of every size and for every way in which what is read and     *)
(* what is written may overlap.                                            *)
(*                                                                         *)
(* The moves of a call are taken apart only once, when the call begins:    *)
(* they go over a block of addresses, each at the same distance from its   *)
(* source, either all upwards or all downwards.  From then on an address   *)
(* of the block counts as moved unless a move still to be made touches it, *)
(* and the direction is such that no move overwrites what a later one      *)
(* reads.                                                                  *)
(*                                                                         *)
(* After them, that the text console shows what was printed: every routine *)
(* of BasicVGA keeps the buffer that is drawn on equal to a window on an   *)
(* endless sheet, whose rows below the window are blank.                   *)
(***************************************************************************)
EXTENDS MemoryMoves, WellFoundedInduction, TLAPS

\* A set of natural numbers that is not empty has a least element.
LEMMA HasLeast ==
    ASSUME NEW S \in SUBSET Nat, S # {}
    PROVE  \E x \in S : \A y \in S : x <= y
<1> DEFINE R == {ss \in Nat \X Nat : ss[1] < ss[2]}
<1>1. PICK x \in S : \A y \in S : ~(<<y, x>> \in R)
  BY NatLessThanWellFounded, WFMin, Zenon DEF OpToRel
<1>2. \A y \in S : ~(y < x)
  BY <1>1, Zenon
<1> QED
  BY <1>2

\* The first address that a call writes, and how many it writes.
Target(m, c) == IF c.op \in {"strcat", "strncat"} THEN c.dst + strlen(m, c.dst) ELSE c.dst

Extent(m, c) ==
    CASE c.op \in {"fast_memcpy", "fast_memmove"} -> (c.n \div WORD) * WORD
      [] c.op = "fast_memset" -> c.n * WORD
      [] c.op \in {"strcpy", "strcat"} -> strlen(m, c.src) + 1
      [] c.op \in {"strncpy", "strncat"} -> Min({c.n, strlen(m, c.src) + 1})
      [] OTHER -> c.n

\* An address that one of the moves writes.
Touched(ms, x) == \E k \in DOMAIN ms : ms[k].to <= x /\ x < ms[k].to + ms[k].bytes

\* Moves that stay inside n bytes, and each at the distance from its source
\* that the blocks have.
Inside(ms, to, from, n) ==
    /\ ms \in Seq([from : Int, to : Int, bytes : Nat])
    /\ \A k \in DOMAIN ms :
          /\ to <= ms[k].to /\ ms[k].to + ms[k].bytes <= to + n
          /\ ms[k].from = ms[k].to - to + from

\* Moves that go upwards, or downwards, and do not overlap.
Rising(ms) == \A i, j \in DOMAIN ms : i < j => ms[i].to + ms[i].bytes <= ms[j].to
Falling(ms) == \A i, j \in DOMAIN ms : i < j => ms[j].to + ms[j].bytes <= ms[i].to

\* Moves for all of the n bytes from an address on.
Covers(ms, to, from, n) ==
    /\ Inside(ms, to, from, n)
    /\ \A x \in Int : to <= x /\ x < to + n => Touched(ms, x)

\* A direction in which no byte is written before it is read.
Safe(ms, op, to, from, n) ==
    \/ Rising(ms) /\ (op \in Setting \/ to <= from \/ from + n <= to)
    \/ Falling(ms) /\ from <= to

\* The functions that are called.
Operations == Setting \cup Copying \cup Moving \cup Strings

-----------------------------------------------------------------------------
(* Arithmetic of the loops *)

\* Multiples of a size grow with their number.
LEMMA Multiples ==
    ASSUME NEW i \in Int, NEW j \in Int, NEW b \in Nat, i <= j
    PROVE  i * b <= j * b
OBVIOUS

\* Every offset is in one of the pieces before the next multiple.
LEMMA Pieces ==
    ASSUME NEW o \in Nat, NEW b \in Nat \ {0}, NEW count \in Nat, o < count * b
    PROVE  \E k \in 0..(count - 1) : k * b <= o /\ o < k * b + b
<1>1. o \div b \in Nat /\ (o \div b) * b <= o /\ o < (o \div b) * b + b
  OBVIOUS
<1>2. o \div b < count
  <2>1. SUFFICES ASSUME count <= o \div b PROVE FALSE
    BY <1>1
  <2>2. count * b <= (o \div b) * b
    BY <1>1, <2>1, Multiples
  <2> QED BY <1>1, <2>2
<1>3. o \div b \in 0..(count - 1)
  BY <1>1, <1>2
<1> QED BY <1>1, <1>3, Zenon

\* The k-th of count pieces lies inside them all.
LEMMA PieceInside ==
    ASSUME NEW b \in Nat, NEW count \in Nat, NEW k \in 1..count
    PROVE  (k - 1) * b \in Nat /\ (k - 1) * b + b <= count * b
<1>1. 0 * b <= (k - 1) * b /\ k * b <= count * b
  BY Multiples
<1> QED BY <1>1

\* A piece ends where, or before, a later one begins.
LEMMA PieceBefore ==
    ASSUME NEW b \in Nat, NEW i \in Nat, NEW j \in Nat, i < j
    PROVE  (i - 1) * b + b <= (j - 1) * b
<1>1. i * b <= (j - 1) * b
  BY Multiples
<1> QED BY <1>1

\* A number is its whole words and the rest.
LEMMA WordsAndRest ==
    ASSUME NEW n \in Nat, NEW b \in Nat \ {0}
    PROVE  /\ n \div b \in Nat /\ n % b \in Nat /\ (n \div b) * b \in Nat
           /\ (n \div b) * b + (n % b) = n /\ (n \div b) * b <= n
<1>1. n \div b \in Nat /\ n % b \in Nat
  OBVIOUS
<1>2. (n \div b) * b + (n % b) = n
  OBVIOUS
<1>3. (n \div b) * b \in Nat
  <2>1. 0 * b <= (n \div b) * b
    BY <1>1, Multiples
  <2> QED BY <1>1, <2>1
<1> QED BY <1>1, <1>2, <1>3

\* An offset between two bounds is an address between them.
LEMMA Shifted ==
    ASSUME NEW x \in Int, NEW to \in Int, NEW p \in Int, NEW b \in Int,
           p <= x - to, x - to < p + b
    PROVE  to + p <= x /\ x < to + p + b
OBVIOUS

\* A piece inside the offsets is inside the block.
LEMMA ShiftedInside ==
    ASSUME NEW to \in Int, NEW from \in Int, NEW p \in Nat, NEW b \in Int,
           NEW total \in Int, p + b <= total
    PROVE  /\ to <= to + p /\ to + p + b <= to + total
           /\ from + p = to + p - to + from
OBVIOUS

\* Pieces that follow one another as offsets do as addresses.
LEMMA ShiftedOrder ==
    ASSUME NEW to \in Int, NEW p \in Int, NEW q \in Int, NEW b \in Int, p + b <= q
    PROVE  to + p + b <= to + q
OBVIOUS

\* A function on 1..count with values in a set is a sequence over it.
LEMMA SequenceOf ==
    ASSUME NEW S, NEW count \in Nat, NEW ms, ms = [k \in 1..count |-> ms[k]],
           \A k \in 1..count : ms[k] \in S
    PROVE  ms \in Seq(S)
OBVIOUS

\* Moves of b bytes each that go to given places of a block, and together to all
\* of it.
Laid(ms, to, from, b, total, count, place) ==
    /\ to \in Int /\ from \in Int /\ b \in Nat /\ total \in Nat /\ count \in Nat
    /\ DOMAIN place = 1..count
    /\ \A k \in DOMAIN place : place[k] \in Nat /\ place[k] + b <= total
    /\ \A o \in Nat : o < total =>
          \E k \in DOMAIN place : place[k] <= o /\ o < place[k] + b
    /\ ms = [k \in DOMAIN place |-> Move(from + place[k], to + place[k], b)]

\* Such moves cover the block.
LEMMA PlacesCover ==
    ASSUME NEW ms, NEW to, NEW from, NEW b, NEW total, NEW count, NEW place,
           Laid(ms, to, from, b, total, count, place)
    PROVE  /\ Covers(ms, to, from, total)
           /\ DOMAIN ms = 1..count
           /\ \A k \in 1..count : ms[k].to = to + place[k] /\ ms[k].bytes = b
<1>0. /\ to \in Int /\ from \in Int /\ b \in Nat /\ b \in Int
      /\ total \in Nat /\ total \in Int /\ count \in Nat
  BY DEF Laid
<1>1. /\ DOMAIN ms = 1..count
      /\ \A k \in 1..count :
            /\ place[k] \in Nat /\ place[k] + b <= total
            /\ ms[k] = Move(from + place[k], to + place[k], b)
  BY Zenon DEF Laid
<1>2. \A k \in 1..count :
        /\ place[k] \in Nat /\ place[k] + b <= total
        /\ ms[k].to = to + place[k] /\ ms[k].from = from + place[k] /\ ms[k].bytes = b
        /\ ms[k] \in [from : Int, to : Int, bytes : Nat]
  <2> TAKE k \in 1..count
  <2>1. place[k] \in Nat /\ place[k] + b <= total
    BY <1>1, Zenon
  <2>2. ms[k] = [from |-> from + place[k], to |-> to + place[k], bytes |-> b]
    BY <1>1, Zenon DEF Move
  <2> QED BY <1>0, <2>1, <2>2
<1>3. ms \in Seq([from : Int, to : Int, bytes : Nat])
  <2>1. ms = [k \in 1..count |-> ms[k]]
    BY DEF Laid
  <2> QED BY <1>0, <1>2, <2>1, SequenceOf, Zenon
<1>4. Inside(ms, to, from, total)
  <2> SUFFICES ASSUME NEW k \in 1..count
               PROVE  /\ to <= ms[k].to /\ ms[k].to + ms[k].bytes <= to + total
                      /\ ms[k].from = ms[k].to - to + from
    BY <1>1, <1>3, Zenon DEF Inside
  <2>1. /\ place[k] \in Nat /\ place[k] + b <= total /\ ms[k].bytes = b
        /\ ms[k].to = to + place[k] /\ ms[k].from = from + place[k]
    BY <1>2, Zenon
  <2> QED BY <1>0, <2>1, ShiftedInside
<1>5. ASSUME NEW x \in Int, to <= x, x < to + total
      PROVE  Touched(ms, x)
  <2>1. x - to \in Nat /\ x - to < total
    BY <1>0, <1>5
  <2>2. PICK k \in 1..count : place[k] <= x - to /\ x - to < place[k] + b
    BY <2>1, Zenon DEF Laid
  <2>3. place[k] \in Int /\ ms[k].to = to + place[k] /\ ms[k].bytes = b
    BY <1>2
  <2>4. to + place[k] <= x /\ x < to + place[k] + b
    BY <1>0, <2>2, <2>3, Shifted
  <2> QED BY <1>1, <2>3, <2>4, Zenon DEF Touched
<1> QED BY <1>1, <1>2, <1>4, <1>5, Zenon DEF Covers

\* The upward loops go over count pieces.
LEMMA UpwardsCovers ==
    ASSUME NEW c, c.src \in Int, c.dst \in Int, NEW at \in Nat,
           NEW b \in Nat \ {0}, NEW count \in Nat
    PROVE  /\ Covers(Upwards(c, at, b, count), c.dst + at, c.src + at, count * b)
           /\ Rising(Upwards(c, at, b, count))
<1> DEFINE ms == Upwards(c, at, b, count)
           place == [k \in 1..count |-> (k - 1) * b]
           total == count * b
<1>1. \A k \in 1..count : (k - 1) * b \in Nat /\ (k - 1) * b + b <= count * b
  BY PieceInside
<1>2. /\ DOMAIN place = 1..count
      /\ \A k \in 1..count : place[k] \in Nat /\ place[k] + b <= total
  BY <1>1
<1>3. ASSUME NEW o \in Nat, o < total
      PROVE  \E k \in 1..count : place[k] <= o /\ o < place[k] + b
  <2>1. PICK k \in 0..(count - 1) : k * b <= o /\ o < k * b + b
    BY <1>3, Pieces, Zenon
  <2>2. k + 1 \in 1..count /\ place[k + 1] = k * b
    OBVIOUS
  <2> QED BY <2>1, <2>2, Zenon
<1>4. ms = [k \in 1..count |-> Move(c.src + at + place[k], c.dst + at + place[k], b)]
  BY DEF Upwards
<1>5. ASSUME NEW i \in 1..count, NEW j \in 1..count, i < j
      PROVE  place[i] + b <= place[j]
  BY <1>5, PieceBefore
<1>6. b \in Nat /\ b \in Int /\ total \in Nat /\ c.dst + at \in Int /\ c.src + at \in Int
  OBVIOUS
<1> HIDE DEF ms, place, total
<1>7. Laid(ms, c.dst + at, c.src + at, b, total, count, place)
  BY <1>2, <1>3, <1>4, <1>6, Zenon DEF Laid
<1>8. /\ Covers(ms, c.dst + at, c.src + at, total)
      /\ DOMAIN ms = 1..count
      /\ \A k \in 1..count : ms[k].to = c.dst + at + place[k] /\ ms[k].bytes = b
  BY <1>7, PlacesCover
<1>9. Rising(ms)
  <2> SUFFICES ASSUME NEW i \in 1..count, NEW j \in 1..count, i < j
               PROVE  ms[i].to + ms[i].bytes <= ms[j].to
    BY <1>8, Zenon DEF Rising
  <2>1. place[i] \in Int /\ place[j] \in Int
    BY <1>2
  <2> QED BY <1>5, <1>6, <1>8, <2>1, ShiftedOrder, Zenon
<1> QED BY <1>8, <1>9 DEF ms, total

\* The downward loops go over the same pieces.
LEMMA DownwardsCovers ==
    ASSUME NEW c, c.src \in Int, c.dst \in Int, NEW b \in Nat \ {0}, NEW count \in Nat
    PROVE  /\ Covers(Downwards(c, b, count), c.dst, c.src, count * b)
           /\ Falling(Downwards(c, b, count))
<1> DEFINE ms == Downwards(c, b, count)
           place == [k \in 1..count |-> (count - k) * b]
           total == count * b
<1>1. \A k \in 1..count : (count - k) * b \in Nat /\ (count - k) * b + b <= count * b
  <2> TAKE k \in 1..count
  <2>1. count - k + 1 \in 1..count /\ (count - k + 1) - 1 = count - k
    OBVIOUS
  <2> QED BY <2>1, PieceInside
<1>2. /\ DOMAIN place = 1..count
      /\ \A k \in 1..count : place[k] \in Nat /\ place[k] + b <= total
  BY <1>1
<1>3. ASSUME NEW o \in Nat, o < total
      PROVE  \E k \in 1..count : place[k] <= o /\ o < place[k] + b
  <2>1. PICK k \in 0..(count - 1) : k * b <= o /\ o < k * b + b
    BY <1>3, Pieces, Zenon
  <2>2. count - k \in 1..count /\ place[count - k] = k * b
    <3>1. count - (count - k) = k
      OBVIOUS
    <3> QED BY <3>1
  <2> QED BY <2>1, <2>2, Zenon
<1>4. ms = [k \in 1..count |-> Move(c.src + place[k], c.dst + place[k], b)]
  BY DEF Downwards
<1>5. ASSUME NEW i \in 1..count, NEW j \in 1..count, i < j
      PROVE  place[j] + b <= place[i]
  <2>1. (count - j + 1) - 1 = count - j /\ (count - i + 1) - 1 = count - i
    OBVIOUS
  <2>2. /\ count - j + 1 \in Nat /\ count - i + 1 \in Nat
        /\ count - j + 1 < count - i + 1
    BY <1>5
  <2> QED BY <2>1, <2>2, PieceBefore
<1>6. b \in Nat /\ b \in Int /\ total \in Nat /\ c.dst \in Int /\ c.src \in Int
  OBVIOUS
<1> HIDE DEF ms, place, total
<1>7. Laid(ms, c.dst, c.src, b, total, count, place)
  BY <1>2, <1>3, <1>4, <1>6, Zenon DEF Laid
<1>8. /\ Covers(ms, c.dst, c.src, total)
      /\ DOMAIN ms = 1..count
      /\ \A k \in 1..count : ms[k].to = c.dst + place[k] /\ ms[k].bytes = b
  BY <1>7, PlacesCover
<1>9. Falling(ms)
  <2> SUFFICES ASSUME NEW i \in 1..count, NEW j \in 1..count, i < j
               PROVE  ms[j].to + ms[j].bytes <= ms[i].to
    BY <1>8, Zenon DEF Falling
  <2>1. place[i] \in Int /\ place[j] \in Int
    BY <1>2
  <2> QED BY <1>5, <1>6, <1>8, <2>1, ShiftedOrder, Zenon
<1> QED BY <1>8, <1>9 DEF ms, total

\* Two blocks, one behind the other, are one block.
LEMMA Joined ==
    ASSUME NEW ms, NEW ns, NEW to \in Int, NEW from \in Int, NEW n \in Nat, NEW r \in Nat,
           Covers(ms, to, from, n), Covers(ns, to + n, from + n, r),
           Rising(ms), Rising(ns)
    PROVE  Covers(ms \o ns, to, from, n + r) /\ Rising(ms \o ns)
<1> DEFINE M == [from : Int, to : Int, bytes : Nat]
           all == ms \o ns
           p == Len(ms)
<1>1. /\ ms \in Seq(M) /\ ns \in Seq(M)
      /\ \A k \in DOMAIN ms :
            /\ to <= ms[k].to /\ ms[k].to + ms[k].bytes <= to + n
            /\ ms[k].from = ms[k].to - to + from
      /\ \A k \in DOMAIN ns :
            /\ to + n <= ns[k].to /\ ns[k].to + ns[k].bytes <= to + n + r
            /\ ns[k].from = ns[k].to - (to + n) + (from + n)
  BY Zenon DEF Covers, Inside
<1>2. /\ all \in Seq(M) /\ p \in Nat /\ Len(ns) \in Nat
      /\ DOMAIN ms = 1..p /\ DOMAIN ns = 1..Len(ns) /\ DOMAIN all = 1..(p + Len(ns))
  BY <1>1
<1>3. \A k \in 1..p : all[k] = ms[k]
  BY <1>1
<1>4. \A k \in 1..Len(ns) : all[p + k] = ns[k]
  BY <1>1
<1>5. \A k \in DOMAIN all : k \in 1..p \/ \E j \in 1..Len(ns) : k = p + j
  <2> TAKE k \in DOMAIN all
  <2>1. k \in 1..p \/ (k - p \in 1..Len(ns) /\ k = p + (k - p))
    BY <1>2
  <2> QED BY <2>1, Zenon
<1>6. /\ \A k \in 1..p : ms[k].to \in Int /\ ms[k].bytes \in Nat
      /\ \A k \in 1..Len(ns) : ns[k].to \in Int /\ ns[k].bytes \in Nat
  <2> HIDE DEF M
  <2>1. (\A k \in 1..p : ms[k] \in M) /\ (\A k \in 1..Len(ns) : ns[k] \in M)
    BY <1>1
  <2>2. \A m \in M : m.to \in Int /\ m.bytes \in Nat
    BY Zenon DEF M
  <2> QED BY <2>1, <2>2, Zenon
<1> HIDE DEF M, all, p
<1>7. Inside(all, to, from, n + r)
  <2> SUFFICES ASSUME NEW k \in DOMAIN all
               PROVE  /\ to <= all[k].to /\ all[k].to + all[k].bytes <= to + (n + r)
                      /\ all[k].from = all[k].to - to + from
    BY <1>2, Zenon DEF Inside, M
  <2>1. CASE k \in 1..p
    <3>1. /\ to <= ms[k].to /\ ms[k].to + ms[k].bytes <= to + n
          /\ ms[k].from = ms[k].to - to + from /\ all[k] = ms[k]
          /\ ms[k].to \in Int /\ ms[k].bytes \in Nat
      BY <1>1, <1>2, <1>3, <1>6, <2>1, Zenon
    <3> QED BY <3>1
  <2>2. ASSUME NEW j \in 1..Len(ns), k = p + j
        PROVE  /\ to <= all[k].to /\ all[k].to + all[k].bytes <= to + (n + r)
               /\ all[k].from = all[k].to - to + from
    <3>1. /\ to + n <= ns[j].to /\ ns[j].to + ns[j].bytes <= to + n + r
          /\ ns[j].from = ns[j].to - (to + n) + (from + n) /\ all[k] = ns[j]
          /\ ns[j].to \in Int /\ ns[j].bytes \in Nat
      BY <1>1, <1>2, <1>4, <1>6, <2>2, Zenon
    <3> QED BY <3>1
  <2> QED BY <1>5, <2>1, <2>2, Zenon
<1>8. ASSUME NEW x \in Int, to <= x, x < to + (n + r)
      PROVE  Touched(all, x)
  <2>1. CASE x < to + n
    <3>1. PICK k \in 1..p : ms[k].to <= x /\ x < ms[k].to + ms[k].bytes
      BY <1>2, <1>8, <2>1, Zenon DEF Covers, Touched
    <3>2. k \in DOMAIN all
      BY <1>2
    <3> QED BY <1>3, <3>1, <3>2, Zenon DEF Touched
  <2>2. CASE to + n <= x /\ x < to + n + r
    <3>1. PICK k \in 1..Len(ns) : ns[k].to <= x /\ x < ns[k].to + ns[k].bytes
      BY <1>2, <2>2, Zenon DEF Covers, Touched
    <3>2. p + k \in DOMAIN all
      BY <1>2
    <3> QED BY <1>4, <3>1, <3>2, Zenon DEF Touched
  <2> QED BY <1>8, <2>1, <2>2
<1>9. Rising(all)
  <2> SUFFICES ASSUME NEW i \in DOMAIN all, NEW j \in DOMAIN all, i < j
               PROVE  all[i].to + all[i].bytes <= all[j].to
    BY Zenon DEF Rising
  <2>1. CASE j \in 1..p
    <3>1. i \in 1..p
      BY <1>2, <2>1
    <3> QED BY <1>2, <1>3, <2>1, <3>1, Zenon DEF Rising
  <2>2. ASSUME NEW m \in 1..Len(ns), j = p + m, i \in 1..p
        PROVE  all[i].to + all[i].bytes <= all[j].to
    <3>1. /\ ms[i].to + ms[i].bytes <= to + n /\ to + n <= ns[m].to
          /\ ms[i].to \in Int /\ ms[i].bytes \in Nat /\ ns[m].to \in Int
          /\ all[i] = ms[i] /\ all[j] = ns[m]
      BY <1>1, <1>2, <1>3, <1>4, <1>6, <2>2, Zenon
    <3> QED BY <3>1
  <2>3. ASSUME NEW m \in 1..Len(ns), j = p + m, NEW l \in 1..Len(ns), i = p + l
        PROVE  all[i].to + all[i].bytes <= all[j].to
    <3>1. l < m
      BY <1>2, <2>3
    <3> QED BY <1>2, <1>4, <2>3, <3>1, Zenon DEF Rising
  <2> QED BY <1>5, <2>1, <2>2, <2>3, Zenon
<1> QED BY <1>7, <1>8, <1>9, Zenon DEF Covers, all

\* Words, then bytes: the loops of memcpy and memset go over n bytes.
LEMMA WholeThenRestCovers ==
    ASSUME NEW c, c.src \in Int, c.dst \in Int, c.n \in Nat
    PROVE  /\ Covers(WholeThenRest(c), c.dst, c.src, c.n)
           /\ Rising(WholeThenRest(c))
<1> DEFINE q == c.n \div WORD
           w == q * WORD
           r == c.n % WORD
<1>1. q \in Nat /\ w \in Nat /\ r \in Nat /\ w + r = c.n
  BY MovesAssumption, WordsAndRest
<1>2. WholeThenRest(c) = Upwards(c, 0, WORD, q) \o Upwards(c, w, 1, r)
  BY DEF WholeThenRest
<1> HIDE DEF q, w, r
<1>3. /\ c.dst + 0 = c.dst /\ c.src + 0 = c.src /\ r * 1 = r
      /\ 0 \in Nat /\ 1 \in Nat \ {0} /\ WORD \in Nat \ {0}
  BY <1>1, MovesAssumption
<1>4. Covers(Upwards(c, 0, WORD, q), c.dst, c.src, w) /\ Rising(Upwards(c, 0, WORD, q))
  BY <1>1, <1>3, UpwardsCovers, Zenon DEF w
<1>5. Covers(Upwards(c, w, 1, r), c.dst + w, c.src + w, r) /\ Rising(Upwards(c, w, 1, r))
  BY <1>1, <1>3, UpwardsCovers, Zenon
<1>6. /\ Covers(Upwards(c, 0, WORD, q) \o Upwards(c, w, 1, r), c.dst, c.src, w + r)
      /\ Rising(Upwards(c, 0, WORD, q) \o Upwards(c, w, 1, r))
  BY <1>1, <1>4, <1>5, Joined, Zenon
<1> QED BY <1>1, <1>2, <1>6, Zenon

-----------------------------------------------------------------------------
(* One move *)

\* What the call is to leave at an address of the block.
Value(b, c, to, x) == IF c.op \in Setting THEN c.src ELSE b[x - to + c.src]

\* Between two moves: what no later move touches has its new value, everything
\* else and what later moves read has its old one.
Halfway(m, b, ms, c, to, n) ==
    /\ \A x \in Addresses :
          m[x] = IF to <= x /\ x < to + n /\ ~Touched(ms, x) THEN Value(b, c, to, x) ELSE b[x]
    /\ c.op \notin Setting =>
          \A x \in Int : Touched(ms, x) => m[x - to + c.src] = b[x - to + c.src]

\* Both blocks lie in the memory.
Fits(c, to, n) ==
    /\ to \in Nat /\ n \in Nat /\ to + n <= Size /\ c.src \in Nat
    /\ IF c.op \in Setting THEN c.src \in Bytes ELSE c.src + n <= Size

\* The memory after a move.
After(m, c, d) ==
    [x \in Addresses |->
        IF x \in d.to..(d.to + d.bytes - 1)
        THEN IF c.op \in Setting THEN c.src ELSE m[x - d.to + d.from]
        ELSE m[x]]

\* The move writes the address.
Within(d, x) == d.to <= x /\ x < d.to + d.bytes

\* What the moves touch is what the next one does and what the others do, and the
\* others lie on one side of it.
LEMMA HeadAndTail ==
    ASSUME NEW ms, NEW to \in Int, NEW from \in Int, NEW n \in Nat,
           Inside(ms, to, from, n), ms # <<>>
    PROVE  /\ Inside(Tail(ms), to, from, n)
           /\ Head(ms).to \in Int /\ Head(ms).from \in Int /\ Head(ms).bytes \in Nat
           /\ to <= Head(ms).to /\ Head(ms).to + Head(ms).bytes <= to + n
           /\ Head(ms).from = Head(ms).to - to + from
           /\ \A x \in Int : Touched(ms, x) <=> Within(Head(ms), x) \/ Touched(Tail(ms), x)
           /\ \A x \in Int : Touched(ms, x) => to <= x /\ x < to + n
           /\ Rising(ms) => /\ Rising(Tail(ms))
                            /\ \A x \in Int : Touched(Tail(ms), x) =>
                                  Head(ms).to + Head(ms).bytes <= x
           /\ Falling(ms) => /\ Falling(Tail(ms))
                             /\ \A x \in Int : Touched(Tail(ms), x) => x < Head(ms).to
<1> DEFINE M == [from : Int, to : Int, bytes : Nat]
           d == Head(ms)
           rest == Tail(ms)
           p == Len(ms)
<1>1. \A m \in M : m.to \in Int /\ m.from \in Int /\ m.bytes \in Nat
  BY Zenon
<1> HIDE DEF M
<1>2. ms \in Seq(M)
  BY Zenon DEF Inside, M
<1>3. /\ rest \in Seq(M) /\ p \in Nat /\ p >= 1 /\ DOMAIN ms = 1..p
      /\ DOMAIN rest = 1..(p - 1) /\ d = ms[1]
      /\ \A k \in 1..p : ms[k] \in M
      /\ \A k \in 1..(p - 1) : k + 1 \in 1..p /\ rest[k] = ms[k + 1]
  BY <1>2
<1>4. \A k \in 1..p :
        /\ ms[k].to \in Int /\ ms[k].from \in Int /\ ms[k].bytes \in Nat
        /\ to <= ms[k].to /\ ms[k].to + ms[k].bytes <= to + n
        /\ ms[k].from = ms[k].to - to + from
  BY <1>1, <1>3, Zenon DEF Inside
<1> HIDE DEF d, rest, p
<1>5. 1 \in 1..p
  BY <1>3
<1>6. Inside(rest, to, from, n)
  BY <1>3, <1>4, Zenon DEF Inside, M
<1>7. \A k \in 1..p : k = 1 \/ \E j \in 1..(p - 1) : k = j + 1
  <2> TAKE k \in 1..p
  <2>1. k = 1 \/ (k - 1 \in 1..(p - 1) /\ k = (k - 1) + 1)
    BY <1>3
  <2> QED BY <2>1, Zenon
<1>8. ASSUME NEW x \in Int
      PROVE  Touched(ms, x) <=> Within(d, x) \/ Touched(rest, x)
  <2>1. Touched(ms, x) <=> \E k \in 1..p : Within(ms[k], x)
    BY <1>3, Zenon DEF Touched, Within
  <2>2. Touched(rest, x) <=> \E k \in 1..(p - 1) : Within(ms[k + 1], x)
    BY <1>3, Zenon DEF Touched, Within
  <2>3. Within(d, x) <=> Within(ms[1], x)
    BY <1>3, Zenon
  <2> QED BY <1>3, <1>5, <1>7, <2>1, <2>2, <2>3, Zenon
<1>9. ASSUME NEW x \in Int, Touched(ms, x)
      PROVE  to <= x /\ x < to + n
  <2>1. PICK k \in 1..p : ms[k].to <= x /\ x < ms[k].to + ms[k].bytes
    BY <1>3, <1>9, Zenon DEF Touched
  <2>2. /\ ms[k].to \in Int /\ ms[k].bytes \in Nat
        /\ to <= ms[k].to /\ ms[k].to + ms[k].bytes <= to + n
    BY <1>4, Zenon
  <2> QED BY <2>1, <2>2
<1>10. \A i, j \in 1..(p - 1) : i < j => i + 1 < j + 1
  BY <1>3
<1>11. \A j \in 1..(p - 1) : 1 < j + 1
  BY <1>3
<1>12. ASSUME Rising(ms)
       PROVE  /\ Rising(rest)
              /\ \A x \in Int : Touched(rest, x) => d.to + d.bytes <= x
  <2>1. Rising(rest)
    BY <1>3, <1>10, <1>12, Zenon DEF Rising
  <2>2. ASSUME NEW x \in Int, Touched(rest, x)
        PROVE  d.to + d.bytes <= x
    <3>1. PICK j \in 1..(p - 1) : rest[j].to <= x
      BY <1>3, <2>2, Zenon DEF Touched
    <3>2. d.to + d.bytes <= ms[j + 1].to
      BY <1>3, <1>5, <1>11, <1>12, Zenon DEF Rising
    <3>3. /\ ms[j + 1].to <= x /\ ms[j + 1].to \in Int
          /\ d.to \in Int /\ d.bytes \in Nat
      BY <1>3, <1>4, <1>5, <3>1, Zenon
    <3> QED BY <3>2, <3>3
  <2> QED BY <2>1, <2>2, Zenon
<1>13. ASSUME Falling(ms)
       PROVE  /\ Falling(rest)
              /\ \A x \in Int : Touched(rest, x) => x < d.to
  <2>1. Falling(rest)
    BY <1>3, <1>10, <1>13, Zenon DEF Falling
  <2>2. ASSUME NEW x \in Int, Touched(rest, x)
        PROVE  x < d.to
    <3>1. PICK j \in 1..(p - 1) : x < rest[j].to + rest[j].bytes
      BY <1>3, <2>2, Zenon DEF Touched
    <3>2. ms[j + 1].to + ms[j + 1].bytes <= d.to
      BY <1>3, <1>5, <1>11, <1>13, Zenon DEF Falling
    <3>3. /\ x < ms[j + 1].to + ms[j + 1].bytes
          /\ ms[j + 1].to \in Int /\ ms[j + 1].bytes \in Nat /\ d.to \in Int
      BY <1>3, <1>4, <1>5, <3>1, Zenon
    <3> QED BY <3>2, <3>3
  <2> QED BY <2>1, <2>2, Zenon
<1>14. /\ d.to \in Int /\ d.from \in Int /\ d.bytes \in Nat
       /\ to <= d.to /\ d.to + d.bytes <= to + n /\ d.from = d.to - to + from
  BY <1>3, <1>4, <1>5, Zenon
<1> QED BY <1>6, <1>8, <1>9, <1>12, <1>13, <1>14, Zenon DEF d, rest

\* A move in a safe direction brings the call one move further.
LEMMA OneMove ==
    ASSUME NEW ms, NEW m \in [Addresses -> Bytes], NEW b, NEW c, NEW to, NEW n,
           Fits(c, to, n), ms # <<>>,
           Inside(ms, to, c.src, n), Safe(ms, c.op, to, c.src, n), Halfway(m, b, ms, c, to, n)
    PROVE  /\ Inside(Tail(ms), to, c.src, n) /\ Safe(Tail(ms), c.op, to, c.src, n)
           /\ After(m, c, Head(ms)) \in [Addresses -> Bytes]
           /\ Halfway(After(m, c, Head(ms)), b, Tail(ms), c, to, n)
<1> DEFINE d == Head(ms)
           rest == Tail(ms)
           m2 == After(m, c, d)
<1>1. /\ to \in Nat /\ to \in Int /\ n \in Nat /\ to + n <= Size
      /\ c.src \in Nat /\ c.src \in Int /\ Size \in Nat
      /\ c.op \in Setting => c.src \in Bytes
      /\ c.op \notin Setting => c.src + n <= Size
  BY MovesAssumption DEF Fits
<1>2. /\ Inside(rest, to, c.src, n)
      /\ d.to \in Int /\ d.from \in Int /\ d.bytes \in Nat
      /\ to <= d.to /\ d.to + d.bytes <= to + n
      /\ d.from = d.to - to + c.src
      /\ \A x \in Int : Touched(ms, x) <=> Within(d, x) \/ Touched(rest, x)
      /\ \A x \in Int : Touched(ms, x) => to <= x /\ x < to + n
      /\ Rising(ms) => /\ Rising(rest)
                       /\ \A x \in Int : Touched(rest, x) => d.to + d.bytes <= x
      /\ Falling(ms) => /\ Falling(rest)
                        /\ \A x \in Int : Touched(rest, x) => x < d.to
  BY <1>1, HeadAndTail, Zenon
<1> HIDE DEF d, rest
<1>3. Safe(rest, c.op, to, c.src, n)
  BY <1>2, Zenon DEF Safe
<1>4. \A x \in Addresses :
        m2[x] = IF Within(d, x) THEN IF c.op \in Setting THEN c.src ELSE m[x - d.to + d.from]
                ELSE m[x]
  <2> TAKE x \in Addresses
  <2>1. x \in d.to..(d.to + d.bytes - 1) <=> Within(d, x)
    BY <1>1, <1>2 DEF Within, Addresses
  <2> QED BY <2>1, Zenon DEF After
<1>5. \A x \in Addresses : x \in Int
  BY <1>1 DEF Addresses
<1>6. ASSUME NEW x \in Int, Touched(ms, x), c.op \notin Setting
      PROVE  x - to + c.src \in Addresses /\ x - to + c.src \in Int
  <2>1. to <= x /\ x < to + n
    BY <1>2, <1>6, Zenon
  <2> QED BY <1>1, <1>6, <2>1 DEF Addresses
<1>7. ASSUME NEW x \in Addresses, Within(d, x)
      PROVE  /\ to <= x /\ x < to + n /\ ~Touched(rest, x) /\ Touched(ms, x)
             /\ x - d.to + d.from = x - to + c.src
  <2>1. x \in Int /\ Touched(ms, x) /\ to <= x /\ x < to + n
    BY <1>2, <1>5, <1>7, Zenon
  <2>2. ~(d.to + d.bytes <= x) /\ ~(x < d.to)
    BY <1>2, <1>7, <2>1 DEF Within
  <2>3. ~Touched(rest, x)
    BY <1>2, <2>1, <2>2, Zenon DEF Safe
  <2>4. x - d.to + d.from = x - to + c.src
    BY <1>1, <1>2, <2>1
  <2> QED BY <2>1, <2>3, <2>4, Zenon
<1>8. ASSUME NEW x \in Addresses, Within(d, x)
      PROVE  m2[x] = Value(b, c, to, x)
  <2>1. CASE c.op \in Setting
    BY <1>4, <1>8, <2>1, Zenon DEF Value
  <2>2. CASE c.op \notin Setting
    <3>1. m2[x] = m[x - to + c.src]
      BY <1>4, <1>7, <1>8, <2>2, Zenon
    <3>2. m[x - to + c.src] = b[x - to + c.src]
      BY <1>5, <1>7, <1>8, <2>2, Zenon DEF Halfway
    <3> QED BY <2>2, <3>1, <3>2, Zenon DEF Value
  <2> QED BY <2>1, <2>2, Zenon
<1>9. ASSUME NEW x \in Addresses
      PROVE  m2[x] = IF to <= x /\ x < to + n /\ ~Touched(rest, x)
                     THEN Value(b, c, to, x) ELSE b[x]
  <2>1. CASE Within(d, x)
    BY <1>7, <1>8, <2>1, Zenon
  <2>2. CASE ~Within(d, x)
    <3>1. m2[x] = m[x] /\ (Touched(ms, x) <=> Touched(rest, x))
      BY <1>2, <1>4, <1>5, <2>2, Zenon
    <3> QED BY <3>1, Zenon DEF Halfway
  <2> QED BY <2>1, <2>2, Zenon
<1>10. ASSUME c.op \notin Setting, NEW x \in Int, Touched(rest, x)
       PROVE  m2[x - to + c.src] = b[x - to + c.src]
  <2> DEFINE y == x - to + c.src
  <2>1. Touched(ms, x)
    BY <1>2, <1>10, Zenon
  <2>2. to <= x /\ x < to + n
    BY <1>2, <2>1, Zenon
  <2>3. y \in Addresses /\ y \in Int
    BY <1>6, <1>10, <2>1, Zenon
  <2>4. ~Within(d, y)
    <3>1. CASE Rising(ms) /\ to <= c.src
      <4>1. d.to + d.bytes <= x
        BY <1>2, <1>10, <3>1, Zenon
      <4> QED BY <1>1, <1>2, <3>1, <4>1 DEF Within
    <3>2. CASE Rising(ms) /\ c.src + n <= to
      BY <1>1, <1>2, <2>2, <3>2 DEF Within
    <3>3. CASE Falling(ms) /\ c.src <= to
      <4>1. x < d.to
        BY <1>2, <1>10, <3>3, Zenon
      <4> QED BY <1>1, <1>2, <3>3, <4>1 DEF Within
    <3> QED BY <1>10, <3>1, <3>2, <3>3, Zenon DEF Safe
  <2> HIDE DEF y
  <2>5. m2[y] = m[y]
    BY <1>4, <2>3, <2>4, Zenon
  <2> QED BY <1>10, <2>1, <2>5, Zenon DEF Halfway, y
<1>11. Halfway(m2, b, rest, c, to, n)
  BY <1>9, <1>10, Zenon DEF Halfway
<1>12. m2 \in [Addresses -> Bytes]
  <2>1. ASSUME NEW x \in Addresses PROVE m2[x] \in Bytes
    <3>1. CASE Within(d, x) /\ c.op \notin Setting
      <4>1. m2[x] = m[x - to + c.src]
        BY <1>4, <1>7, <3>1, Zenon
      <4>2. x - to + c.src \in Addresses
        BY <1>5, <1>6, <1>7, <3>1, Zenon
      <4> QED BY <4>1, <4>2, Zenon
    <3>2. CASE Within(d, x) /\ c.op \in Setting
      BY <1>1, <1>4, <3>2, Zenon
    <3>3. CASE ~Within(d, x)
      BY <1>4, <3>3, Zenon
    <3> QED BY <3>1, <3>2, <3>3, Zenon
  <2>2. m2 = [x \in Addresses |-> m2[x]]
    BY Zenon DEF After
  <2> HIDE DEF m2
  <2> QED BY <2>1, <2>2, Zenon
<1> QED BY <1>2, <1>3, <1>11, <1>12, Zenon DEF d, rest

-----------------------------------------------------------------------------
(* The moves of each function *)

\* What a caller can ask for.
Calls == [op : Operations, dst : Addresses, src : Addresses, n : 0..Size]

\* A string that has an end ends inside the memory, at the first zero.
LEMMA StringEnds ==
    ASSUME NEW m, NEW s \in Addresses, Ends(m, s) # {}
    PROVE  /\ strlen(m, s) \in Nat /\ s + strlen(m, s) < Size
           /\ m[s + strlen(m, s)] = 0
<1>1. Ends(m, s) \in SUBSET Nat
  BY MovesAssumption DEF Ends, Addresses
<1>2. \E x \in Ends(m, s) : \A y \in Ends(m, s) : x <= y
  BY <1>1, HasLeast, Zenon
<1>3. strlen(m, s) \in Ends(m, s)
  BY <1>2, Zenon DEF strlen, Min
<1>4. strlen(m, s) \in 0..(Size - s - 1) /\ m[s + strlen(m, s)] = 0
  BY <1>3, Zenon DEF Ends
<1> QED BY <1>4, MovesAssumption DEF Addresses

\* The smaller of two numbers.
LEMMA Smaller ==
    ASSUME NEW i \in Int, NEW j \in Int
    PROVE  /\ Min({i, j}) \in {i, j} /\ Min({i, j}) <= i /\ Min({i, j}) <= j
<1>1. \E x \in {i, j} : \A y \in {i, j} : x <= y
  OBVIOUS
<1>2. Min({i, j}) \in {i, j} /\ \A y \in {i, j} : Min({i, j}) <= y
  BY <1>1, Zenon DEF Min
<1> QED BY <1>2, Zenon

\* The fields of a call.
LEMMA CallTyped ==
    ASSUME NEW c \in Calls
    PROVE  /\ c.op \in Operations /\ c.dst \in Addresses /\ c.src \in Addresses
           /\ c.dst \in Nat /\ c.src \in Nat /\ c.n \in Nat
           /\ c.dst \in Int /\ c.src \in Int /\ Size \in Nat /\ WORD \in Nat \ {0}
<1>1. c.op \in Operations /\ c.dst \in Addresses /\ c.src \in Addresses /\ c.n \in 0..Size
  BY Zenon DEF Calls
<1> QED BY <1>1, MovesAssumption DEF Addresses

\* A plan for a call: moves for the whole of its block, in a safe direction.
Planned(ms, c, to, n) ==
    Covers(ms, to, c.src, n) /\ Safe(ms, c.op, to, c.src, n) /\ Fits(c, to, n)

\* memcpy and memset of both libraries.
LEMMA WholePlanned ==
    ASSUME NEW m, NEW c \in Calls, Allowed(m, c),
           c.op \in {"memcpy", "kernel_memcpy", "memset", "kernel_memset"}
    PROVE  Planned(Moves(m, c), c, Target(m, c), Extent(m, c))
<1>1. Moves(m, c) = WholeThenRest(c)
  BY DEF Moves, memcpy, kernel_memcpy, memset, kernel_memset
<1>2. Target(m, c) = c.dst /\ Extent(m, c) = c.n
  BY DEF Target, Extent
<1>3. /\ c.dst + c.n <= Size
      /\ IF c.op \in Setting THEN c.src \in Bytes ELSE c.src + c.n <= Size
      /\ c.op \in Setting \/ c.dst <= c.src \/ c.dst >= c.src + c.n
  BY DEF Allowed, Setting, Copying, Strings
<1>4. Covers(WholeThenRest(c), c.dst, c.src, c.n) /\ Rising(WholeThenRest(c))
  BY CallTyped, WholeThenRestCovers, Zenon
<1>5. Fits(c, c.dst, c.n)
  BY <1>3, CallTyped, Zenon DEF Fits
<1>6. c.dst <= c.src \/ c.src + c.n <= c.dst \/ c.op \in Setting
  BY <1>3, CallTyped
<1> QED BY <1>1, <1>2, <1>4, <1>5, <1>6, Zenon DEF Planned, Safe

\* memmove of both libraries.
LEMMA MovePlanned ==
    ASSUME NEW m, NEW c \in Calls, Allowed(m, c), c.op \in {"memmove", "kernel_memmove"}
    PROVE  Planned(Moves(m, c), c, Target(m, c), Extent(m, c))
<1>1. Moves(m, c) = IF c.dst < c.src THEN WholeThenRest(c) ELSE Downwards(c, 1, c.n)
  BY DEF Moves, memmove, kernel_memmove, memcpy, kernel_memcpy
<1>2. Target(m, c) = c.dst /\ Extent(m, c) = c.n
  BY DEF Target, Extent
<1>3. c.dst + c.n <= Size /\ c.op \notin Setting /\ c.src + c.n <= Size
  BY DEF Allowed, Setting, Strings
<1>4. Fits(c, c.dst, c.n)
  BY <1>3, CallTyped, Zenon DEF Fits
<1>5. CASE c.dst < c.src
  <2>1. Covers(WholeThenRest(c), c.dst, c.src, c.n) /\ Rising(WholeThenRest(c))
    BY CallTyped, WholeThenRestCovers, Zenon
  <2>2. c.dst <= c.src
    BY <1>5, CallTyped
  <2> QED BY <1>1, <1>2, <1>4, <1>5, <2>1, <2>2, Zenon DEF Planned, Safe
<1>6. CASE ~(c.dst < c.src)
  <2>1. c.n * 1 = c.n /\ 1 \in Nat \ {0} /\ c.src <= c.dst
    BY <1>6, CallTyped
  <2>2. Covers(Downwards(c, 1, c.n), c.dst, c.src, c.n) /\ Falling(Downwards(c, 1, c.n))
    BY <2>1, CallTyped, DownwardsCovers, Zenon
  <2> QED BY <1>1, <1>2, <1>4, <1>6, <2>1, <2>2, Zenon DEF Planned, Safe
<1> QED BY <1>5, <1>6, Zenon

\* The functions that move whole words only.
LEMMA FastPlanned ==
    ASSUME NEW m, NEW c \in Calls, Allowed(m, c),
           c.op \in {"fast_memcpy", "fast_memmove", "fast_memset"}
    PROVE  Planned(Moves(m, c), c, Target(m, c), Extent(m, c))
<1> DEFINE q == IF c.op = "fast_memset" THEN c.n ELSE c.n \div WORD
           w == q * WORD
<1>1. /\ c.dst + 0 = c.dst /\ c.src + 0 = c.src /\ 0 \in Nat
      /\ c.n \div WORD \in Nat /\ (c.n \div WORD) * WORD \in Nat
      /\ (c.n \div WORD) * WORD <= c.n /\ c.n * WORD \in Nat
  <2>1. /\ c.n \div WORD \in Nat /\ (c.n \div WORD) * WORD \in Nat
        /\ (c.n \div WORD) * WORD <= c.n
    BY CallTyped, WordsAndRest, Zenon
  <2>2. c.dst + 0 = c.dst /\ c.src + 0 = c.src /\ 0 \in Nat
    BY CallTyped
  <2>3. c.n * WORD \in Nat
    BY CallTyped
  <2> QED BY <2>1, <2>2, <2>3, Zenon
<1>2. Target(m, c) = c.dst /\ Extent(m, c) = w
  BY DEF Target, Extent
<1>3. q \in Nat /\ w \in Nat
  <2>1. CASE c.op = "fast_memset"
    BY <1>1, <2>1, CallTyped, Zenon
  <2>2. CASE c.op # "fast_memset"
    BY <1>1, <2>2, Zenon
  <2> QED BY <2>1, <2>2, Zenon
<1>4. /\ c.dst + w <= Size
      /\ c.op \in Setting <=> c.op = "fast_memset"
      /\ IF c.op \in Setting THEN c.src \in Bytes ELSE c.src + w <= Size
      /\ c.op = "fast_memcpy" => c.dst <= c.src \/ c.src + w <= c.dst
  <2>1. CASE c.op = "fast_memset"
    BY <2>1 DEF Allowed, Setting, Strings
  <2>2. CASE c.op # "fast_memset"
    <3>1. /\ c.dst + c.n <= Size /\ c.src + c.n <= Size /\ c.op \notin Setting
          /\ c.op = "fast_memcpy" => c.dst <= c.src \/ c.dst >= c.src + c.n
      BY <2>2 DEF Allowed, Setting, Strings, Copying
    <3>2. w <= c.n
      BY <1>1, <2>2, Zenon
    <3> HIDE DEF w
    <3> QED BY <1>3, <2>2, <3>1, <3>2, CallTyped
  <2> QED BY <2>1, <2>2, Zenon
<1>5. Fits(c, c.dst, w)
  BY <1>3, <1>4, CallTyped, Zenon DEF Fits
<1>6. Moves(m, c) = IF c.op = "fast_memmove" /\ ~(c.dst < c.src)
                    THEN Downwards(c, WORD, q) ELSE Upwards(c, 0, WORD, q)
  BY DEF Moves, fast_memcpy, fast_memmove, fast_memset
<1> HIDE DEF q
<1>7. CASE c.op = "fast_memmove" /\ ~(c.dst < c.src)
  <2>1. Covers(Downwards(c, WORD, q), c.dst, c.src, w) /\ Falling(Downwards(c, WORD, q))
    BY <1>3, CallTyped, DownwardsCovers, Zenon
  <2>2. c.src <= c.dst
    BY <1>7, CallTyped
  <2> QED BY <1>2, <1>5, <1>6, <1>7, <2>1, <2>2, Zenon DEF Planned, Safe
<1>8. CASE ~(c.op = "fast_memmove" /\ ~(c.dst < c.src))
  <2>1. Covers(Upwards(c, 0, WORD, q), c.dst, c.src, w) /\ Rising(Upwards(c, 0, WORD, q))
    BY <1>1, <1>3, CallTyped, UpwardsCovers, Zenon
  <2>2. c.dst < c.src => c.dst <= c.src
    BY CallTyped
  <2>3. c.op \in Setting \/ c.dst <= c.src \/ c.src + w <= c.dst
    BY <1>4, <1>8, <2>2, Zenon
  <2> QED BY <1>2, <1>5, <1>6, <1>8, <2>1, <2>3, Zenon DEF Planned, Safe
<1> QED BY <1>7, <1>8, Zenon

\* The string functions.
LEMMA StringPlanned ==
    ASSUME NEW m, NEW c \in Calls, Allowed(m, c), c.op \in Strings
    PROVE  Planned(Moves(m, c), c, Target(m, c), Extent(m, c))
<1> DEFINE len == strlen(m, c.src)
           to == Target(m, c)
           n == Extent(m, c)
           span == IF c.op \in {"strcpy", "strcat"} THEN len + 1 ELSE c.n
           e == IF c.op \in {"strcat", "strncat"} THEN Behind(m, c) ELSE c
<1>1. /\ Ends(m, c.src) # {} /\ Ends(m, c.dst) # {}
      /\ to + span <= Size /\ c.src + span <= Size /\ c.op \notin Setting
      /\ c.dst > c.src + len \/ c.src > to + span
  BY DEF Allowed, Strings, Setting, Target
<1>2. /\ n = IF c.op \in {"strcpy", "strcat"} THEN len + 1 ELSE Min({c.n, len + 1})
      /\ Moves(m, c) = Upwards(e, 0, 1, n)
  BY DEF Extent, Strings, Moves, strcpy, strncpy, strcat, strncat, Behind
<1>3. e.src = c.src /\ e.dst = to
  BY CallTyped DEF Target, Behind, Calls
<1>4. /\ len \in Nat /\ to \in Nat /\ c.dst <= to
  <2>1. len \in Nat /\ strlen(m, c.dst) \in Nat
    BY <1>1, CallTyped, StringEnds, Zenon
  <2> QED BY <2>1, CallTyped DEF Target
<1> HIDE DEF len, to, e, n
<1>5. n \in Nat /\ n <= span /\ n <= len + 1 /\ span \in Nat
  <2>1. CASE c.op \in {"strcpy", "strcat"}
    BY <1>2, <1>4, <2>1
  <2>2. CASE c.op \notin {"strcpy", "strcat"}
    <3>1. c.n \in Int /\ len + 1 \in Int /\ c.n \in Nat /\ len + 1 \in Nat
      BY <1>4, CallTyped
    <3>2. n \in {c.n, len + 1} /\ n <= c.n /\ n <= len + 1
      BY <1>2, <2>2, <3>1, Smaller, Zenon
    <3> QED BY <2>2, <3>1, <3>2, Zenon
  <2> QED BY <2>1, <2>2, Zenon
<1> HIDE DEF span
<1>6. Fits(c, to, n)
  <2>1. to + n <= Size /\ c.src + n <= Size
    BY <1>1, <1>4, <1>5, CallTyped
  <2> QED BY <1>1, <1>4, <1>5, <2>1, CallTyped, Zenon DEF Fits
<1>7. to <= c.src \/ c.src + n <= to
  BY <1>1, <1>4, <1>5, CallTyped
<1>8. Covers(Upwards(e, 0, 1, n), to, c.src, n) /\ Rising(Upwards(e, 0, 1, n))
  <2>1. /\ to + 0 = to /\ c.src + 0 = c.src /\ n * 1 = n /\ 0 \in Nat /\ 1 \in Nat \ {0}
        /\ to \in Int /\ c.src \in Int
    BY <1>4, <1>5, CallTyped
  <2> QED BY <1>3, <1>5, <2>1, UpwardsCovers, Zenon
<1> QED BY <1>2, <1>6, <1>7, <1>8, Zenon DEF Planned, Safe, to, n

\* Every call begins with a plan.
LEMMA EveryCallPlanned ==
    ASSUME NEW m, NEW c \in Calls, Allowed(m, c)
    PROVE  Planned(Moves(m, c), c, Target(m, c), Extent(m, c))
<1>1. \/ c.op \in {"memcpy", "kernel_memcpy", "memset", "kernel_memset"}
      \/ c.op \in {"memmove", "kernel_memmove"}
      \/ c.op \in {"fast_memcpy", "fast_memmove", "fast_memset"}
      \/ c.op \in Strings
  BY CallTyped DEF Operations, Setting, Copying, Moving
<1> QED BY <1>1, WholePlanned, MovePlanned, FastPlanned, StringPlanned, Zenon

-----------------------------------------------------------------------------
(* The inductive invariant *)

\* The memory between two moves: what has been moved has arrived, what is still to be
\* moved has not been overwritten.
MovesInv ==
    /\ mem \in [Addresses -> Bytes]
    /\ call = NoCall => moves = <<>>
    /\ call # NoCall =>
          /\ call \in Calls /\ Allowed(before, call)
          /\ Fits(call, Target(before, call), Extent(before, call))
          /\ Inside(moves, Target(before, call), call.src, Extent(before, call))
          /\ Safe(moves, call.op, Target(before, call), call.src, Extent(before, call))
          /\ Halfway(mem, before, moves, call, Target(before, call), Extent(before, call))

\* Before the first call nothing is to be moved.
LEMMA MovesInitially == Init => MovesInv
<1> SUFFICES ASSUME Init PROVE MovesInv
  OBVIOUS
<1>1. mem = [x \in Addresses |-> 0] /\ call = NoCall /\ moves = <<>>
  BY Zenon DEF Init
<1>2. mem \in [Addresses -> Bytes]
  BY <1>1, MovesAssumption, Zenon
<1> QED BY <1>1, <1>2, Zenon DEF MovesInv

\* A call begins with all of its block still to be moved.
LEMMA BeginKeeps ==
    ASSUME NEW m \in [Addresses -> Bytes], NEW c \in Calls, Begin(m, c)
    PROVE  MovesInv'
<1> DEFINE to == Target(m, c)
           n == Extent(m, c)
           ms == Moves(m, c)
<1>1. mem' = m /\ before' = m /\ call' = c /\ moves' = ms /\ Allowed(m, c)
  BY Zenon DEF Begin
<1>2. Covers(ms, to, c.src, n) /\ Safe(ms, c.op, to, c.src, n) /\ Fits(c, to, n)
  BY <1>1, EveryCallPlanned, Zenon DEF Planned
<1> HIDE DEF to, n, ms
<1>3. c # NoCall
  BY CallTyped DEF NoCall, Operations, Setting, Copying, Moving, Strings
<1>4. Size \in Nat /\ \A x \in Addresses : x \in Int
  BY MovesAssumption DEF Addresses
<1>5. Halfway(m, m, ms, c, to, n)
  BY <1>2, <1>4, Zenon DEF Halfway, Covers
<1>6. Inside(ms, to, c.src, n)
  BY <1>2, Zenon DEF Covers
<1> QED BY <1>1, <1>2, <1>3, <1>5, <1>6, Zenon DEF MovesInv, to, n

\* A move keeps the invariant.
LEMMA StepKeeps ==
    ASSUME MovesInv, Step
    PROVE  MovesInv'
<1> DEFINE to == Target(before, call)
           n == Extent(before, call)
<1>1. /\ moves # <<>> /\ moves' = Tail(moves) /\ call' = call /\ before' = before
      /\ mem' = After(mem, call, Head(moves))
  BY Zenon DEF Step, After
<1>2. /\ call # NoCall /\ mem \in [Addresses -> Bytes]
      /\ call \in Calls /\ Allowed(before, call) /\ Fits(call, to, n)
      /\ Inside(moves, to, call.src, n) /\ Safe(moves, call.op, to, call.src, n)
      /\ Halfway(mem, before, moves, call, to, n)
  BY <1>1, Zenon DEF MovesInv
<1> HIDE DEF to, n
<1>3. /\ Inside(Tail(moves), to, call.src, n) /\ Safe(Tail(moves), call.op, to, call.src, n)
      /\ After(mem, call, Head(moves)) \in [Addresses -> Bytes]
      /\ Halfway(After(mem, call, Head(moves)), before, Tail(moves), call, to, n)
  BY <1>1, <1>2, OneMove, Zenon
<1>4. Target(before', call') = to /\ Extent(before', call') = n
  BY <1>1, Zenon DEF to, n
<1> QED BY <1>1, <1>2, <1>3, <1>4, Zenon DEF MovesInv

\* Every call and every move keeps the invariant.
LEMMA MovesAlways == Spec => []MovesInv
<1>1. ASSUME MovesInv, [Next]_vars
      PROVE  MovesInv'
  <2>1. CASE Step
    BY <1>1, <2>1, StepKeeps, Zenon
  <2>2. ASSUME NEW m \in [Addresses -> Bytes], NEW dst \in Addresses, NEW src \in Addresses,
               NEW n \in 0..Size, NEW op \in Setting \cup Copying \cup Moving \cup Strings,
               Begin(m, [op |-> op, dst |-> dst, src |-> src, n |-> n])
        PROVE  MovesInv'
    <3>1. [op |-> op, dst |-> dst, src |-> src, n |-> n] \in Calls
      BY DEF Calls, Operations
    <3> QED BY <2>2, <3>1, BeginKeeps, Zenon
  <2>3. CASE UNCHANGED vars
    BY <1>1, <2>3, Zenon DEF vars, MovesInv
  <2> QED BY <1>1, <2>1, <2>2, <2>3, Zenon DEF Next
<1> QED BY <1>1, MovesInitially, PTL DEF Spec

-----------------------------------------------------------------------------
(* Finished calls *)

\* When no move is left, the block holds its new values and the rest of the
\* memory what it held.
LEMMA Finished ==
    ASSUME MovesInv, Done
    PROVE  /\ call \in Calls /\ Allowed(before, call)
           /\ Fits(call, Target(before, call), Extent(before, call))
           /\ \A x \in Addresses :
                 LET to == Target(before, call)
                     n == Extent(before, call)
                 IN  mem[x] = IF to <= x /\ x < to + n THEN Value(before, call, to, x)
                              ELSE before[x]
<1>1. moves = <<>> /\ call # NoCall
  BY Zenon DEF Done
<1>2. \A x : ~Touched(<<>>, x)
  BY DEF Touched
<1> QED BY <1>1, <1>2, Zenon DEF MovesInv, Halfway

\* memcpy, memset, memmove and their fast forms, in both libraries, leave what
\* they promise.
LEMMA BytesMovedNow == MovesInv => BytesMoved
<1> DEFINE to == Target(before, call)
           n == Extent(before, call)
<1>1. SUFFICES ASSUME MovesInv, Done, call.op \notin Strings
               PROVE  mem = [x \in Addresses |->
                        IF x \in call.dst..(call.dst + Amount - 1)
                        THEN IF call.op \in Setting THEN call.src
                             ELSE before[x - call.dst + call.src]
                        ELSE before[x]]
  BY Zenon DEF BytesMoved
<1>2. to = call.dst /\ n = Amount
  <2>1. call.op \in Operations
    BY <1>1, Finished, CallTyped, Zenon
  <2> QED BY <1>1, <2>1 DEF Target, Extent, Amount, Operations, Setting, Copying, Moving, Strings
<1>3. to \in Nat /\ n \in Nat /\ \A x \in Addresses : x \in Int
  BY <1>1, Finished, MovesAssumption DEF Fits, Addresses
<1>4. \A x \in Addresses :
        mem[x] = IF to <= x /\ x < to + n THEN Value(before, call, to, x) ELSE before[x]
  BY <1>1, Finished, Zenon
<1> HIDE DEF to, n
<1>5. ASSUME NEW x \in Addresses
      PROVE  mem[x] = IF x \in call.dst..(call.dst + Amount - 1)
                      THEN IF call.op \in Setting THEN call.src
                           ELSE before[x - call.dst + call.src]
                      ELSE before[x]
  <2>1. x \in to..(to + n - 1) <=> to <= x /\ x < to + n
    BY <1>3
  <2> QED BY <1>2, <1>4, <2>1, Zenon DEF Value
<1>6. mem = [x \in Addresses |-> mem[x]]
  BY <1>1, Zenon DEF MovesInv
<1> QED BY <1>5, <1>6, Zenon

\* The l bytes from an address on, as a sequence.
IsText(t, m, s, l) ==
    /\ t = [k \in 1..l |-> m[s + k - 1]] /\ DOMAIN t = 1..l /\ Len(t) = l
    /\ \A k \in 1..l : t[k] = m[s + k - 1]

\* A string is its bytes before the end.
LEMMA TextWhole ==
    ASSUME NEW m, NEW s, strlen(m, s) \in Nat
    PROVE  IsText(Text(m, s), m, s, strlen(m, s))
BY DEF Text, IsText

\* A prefix of a text is a text.
LEMMA TextPrefix ==
    ASSUME NEW t, NEW m, NEW s \in Nat, NEW l \in Nat, NEW i \in 0..l, IsText(t, m, s, l)
    PROVE  IsText(SubSeq(t, 1, i), m, s, i)
<1>1. t = [k \in 1..l |-> m[s + k - 1]]
  BY DEF IsText
<1> DEFINE u == SubSeq([k \in 1..l |-> m[s + k - 1]], 1, i)
<1>2. DOMAIN u = 1..i /\ Len(u) = i /\ \A k \in 1..i : u[k] = m[s + k - 1]
  OBVIOUS
<1>3. u = [k \in 1..i |-> u[k]]
  BY <1>2
<1> HIDE DEF u
<1>4. u = [k \in 1..i |-> m[s + k - 1]]
  BY <1>2, <1>3, Zenon
<1> QED BY <1>1, <1>2, <1>4, Zenon DEF IsText, u

\* The p bytes from one address on and the i bytes from another.
AreTexts(t, m, a, p, b, i) ==
    /\ DOMAIN t = 1..(p + i) /\ Len(t) = p + i
    /\ \A k \in 1..(p + i) : t[k] = IF k <= p THEN m[a + k - 1] ELSE m[b + (k - p) - 1]

\* A string appended to another one is the bytes of both.
LEMMA TextsJoined ==
    ASSUME NEW t, NEW u, NEW m, NEW a, NEW b, NEW p \in Nat, NEW i \in Nat,
           IsText(t, m, a, p), IsText(u, m, b, i)
    PROVE  AreTexts(t \o u, m, a, p, b, i)
<1> DEFINE v == [k \in 1..p |-> m[a + k - 1]]
           w == [k \in 1..i |-> m[b + k - 1]]
<1>1. t = v /\ u = w
  BY Zenon DEF IsText
<1>2. /\ DOMAIN (v \o w) = 1..(p + i) /\ Len(v \o w) = p + i
      /\ \A k \in 1..(p + i) :
            (v \o w)[k] = IF k <= p THEN m[a + k - 1] ELSE m[b + (k - p) - 1]
  OBVIOUS
<1> HIDE DEF v, w
<1> QED BY <1>1, <1>2, Zenon DEF AreTexts

\* strcpy and strcat leave the string they promise; strncpy and strncat leave it
\* cut to n bytes, with an end where they met one.
LEMMA StringsAsPromisedNow == MovesInv => StringsAsPromised
<1> DEFINE l == strlen(before, call.src)
           cut == call.op \in {"strncpy", "strncat"}
           cat == call.op \in {"strcat", "strncat"}
           source == Text(before, call.src)
           prior == Text(before, call.dst)
           wanted == CASE call.op = "strcpy" -> source
                       [] call.op = "strncpy" -> Prefix(source)
                       [] call.op = "strcat" -> prior \o source
                       [] OTHER -> prior \o Prefix(source)
           end == call.dst + Len(wanted)
           to == Target(before, call)
           n == Extent(before, call)
           kept == IF cut THEN Prefix(source) ELSE source
           i == IF cut THEN Min({l, call.n}) ELSE l
           p == IF cat THEN strlen(before, call.dst) ELSE 0
<1>1. SUFFICES ASSUME MovesInv, Done, call.op \in Strings
               PROVE  /\ \A k \in DOMAIN wanted : mem[call.dst + k - 1] = wanted[k]
                      /\ call.op \in {"strcpy", "strcat"} \/ call.n > Len(source) => mem[end] = 0
                      /\ \A x \in Addresses : x < call.dst \/ x > end => mem[x] = before[x]
                      /\ cut /\ call.n <= Len(source) /\ end < Size => mem[end] = before[end]
  BY Zenon DEF StringsAsPromised
<1>2. /\ call \in Calls /\ Allowed(before, call) /\ Fits(call, to, n)
      /\ \A x \in Addresses :
            mem[x] = IF to <= x /\ x < to + n THEN Value(before, call, to, x) ELSE before[x]
  BY <1>1, Finished, Zenon
<1>3. /\ call.dst \in Addresses /\ call.src \in Addresses /\ call.dst \in Nat
      /\ call.src \in Nat /\ call.n \in Nat /\ call.n \in Int /\ Size \in Nat
  BY <1>2, CallTyped
<1>4. /\ l \in Nat /\ call.src + l < Size /\ before[call.src + l] = 0
      /\ strlen(before, call.dst) \in Nat
  <2>1. Ends(before, call.src) # {} /\ Ends(before, call.dst) # {}
    BY <1>1, <1>2, Zenon DEF Allowed
  <2> QED BY <1>3, <2>1, StringEnds, Zenon
<1>5. /\ IsText(source, before, call.src, l)
      /\ IsText(prior, before, call.dst, strlen(before, call.dst))
  BY <1>4, TextWhole, Zenon
<1>6. p \in Nat /\ to = call.dst + p
  BY <1>3, <1>4 DEF Target
<1>7. /\ i \in Nat /\ i <= l
      /\ cut /\ call.n <= l => i = call.n /\ n = call.n
      /\ ~(cut /\ call.n <= l) => i = l /\ n = l + 1
  <2>1. /\ l \in Int /\ l + 1 \in Int
        /\ n = IF cut THEN Min({call.n, l + 1}) ELSE l + 1
    BY <1>1, <1>4 DEF Extent, Strings
  <2>2. /\ Min({l, call.n}) \in {l, call.n} /\ Min({l, call.n}) <= l /\ Min({l, call.n}) <= call.n
        /\ Min({call.n, l + 1}) \in {call.n, l + 1} /\ Min({call.n, l + 1}) <= call.n
        /\ Min({call.n, l + 1}) <= l + 1
    BY <1>3, <2>1, Smaller, Zenon
  <2> HIDE DEF l, n
  <2>3. /\ Min({l, call.n}) = IF call.n <= l THEN call.n ELSE l
        /\ Min({call.n, l + 1}) = IF call.n <= l THEN call.n ELSE l + 1
    BY <1>3, <1>4, <2>2
  <2>4. CASE cut
    BY <1>3, <1>4, <2>1, <2>3, <2>4
  <2>5. CASE ~cut
    BY <1>4, <2>1, <2>5
  <2> QED BY <2>4, <2>5, Zenon
<1>8. Len(source) = l
  BY <1>5, Zenon DEF IsText
<1>9. IsText(kept, before, call.src, i)
  <2>1. CASE cut
    <3>1. i \in 0..l
      BY <1>4, <1>7
    <3>2. kept = SubSeq(source, 1, i)
      BY <1>8, <2>1, Zenon DEF Prefix
    <3> HIDE DEF kept, i, source, l
    <3> QED BY <1>3, <1>4, <1>5, <3>1, <3>2, TextPrefix, Zenon
  <2>2. CASE ~cut
    BY <1>5, <2>2, Zenon
  <2> QED BY <2>1, <2>2, Zenon
<1>10. wanted = IF cat THEN prior \o kept ELSE kept
  BY <1>1 DEF Strings
<1> HIDE DEF l, source, prior, wanted, to, n, kept, i
<1>11. AreTexts(wanted, before, call.dst, p, call.src, i)
  <2>1. CASE cat
    <3>1. IsText(prior, before, call.dst, p) /\ p \in Nat /\ wanted = prior \o kept
      BY <1>4, <1>5, <1>10, <2>1, Zenon
    <3>2. i \in Nat
      BY <1>7, Zenon
    <3> HIDE DEF p, cat
    <3>3. AreTexts(prior \o kept, before, call.dst, p, call.src, i)
      BY <1>9, <3>1, <3>2, TextsJoined, Zenon
    <3> QED BY <3>1, <3>3, Zenon
  <2>2. CASE ~cat
    <3>1. p = 0 /\ p + i = i /\ \A k \in 1..i : ~(k <= p) /\ k - p = k
      BY <1>7, <2>2
    <3> HIDE DEF p
    <3> QED BY <1>9, <1>10, <2>2, <3>1, Zenon DEF IsText, AreTexts
  <2> QED BY <2>1, <2>2, Zenon
<1> HIDE DEF p
<1>12. end = to + i
  <2>1. Len(wanted) = p + i
    BY <1>11, Zenon DEF AreTexts
  <2> QED BY <1>3, <1>6, <1>7, <2>1
<1>13. /\ to \in Nat /\ n \in Nat /\ to + n <= Size /\ call.src + n <= Size
       /\ call.op \notin Setting
  <2>1. call.op \notin Setting
    BY <1>1 DEF Strings, Setting
  <2> QED BY <1>2, <2>1, Zenon DEF Fits
<1> HIDE DEF end
<1>14. \A x \in Addresses : to <= x /\ x < to + n => mem[x] = before[x - to + call.src]
  BY <1>2, <1>13, Zenon DEF Value
<1>15. \A x \in Addresses : ~(to <= x /\ x < to + n) => mem[x] = before[x]
  BY <1>2, Zenon
<1>16. ASSUME NEW k \in DOMAIN wanted
       PROVE  mem[call.dst + k - 1] = wanted[k]
  <2>0. k \in 1..(p + i) /\ i <= n
    <3>1. i <= n
      BY <1>3, <1>4, <1>7
    <3> QED BY <1>11, <3>1, Zenon DEF AreTexts
  <2>1. CASE k <= p
    <3>1. call.dst + k - 1 \in Addresses /\ ~(to <= call.dst + k - 1)
      BY <1>3, <1>6, <1>7, <1>13, <2>0, <2>1 DEF Addresses
    <3> QED BY <1>11, <1>15, <2>0, <2>1, <3>1, Zenon DEF AreTexts
  <2>2. CASE ~(k <= p)
    <3>1. /\ call.dst + k - 1 \in Addresses
          /\ to <= call.dst + k - 1 /\ call.dst + k - 1 < to + n
          /\ (call.dst + k - 1) - to + call.src = call.src + (k - p) - 1
      BY <1>3, <1>6, <1>7, <1>13, <2>0, <2>2 DEF Addresses
    <3>2. wanted[k] = before[call.src + (k - p) - 1]
      BY <1>11, <2>0, <2>2, Zenon DEF AreTexts
    <3>3. mem[call.dst + k - 1] = before[(call.dst + k - 1) - to + call.src]
      BY <1>14, <3>1, Zenon
    <3> QED BY <3>1, <3>2, <3>3, Zenon
  <2> QED BY <2>1, <2>2, Zenon
<1>17. ASSUME call.op \in {"strcpy", "strcat"} \/ call.n > Len(source)
       PROVE  mem[end] = 0
  <2>1. ~(cut /\ call.n <= l)
    BY <1>3, <1>4, <1>8, <1>17
  <2>2. i = l /\ n = l + 1
    BY <1>7, <2>1, Zenon
  <2>3. /\ end \in Addresses /\ to <= end /\ end < to + n
        /\ end - to + call.src = call.src + l
    BY <1>3, <1>4, <1>12, <1>13, <2>2 DEF Addresses
  <2> QED BY <1>4, <1>14, <2>3, Zenon
<1>18. ASSUME NEW x \in Addresses, x < call.dst \/ x > end
       PROVE  mem[x] = before[x]
  <2>1. n <= i + 1 /\ x \in Int
    BY <1>3, <1>4, <1>7 DEF Addresses
  <2>2. ~(to <= x /\ x < to + n)
    BY <1>3, <1>6, <1>7, <1>12, <1>13, <1>18, <2>1
  <2> QED BY <1>15, <2>2, Zenon
<1>19. ASSUME cut, call.n <= Len(source), end < Size
       PROVE  mem[end] = before[end]
  <2>1. i = call.n /\ n = call.n
    BY <1>7, <1>8, <1>19, Zenon
  <2>2. end \in Addresses /\ ~(end < to + n)
    BY <1>3, <1>7, <1>12, <1>13, <1>19, <2>1 DEF Addresses
  <2> QED BY <1>15, <2>2, Zenon
<1> QED BY <1>16, <1>17, <1>18, <1>19, Zenon

\* Whatever the sizes, and however source and destination overlap where they may,
\* every function that copies, fills or moves memory or strings leaves what it
\* promises and touches nothing else.
THEOREM MovesAreWhole == Spec => []MovesWhole
<1>1. MovesInv => MovesWhole
  BY BytesMovedNow, StringsAsPromisedNow, Zenon DEF MovesWhole
<1> QED BY <1>1, MovesAlways, PTL

-----------------------------------------------------------------------------
(***************************************************************************)
(* The terminal, for a screen of any size and every text.                  *)
(*                                                                         *)
(* Within a call the screen is a record that one routine hands to the next *)
(* (Draw, NewLine, ScrollText, ClearScreen...).  Good is what each of them *)
(* keeps: the buffer that is drawn on shows the window of the sheet, and   *)
(* the rows of the sheet below the window are blank, which is what makes   *)
(* the blank row that ScrollText brings in the right one.  A call may go   *)
(* up to four rows past the bound, one for each blank of a tab; the bound  *)
(* is back in force when it returns.  ScreenInv says the same of the       *)
(* variables between calls.                                                *)
(***************************************************************************)

CONSTANTS Columns, Rows, Printable, Threads, MaxRow

VARIABLES front, m_buffer, m_DoubleBuffer, m_CursorPosition, paper, top, scrolled, calls,
          mixed, panicked

Screen == INSTANCE Terminal

\* What a cell can hold.
Chars == Printable \cup {Screen!Blank}

\* The sheet and the window on it, which begins at row t.
View(p, t) == [c \in Screen!Cells |-> p[<<t + c[1], c[2]>>]]

\* A character put on a buffer or on the sheet, and the cursor put elsewhere.
Inked(f, e, ch) == [f EXCEPT ![e] = ch]
Moved(s, y, x) == [s EXCEPT !.at = Screen!At(y, x)]

\* A screen in the middle of a call, at most n rows past the bound: the buffer
\* that is drawn on shows the window, and the rows below the window are blank.
ScreenTyped(s) ==
    s \in [front : [Screen!Cells -> Chars], back : [Screen!Cells -> Chars], at : [y : Int, x : Int],
           paper : [Screen!Sheet -> Chars], top : Nat, scrolled : BOOLEAN]

Shows(s) ==
    /\ IF m_DoubleBuffer THEN ~s.scrolled => s.back = View(s.paper, s.top) ELSE s.front = View(s.paper, s.top)
    /\ \A c \in Screen!Sheet : c[1] >= s.top + Rows => s.paper[c] = Screen!Blank

Good(s, n) ==
    /\ ScreenTyped(s) /\ Shows(s) /\ s.top + Rows - 1 <= MaxRow + n
    /\ s.at.y \in 0..(Rows - 1) /\ s.at.x \in 0..(Columns - 1)

\* A cell of the window is one of the sheet.
LEMMA InSheet ==
    ASSUME Screen!Glass, NEW t \in Nat, NEW n \in 0..4, t + Rows - 1 <= MaxRow + n, NEW y \in 0..(Rows - 1),
           NEW x \in 0..(Columns - 1)
    PROVE  <<y, x>> \in Screen!Cells /\ <<t + y, x>> \in Screen!Sheet /\ t + y < t + Rows /\ t + y >= t
  BY DEF Screen!Glass, Screen!Cells, Screen!Sheet

\* The coordinates of a cell of the screen,
LEMMA CellParts ==
    ASSUME NEW c \in Screen!Cells
    PROVE  c[1] \in 0..(Rows - 1) /\ c[2] \in 0..(Columns - 1) /\ c = <<c[1], c[2]>>
  BY DEF Screen!Cells

\* and of one of the sheet.
LEMMA SheetParts ==
    ASSUME NEW c \in Screen!Sheet
    PROVE  c[1] \in 0..(MaxRow + 4) /\ c[2] \in 0..(Columns - 1) /\ c = <<c[1], c[2]>>
  BY DEF Screen!Sheet

\* A cell of the sheet is in one place of the window at most.
LEMMA ViewDrawn ==
    ASSUME Screen!Glass, NEW p \in [Screen!Sheet -> Chars], NEW t \in Nat, NEW n \in 0..4,
           t + Rows - 1 <= MaxRow + n,
           NEW y \in 0..(Rows - 1), NEW x \in 0..(Columns - 1), NEW ch
    PROVE  View(Inked(p, <<t + y, x>>, ch), t) = Inked(View(p, t), <<y, x>>, ch)
<1> DEFINE q == Inked(p, <<t + y, x>>, ch)
           v == View(p, t)
           w == View(q, t)
<1>1. <<y, x>> \in Screen!Cells /\ <<t + y, x>> \in Screen!Sheet
  BY InSheet
<1>2. v \in [Screen!Cells -> {v[c] : c \in Screen!Cells}] /\ \A c \in Screen!Cells : v[c] = p[<<t + c[1], c[2]>>]
  BY DEF View
<1>3. w = [c \in Screen!Cells |-> q[<<t + c[1], c[2]>>]]
  BY Zenon DEF View
<1>4. ASSUME NEW c \in Screen!Cells PROVE q[<<t + c[1], c[2]>>] = IF c = <<y, x>> THEN ch ELSE p[<<t + c[1], c[2]>>]
  <2>1. c[1] \in 0..(Rows - 1) /\ c[2] \in 0..(Columns - 1) /\ c = <<c[1], c[2]>>
    BY CellParts
  <2>2. <<t + c[1], c[2]>> \in Screen!Sheet
    BY <2>1, InSheet
  <2>3. <<t + c[1], c[2]>> = <<t + y, x>> <=> c = <<y, x>>
    BY <2>1
  <2> QED
    BY <2>2, <2>3, <1>1 DEF Inked
<1>5. w = [c \in Screen!Cells |-> IF c = <<y, x>> THEN ch ELSE v[c]]
  <2> HIDE DEF q, v, w
  <2> QED
    BY <1>2, <1>3, <1>4
<1>6. [v EXCEPT ![<<y, x>>] = ch] = [c \in Screen!Cells |-> IF c = <<y, x>> THEN ch ELSE v[c]]
  <2> HIDE DEF v
  <2> QED
    BY <1>2, Zenon
<1> QED
  BY <1>5, <1>6, Zenon DEF Inked

\* Draw puts a character on the buffer and on the sheet.
LEMMA DrawGood ==
    ASSUME Screen!Glass, NEW s, NEW n \in 0..4, Good(s, n), NEW y \in 0..(Rows - 1),
           NEW x \in 0..(Columns - 1), NEW ch \in Chars,
           m_DoubleBuffer \in BOOLEAN
    PROVE  Good(Screen!Draw(s, <<y, x>>, ch), n) /\ Screen!Draw(s, <<y, x>>, ch).at = s.at
<1> DEFINE d == Screen!Draw(s, <<y, x>>, ch)
           q == Inked(s.paper, <<s.top + y, x>>, ch)
<1>1. /\ ScreenTyped(s) /\ s.front \in [Screen!Cells -> Chars] /\ s.back \in [Screen!Cells -> Chars] /\ s.paper \in [Screen!Sheet -> Chars]
      /\ s.top \in Nat /\ s.scrolled \in BOOLEAN /\ s.at \in [y : Int, x : Int]
      /\ s.top + Rows - 1 <= MaxRow + n
  BY DEF Good, ScreenTyped
<1>2. <<y, x>> \in Screen!Cells /\ <<s.top + y, x>> \in Screen!Sheet /\ s.top + y < s.top + Rows
  BY <1>1, InSheet
<1>3. <<y, x>>[1] = y /\ <<y, x>>[2] = x
  OBVIOUS
<1>4. /\ d.paper = q /\ d.top = s.top /\ d.scrolled = s.scrolled /\ d.at = s.at
      /\ d.front = IF m_DoubleBuffer THEN s.front ELSE Inked(s.front, <<y, x>>, ch)
      /\ d.back = IF m_DoubleBuffer THEN Inked(s.back, <<y, x>>, ch) ELSE s.back
      /\ ScreenTyped(d)
  <2> DEFINE cell == <<y, x>>
             far == <<s.top + y, x>>
  <2>1. d = [(IF m_DoubleBuffer THEN [s EXCEPT !.back[cell] = ch] ELSE [s EXCEPT !.front[cell] = ch])
                EXCEPT !.paper[far] = ch]
    BY <1>3, Zenon DEF Screen!Draw
  <2> HIDE DEF cell, far, d
  <2> QED
    BY <1>1, <1>2, <2>1, Zenon DEF ScreenTyped, Inked, cell, far
<1> HIDE DEF d
<1>5. View(q, s.top) = Inked(View(s.paper, s.top), <<y, x>>, ch)
  BY <1>1, ViewDrawn DEF q
<1>6. \A c \in Screen!Sheet : c[1] >= s.top + Rows => q[c] = Screen!Blank
  <2> SUFFICES ASSUME NEW c \in Screen!Sheet, c[1] >= s.top + Rows PROVE q[c] = Screen!Blank
    OBVIOUS
  <2>1. s.paper[c] = Screen!Blank
    BY DEF Good, Shows
  <2>2. c # <<s.top + y, x>>
    BY <1>1, <1>2 DEF Screen!Glass
  <2> QED
    BY <2>1, <2>2, <1>1 DEF Inked
<1>7. IF m_DoubleBuffer THEN ~s.scrolled => s.back = View(s.paper, s.top) ELSE s.front = View(s.paper, s.top)
  BY DEF Good, Shows
<1> HIDE DEF q
<1>8. Shows(d)
  BY <1>4, <1>5, <1>6, <1>7 DEF Shows
<1> QED
  BY <1>1, <1>4, <1>8 DEF Good, d

\* The frame buffer moved up shows the window a row further down.
LEMMA ViewScrolled ==
    ASSUME Screen!Glass, NEW p \in [Screen!Sheet -> Chars], NEW t \in Nat, NEW n \in 0..3,
           t + Rows - 1 <= MaxRow + n,
           \A c \in Screen!Sheet : c[1] >= t + Rows => p[c] = Screen!Blank, NEW f, f = View(p, t)
    PROVE  [c \in Screen!Cells |-> IF c[1] = Rows - 1 THEN Screen!Blank ELSE f[<<c[1] + 1, c[2]>>]] = View(p, t + 1)
<1>1. ASSUME NEW c \in Screen!Cells
      PROVE  (IF c[1] = Rows - 1 THEN Screen!Blank ELSE f[<<c[1] + 1, c[2]>>]) = p[<<(t + 1) + c[1], c[2]>>]
  <2>1. c[1] \in 0..(Rows - 1) /\ c[2] \in 0..(Columns - 1)
    BY CellParts
  <2>2. CASE c[1] = Rows - 1
    <3> DEFINE e == <<(t + 1) + c[1], c[2]>>
    <3>1. e \in Screen!Sheet /\ e[1] >= t + Rows
      BY <2>1, <2>2 DEF Screen!Glass, Screen!Sheet
    <3> QED
      BY <3>1, <2>2
  <2>3. CASE c[1] # Rows - 1
    <3> DEFINE e == <<c[1] + 1, c[2]>>
    <3>1. c[1] + 1 \in 0..(Rows - 1) /\ (t + 1) + c[1] = t + (c[1] + 1)
      BY <2>1, <2>3 DEF Screen!Glass
    <3>2. e \in Screen!Cells /\ e[1] = c[1] + 1 /\ e[2] = c[2]
      BY <3>1, <2>1 DEF Screen!Cells
    <3>3. f[e] = p[<<t + e[1], e[2]>>]
      BY <3>2, Zenon DEF View
    <3> QED
      BY <3>1, <3>2, <3>3, <2>3
  <2> QED
    BY <2>2, <2>3
<1> QED
  BY <1>1, Zenon DEF View

\* ScrollText moves the window down a row.
LEMMA ScrollGood ==
    ASSUME Screen!Glass, m_DoubleBuffer \in BOOLEAN, NEW s, NEW n \in 0..3, ScreenTyped(s), Shows(s),
           s.top + Rows - 1 <= MaxRow + n, s.at.y = Rows, s.at.x \in 0..(Columns - 1)
    PROVE  Good(Screen!ScrollText(s), n + 1)
<1> DEFINE d == Screen!ScrollText(s)
           f == [c \in Screen!Cells |-> IF c[1] = Rows - 1 THEN Screen!Blank ELSE s.front[<<c[1] + 1, c[2]>>]]
           a == [s.at EXCEPT !.y = @ - 1]
           b == s.scrolled \/ m_DoubleBuffer
<1>1. /\ s.front \in [Screen!Cells -> Chars] /\ s.back \in [Screen!Cells -> Chars] /\ s.paper \in [Screen!Sheet -> Chars]
      /\ s.top \in Nat /\ s.scrolled \in BOOLEAN /\ s.at \in [y : Int, x : Int]
  BY DEF ScreenTyped
<1>2. f \in [Screen!Cells -> Chars]
  <2> SUFFICES ASSUME NEW c \in Screen!Cells PROVE (IF c[1] = Rows - 1 THEN Screen!Blank ELSE s.front[<<c[1] + 1, c[2]>>]) \in Chars
    OBVIOUS
  <2>1. c[1] \in 0..(Rows - 1) /\ c[2] \in 0..(Columns - 1)
    BY CellParts
  <2>2. c[1] # Rows - 1 => <<c[1] + 1, c[2]>> \in Screen!Cells
    BY <2>1 DEF Screen!Cells, Screen!Glass
  <2> QED
    BY <1>1, <2>2 DEF Chars
<1>3. d = [s EXCEPT !.front = f, !.at.y = @ - 1, !.top = @ + 1, !.scrolled = b] /\ b \in BOOLEAN
  BY <1>1, Zenon DEF Screen!ScrollText
<1>10. /\ d = [s EXCEPT !.front = f, !.at = a, !.top = @ + 1, !.scrolled = b]
       /\ a \in [y : Int, x : Int] /\ a.y = Rows - 1 /\ a.x = s.at.x
  <2> HIDE DEF d, f, b
  <2> QED
    BY <1>1, <1>2, <1>3 DEF ScreenTyped, Screen!Glass
<1> HIDE DEF d, f, b, a
<1>4. /\ d.front = f /\ d.back = s.back /\ d.paper = s.paper /\ d.top = s.top + 1
      /\ d.at.y = Rows - 1 /\ d.at.x = s.at.x
  BY <1>1, <1>2, <1>3, <1>10 DEF ScreenTyped, Screen!Glass
<1>5. d.scrolled = (s.scrolled \/ m_DoubleBuffer)
  <2>1. d.scrolled = b
    BY <1>1, <1>2, <1>10 DEF ScreenTyped
  <2> QED
    BY <2>1 DEF b
<1>6. ScreenTyped(d)
  <2> DEFINE t == s.top + 1
  <2>1. d = [s EXCEPT !.front = f, !.at = a, !.top = t, !.scrolled = b]
    BY <1>10
  <2>2. t \in Nat /\ b \in BOOLEAN
    BY <1>1, <1>3
  <2> HIDE DEF t
  <2> QED
    BY <1>2, <1>10, <2>1, <2>2, Zenon DEF ScreenTyped
<1>7. s.front = View(s.paper, s.top) => f = View(s.paper, s.top + 1)
  BY <1>1, ViewScrolled, Zenon DEF f, Shows
<1>8. \A c \in Screen!Sheet : c[1] >= d.top + Rows => d.paper[c] = Screen!Blank
  <2> SUFFICES ASSUME NEW c \in Screen!Sheet, c[1] >= d.top + Rows PROVE d.paper[c] = Screen!Blank
    OBVIOUS
  <2>1. c[1] \in Int
    BY SheetParts DEF Screen!Glass
  <2>2. c[1] >= s.top + Rows
    BY <2>1, <1>1, <1>4 DEF Screen!Glass
  <2> QED
    BY <2>2, <1>4 DEF Shows
<1>9. Shows(d)
  BY <1>4, <1>5, <1>7, <1>8 DEF Shows
<1> QED
  BY <1>1, <1>4, <1>6, <1>9 DEF Good, d, Screen!Glass

\* Moving the cursor leaves what is shown.
LEMMA MoveGood ==
    ASSUME Screen!Glass, NEW s, NEW n \in 0..4, Good(s, n), NEW y \in Int, NEW x \in 0..(Columns - 1),
           NEW d, d = Moved(s, y, x)
    PROVE  ScreenTyped(d) /\ Shows(d) /\ d.top + Rows - 1 <= MaxRow + n /\ d.at.y = y /\ d.at.x = x
<1>1. ScreenTyped(s) /\ Shows(s) /\ s.top + Rows - 1 <= MaxRow + n
  BY DEF Good
<1>2. Screen!At(y, x) \in [y : Int, x : Int] /\ Screen!At(y, x).y = y /\ Screen!At(y, x).x = x
  BY DEF Screen!At, Screen!Glass
<1>3. /\ d.front = s.front /\ d.back = s.back /\ d.paper = s.paper /\ d.top = s.top
      /\ d.scrolled = s.scrolled /\ d.at = Screen!At(y, x) /\ ScreenTyped(d)
  BY <1>1, <1>2 DEF ScreenTyped, Moved
<1>4. Shows(d)
  BY <1>1, <1>3 DEF Shows
<1> QED
  BY <1>1, <1>2, <1>3, <1>4

\* NewLine goes to the first cell of the next row, which it scrolls in when there is none.
LEMMA NewLineGood ==
    ASSUME Screen!Glass, m_DoubleBuffer \in BOOLEAN, NEW s, NEW n \in 0..3, Good(s, n)
    PROVE  Good(Screen!NewLine(s), n + 1)
<1> DEFINE d == [s EXCEPT !.at = Screen!At(@.y + 1, 0)]
<1>1. ScreenTyped(s) /\ s.at.y \in 0..(Rows - 1)
  BY DEF Good
<1>2. d = Moved(s, s.at.y + 1, 0) /\ 0 \in 0..(Columns - 1) /\ s.at.y + 1 \in Int /\ n \in 0..4 /\ n + 1 \in Int
  BY <1>1 DEF ScreenTyped, Screen!Glass, Moved
<1>3. Screen!NewLine(s) = IF d.at.y >= Rows THEN Screen!ScrollText(d) ELSE d
  BY Zenon DEF Screen!NewLine
<1> HIDE DEF d
<1>4. ScreenTyped(d) /\ Shows(d) /\ d.top + Rows - 1 <= MaxRow + n /\ d.at.y = s.at.y + 1 /\ d.at.x = 0
  BY <1>2, MoveGood
<1>5. CASE d.at.y >= Rows
  <2>1. d.at.y = Rows
    BY <1>1, <1>4, <1>5 DEF Screen!Glass
  <2>2. Good(Screen!ScrollText(d), n + 1)
    BY <2>1, <1>2, <1>4, ScrollGood
  <2> QED
    BY <1>3, <1>5, <2>2
<1>6. CASE ~(d.at.y >= Rows)
  <2>1. d.at.y \in 0..(Rows - 1) /\ d.top \in Nat
    BY <1>1, <1>4, <1>6 DEF Screen!Glass, ScreenTyped
  <2>2. d.top + Rows - 1 <= MaxRow + (n + 1)
    BY <1>4, <2>1 DEF Screen!Glass
  <2>3. Good(d, n + 1)
    BY <2>1, <2>2, <1>2, <1>4 DEF Good
  <2> QED
    BY <1>3, <1>6, <2>3
<1> QED
  BY <1>5, <1>6

\* DrawChar draws and steps right or to the next row.
LEMMA DrawCharGood ==
    ASSUME Screen!Glass, m_DoubleBuffer \in BOOLEAN, NEW s, NEW n \in 0..3, Good(s, n), NEW ch \in Chars
    PROVE  Good(Screen!DrawChar(s, ch), n + 1)
<1> DEFINE d == Screen!Draw(s, <<s.at.y, s.at.x>>, ch)
<1>1. s.at.y \in 0..(Rows - 1) /\ s.at.x \in 0..(Columns - 1) /\ n \in 0..4
  BY DEF Good
<1>2. Good(d, n)
  BY <1>1, DrawGood
<1>3. Screen!DrawChar(s, ch) = IF d.at.x + 1 >= Columns THEN Screen!NewLine(d) ELSE [d EXCEPT !.at.x = @ + 1]
  BY Zenon DEF Screen!DrawChar, Screen!Step
<1> HIDE DEF d
<1>4. Good(Screen!NewLine(d), n + 1)
  BY <1>2, NewLineGood
<1>5. CASE ~(d.at.x + 1 >= Columns)
  <2>1. ScreenTyped(d) /\ d.at \in [y : Int, x : Int] /\ d.at.y \in 0..(Rows - 1) /\ d.at.x \in 0..(Columns - 1) /\ d.top \in Nat
    BY <1>2 DEF Good, ScreenTyped
  <2> DEFINE e == Moved(d, d.at.y, d.at.x + 1)
  <2>2. [d EXCEPT !.at.x = @ + 1] = e
    BY <2>1 DEF ScreenTyped, Screen!At, Moved
  <2>3. d.at.x + 1 \in 0..(Columns - 1)
    BY <2>1, <1>5 DEF Screen!Glass
  <2>4. ScreenTyped(e) /\ Shows(e) /\ e.top + Rows - 1 <= MaxRow + n /\ e.at.y = d.at.y /\ e.at.x = d.at.x + 1
    BY <2>1, <2>3, <1>1, <1>2, MoveGood, SMTT(30) DEF e
  <2> HIDE DEF e
  <2>5. Good(e, n + 1)
    BY <2>1, <2>3, <2>4 DEF Good, ScreenTyped, Screen!Glass
  <2> QED
    BY <2>2, <2>5, <1>3, <1>5
<1> QED
  BY <1>3, <1>4, <1>5
\* Backspace goes back a cell and blanks it.
LEMMA BackspaceGood ==
    ASSUME Screen!Glass, m_DoubleBuffer \in BOOLEAN, NEW s, NEW n \in 0..4, Good(s, n)
    PROVE  Good(Screen!Backspace(s), n)
<1>1. s.at.y \in 0..(Rows - 1) /\ s.at.x \in 0..(Columns - 1)
  BY DEF Good
<1>2. CASE s.at.x = 0 /\ s.at.y = 0
  BY <1>2 DEF Screen!Backspace
<1>3. CASE ~(s.at.x = 0 /\ s.at.y = 0)
  <2> DEFINE y == IF s.at.x = 0 THEN s.at.y - 1 ELSE s.at.y
             x == IF s.at.x = 0 THEN Columns - 1 ELSE s.at.x - 1
             d == Moved(s, y, x)
  <2>1. y \in 0..(Rows - 1) /\ x \in 0..(Columns - 1) /\ y \in Int
    BY <1>1, <1>3 DEF Screen!Glass
  <2>2. Screen!Rewound(s.at) = Screen!At(y, x)
    BY DEF Screen!Rewound
  <2> HIDE DEF y, x
  <2>3. Screen!At(y, x).y = y /\ Screen!At(y, x).x = x
    BY DEF Screen!At
  <2>4. Screen!Backspace(s) = Screen!Draw(d, <<y, x>>, Screen!Blank)
    BY <1>3, <2>2, <2>3, Zenon DEF Screen!Backspace, Moved
  <2>5. ScreenTyped(d) /\ Shows(d) /\ d.top + Rows - 1 <= MaxRow + n /\ d.at.y = y /\ d.at.x = x
    BY <2>1, MoveGood DEF d
  <2> HIDE DEF d
  <2>6. Good(d, n)
    BY <2>1, <2>5 DEF Good
  <2>7. Screen!Blank \in Chars
    BY DEF Chars
  <2>8. Good(Screen!Draw(d, <<y, x>>, Screen!Blank), n)
    BY <2>1, <2>6, <2>7, DrawGood, SMTT(30)
  <2> QED
    BY <2>4, <2>8
<1> QED
  BY <1>2, <1>3

\* ClearScreen blanks the window, on the sheet as on the buffer that is drawn on.
LEMMA ClearGood ==
    ASSUME Screen!Glass, m_DoubleBuffer \in BOOLEAN, NEW s, NEW n \in 0..4, Good(s, n)
    PROVE  /\ Good(Screen!ClearScreen(s), n) /\ Screen!ClearScreen(s).top = s.top /\ Screen!ClearScreen(s).scrolled = FALSE
           /\ m_DoubleBuffer => Screen!ClearScreen(s).back = Screen!Clean
<1> DEFINE d == Screen!ClearScreen(s)
           w == [c \in Screen!Sheet |-> IF c[1] >= s.top THEN Screen!Blank ELSE s.paper[c]]
<1>1. /\ ScreenTyped(s) /\ s.front \in [Screen!Cells -> Chars] /\ s.back \in [Screen!Cells -> Chars] /\ s.paper \in [Screen!Sheet -> Chars]
      /\ s.top \in Nat /\ s.scrolled \in BOOLEAN /\ s.at \in [y : Int, x : Int] /\ s.top + Rows - 1 <= MaxRow + n
  BY DEF Good, ScreenTyped
<1>2. w \in [Screen!Sheet -> Chars] /\ Screen!Clean \in [Screen!Cells -> Chars]
  BY <1>1 DEF Chars, Screen!Clean
<1>3. d = IF m_DoubleBuffer THEN [s EXCEPT !.back = Screen!Clean, !.paper = w, !.scrolled = FALSE]
         ELSE [s EXCEPT !.front = Screen!Clean, !.paper = w, !.scrolled = FALSE]
  BY Zenon DEF Screen!ClearScreen
<1>4. View(w, s.top) = Screen!Clean
  <2>1. ASSUME NEW c \in Screen!Cells PROVE w[<<s.top + c[1], c[2]>>] = Screen!Blank
    <3>1. c[1] \in 0..(Rows - 1) /\ c[2] \in 0..(Columns - 1)
      BY CellParts
    <3> DEFINE e == <<s.top + c[1], c[2]>>
    <3>2. e \in Screen!Sheet /\ e[1] >= s.top
      <4>1. <<s.top + c[1], c[2]>> \in Screen!Sheet /\ s.top + c[1] >= s.top
        BY <3>1, <1>1, InSheet, Zenon
      <4> QED
        BY <4>1
    <3> QED
      BY <3>2
  <2> HIDE DEF w
  <2> QED
    BY <2>1, Zenon DEF View, Screen!Clean
<1>5. \A c \in Screen!Sheet : c[1] >= s.top + Rows => w[c] = Screen!Blank
  <2> SUFFICES ASSUME NEW c \in Screen!Sheet, c[1] >= s.top + Rows PROVE c[1] >= s.top
    OBVIOUS
  <2> QED
    BY <1>1, SheetParts DEF Screen!Glass
<1> HIDE DEF d, w
<1>6. /\ d.paper = w /\ d.top = s.top /\ d.scrolled = FALSE /\ d.at = s.at
      /\ d.front = IF m_DoubleBuffer THEN s.front ELSE Screen!Clean
      /\ d.back = IF m_DoubleBuffer THEN Screen!Clean ELSE s.back
      /\ ScreenTyped(d)
  BY <1>1, <1>2, <1>3, Zenon DEF ScreenTyped
<1>7. Shows(d)
  BY <1>4, <1>5, <1>6 DEF Shows
<1>8. Good(d, n)
  BY <1>1, <1>6, <1>7 DEF Good
<1> QED
  BY <1>6, <1>8, SMTT(30) DEF d

\* A tab is four blanks.
LEMMA TabGood ==
    ASSUME Screen!Glass, m_DoubleBuffer \in BOOLEAN, NEW s, Good(s, 0)
    PROVE  Good(Screen!Tab(s), 4)
<1>1. Screen!Blank \in Chars
  BY DEF Chars
<1>2. 0 \in 0..3 /\ 1 \in 0..3 /\ 2 \in 0..3 /\ 3 \in 0..3 /\ 0 + 1 = 1 /\ 1 + 1 = 2 /\ 2 + 1 = 3 /\ 3 + 1 = 4
  OBVIOUS
<1> DEFINE a == Screen!DrawChar(s, Screen!Blank)
           b == Screen!DrawChar(a, Screen!Blank)
           c == Screen!DrawChar(b, Screen!Blank)
<1>3. Good(a, 1)
  BY <1>1, <1>2, DrawCharGood, Zenon
<1> HIDE DEF a
<1>4. Good(b, 2)
  BY <1>1, <1>2, <1>3, DrawCharGood, Zenon
<1> HIDE DEF b
<1>5. Good(c, 3)
  BY <1>1, <1>2, <1>4, DrawCharGood, Zenon
<1> HIDE DEF c
<1>6. Good(Screen!DrawChar(c, Screen!Blank), 4)
  BY <1>1, <1>2, <1>5, DrawCharGood, Zenon
<1> QED
  BY <1>6, Zenon DEF Screen!Tab, a, b, c

-----------------------------------------------------------------------------
\* What is shown, written over the variables.
OnScreen(f, b, cursor, p, t, sc, double) ==
    /\ f \in [Screen!Cells -> Chars] /\ b \in [Screen!Cells -> Chars] /\ p \in [Screen!Sheet -> Chars]
    /\ cursor \in [y : Int, x : Int] /\ cursor.y \in 0..(Rows - 1) /\ cursor.x \in 0..(Columns - 1)
    /\ t \in Nat /\ t + Rows - 1 <= MaxRow /\ sc \in BOOLEAN /\ double \in BOOLEAN
    /\ IF double THEN ~sc => b = View(p, t) ELSE f = View(p, t)
    /\ \A c \in Screen!Sheet : c[1] >= t + Rows => p[c] = Screen!Blank

ScreenInv == OnScreen(front, m_buffer, m_CursorPosition, paper, top, scrolled, m_DoubleBuffer)

\* Between calls the screen is a good one.
LEMMA NowGood ==
    ASSUME Screen!Glass, ScreenInv
    PROVE  Good(Screen!Now, 0) /\ m_DoubleBuffer \in BOOLEAN
<1>1. ScreenTyped(Screen!Now) /\ m_DoubleBuffer \in BOOLEAN
  BY DEF ScreenInv, OnScreen, ScreenTyped, Screen!Now
<1>2. Shows(Screen!Now)
  <2> DEFINE s == Screen!Now
  <2>1. s.front = front /\ s.back = m_buffer /\ s.paper = paper /\ s.top = top /\ s.scrolled = scrolled
    BY DEF Screen!Now
  <2> HIDE DEF s
  <2>2. Shows(s)
    BY <2>1, Zenon DEF ScreenInv, OnScreen, Shows
  <2> QED
    BY <2>2 DEF s
<1>3. Screen!Now.top + Rows - 1 <= MaxRow + 0 /\ Screen!Now.at.y \in 0..(Rows - 1) /\ Screen!Now.at.x \in 0..(Columns - 1)
  BY DEF ScreenInv, OnScreen, Screen!Now, Screen!Glass
<1> QED
  BY <1>1, <1>2, <1>3, ZenonT(40) DEF Good

\* What putc leaves is a screen within the bound.
LEMMA BecomesGood ==
    ASSUME Screen!Glass, NEW s, NEW n \in 0..4, Good(s, n), Screen!Becomes(s), m_DoubleBuffer \in BOOLEAN,
           m_DoubleBuffer' = m_DoubleBuffer
    PROVE  ScreenInv'
<1>1. s.top \in Nat /\ s.top + Rows - 1 <= MaxRow
  BY DEF Screen!Becomes, Screen!Glass, Good, ScreenTyped
<1>2. /\ s.front \in [Screen!Cells -> Chars] /\ s.back \in [Screen!Cells -> Chars] /\ s.paper \in [Screen!Sheet -> Chars]
      /\ s.scrolled \in BOOLEAN /\ s.at \in [y : Int, x : Int]
      /\ s.at.y \in 0..(Rows - 1) /\ s.at.x \in 0..(Columns - 1)
  BY DEF Good, ScreenTyped
<1>3. OnScreen(s.front, s.back, s.at, s.paper, s.top, s.scrolled, m_DoubleBuffer)
  BY <1>1, <1>2, Zenon DEF Good, Shows, OnScreen
<1> QED
  BY <1>3, Zenon DEF Screen!Becomes, ScreenInv

\* The first screen and the sheet are blank.
LEMMA ScreenInit ==
    ASSUME Screen!Glass, Screen!Init
    PROVE  ScreenInv
<1>1. [c \in Screen!Sheet |-> Screen!Blank] \in [Screen!Sheet -> Chars] /\ Screen!Clean \in [Screen!Cells -> Chars]
  BY DEF Chars, Screen!Clean
<1>2. View(paper, top) = Screen!Clean
  <2>1. ASSUME NEW c \in Screen!Cells PROVE paper[<<top + c[1], c[2]>>] = Screen!Blank
    <3>1. c[1] \in 0..(Rows - 1) /\ c[2] \in 0..(Columns - 1)
      BY CellParts
    <3>2. <<top + c[1], c[2]>> \in Screen!Sheet
      BY <3>1 DEF Screen!Glass, Screen!Sheet, Screen!Init
    <3> QED
      BY <3>2 DEF Screen!Init
  <2> QED
    BY <2>1, Zenon DEF View, Screen!Clean
<1>3. Screen!At(0, 0) \in [y : Int, x : Int] /\ Screen!At(0, 0).y \in 0..(Rows - 1) /\ Screen!At(0, 0).x \in 0..(Columns - 1)
  BY DEF Screen!At, Screen!Glass
<1>4. 0 \in Nat /\ 0 + Rows - 1 <= MaxRow
  BY DEF Screen!Glass
<1> QED
  BY <1>1, <1>2, <1>3, <1>4, Zenon DEF Screen!Init, ScreenInv, OnScreen

\* EnableDoubleBuffering starts with a blank back buffer and a blank sheet.
LEMMA EnableInv ==
    ASSUME Screen!Glass, ScreenInv, Screen!EnableDoubleBuffering
    PROVE  ScreenInv'
<1>1. [c \in Screen!Sheet |-> Screen!Blank] \in [Screen!Sheet -> Chars] /\ Screen!Clean \in [Screen!Cells -> Chars]
  BY DEF Chars, Screen!Clean
<1>2. View([c \in Screen!Sheet |-> Screen!Blank], top) = Screen!Clean
  <2>0. top \in Nat /\ top + Rows - 1 <= MaxRow + 0 /\ 0 \in 0..4
    BY DEF ScreenInv, OnScreen, Screen!Glass
  <2>1. ASSUME NEW c \in Screen!Cells PROVE [e \in Screen!Sheet |-> Screen!Blank][<<top + c[1], c[2]>>] = Screen!Blank
    <3>1. c[1] \in 0..(Rows - 1) /\ c[2] \in 0..(Columns - 1)
      BY CellParts
    <3>2. <<top + c[1], c[2]>> \in Screen!Sheet
      BY <3>1, <2>0, InSheet, Zenon
    <3> QED
      BY <3>2
  <2> QED
    BY <2>1, Zenon DEF View, Screen!Clean
<1>3. OnScreen(front, Screen!Clean, m_CursorPosition, [c \in Screen!Sheet |-> Screen!Blank], top, scrolled, TRUE)
  BY <1>1, <1>2, Zenon DEF ScreenInv, OnScreen
<1> QED
  BY <1>3, Zenon DEF Screen!EnableDoubleBuffering, ScreenInv

\* A swap changes only what is not drawn on.
LEMMA SwapGood ==
    ASSUME m_DoubleBuffer \in BOOLEAN, Good(Screen!Now, 0)
    PROVE  Good(Screen!SwapBuffers, 0)
<1>1. CASE ~m_DoubleBuffer
  BY <1>1, Zenon DEF Screen!SwapBuffers
<1>2. CASE m_DoubleBuffer
  <2> DEFINE s == Screen!Now
             d == [s EXCEPT !.front = m_buffer]
  <2>1. Screen!SwapBuffers = d /\ s.back = m_buffer
    BY <1>2 DEF Screen!SwapBuffers, Screen!Now
  <2>2. ScreenTyped(s) /\ Shows(s) /\ s.top + Rows - 1 <= MaxRow + 0 /\ s.at.y \in 0..(Rows - 1) /\ s.at.x \in 0..(Columns - 1)
    BY DEF Good
  <2> HIDE DEF s
  <2>3. /\ ScreenTyped(d) /\ d.back = s.back /\ d.paper = s.paper /\ d.top = s.top /\ d.scrolled = s.scrolled /\ d.at = s.at
    BY <2>1, <2>2 DEF ScreenTyped
  <2> HIDE DEF d
  <2>4. Shows(d)
    BY <1>2, <2>2, <2>3, Zenon DEF Shows
  <2> QED
    BY <2>1, <2>2, <2>3, <2>4, Zenon DEF Good
<1> QED
  BY <1>1, <1>2

\* The panic clears the screen and swaps.
LEMMA PanicInv ==
    ASSUME Screen!Glass, ScreenInv, Screen!Panic
    PROVE  ScreenInv'
<1> DEFINE s == Screen!ClearScreen(Screen!Now)
<1>1. Good(Screen!Now, 0) /\ m_DoubleBuffer \in BOOLEAN /\ 0 \in 0..4
  BY NowGood
<1>2. Screen!Now.top = top
  BY DEF Screen!Now
<1>3. Good(s, 0) /\ s.top = top /\ s.scrolled = FALSE
  BY <1>1, <1>2, ClearGood, Zenon
<1>4. /\ m_CursorPosition' = Screen!At(0, 0) /\ m_buffer' = s.back /\ front' = IF m_DoubleBuffer THEN s.back ELSE s.front
      /\ paper' = s.paper /\ m_DoubleBuffer' = m_DoubleBuffer /\ top' = top /\ scrolled' = s.scrolled
  BY Zenon DEF Screen!Panic
<1> HIDE DEF s
<1>5. Screen!At(0, 0) \in [y : Int, x : Int] /\ Screen!At(0, 0).y \in 0..(Rows - 1) /\ Screen!At(0, 0).x \in 0..(Columns - 1)
  BY DEF Screen!At, Screen!Glass
<1>6. s.front \in [Screen!Cells -> Chars] /\ s.back \in [Screen!Cells -> Chars] /\ s.paper \in [Screen!Sheet -> Chars]
  BY <1>3 DEF Good, ScreenTyped
<1>7. top \in Nat /\ top + Rows - 1 <= MaxRow /\ s.scrolled \in BOOLEAN
  BY <1>3, Zenon DEF ScreenInv, OnScreen
<1>8. /\ IF m_DoubleBuffer THEN ~s.scrolled => s.back = View(s.paper, top) ELSE s.front = View(s.paper, top)
      /\ \A c \in Screen!Sheet : c[1] >= top + Rows => s.paper[c] = Screen!Blank
  BY <1>3, Zenon DEF Good, Shows
<1>9. OnScreen(IF m_DoubleBuffer THEN s.back ELSE s.front, s.back, Screen!At(0, 0), s.paper, top, s.scrolled, m_DoubleBuffer)
  BY <1>1, <1>5, <1>6, <1>7, <1>8, Zenon DEF OnScreen
<1> QED
  BY <1>4, <1>9, Zenon DEF ScreenInv

\* Whatever is printed, the screen stays a good one.
LEMMA PutcGood ==
    ASSUME Screen!Glass, ScreenInv, NEW c
    PROVE  Good(Screen!putc(c), 0) \/ Good(Screen!putc(c), 1) \/ Good(Screen!putc(c), 4)
<1>1. Good(Screen!Now, 0) /\ m_DoubleBuffer \in BOOLEAN /\ 0 \in 0..4 /\ 0 \in 0..3 /\ 0 + 1 = 1 /\ 1 \in 0..4 /\ 4 \in 0..4
  BY NowGood
<1>3. Good(Screen!Backspace(Screen!Now), 0)
  BY <1>1, BackspaceGood, Zenon
<1>4. Good(Screen!NewLine(Screen!Now), 1)
  BY <1>1, NewLineGood, Zenon
<1>5. Good(Screen!Tab(Screen!Now), 4)
  BY <1>1, TabGood, Zenon
<1>6. Good([Screen!Now EXCEPT !.at.x = 0], 0)
  <2> DEFINE s == Screen!Now
             d == Moved(s, s.at.y, 0)
  <2>1. ScreenTyped(s) /\ s.at \in [y : Int, x : Int] /\ s.at.y \in 0..(Rows - 1) /\ 0 \in 0..(Columns - 1) /\ s.at.y \in Int
    BY <1>1 DEF Good, ScreenTyped, Screen!Glass
  <2>2. Good(s, 0)
    BY <1>1
  <2> HIDE DEF s
  <2>3. [s EXCEPT !.at.x = 0] = d
    BY <2>1, SMTT(30) DEF ScreenTyped, Moved, Screen!At
  <2>4. ScreenTyped(d) /\ Shows(d) /\ d.top + Rows - 1 <= MaxRow + 0 /\ d.at.y = s.at.y /\ d.at.x = 0
    BY <1>1, <2>1, <2>2, MoveGood, SMTT(30)
  <2> HIDE DEF d
  <2>5. Good(d, 0)
    BY <2>1, <2>4, Zenon DEF Good
  <2> QED
    BY <2>3, <2>5 DEF s
<1>7. Good([Screen!ClearScreen(Screen!Now) EXCEPT !.at = Screen!At(0, 0)], 0)
  <2> DEFINE s == Screen!ClearScreen(Screen!Now)
             d == Moved(s, 0, 0)
  <2>1. Good(s, 0)
    BY <1>1, ClearGood, Zenon
  <2>2. 0 \in 0..(Columns - 1) /\ 0 \in 0..(Rows - 1) /\ 0 \in Int
    BY DEF Screen!Glass
  <2> HIDE DEF s
  <2>4. ScreenTyped(d) /\ Shows(d) /\ d.top + Rows - 1 <= MaxRow + 0 /\ d.at.y = 0 /\ d.at.x = 0
    BY <1>1, <2>1, <2>2, MoveGood, SMTT(30)
  <2> HIDE DEF d
  <2>5. Good(d, 0)
    BY <2>2, <2>4, Zenon DEF Good
  <2> QED
    BY <2>5 DEF s, d, Moved
<1>8. c \in Printable => Good(Screen!DrawChar(Screen!Now, c), 1)
  BY <1>1, DrawCharGood, Zenon DEF Chars
<1> DEFINE a1 == Screen!Backspace(Screen!Now)
           a2 == Screen!NewLine(Screen!Now)
           a3 == Screen!Tab(Screen!Now)
           a4 == [Screen!Now EXCEPT !.at.x = 0]
           a5 == [Screen!ClearScreen(Screen!Now) EXCEPT !.at = Screen!At(0, 0)]
           a6 == Screen!DrawChar(Screen!Now, c)
           a7 == Screen!Now
           d == CASE c = "BS" -> a1 [] c \in {"LF", "VT"} -> a2 [] c = "TAB" -> a3 [] c = "CR" -> a4
                  [] c = "FF" -> a5 [] c \in Printable -> a6 [] OTHER -> a7
<1>9. Screen!putc(c) = d
  BY Zenon DEF Screen!putc
<1> HIDE DEF a1, a2, a3, a4, a5, a6, a7
<1>10. d \in {a1, a2, a3, a4, a5, a7} \/ (c \in Printable /\ d = a6)
  <2>1. CASE c \in Printable
    <3>1. d \in {a1, a2, a3, a4, a5, a6, a7}
      BY SMT
    <3> QED
      BY <2>1, <3>1
  <2>2. CASE c \notin Printable
    <3>1. d \in {a1, a2, a3, a4, a5, a7}
      BY <2>2, SMT
    <3> QED
      BY <3>1
  <2> QED
    BY <2>1, <2>2
<1> HIDE DEF d
<1>11. Good(d, 0) \/ Good(d, 1) \/ Good(d, 4)
  BY <1>1, <1>3, <1>4, <1>5, <1>6, <1>7, <1>8, <1>10, Zenon DEF a1, a2, a3, a4, a5, a6, a7
<1> QED
  BY <1>9, <1>11, Zenon

\* A call that ends, with no other beside it, leaves a good screen.
LEMMA LeaveInv ==
    ASSUME Screen!Glass, ScreenInv, NEW t, Screen!Leave(t)
    PROVE  ScreenInv'
<1>1. Good(Screen!Now, 0) /\ m_DoubleBuffer \in BOOLEAN /\ 0 \in 0..4 /\ 1 \in 0..4 /\ 4 \in 0..4
  BY NowGood
<1>2. m_DoubleBuffer' = m_DoubleBuffer
  BY Zenon DEF Screen!Leave
<1>3. Good(Screen!SwapBuffers, 0)
  BY <1>1, SwapGood, Zenon
<1> DEFINE p == Screen!putc(calls[t])
           w == Screen!SwapBuffers
           n == Screen!Start
           d == CASE calls[t] = "swap" -> w [] calls[t] = "start" -> n [] OTHER -> p
<1>4. Good(p, 0) \/ Good(p, 1) \/ Good(p, 4)
  BY PutcGood, Zenon
<1>5. Good(n, 0) /\ Good(w, 0)
  BY <1>1, <1>3, Zenon DEF Screen!Start
<1>6. Screen!Becomes(d)
  BY Zenon DEF Screen!Leave
<1> HIDE DEF p, w, n
<1>7. d \in {p, w, n}
  BY SMT
<1> HIDE DEF d
<1>8. Good(d, 0) \/ Good(d, 1) \/ Good(d, 4)
  BY <1>4, <1>5, <1>7, Zenon
<1> QED
  BY <1>1, <1>2, <1>6, <1>8, BecomesGood, Zenon

\* A call that begins leaves the screen as it is.
LEMMA EnterInv ==
    ASSUME ScreenInv, NEW t, NEW c, Screen!Enter(t, c)
    PROVE  ScreenInv'
<1> QED
  BY Zenon DEF Screen!Enter, ScreenInv

\* Every step keeps the invariant.
LEMMA ScreenNext ==
    ASSUME Screen!Glass, ScreenInv, [Screen!Next]_(Screen!terminal)
    PROVE  ScreenInv'
<1>1. CASE UNCHANGED Screen!terminal
  BY <1>1, Zenon DEF Screen!terminal, ScreenInv
<1>2. CASE Screen!Next
  BY <1>2, EnterInv, LeaveInv, EnableInv, PanicInv, Zenon DEF Screen!Next
<1> QED
  BY <1>1, <1>2

\* The invariant holds throughout.
LEMMA ScreenInvariance ==
    ASSUME Screen!Glass
    PROVE  Screen!Spec => []ScreenInv
<1>1. Screen!Init => ScreenInv
  BY ScreenInit
<1>2. ScreenInv /\ [Screen!Next]_(Screen!terminal) => ScreenInv'
  BY ScreenNext
<1> QED
  BY <1>1, <1>2, PTL DEF Screen!Spec

\* For every size of screen, every text and every number of threads: as long as
\* no two calls go on at once, the buffer that is drawn on shows the last rows of
\* what was printed, wrapped, scrolled and rubbed out as on paper; with double
\* buffering from each clearing of the screen to the next scroll, which leaves the
\* back buffer as it is (TTY::putc, BasicVGA's NewLine, ScrollText, Backspace and
\* ClearScreen; Thread::Start).
THEOREM PaperShown ==
    ASSUME Screen!Glass
    PROVE  Screen!Spec => []Screen!ShowsPaper
<1>1. ScreenInv => Screen!ShowsPaper
  BY Zenon DEF ScreenInv, OnScreen, Screen!ShowsPaper, Screen!InView, View
<1> QED
  BY <1>1, ScreenInvariance, PTL
=============================================================================
