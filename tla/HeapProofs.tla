----------------------------- MODULE HeapProofs -----------------------------
(***************************************************************************)
(* Proofs about the kernel heap, for every size of its chunk, every width  *)
(* of its totals that can count the chunk, and all requests; and, below,   *)
(* about LibC's malloc.                                                    *)
(*                                                                         *)
(* The invariant Inv says that the heap is sound: the blocks held and      *)
(* the entries of the free list tile the chunk, the list is in address     *)
(* order with no two entries side by side, and the three totals add up.    *)
(* Each operation of the allocator is first shown to take a sound heap to  *)
(* a sound heap that leaves the blocks still held alone.  Where krealloc    *)
(* copies over a header, the variables keep the headers as they were       *)
(* before the copy, and the theorems say nothing.                          *)
(***************************************************************************)
EXTENDS KernelHeap, FiniteSetTheorems, SequenceTheorems, WellFoundedInduction, TLAPS

\* A set of natural numbers that is not empty has a least element.
LEMMA HasLeast ==
    ASSUME NEW S \in SUBSET Nat, S # {}
    PROVE  \E x \in S : \A y \in S : x <= y
<1> DEFINE R == {ss \in Nat \X Nat : ss[1] < ss[2]}
<1>1. PICK x \in S : \A y \in S : ~(<<y, x>> \in R)
  BY NatLessThanWellFounded, WFMin, Zenon DEF OpToRel
<1>2. \A y \in S : ~(y < x)
  BY <1>1, Zenon
<1> QED
  BY <1>2

-----------------------------------------------------------------------------
(***************************************************************************)
(* The totals.                                                             *)
(***************************************************************************)

Counter == 0..(CounterW - 1)

Heaps == [size : [Addresses -> 0..Units], list : Seq(Addresses),
          free : Counter, used : Counter, meta : Counter]

\* The three totals add up to the chunk, up to wrap-around.
Sums(n) == n \in {Units, Units + CounterW, Units + 2 * CounterW}

Balanced(h) == Sums(h.used + h.free + h.meta)

\* A counter moves from u to v by x, up to wrap-around.
Moved(u, v, x) ==
    u \in Counter /\ v \in Counter /\ x \in Int /\ v \in {u + x - CounterW, u + x, u + x + CounterW}

\* A size_t total that is added to or subtracted from moves by that much.
LEMMA Wrapping ==
    ASSUME Chunk, NEW u \in Counter, NEW x \in Int, -CounterW <= x, x < CounterW
    PROVE  Moved(u, Wrap(u + x), x)
  BY DEF Chunk, Wrap, Counter, Moved

\* What fits the width of a total is not changed by it.
LEMMA NotWrapping ==
    ASSUME Chunk, NEW x \in Counter
    PROVE  Wrap(x) = x
  BY DEF Chunk, Wrap, Counter

\* Totals that add up in any of the three ways add up to the chunk in size_t.
LEMMA Unwrapping ==
    ASSUME Chunk, NEW n, Sums(n)
    PROVE  Wrap(n) = Units
  BY DEF Chunk, Wrap, Sums

\* Moving units between the totals keeps their sum.
LEMMA StillSums ==
    ASSUME Chunk, NEW u, NEW f, NEW m, NEW u2, NEW f2, NEW m2, NEW x, NEW y, NEW z, x + y + z = 0,
           Moved(u, u2, x), Moved(f, f2, y), Moved(m, m2, z), Sums(u + f + m)
    PROVE  Sums(u2 + f2 + m2)
  BY DEF Chunk, Counter, Sums, Moved

-----------------------------------------------------------------------------
(***************************************************************************)
(* Blocks.                                                                 *)
(***************************************************************************)

\* The blocks B tile the chunk.
Tiles(sz, B) ==
    /\ sz \in [Addresses -> 0..Units]
    /\ B \subseteq Addresses /\ 0 \in B
    /\ \A a \in B : a + 1 + sz[a] = Units \/ a + 1 + sz[a] \in B
    /\ \A a, b \in B : b <= a \/ b >= a + 1 + sz[a]

\* There are finitely many blocks, at most one per unit.
LEMMA BlocksCounted ==
    ASSUME Chunk, NEW sz, NEW B, Tiles(sz, B)
    PROVE  IsFiniteSet(B) /\ Cardinality(B) \in 1..Units
<1>1. IsFiniteSet(Addresses) /\ Cardinality(Addresses) = Units
  BY FS_Interval DEF Addresses, Chunk
<1>2. IsFiniteSet(B) /\ Cardinality(B) <= Cardinality(Addresses)
  BY <1>1, FS_Subset DEF Tiles
<1>3. Cardinality(B) \in Nat /\ Cardinality(B) # 0
  BY <1>2, FS_EmptySet, FS_CardinalityType DEF Tiles
<1> QED
  BY <1>1, <1>2, <1>3 DEF Chunk

Merge(sz, a, b) == [sz EXCEPT ![a] = @ + 1 + sz[b], ![b] = 0]

\* A block that takes in its right-hand neighbour leaves the chunk tiled.
LEMMA MergedTiles ==
    ASSUME Chunk, NEW sz, NEW B, Tiles(sz, B), NEW a \in B, NEW b \in B, a + 1 + sz[a] = b
    PROVE  /\ Tiles(Merge(sz, a, b), B \ {b})
           /\ Merge(sz, a, b)[a] = sz[a] + 1 + sz[b]
           /\ \A c \in Addresses \ {a, b} : Merge(sz, a, b)[c] = sz[c]
<1> DEFINE new == Merge(sz, a, b)
<1>1. a \in Addresses /\ b \in Addresses /\ a # b /\ sz[a] \in Nat /\ sz[b] \in Nat /\ a < b
  BY DEF Tiles, Addresses, Chunk
<1>2. new[a] = sz[a] + 1 + sz[b] /\ \A c \in Addresses \ {a, b} : new[c] = sz[c]
  BY <1>1 DEF Merge, Tiles
<1>3. a + 1 + new[a] = b + 1 + sz[b]
  BY <1>1, <1>2 DEF Addresses, Chunk
<1>4. b + 1 + sz[b] <= Units
  <2>1. b + 1 + sz[b] = Units \/ b + 1 + sz[b] \in Addresses
    BY DEF Tiles
  <2> QED
    BY <2>1 DEF Addresses, Chunk
<1>5. new[a] \in 0..Units
  BY <1>1, <1>2, <1>3, <1>4 DEF Addresses, Chunk
<1>6. new \in [Addresses -> 0..Units]
  BY <1>1, <1>2, <1>5 DEF Merge, Tiles, Chunk
<1> HIDE DEF new
<1>7. 0 \in B \ {b}
  BY <1>1 DEF Tiles, Addresses
<1>8. ASSUME NEW c \in B \ {b} PROVE c + 1 + new[c] = Units \/ c + 1 + new[c] \in B \ {b}
  <2>1. CASE c = a
    <3>1. b + 1 + sz[b] = Units \/ b + 1 + sz[b] \in B
      BY DEF Tiles
    <3>2. b + 1 + sz[b] # b
      BY <1>1 DEF Addresses
    <3> QED
      BY <2>1, <3>1, <3>2, <1>3
  <2>2. CASE c # a
    <3>1. new[c] = sz[c] /\ c \in Addresses /\ sz[c] \in Nat
      BY <1>2, <2>2 DEF Tiles
    <3>2. c + 1 + sz[c] # b
      BY <1>1, <2>2, <3>1 DEF Tiles, Addresses, Chunk
    <3> QED
      BY <3>1, <3>2 DEF Tiles
  <2> QED
    BY <2>1, <2>2
<1>9. ASSUME NEW c \in B \ {b}, NEW d \in B \ {b} PROVE d <= c \/ d >= c + 1 + new[c]
  <2>1. CASE c = a
    <3>1. (d <= a \/ d >= b) /\ (d <= b \/ d >= b + 1 + sz[b]) /\ d # b
      BY <1>1 DEF Tiles
    <3> QED
      BY <2>1, <3>1, <1>3, <1>1 DEF Tiles, Addresses, Chunk
  <2>2. CASE c # a
    BY <2>2, <1>2 DEF Tiles
  <2> QED
    BY <2>1, <2>2
<1> QED
  BY <1>2, <1>6, <1>7, <1>8, <1>9 DEF Tiles, new

Cut(sz, a, n) == [sz EXCEPT ![a] = n, ![a + 1 + n] = sz[a] - n - 1]

\* The sizes after a cut at r, which becomes a block of its own.
HasCut(new, sz, B, a, r) ==
    /\ r \in Addresses \ B /\ Tiles(new, B \cup {r})
    /\ \A c \in Addresses \ {a, r} : new[c] = sz[c]

\* A block cut in two leaves the chunk tiled.
LEMMA CutTiles ==
    ASSUME Chunk, NEW sz, NEW B, Tiles(sz, B), NEW a \in B, NEW n \in Nat, sz[a] > n + 1
    PROVE  HasCut(Cut(sz, a, n), sz, B, a, a + 1 + n)
<1> DEFINE new == Cut(sz, a, n)
           r == a + 1 + n
<1>1. a \in Addresses /\ sz[a] \in 0..Units /\ a + 1 + sz[a] <= Units
  BY DEF Tiles, Addresses, Chunk
<1>2. r \in Addresses /\ a < r /\ r < a + 1 + sz[a]
  BY <1>1 DEF Addresses, Chunk
<1>3. r \notin B
  BY <1>1, <1>2 DEF Tiles, Addresses, Chunk
<1>4. new[a] = n /\ new[r] = sz[a] - n - 1 /\ \A c \in Addresses \ {a, r} : new[c] = sz[c]
  BY <1>1, <1>2 DEF Cut, Tiles, Addresses, Chunk
<1>5. new \in [Addresses -> 0..Units]
  BY <1>1, <1>2, <1>4 DEF Cut, Tiles, Chunk
<1>6. a + 1 + new[a] = r /\ r + 1 + new[r] = a + 1 + sz[a]
  BY <1>1, <1>2, <1>4 DEF Addresses, Chunk
<1> HIDE DEF new, r
<1>7. ASSUME NEW c \in B \cup {r} PROVE c + 1 + new[c] = Units \/ c + 1 + new[c] \in B \cup {r}
  BY <1>1, <1>3, <1>4, <1>6 DEF Tiles
<1>8. ASSUME NEW c \in B \cup {r}, NEW d \in B \cup {r} PROVE d <= c \/ d >= c + 1 + new[c]
  <2>0. B \subseteq Addresses /\ Addresses \subseteq Int /\ r \in Int
    BY <1>2 DEF Tiles, Addresses
  <2>1. CASE c = a
    <3>1. d = r \/ d <= a \/ d >= a + 1 + sz[a]
      BY DEF Tiles
    <3> QED
      BY <2>0, <2>1, <3>1, <1>1, <1>2, <1>6
  <2>2. CASE c = r
    <3>1. d = r \/ d <= a \/ d >= a + 1 + sz[a]
      BY DEF Tiles
    <3> QED
      BY <2>0, <2>2, <3>1, <1>1, <1>2, <1>6
  <2>3. CASE c # a /\ c # r
    <3>1. new[c] = sz[c] /\ c \in B /\ sz[c] \in Nat
      BY <2>3, <1>4 DEF Tiles
    <3>2. CASE d # r
      BY <3>1, <3>2 DEF Tiles
    <3>3. CASE d = r
      <4>1. (a <= c \/ a >= c + 1 + sz[c]) /\ (c <= a \/ c >= a + 1 + sz[a])
        BY <3>1 DEF Tiles
      <4> QED
        BY <2>0, <2>3, <3>1, <3>3, <4>1, <1>1, <1>2
    <3> QED
      BY <3>2, <3>3
  <2> QED
    BY <2>1, <2>2, <2>3
<1> QED
  BY <1>2, <1>3, <1>4, <1>5, <1>7, <1>8 DEF Tiles, HasCut, new, r

-----------------------------------------------------------------------------
(***************************************************************************)
(* The free list.                                                          *)
(***************************************************************************)

Entries(list) == {list[i] : i \in 1..Len(list)}

\* The free blocks stand in the order of their addresses and none touches the
\* next one.
Gapped(list, sz) ==
    \A i, j \in 1..Len(list) : i < j => list[i] + 1 + sz[list[i]] < list[j]

\* An entry x in the place of the entries from p to q - 1, and what it gives.
Splice(s, p, x, q) == SubSeq(s, 1, p - 1) \o <<x>> \o SubSeq(s, q, Len(s))

HasSpliced(t, S, s, p, x, q) ==
    /\ t \in Seq(S) /\ Len(t) = Len(s) + 1 + p - q
    /\ \A k \in 1..(Len(s) + 1 + p - q) :
          t[k] = IF k < p THEN s[k] ELSE IF k = p THEN x ELSE s[k + q - p - 1]

\* The entries of a list with x in place of a stretch of them.
LEMMA Spliced ==
    ASSUME NEW S, NEW s \in Seq(S), NEW x \in S, NEW p \in 1..(Len(s) + 1), NEW q \in p..(Len(s) + 1)
    PROVE  HasSpliced(Splice(s, p, x, q), S, s, p, x, q)
<1> DEFINE u == SubSeq(s, 1, p - 1)
           w == SubSeq(s, q, Len(s))
<1>1. u \in Seq(S) /\ Len(u) = p - 1 /\ \A k \in 1..(p - 1) : u[k] = s[k]
  OBVIOUS
<1>2. w \in Seq(S) /\ Len(w) = Len(s) + 1 - q /\ \A k \in 1..(Len(s) + 1 - q) : w[k] = s[k + q - 1]
  OBVIOUS
<1> DEFINE v == u \o <<x>>
<1> HIDE DEF u, w
<1>3. v \in Seq(S) /\ Len(v) = p /\ \A k \in 1..p : v[k] = IF k < p THEN s[k] ELSE x
  BY <1>1
<1> HIDE DEF v
<1>4. /\ v \o w \in Seq(S)
      /\ Len(v \o w) = Len(s) + 1 + p - q
      /\ \A k \in 1..(Len(s) + 1 + p - q) : (v \o w)[k] = IF k <= p THEN v[k] ELSE w[k - p]
  <2>1. /\ v \o w \in Seq(S) /\ Len(v \o w) = Len(v) + Len(w)
        /\ \A k \in 1..(Len(v) + Len(w)) : (v \o w)[k] = IF k <= Len(v) THEN v[k] ELSE w[k - Len(v)]
    BY <1>2, <1>3, ConcatProperties, Zenon
  <2>2. Len(v) + Len(w) = Len(s) + 1 + p - q
    BY <1>2, <1>3
  <2> QED
    BY <2>1, <2>2, <1>3
<1>5. ASSUME NEW k \in 1..(Len(s) + 1 + p - q)
      PROVE  (v \o w)[k] = IF k < p THEN s[k] ELSE IF k = p THEN x ELSE s[k + q - p - 1]
  <2>1. CASE k <= p
    BY <2>1, <1>3, <1>4
  <2>2. CASE k > p
    <3>1. k - p \in 1..(Len(s) + 1 - q) /\ (k - p) + q - 1 = k + q - p - 1
      BY <2>2
    <3>2. w[k - p] = s[k + q - p - 1]
      BY <3>1, <1>2
    <3>3. (v \o w)[k] = w[k - p]
      BY <2>2, <1>4, SMTT(30)
    <3> QED
      BY <3>2, <3>3, <2>2
  <2>3. k <= p \/ k > p
    OBVIOUS
  <2> QED
    BY <2>1, <2>2, <2>3, Zenon
<1> QED
  BY <1>4, <1>5, Zenon DEF u, v, w, Splice, HasSpliced

\* AddToFreeList's search stops between the smaller and the larger addresses.
LEMMA PlaceFound ==
    ASSUME Chunk, NEW list \in Seq(Addresses), NEW sz \in [Addresses -> 0..Units], Gapped(list, sz),
           NEW a \in Addresses \ Entries(list)
    PROVE  /\ PlaceOf(list, a) \in 1..(Len(list) + 1)
           /\ \A j \in 1..Len(list) : IF j < PlaceOf(list, a) THEN list[j] < a ELSE a < list[j]
<1> DEFINE Stops(i) == i = Len(list) + 1 \/ (a < list[i] /\ (i = 1 \/ list[i - 1] < a))
           S == {i \in 1..(Len(list) + 1) : i = Len(list) + 1 \/ a < list[i]}
<1>0. /\ a \in Int /\ Len(list) \in Nat
      /\ \A i \in 1..Len(list) : list[i] \in Int /\ list[i] # a
      /\ \A i, j \in 1..Len(list) : i < j => list[i] < list[j]
  <2>1. \A i \in 1..Len(list) : list[i] \in Addresses /\ sz[list[i]] \in Nat /\ list[i] # a
    BY DEF Entries
  <2> QED
    BY <2>1 DEF Addresses, Gapped
<1>1. PICK i \in S : \A j \in S : i <= j
  <2>1. S \in SUBSET Nat /\ Len(list) + 1 \in S
    BY <1>0
  <2> HIDE DEF S
  <2> QED
    BY <2>1, HasLeast, Zenon
<1>2. \A j \in 1..Len(list) : IF j < i THEN list[j] < a ELSE a < list[j]
  BY <1>0, <1>1, SMTT(30)
<1>3. Stops(i) /\ \A j \in 1..(i - 1) : ~(a < list[j] /\ (j = 1 \/ list[j - 1] < a))
  BY <1>0, <1>1, <1>2
<1>4. ASSUME NEW k \in 1..(Len(list) + 1), Stops(k),
             \A j \in 1..(k - 1) : ~(a < list[j] /\ (j = 1 \/ list[j - 1] < a))
      PROVE  k = i
  BY <1>0, <1>2, <1>3, <1>4
<1>5. PlaceOf(list, a) = i
  BY <1>1, <1>3, <1>4 DEF PlaceOf
<1> QED
  BY <1>1, <1>2, <1>5

-----------------------------------------------------------------------------
(***************************************************************************)
(* Heaps.                                                                  *)
(***************************************************************************)

\* The blocks B tile the heap's chunk and its totals agree with them.
Laid(h, B) ==
    /\ h \in Heaps /\ Tiles(h.size, B)
    /\ h.meta = Cardinality(B) /\ Balanced(h)

\* Blocks end after they begin, and none begins inside another.
LEMMA LaidApart ==
    ASSUME Chunk, NEW h, NEW B, Laid(h, B)
    PROVE  /\ h \in Heaps /\ B \subseteq Addresses /\ Addresses \subseteq Int
           /\ h.list \in Seq(Addresses) /\ h.size \in [Addresses -> 0..Units]
           /\ \A c \in Addresses :
                 h.size[c] \in Nat /\ End(h, c) = c + 1 + h.size[c] /\ End(h, c) \in Int /\ c < End(h, c)
           /\ \A b, c \in B : c <= b \/ c >= End(h, b)
<1>1. h \in Heaps /\ B \subseteq Addresses /\ Addresses \subseteq Int
  BY DEF Laid, Tiles, Addresses
<1>2. h.list \in Seq(Addresses) /\ h.size \in [Addresses -> 0..Units]
  BY <1>1 DEF Heaps
<1>3. ASSUME NEW c \in Addresses
      PROVE  h.size[c] \in Nat /\ End(h, c) = c + 1 + h.size[c] /\ End(h, c) \in Int /\ c < End(h, c)
  <2>1. c \in Int /\ h.size[c] \in Nat
    BY <1>1, <1>2 DEF Chunk
  <2> QED
    BY <2>1 DEF End
<1>4. \A b, c \in B : c <= b \/ c >= b + 1 + h.size[b]
  BY DEF Laid, Tiles
<1> QED
  BY <1>1, <1>2, <1>3, <1>4, Zenon

\* In g, block a has taken b in; the rest is as in h.
Absorbed(g, h, B, a, b) ==
    /\ Laid(g, B \ {b}) /\ g.list = h.list /\ g.used = h.used
    /\ g.size[a] = h.size[a] + 1 + h.size[b]
    /\ \A c \in Addresses \ {a, b} : g.size[c] = h.size[c]

\* Absorbing a block keeps the tiling and moves a header to the free total.
LEMMA AbsorbLaid ==
    ASSUME Chunk, NEW h, NEW B, Laid(h, B), NEW a \in B, NEW b \in B, End(h, a) = b
    PROVE  Absorbed(Absorb(h, a, b), h, B, a, b)
<1> DEFINE g == Absorb(h, a, b)
<1>1. /\ g.size = Merge(h.size, a, b) /\ g.list = h.list /\ g.used = h.used
      /\ g.free = Wrap(h.free + 1) /\ g.meta = Wrap(h.meta - 1)
  <2>1. h \in Heaps
    BY DEF Laid
  <2>2. DOMAIN h = {"size", "list", "free", "used", "meta"}
    BY <2>1 DEF Heaps
  <2>3. g.size = Merge(h.size, a, b)
    BY <2>2 DEF Absorb, Merge
  <2>4. g.list = h.list /\ g.used = h.used /\ g.free = Wrap(h.free + 1) /\ g.meta = Wrap(h.meta - 1)
    BY <2>2 DEF Absorb
  <2> QED
    BY <2>3, <2>4
<1>2. /\ Tiles(g.size, B \ {b})
      /\ g.size[a] = h.size[a] + 1 + h.size[b]
      /\ \A c \in Addresses \ {a, b} : g.size[c] = h.size[c]
  BY <1>1, MergedTiles DEF Laid, End
<1>3. IsFiniteSet(B) /\ Cardinality(B \ {b}) = Cardinality(B) - 1
  BY BlocksCounted, FS_RemoveElement, Zenon DEF Laid
<1>4. Cardinality(B) \in 1..Units /\ h.meta = Cardinality(B)
  BY BlocksCounted DEF Laid
<1>5. h.free \in Counter /\ h.used \in Counter /\ h.meta \in Counter /\ h.list \in Seq(Addresses)
  BY DEF Laid, Heaps
<1>6. g.meta = h.meta - 1 /\ g.meta \in Counter
  <2>1. h.meta - 1 \in Counter
    BY <1>4 DEF Counter, Chunk
  <2> QED
    BY <2>1, <1>1, NotWrapping
<1>7. Moved(h.free, g.free, 1) /\ g.free \in Counter
  BY <1>1, <1>5, Wrapping DEF Chunk, Moved
<1>9. g \in Heaps
  <2>1. g.size \in [Addresses -> 0..Units] /\ h \in Heaps
    BY <1>2 DEF Tiles, Laid
  <2> QED
    BY <2>1, <1>1, <1>6, <1>7, Zenon DEF Heaps, Absorb, Merge
<1> HIDE DEF g
<1>8. Balanced(g)
  <2>1. Sums(h.used + h.free + h.meta)
    BY DEF Laid, Balanced
  <2>2. Moved(h.used, g.used, 0) /\ Moved(h.meta, g.meta, -1)
    BY <1>1, <1>5, <1>6 DEF Moved, Counter, Chunk
  <2>3. 0 + 1 + (-1) = 0
    OBVIOUS
  <2> QED
    BY <2>1, <2>2, <2>3, <1>7, StillSums DEF Balanced
<1> QED
  BY <1>1, <1>2, <1>3, <1>4, <1>6, <1>8, <1>9 DEF Laid, Absorbed, g

\* Callers hold the blocks A, the others are listed.
Sound(h, A) ==
    /\ Laid(h, A \cup Entries(h.list)) /\ A \cap Entries(h.list) = {}
    /\ Gapped(h.list, h.size)

\* The same, but for a, which no one holds and which is not listed yet.
SoundBut(h, A, a) ==
    /\ Laid(h, A \cup Entries(h.list) \cup {a}) /\ A \cap Entries(h.list) = {}
    /\ a \notin A \cup Entries(h.list)
    /\ Gapped(h.list, h.size)

\* g is sound, and the blocks that callers hold are as large as in h.
SoundLike(g, h, A) == Sound(g, A) /\ \A c \in A : g.size[c] = h.size[c]

\* AddToFreeList links the block in address order and merges it with both
\* neighbours: the heap is sound again, with no two free blocks side by side.
LEMMA AddSound ==
    ASSUME Chunk, NEW h, NEW A, NEW a, SoundBut(h, A, a)
    PROVE  SoundLike(AddToFreeList(h, a), h, A)
<1> DEFINE list == h.list
           E == Entries(list)
           B == A \cup E \cup {a}
           i == PlaceOf(list, a)
           prev == i > 1 /\ End(h, list[i - 1]) = a
           merged == IF prev THEN Absorb(h, list[i - 1], a) ELSE h
           header == IF prev THEN list[i - 1] ELSE a
           next == i <= Len(list) /\ End(merged, header) = list[i]
           grown == IF next THEN Absorb(merged, header, list[i]) ELSE merged
           B1 == IF prev THEN B \ {a} ELSE B
           B2 == IF next THEN B1 \ {list[i]} ELSE B1
           p == IF prev THEN i - 1 ELSE i
           q == IF next THEN i + 1 ELSE i
           t == Splice(list, p, header, q)
<1>1. /\ Laid(h, B) /\ A \cap E = {} /\ a \notin A \cup E /\ Gapped(list, h.size)
      /\ h \in Heaps /\ Tiles(h.size, B) /\ B \subseteq Addresses /\ a \in Addresses
      /\ list \in Seq(Addresses) /\ Len(list) \in Nat /\ h.size \in [Addresses -> 0..Units]
  BY DEF SoundBut, Laid, Tiles, Heaps
<1>2. \A j \in 1..Len(list) : list[j] \in E /\ list[j] \in B /\ list[j] \notin A /\ list[j] # a
  BY <1>1 DEF Entries
<1>3. /\ i \in 1..(Len(list) + 1)
      /\ \A j \in 1..Len(list) : IF j < i THEN list[j] < a ELSE a < list[j]
  BY <1>1, PlaceFound
<1>4. /\ Addresses \subseteq Int
      /\ \A c \in Addresses :
            h.size[c] \in Nat /\ End(h, c) = c + 1 + h.size[c] /\ End(h, c) \in Int /\ c < End(h, c)
      /\ \A b, c \in B : c <= b \/ c >= End(h, b)
  BY <1>1, LaidApart, Zenon
<1>5. \A j, k \in 1..Len(list) : j < k => list[j] < list[k] /\ End(h, list[j]) < list[k]
  <2> SUFFICES ASSUME NEW j \in 1..Len(list), NEW k \in 1..Len(list), j < k
               PROVE  list[j] < list[k] /\ End(h, list[j]) < list[k]
    OBVIOUS
  <2>1. list[j] + 1 + h.size[list[j]] < list[k]
    BY <1>1 DEF Gapped
  <2>2. list[j] \in Addresses /\ list[k] \in Addresses
    BY <1>1, <1>2
  <2>3. /\ End(h, list[j]) = list[j] + 1 + h.size[list[j]] /\ End(h, list[j]) \in Int
        /\ list[j] < End(h, list[j]) /\ list[j] \in Int /\ list[k] \in Int
    BY <2>2, <1>4, Zenon
  <2> QED
    BY <2>1, <2>3
<1> HIDE DEF i, list, E, B
<1>6. /\ Laid(merged, B1) /\ merged.list = list /\ merged.used = h.used
      /\ header \in B1 /\ header \notin A /\ End(merged, header) = End(h, a)
      /\ \A c \in Addresses \ {a, header} : merged.size[c] = h.size[c]
  <2>1. CASE prev
    <3>1. i - 1 \in 1..Len(list) /\ list[i - 1] \in B /\ list[i - 1] \notin A /\ list[i - 1] # a /\ a \in B
      BY <2>1, <1>2, <1>3 DEF B
    <3>2. Absorbed(merged, h, B, header, a)
      <4>1. header = list[i - 1] /\ merged = Absorb(h, header, a) /\ End(h, header) = a
        BY <2>1
      <4> HIDE DEF header, merged
      <4>2. header \in B /\ a \in B
        BY <4>1, <3>1
      <4> QED
        BY <4>1, <4>2, <1>1, AbsorbLaid, Zenon
    <3>4. End(merged, header) = End(h, a)
      <4>1. header = list[i - 1] /\ End(h, header) = a /\ header \in Addresses
        BY <2>1, <3>1, <1>1
      <4> HIDE DEF header, merged
      <4>2. End(merged, header) = header + 1 + (h.size[header] + 1 + h.size[a])
        BY <3>2 DEF End, Absorbed
      <4>3. /\ End(h, header) = header + 1 + h.size[header] /\ h.size[header] \in Nat /\ header \in Int
            /\ End(h, a) = a + 1 + h.size[a] /\ h.size[a] \in Nat
        BY <4>1, <1>1, <1>4, SMTT(30)
      <4> QED
        BY <4>1, <4>2, <4>3
    <3> QED
      BY <2>1, <3>1, <3>2, <3>4 DEF list, Absorbed
  <2>2. CASE ~prev
    BY <2>2, <1>1 DEF list, B
  <2> QED
    BY <2>1, <2>2
<1> HIDE DEF prev, merged, header, B1
<1>7. /\ Laid(grown, B2) /\ grown.list = list /\ grown.used = h.used
      /\ header \in B2
      /\ End(grown, header) = IF next THEN End(h, list[i]) ELSE End(h, a)
      /\ \A c \in Addresses \ {a, header} : (next => c # list[i]) => grown.size[c] = h.size[c]
  <2>1. CASE next
    <3>1. i \in 1..Len(list) /\ list[i] \in B /\ a < list[i] /\ list[i] # a /\ list[i] \in Addresses
      BY <2>1, <1>1, <1>2, <1>3
    <3>2. header # list[i]
      <4>1. CASE prev
        <5>1. i - 1 \in 1..Len(list) /\ i - 1 < i /\ header = list[i - 1]
          BY <4>1, <3>1 DEF header, prev
        <5>2. list[i - 1] \in Int /\ list[i] \in Int
          BY <5>1, <3>1, <1>1, <1>2, <1>4, Zenon
        <5> QED
          BY <5>1, <5>2, <3>1, <1>5
      <4>2. CASE ~prev
        BY <4>2, <3>1 DEF header
      <4> QED
        BY <4>1, <4>2
    <3>3. list[i] \in B1 /\ End(merged, header) = list[i] /\ grown = Absorb(merged, header, list[i])
      BY <2>1, <3>1 DEF B1
    <3> HIDE DEF grown
    <3>4. Absorbed(grown, merged, B1, header, list[i])
      BY <3>3, <1>6, AbsorbLaid, Zenon
    <3>5. End(grown, header) = End(h, list[i])
      <4>1. header + 1 + merged.size[header] = list[i] /\ header \in Int /\ merged.size[header] \in Nat
        <5>1. header \in Addresses /\ Laid(merged, B1)
          BY <1>6, LaidApart, Zenon
        <5> QED
          BY <5>1, <3>3, LaidApart
      <4>2. merged.size[list[i]] = h.size[list[i]] /\ h.size[list[i]] \in Nat
        BY <1>6, <3>1, <3>2, <1>4, Zenon
      <4>3. End(grown, header) = header + 1 + (merged.size[header] + 1 + h.size[list[i]])
        BY <3>4, <4>2 DEF Absorbed, End
      <4>4. End(h, list[i]) = list[i] + 1 + h.size[list[i]]
        BY <3>1, <1>4
      <4> QED
        BY <4>1, <4>2, <4>3, <4>4
    <3>6. \A c \in Addresses \ {a, header} : c # list[i] => grown.size[c] = h.size[c]
      BY <3>4, <1>6 DEF Absorbed
    <3>7. Laid(grown, B1 \ {list[i]}) /\ grown.list = list /\ grown.used = h.used
      BY <3>4, <1>6 DEF Absorbed
    <3> QED
      BY <2>1, <3>2, <3>5, <3>6, <3>7, <1>6
  <2>2. CASE ~next
    BY <2>2, <1>6
  <2> QED
    BY <2>1, <2>2
<1>8. /\ p \in 1..(Len(list) + 1) /\ q \in p..(Len(list) + 1) /\ header \in Addresses
  <2>1. header \in Addresses
    BY <1>6, LaidApart, Zenon
  <2> QED
    BY <2>1, <1>1, <1>3 DEF prev
<1>9. HasSpliced(t, Addresses, list, p, header, q)
  <2> HIDE DEF p, q
  <2> QED
    BY <1>1, <1>8, Spliced, Zenon
<1>10. AddToFreeList(h, a) = [grown EXCEPT !.list = t]
  <2>1. p - 1 = IF prev THEN i - 2 ELSE i - 1
    BY <1>3
  <2>2. AddToFreeList(h, a) =
            [grown EXCEPT !.list = SubSeq(list, 1, IF prev THEN i - 2 ELSE i - 1) \o <<header>>
                                    \o SubSeq(list, IF next THEN i + 1 ELSE i, Len(list))]
    BY <1>7, Zenon DEF AddToFreeList, grown, merged, header, prev, next, i, list
  <2> HIDE DEF grown, next, prev
  <2> QED
    BY <2>1, <2>2, Zenon DEF Splice
<1> HIDE DEF grown, next, t, p, q
<1>11. /\ AddToFreeList(h, a).size = grown.size
       /\ AddToFreeList(h, a).list = t
       /\ AddToFreeList(h, a).used = grown.used
       /\ AddToFreeList(h, a).free = grown.free
       /\ AddToFreeList(h, a).meta = grown.meta
       /\ AddToFreeList(h, a) \in Heaps
  BY <1>7, <1>9, <1>10, Zenon DEF Laid, Heaps, HasSpliced
<1>12. /\ IF prev THEN p = i - 1 /\ header = list[p] /\ p \in 1..Len(list) ELSE p = i /\ header = a
       /\ IF next THEN q = i + 1 /\ i \in 1..Len(list) ELSE q = i
       /\ i \in Int /\ p \in Int /\ q \in Int /\ p <= q /\ p >= 1 /\ i <= q /\ p <= i
       /\ Len(t) = Len(list) + 1 + p - q /\ Len(t) \in Nat /\ p \in 1..Len(t)
  BY <1>1, <1>3, <1>8, <1>9 DEF p, q, prev, next, header, HasSpliced
<1>13. Len(list) \in Nat /\ p \in Int /\ q \in Int /\ p >= 1 /\ p <= q /\ Len(t) = Len(list) + 1 + p - q
  BY <1>1, <1>12, Zenon
<1>14. \A k \in 1..Len(t) :
          /\ k < p => t[k] = list[k] /\ k \in 1..Len(list)
          /\ k = p => t[k] = header
          /\ k > p => t[k] = list[k + q - p - 1] /\ k + q - p - 1 \in q..Len(list)
  <2> SUFFICES ASSUME NEW k \in 1..Len(t)
               PROVE  /\ k < p => t[k] = list[k] /\ k \in 1..Len(list)
                      /\ k = p => t[k] = header
                      /\ k > p => t[k] = list[k + q - p - 1] /\ k + q - p - 1 \in q..Len(list)
    OBVIOUS
  <2>1. k < p => k \in 1..Len(list)
    BY <1>1, <1>8
  <2>2. k > p => k + q - p - 1 \in q..Len(list)
    BY <1>13
  <2>3. t[k] = IF k < p THEN list[k] ELSE IF k = p THEN header ELSE list[k + q - p - 1]
    BY <1>9, <1>12 DEF HasSpliced
  <2> QED
    BY <2>1, <2>2, <2>3, <1>13
<1>15. \A m \in 1..Len(list) :
          m < p \/ m >= q => list[m] # header /\ list[m] # a /\ (next => list[m] # list[i])
  <2>1. \A m, j \in 1..Len(list) : m # j => list[m] # list[j]
    <3>1. \A m \in 1..Len(list) : list[m] \in Int
      BY <1>1, <1>2, <1>4, Zenon
    <3> QED
      BY <3>1, <1>1, <1>5, SMTT(30)
  <2> QED
    BY <2>1, <1>2, <1>12
<1>16. A \cup Entries(t) = B2 /\ A \cap Entries(t) = {}
  <2>1. ASSUME NEW k \in 1..Len(t) PROVE t[k] \in B2 /\ t[k] \notin A
    <3>1. CASE k < p
      BY <3>1, <1>2, <1>14, <1>15 DEF B1
    <3>2. CASE k = p
      BY <3>2, <1>6, <1>7, <1>14
    <3>3. CASE k > p
      <4>1. k + q - p - 1 \in 1..Len(list) /\ k + q - p - 1 >= q
        BY <3>3, <1>12, <1>14
      <4> QED
        BY <3>3, <4>1, <1>2, <1>14, <1>15 DEF B1
    <3> QED
      BY <3>1, <3>2, <3>3, <1>12
  <2>2. ASSUME NEW x \in B2, x \notin A PROVE \E k \in 1..Len(t) : t[k] = x
    <3>1. CASE x = header
      BY <3>1, <1>12, <1>14
    <3>2. CASE x # header
      <4>1. x \in E
        BY <3>2, <2>2, <1>12 DEF B1, B
      <4>2. PICK m \in 1..Len(list) : x = list[m]
        BY <4>1 DEF E, Entries
      <4>3. m < p \/ m >= q
        BY <3>2, <2>2, <4>2, <1>12
      <4>4. CASE m < p
        BY <4>4, <4>2, <1>12, <1>14
      <4>5. CASE m >= q
        <5>1. m - q + p + 1 \in 1..Len(t) /\ m - q + p + 1 > p /\ (m - q + p + 1) + q - p - 1 = m
          BY <4>5, <1>12, <1>1
        <5> QED
          BY <5>1, <4>2, <1>14
      <4> QED
        BY <4>3, <4>4, <4>5
    <3> QED
      BY <3>1, <3>2
  <2>3. A \subseteq B2
    BY <1>1, <1>2, <1>12 DEF B1, B
  <2> HIDE DEF B2
  <2> QED
    BY <2>1, <2>2, <2>3 DEF Entries
<1>17. Gapped(t, grown.size)
  <2>0. \A m \in 1..Len(list) : list[m] \in Addresses /\ list[m] \in Int /\ End(h, list[m]) \in Int
    BY <1>1, <1>2, <1>4, Zenon
  <2>1. \A m \in 1..Len(list) : m < p \/ m >= q => list[m] + 1 + grown.size[list[m]] = End(h, list[m])
    BY <2>0, <1>4, <1>7, <1>15
  <2>2. \A m \in 1..Len(list) : m < p => End(h, list[m]) < header
    <3> SUFFICES ASSUME NEW m \in 1..Len(list), m < p PROVE End(h, list[m]) < header
      OBVIOUS
    <3>1. CASE prev
      BY <3>1, <1>5, <1>12
    <3>2. CASE ~prev
      <4>1. m < i /\ header = a /\ list[m] < a /\ a \in Int
        BY <3>2, <1>1, <1>3, <1>4, <1>12
      <4>2. a >= End(h, list[m])
        BY <4>1, <2>0, <1>2, <1>4 DEF B
      <4>3. End(h, list[m]) # a
        <5>1. CASE m = i - 1
          BY <5>1, <3>2, <1>12 DEF prev
        <5>2. CASE m < i - 1
          <6>1. i - 1 \in 1..Len(list) /\ list[i - 1] < a /\ End(h, list[m]) < list[i - 1]
            BY <5>2, <1>3, <1>5, <1>12
          <6> QED
            BY <6>1, <2>0, <4>1
        <5> QED
          BY <5>1, <5>2, <4>1, <1>12
      <4> QED
        BY <4>1, <4>2, <4>3, <2>0
    <3> QED
      BY <3>1, <3>2
  <2>3. \A m \in 1..Len(list) : m >= q => End(grown, header) < list[m]
    <3> SUFFICES ASSUME NEW m \in 1..Len(list), m >= q PROVE End(grown, header) < list[m]
      OBVIOUS
    <3>1. CASE next
      <4>1. i < m /\ i \in 1..Len(list)
        BY <3>1, <1>12
      <4> QED
        BY <3>1, <4>1, <1>5, <1>7
    <3>2. CASE ~next
      <4>1. i \in 1..Len(list) /\ i <= m /\ End(grown, header) = End(h, a) /\ a < list[i]
        BY <3>2, <1>3, <1>7, <1>12
      <4>2. End(h, a) <= list[i] /\ End(h, a) \in Int
        BY <4>1, <2>0, <1>1, <1>2, <1>4 DEF B
      <4>3. End(h, a) # list[i]
        BY <3>2, <4>1, <1>6 DEF next
      <4>4. i = m \/ list[i] < list[m]
        BY <4>1, <1>5, <1>12
      <4> QED
        BY <4>1, <4>2, <4>3, <4>4, <2>0
    <3> QED
      BY <3>1, <3>2
  <2>4. header + 1 + grown.size[header] = End(grown, header) /\ header \in Int /\ End(grown, header) \in Int
    BY <1>7, <1>8, LaidApart
  <2> SUFFICES ASSUME NEW j \in 1..Len(t), NEW k \in 1..Len(t), j < k
               PROVE  t[j] + 1 + grown.size[t[j]] < t[k]
    BY DEF Gapped
  <2>5. CASE j < p /\ k < p
    BY <2>5, <2>1, <1>5, <1>14
  <2>6. CASE j < p /\ k = p
    BY <2>6, <2>1, <2>2, <1>14
  <2>7. CASE j < p /\ k > p
    <3>1. k + q - p - 1 \in 1..Len(list) /\ j < k + q - p - 1
      BY <2>7, <1>12, <1>14
    <3> QED
      BY <2>7, <3>1, <2>1, <1>5, <1>14
  <2>8. CASE j = p /\ k > p
    <3>1. k + q - p - 1 \in 1..Len(list) /\ k + q - p - 1 >= q
      BY <2>8, <1>12, <1>14
    <3> QED
      BY <2>8, <3>1, <2>3, <2>4, <1>14
  <2>9. CASE j > p /\ k > p
    <3>1. /\ k + q - p - 1 \in 1..Len(list) /\ j + q - p - 1 \in 1..Len(list)
          /\ j + q - p - 1 >= q /\ j + q - p - 1 < k + q - p - 1
      BY <2>9, <1>12, <1>14
    <3> QED
      BY <2>9, <3>1, <2>1, <1>5, <1>14
  <2> QED
    BY <2>5, <2>6, <2>7, <2>8, <2>9, <1>12
<1>18. Laid(AddToFreeList(h, a), B2)
  BY <1>7, <1>11 DEF Laid, Balanced
<1>19. \A c \in A : grown.size[c] = h.size[c]
  <2>1. \A c \in A : c # a /\ c # header /\ (next => c # list[i]) /\ c \in Addresses
    BY <1>1, <1>2, <1>3, <1>6 DEF next, B
  <2> QED
    BY <2>1, <1>7
<1> QED
  BY <1>11, <1>16, <1>17, <1>18, <1>19 DEF Sound, SoundLike

\* The remainder of a block that is cut becomes a free block.
LEMMA SplitSound ==
    ASSUME Chunk, NEW h, NEW A, Sound(h, A), NEW a \in A, NEW n \in Nat, h.size[a] > n + 1
    PROVE  /\ Sound(Split(h, a, n), A)
           /\ Split(h, a, n).size[a] = n
           /\ \A c \in A \ {a} : Split(h, a, n).size[c] = h.size[c]
<1> DEFINE B == A \cup Entries(h.list)
           r == a + 1 + n
           g == [h EXCEPT !.size = [@ EXCEPT ![a] = n, ![r] = h.size[a] - n - 1],
                          !.free = Wrap(@ - 1), !.meta = Wrap(@ + 1)]
<1>1. Laid(h, B) /\ h \in Heaps /\ B \subseteq Addresses /\ h.size \in [Addresses -> 0..Units]
  BY LaidApart DEF Sound
<1>2. /\ g.size = Cut(h.size, a, n) /\ g.list = h.list /\ g.used = h.used
      /\ g.free = Wrap(h.free - 1) /\ g.meta = Wrap(h.meta + 1)
  <2>1. DOMAIN h = {"size", "list", "free", "used", "meta"}
    BY <1>1 DEF Heaps
  <2> QED
    BY <2>1 DEF Cut
<1>3. /\ r \in Addresses \ B /\ Tiles(g.size, B \cup {r})
      /\ \A c \in Addresses \ {a, r} : g.size[c] = h.size[c]
  <2>1. Tiles(h.size, B) /\ a \in B
    BY <1>1 DEF Laid
  <2> HIDE DEF g, B
  <2>2. HasCut(Cut(h.size, a, n), h.size, B, a, r)
    BY <2>1, CutTiles
  <2> QED
    BY <2>2, <1>2 DEF HasCut
<1>4. /\ h.free \in Counter /\ h.used \in Counter /\ h.meta \in Counter /\ h.meta = Cardinality(B)
      /\ Cardinality(B \cup {r}) = h.meta + 1
  <2>1. h.free \in Counter /\ h.used \in Counter /\ h.meta \in Counter /\ h.meta = Cardinality(B)
    BY <1>1 DEF Laid, Heaps
  <2>2. IsFiniteSet(B)
    BY <1>1, BlocksCounted DEF Laid
  <2> QED
    BY <2>1, <2>2, <1>3, FS_AddElement, Zenon
<1>5. g.meta = h.meta + 1 /\ g.meta \in Counter
  <2>1. Cardinality(B \cup {r}) \in 1..Units
    BY <1>3, BlocksCounted, Zenon
  <2>2. h.meta + 1 \in Counter
    BY <2>1, <1>4 DEF Counter, Chunk
  <2> QED
    BY <2>2, <1>2, NotWrapping
<1>6. Moved(h.free, g.free, -1) /\ g.free \in Counter
  <2>1. h.free + (-1) = h.free - 1
    BY <1>4 DEF Counter
  <2>2. Moved(h.free, Wrap(h.free + (-1)), -1)
    BY <1>4, Wrapping DEF Chunk
  <2> QED
    BY <2>1, <2>2, <1>2 DEF Moved
<1>7. g \in Heaps
  <2>1. g.size \in [Addresses -> 0..Units]
    BY <1>3 DEF Tiles
  <2> QED
    BY <2>1, <1>1, <1>2, <1>5, <1>6, Zenon DEF Heaps, Cut
<1>8. Split(h, a, n) = AddToFreeList(g, r)
  BY DEF Split
<1>9. n = g.size[a]
  BY <1>1, <1>2, <1>3 DEF Cut
<1> HIDE DEF g, r
<1>10. Balanced(g)
  <2>1. Moved(h.used, g.used, 0) /\ Moved(h.meta, g.meta, 1)
    BY <1>2, <1>4, <1>5 DEF Moved, Counter, Chunk
  <2>2. 0 + (-1) + 1 = 0 /\ Sums(h.used + h.free + h.meta)
    BY <1>1 DEF Laid, Balanced
  <2> QED
    BY <2>1, <2>2, <1>6, StillSums DEF Balanced
<1>11. Gapped(g.list, g.size)
  <2>1. \A j \in 1..Len(h.list) : h.list[j] \in Entries(h.list)
    BY DEF Entries
  <2>2. \A c \in Entries(h.list) : g.size[c] = h.size[c]
    BY <1>1, <1>3 DEF Sound
  <2> QED
    BY <2>1, <2>2, <1>2 DEF Gapped, Sound
<1>12. Laid(g, B \cup {r})
  BY <1>3, <1>4, <1>5, <1>7, <1>10 DEF Laid
<1>13. SoundBut(g, A, r)
  BY <1>2, <1>3, <1>11, <1>12 DEF SoundBut, Sound
<1>14. SoundLike(AddToFreeList(g, r), g, A)
  BY <1>13, AddSound, Zenon
<1>15. \A c \in A \ {a} : g.size[c] = h.size[c]
  BY <1>1, <1>3
<1> QED
  BY <1>8, <1>9, <1>14, <1>15 DEF SoundLike

\* free returns the block to a sound heap and leaves the others alone.
LEMMA FreeSound ==
    ASSUME Chunk, NEW h, NEW A, Sound(h, A), NEW a \in A
    PROVE  SoundLike(Free(h, a), h, A \ {a})
<1> DEFINE B == A \cup Entries(h.list)
           g == [h EXCEPT !.used = Wrap(@ - h.size[a]), !.free = Wrap(@ + h.size[a])]
<1>1. Laid(h, B) /\ h \in Heaps /\ B \subseteq Addresses /\ h.size \in [Addresses -> 0..Units]
  BY LaidApart DEF Sound
<1>2. /\ g.size = h.size /\ g.list = h.list /\ g.meta = h.meta
      /\ g.used = Wrap(h.used - h.size[a]) /\ g.free = Wrap(h.free + h.size[a])
  <2>1. DOMAIN h = {"size", "list", "free", "used", "meta"}
    BY <1>1 DEF Heaps
  <2> QED
    BY <2>1
<1>3. h.free \in Counter /\ h.used \in Counter /\ h.meta \in Counter /\ h.size[a] \in 0..Units
  BY <1>1 DEF Heaps
<1>4. Moved(h.used, g.used, -h.size[a]) /\ g.used \in Counter
  <2>1. h.used + (-h.size[a]) = h.used - h.size[a]
    BY <1>3 DEF Counter
  <2>2. Moved(h.used, Wrap(h.used + (-h.size[a])), -h.size[a])
    BY <1>3, Wrapping DEF Chunk
  <2> QED
    BY <2>1, <2>2, <1>2 DEF Moved
<1>5. Moved(h.free, g.free, h.size[a]) /\ g.free \in Counter
  BY <1>2, <1>3, Wrapping DEF Chunk, Moved
<1>6. g \in Heaps
  BY <1>1, <1>2, <1>4, <1>5, Zenon DEF Heaps
<1>7. Free(h, a) = AddToFreeList(g, a)
  BY DEF Free
<1> HIDE DEF g
<1>8. Balanced(g)
  <2>1. Moved(h.meta, g.meta, 0)
    BY <1>2, <1>3 DEF Moved, Counter, Chunk
  <2>2. (-h.size[a]) + h.size[a] + 0 = 0 /\ Sums(h.used + h.free + h.meta)
    BY <1>1, <1>3 DEF Laid, Balanced
  <2> QED
    BY <2>1, <2>2, <1>4, <1>5, StillSums DEF Balanced
<1>9. SoundBut(g, A \ {a}, a)
  <2>1. (A \ {a}) \cup Entries(g.list) \cup {a} = B
    BY <1>2
  <2>2. Laid(g, B)
    BY <1>1, <1>2, <1>6, <1>8 DEF Laid
  <2> QED
    BY <2>1, <2>2, <1>2 DEF SoundBut, Sound
<1>10. SoundLike(AddToFreeList(g, a), g, A \ {a})
  BY <1>9, AddSound, Zenon
<1> QED
  BY <1>2, <1>7, <1>10 DEF SoundLike

-----------------------------------------------------------------------------
\* A list without its entry at i.
Without(s, i) == SubSeq(s, 1, i - 1) \o SubSeq(s, i + 1, Len(s))

\* The entries of a list with the i-th taken out.
LEMMA WithoutEntry ==
    ASSUME NEW S, NEW s \in Seq(S), NEW i \in 1..Len(s)
    PROVE  /\ Without(s, i) \in Seq(S)
           /\ Len(Without(s, i)) = Len(s) - 1
           /\ \A k \in 1..(Len(s) - 1) : Without(s, i)[k] = IF k < i THEN s[k] ELSE s[k + 1]
<1> DEFINE u == SubSeq(s, 1, i - 1)
           w == SubSeq(s, i + 1, Len(s))
<1>1. u \in Seq(S) /\ Len(u) = i - 1 /\ \A k \in 1..(i - 1) : u[k] = s[k]
  OBVIOUS
<1>2. w \in Seq(S) /\ Len(w) = Len(s) - i /\ \A k \in 1..(Len(s) - i) : w[k] = s[k + i]
  OBVIOUS
<1> HIDE DEF u, w
<1>3. /\ u \o w \in Seq(S) /\ Len(u \o w) = Len(u) + Len(w)
      /\ \A k \in 1..(Len(u) + Len(w)) : (u \o w)[k] = IF k <= Len(u) THEN u[k] ELSE w[k - Len(u)]
  BY <1>1, <1>2, ConcatProperties, Zenon
<1>4. Len(u) + Len(w) = Len(s) - 1
  BY <1>1, <1>2
<1>5. ASSUME NEW k \in 1..(Len(s) - 1) PROVE (u \o w)[k] = IF k < i THEN s[k] ELSE s[k + 1]
  <2>1. CASE k < i
    BY <2>1, <1>1, <1>3, <1>4
  <2>2. CASE k >= i
    <3>1. k - (i - 1) \in 1..(Len(s) - i) /\ (k - (i - 1)) + i = k + 1 /\ ~(k <= i - 1) /\ ~(k < i)
      BY <2>2
    <3>2. w[k - (i - 1)] = s[k + 1]
      BY <3>1, <1>2
    <3> QED
      BY <3>1, <3>2, <1>1, <1>3, <1>4
  <2>3. k < i \/ k >= i
    OBVIOUS
  <2> QED
    BY <2>1, <2>2, <2>3, Zenon
<1> QED
  BY <1>3, <1>4, <1>5, Zenon DEF Without, u, w

\* A block that a caller takes off the list.
LEMMA TakenSound ==
    ASSUME Chunk, NEW h, NEW A, Sound(h, A), NEW i \in 1..Len(h.list)
    PROVE  SoundLike([h EXCEPT !.list = Without(@, i)], h, A \cup {h.list[i]})
<1> DEFINE list == h.list
           x == list[i]
           t == Without(list, i)
           g == [h EXCEPT !.list = t]
<1>1. /\ Laid(h, A \cup Entries(list)) /\ h \in Heaps /\ list \in Seq(Addresses)
      /\ A \cap Entries(list) = {} /\ Gapped(list, h.size) /\ Len(list) \in Nat
      /\ h.size \in [Addresses -> 0..Units] /\ Addresses \subseteq Int
      /\ \A c \in Addresses : h.size[c] \in Nat
  BY LaidApart, SMTT(30) DEF Sound
<1>2. /\ t \in Seq(Addresses) /\ Len(t) = Len(list) - 1
      /\ \A k \in 1..(Len(list) - 1) : t[k] = IF k < i THEN list[k] ELSE list[k + 1]
  BY <1>1, WithoutEntry, Zenon
<1>3. \A j, k \in 1..Len(list) : j < k => list[j] # list[k]
  <2> SUFFICES ASSUME NEW j \in 1..Len(list), NEW k \in 1..Len(list), j < k PROVE list[j] # list[k]
    OBVIOUS
  <2>0. list[j] \in Addresses /\ list[k] \in Addresses
    BY <1>1, ElementOfSeq
  <2>1. list[j] \in Int /\ list[k] \in Int /\ h.size[list[j]] \in Nat
    BY <2>0, <1>1, Zenon
  <2>2. list[j] + 1 + h.size[list[j]] < list[k]
    BY <1>1 DEF Gapped
  <2> QED
    BY <2>1, <2>2
<1>4. Entries(t) = Entries(list) \ {x}
  <2>1. ASSUME NEW k \in 1..Len(t) PROVE t[k] \in Entries(list) \ {x}
    <3>1. \E m \in 1..Len(list) : m # i /\ t[k] = list[m]
      <4>1. k \in 1..(Len(list) - 1) /\ k \in 1..Len(list) /\ k + 1 \in 1..Len(list)
        BY <1>1, <1>2
      <4> QED
        BY <4>1, <1>2
    <3> QED
      BY <3>1, <1>3, <1>1 DEF Entries
  <2>2. ASSUME NEW m \in 1..Len(list), m # i PROVE \E k \in 1..Len(t) : t[k] = list[m]
    <3>1. CASE m < i
      BY <3>1, <1>1, <1>2
    <3>2. CASE m > i
      <4>1. m - 1 \in 1..(Len(list) - 1) /\ ~(m - 1 < i) /\ (m - 1) + 1 = m
        BY <3>2, <1>1
      <4> QED
        BY <4>1, <1>2, Zenon
    <3> QED
      BY <3>1, <3>2, <2>2
  <2> HIDE DEF t, list
  <2> QED
    BY <2>1, <2>2, SMTT(30) DEF Entries
<1>5. Gapped(t, h.size)
  <2> SUFFICES ASSUME NEW j \in 1..Len(t), NEW k \in 1..Len(t), j < k
               PROVE  t[j] + 1 + h.size[t[j]] < t[k]
    BY DEF Gapped
  <2>1. \E m, o \in 1..Len(list) : m < o /\ t[j] = list[m] /\ t[k] = list[o]
    <3>1. /\ j \in 1..(Len(list) - 1) /\ j \in 1..Len(list) /\ j + 1 \in 1..Len(list)
          /\ k \in 1..(Len(list) - 1) /\ k \in 1..Len(list) /\ k + 1 \in 1..Len(list)
      BY <1>1, <1>2
    <3> HIDE DEF t
    <3>2. CASE k < i
      <4>1. j < i /\ t[j] = list[j] /\ t[k] = list[k]
        BY <3>1, <3>2, <1>2
      <4> QED
        BY <4>1, <3>1
    <3>3. CASE j < i /\ ~(k < i)
      <4>1. j < k + 1 /\ t[j] = list[j] /\ t[k] = list[k + 1]
        BY <3>1, <3>3, <1>2
      <4> QED
        BY <4>1, <3>1
    <3>4. CASE ~(j < i)
      <4>1. j + 1 < k + 1 /\ t[j] = list[j + 1] /\ t[k] = list[k + 1]
        BY <3>1, <3>4, <1>2
      <4> QED
        BY <4>1, <3>1
    <3> QED
      BY <3>2, <3>3, <3>4
  <2> QED
    BY <2>1, <1>1 DEF Gapped
<1>6. /\ g.size = h.size /\ g.list = t /\ g.free = h.free /\ g.used = h.used /\ g.meta = h.meta
      /\ g \in Heaps
  BY <1>1, <1>2, Zenon DEF Heaps
<1>7. (A \cup {x}) \cup Entries(t) = A \cup Entries(list)
  <2>1. x \in Entries(list)
    BY DEF Entries
  <2> QED
    BY <2>1, <1>4
<1>8. Laid(g, A \cup Entries(list))
  BY <1>1, <1>6 DEF Laid, Balanced
<1>9. (A \cup {x}) \cap Entries(t) = {}
  BY <1>1, <1>4
<1> HIDE DEF g, t, list
<1>10. SoundLike(g, h, A \cup {x})
  BY <1>5, <1>6, <1>7, <1>8, <1>9, Zenon DEF SoundLike, Sound
<1> QED
  BY <1>10 DEF g, t, list

\* Allocate hands out a free block that is large enough, and keeps the blocks
\* that callers hold as they are.
LEMMA AllocateSound ==
    ASSUME Chunk, NEW h, NEW A, Sound(h, A), NEW n \in Nat, Fits(h, n) # {}
    PROVE  /\ h.list[FirstFit(h, n)] \in Addresses \ A
           /\ Sound(Allocate(h, n), A \cup {h.list[FirstFit(h, n)]})
           /\ Allocate(h, n).size[h.list[FirstFit(h, n)]] >= n
           /\ \A c \in A : Allocate(h, n).size[c] = h.size[c]
<1> DEFINE i == FirstFit(h, n)
           x == h.list[i]
           taken == [h EXCEPT !.list = Without(@, i)]
           cut == IF Splits(h, x, n) THEN Split(taken, x, n) ELSE taken
           g == [cut EXCEPT !.used = Wrap(@ + n), !.free = Wrap(@ - n)]
           A2 == A \cup {x}
<1>1. h \in Heaps /\ h.list \in Seq(Addresses) /\ h.size \in [Addresses -> 0..Units]
  BY LaidApart DEF Sound
<1>2. i \in 1..Len(h.list) /\ h.size[x] >= n
  <2>1. Fits(h, n) \in SUBSET Nat
    BY <1>1 DEF Fits
  <2>2. \E k \in Fits(h, n) : \A j \in Fits(h, n) : k <= j
    BY <2>1, HasLeast
  <2>3. i \in Fits(h, n)
    BY <2>2 DEF FirstFit
  <2> QED
    BY <2>3 DEF Fits
<1> HIDE DEF i
<1>3. x \in Addresses /\ x \notin A
  BY <1>1, <1>2, ElementOfSeq DEF Sound, Entries
<1>4. SoundLike(taken, h, A2)
  BY <1>2, TakenSound
<1>5. taken.size = h.size /\ taken.size[x] \in Nat
  BY <1>1, <1>3 DEF Heaps
<1>6. Allocate(h, n) = g
  BY DEF Allocate, Without, i
<1> HIDE DEF taken
<1>7. Sound(cut, A2) /\ cut.size[x] >= n /\ \A c \in A : cut.size[c] = h.size[c]
  <2>1. CASE Splits(h, x, n)
    <3>1. taken.size[x] > n + 1 /\ Sound(taken, A2) /\ x \in A2
      BY <2>1, <1>4, <1>5 DEF Splits, SoundLike
    <3>2. /\ Sound(Split(taken, x, n), A2)
          /\ Split(taken, x, n).size[x] = n
          /\ \A c \in A2 \ {x} : Split(taken, x, n).size[c] = taken.size[c]
      <4> HIDE DEF A2, x
      <4> QED
        BY <3>1, SplitSound
    <3> QED
      BY <2>1, <3>2, <1>3, <1>5
  <2>2. CASE ~Splits(h, x, n)
    BY <2>2, <1>2, <1>4, <1>5 DEF SoundLike
  <2> QED
    BY <2>1, <2>2
<1> HIDE DEF cut
<1>8. cut \in Heaps /\ Laid(cut, A2 \cup Entries(cut.list)) /\ cut.size \in [Addresses -> 0..Units]
  BY <1>7, LaidApart DEF Sound
<1>9. /\ g.size = cut.size /\ g.list = cut.list /\ g.meta = cut.meta
      /\ g.used = Wrap(cut.used + n) /\ g.free = Wrap(cut.free - n)
  <2>1. DOMAIN cut = {"size", "list", "free", "used", "meta"}
    BY <1>8 DEF Heaps
  <2> QED
    BY <2>1
<1>10. cut.free \in Counter /\ cut.used \in Counter /\ cut.meta \in Counter /\ n \in 0..Units
  <2>1. cut.size[x] \in 0..Units
    BY <1>3, <1>8
  <2> QED
    BY <2>1, <1>7, <1>8 DEF Heaps, Chunk
<1>11. Moved(cut.used, g.used, n) /\ g.used \in Counter
  BY <1>9, <1>10, Wrapping DEF Chunk, Moved
<1>12. Moved(cut.free, g.free, -n) /\ g.free \in Counter
  <2>1. cut.free + (-n) = cut.free - n
    BY <1>10 DEF Counter
  <2>2. Moved(cut.free, Wrap(cut.free + (-n)), -n)
    BY <1>10, Wrapping DEF Chunk
  <2> QED
    BY <2>1, <2>2, <1>9 DEF Moved
<1>13. g \in Heaps
  BY <1>8, <1>9, <1>11, <1>12, Zenon DEF Heaps
<1> HIDE DEF g
<1>14. Balanced(g)
  <2>1. Moved(cut.meta, g.meta, 0)
    BY <1>9, <1>10 DEF Moved, Counter, Chunk
  <2>2. n + (-n) + 0 = 0 /\ Sums(cut.used + cut.free + cut.meta)
    BY <1>8, <1>10 DEF Laid, Balanced
  <2> QED
    BY <2>1, <2>2, <1>11, <1>12, StillSums DEF Balanced
<1>15. Sound(g, A2)
  <2>1. Laid(g, A2 \cup Entries(cut.list))
    BY <1>8, <1>9, <1>13, <1>14 DEF Laid
  <2> QED
    BY <2>1, <1>7, <1>9 DEF Sound
<1>16. g.size[x] >= n /\ \A c \in A : g.size[c] = h.size[c]
  BY <1>7, <1>9
<1> QED
  BY <1>3, <1>6, <1>15, <1>16 DEF i

-----------------------------------------------------------------------------
(***************************************************************************)
(* The invariant and its theorems.                                         *)
(***************************************************************************)

Inv == Sound(Heap, allocated) /\ panicked \in BOOLEAN /\ trampled \in BOOLEAN

\* What Become leaves behind.
LEMMA Became ==
    ASSUME NEW h \in Heaps, Become(h)
    PROVE  Heap' = h
  BY DEF Become, Heap, Heaps

\* What a step does to the blocks that callers keep.
Kept == \A a \in allocated \cap allocated' : size'[a] = size[a]

\* The first chunk is one free block.
LEMMA InitInv ==
    ASSUME Chunk, Init
    PROVE  Inv
<1>1. Entries(m_freeList) = {0} /\ m_freeList \in Seq(Addresses) /\ Len(m_freeList) = 1
  BY DEF Init, Entries, Chunk, Addresses
<1>2. Tiles(size, {0})
  BY DEF Tiles, Init, Chunk, Addresses
<1>3. Heap \in Heaps
  BY <1>1, <1>2 DEF Heaps, Heap, Init, Chunk, Counter, Tiles
<1>4. Cardinality({0}) = 1
  BY FS_Singleton
<1>5. Balanced(Heap)
  BY DEF Balanced, Heap, Init, Sums, Chunk
<1>6. Laid(Heap, {0})
  BY <1>2, <1>3, <1>4, <1>5 DEF Laid, Heap, Init
<1>7. Gapped(m_freeList, size)
  BY <1>1 DEF Gapped
<1> QED
  BY <1>1, <1>6, <1>7, Zenon DEF Inv, Sound, Heap, Init

\* kmalloc keeps the heap sound, and the blocks that are held.
LEMMA KmallocInv ==
    ASSUME Chunk, Inv, NEW n \in Requests, Kmalloc(n)
    PROVE  Inv' /\ Kept
<1>1. n \in Nat
  BY DEF Chunk
<1>2. CASE OutOfMemory(n)
  BY <1>2 DEF OutOfMemory, Inv, Heap, counters, Kept
<1>3. CASE Fits(Heap, n) # {} /\ Become(Allocate(Heap, n)) /\ UNCHANGED <<panicked, trampled>>
           /\ allocated' = allocated \cup {m_freeList[FirstFit(Heap, n)]}
  <2>1. /\ Sound(Allocate(Heap, n), allocated \cup {Heap.list[FirstFit(Heap, n)]})
        /\ \A c \in allocated : Allocate(Heap, n).size[c] = Heap.size[c]
    BY <1>1, <1>3, AllocateSound DEF Inv
  <2>2. Allocate(Heap, n) \in Heaps
    BY <2>1, LaidApart DEF Sound
  <2>3. Heap' = Allocate(Heap, n) /\ Heap.list = m_freeList /\ Heap.size = size /\ Heap'.size = size'
    BY <2>2, <1>3, Became DEF Heap
  <2> QED
    BY <2>1, <2>3, <1>3 DEF Inv, Kept
<1> QED
  BY <1>2, <1>3 DEF Kmalloc

\* kfree does.
LEMMA KfreeInv ==
    ASSUME Chunk, Inv, NEW a, Kfree(a)
    PROVE  Inv' /\ Kept
<1>1. SoundLike(Free(Heap, a), Heap, allocated \ {a})
  BY FreeSound DEF Inv, Kfree
<1>2. Free(Heap, a) \in Heaps
  BY <1>1, LaidApart DEF SoundLike, Sound
<1>3. Heap' = Free(Heap, a) /\ Heap.size = size /\ Heap'.size = size'
  BY <1>2, Became DEF Heap, Kfree
<1> QED
  BY <1>1, <1>3 DEF Inv, Kept, Kfree, SoundLike

\* krealloc, which allocates, copies and frees, does, but for what it copies
\* over a header.
LEMMA KreallocInv ==
    ASSUME Chunk, Inv, NEW a, NEW n \in Requests, Krealloc(a, n)
    PROVE  Inv' /\ Kept
<1> DEFINE x == m_freeList[FirstFit(Heap, n)]
           g == Allocate(Heap, n)
<1>1. n \in Nat /\ a \in allocated
  BY Zenon DEF Chunk, Krealloc
<1>2. CASE OutOfMemory(n)
  BY <1>2 DEF OutOfMemory, Inv, Heap, counters, Kept
<1>3. ASSUME Fits(Heap, n) # {}
      PROVE  /\ Sound(g, allocated \cup {x})
             /\ \A c \in allocated : g.size[c] = size[c]
             /\ Heap.list = m_freeList /\ Heap.size = size /\ Heap'.size = size'
  <2>1. /\ Sound(Allocate(Heap, n), allocated \cup {Heap.list[FirstFit(Heap, n)]})
        /\ \A c \in allocated : Allocate(Heap, n).size[c] = Heap.size[c]
    BY <1>1, <1>3, AllocateSound DEF Inv
  <2>2. Heap.list = m_freeList /\ Heap.size = size /\ Heap'.size = size'
    BY DEF Heap
  <2> QED
    BY <2>1, <2>2
<1>4. CASE Fits(Heap, n) # {} /\ Become(Free(g, a)) /\ UNCHANGED <<panicked, trampled>>
           /\ allocated' = (allocated \cup {x}) \ {a}
  <2> HIDE DEF g, x
  <2>4. SoundLike(Free(g, a), g, (allocated \cup {x}) \ {a})
    <3>1. a \in allocated \cup {x}
      BY <1>1
    <3> QED
      BY <3>1, <1>3, <1>4, FreeSound
  <2>5. Free(g, a) \in Heaps
    BY <2>4, LaidApart DEF SoundLike, Sound
  <2>6. Heap' = Free(g, a)
    BY <2>5, <1>4, Became
  <2> QED
    BY <1>3, <2>4, <2>6, <1>4 DEF Inv, Kept, SoundLike
<1>5. CASE Fits(Heap, n) # {} /\ Become(g) /\ trampled' = TRUE /\ UNCHANGED panicked
           /\ allocated' = allocated \cup {x}
  <2> HIDE DEF g, x
  <2>1. g \in Heaps
    BY <1>3, <1>5, LaidApart DEF Sound
  <2>2. Heap' = g
    BY <2>1, <1>5, Became
  <2> QED
    BY <1>3, <1>5, <2>2 DEF Inv, Kept
<1> QED
  BY <1>2, <1>4, <1>5, Zenon DEF Krealloc

\* Every step does.
LEMMA NextInv ==
    ASSUME Chunk, Inv, [Next]_vars
    PROVE  Inv' /\ Kept
<1>1. CASE UNCHANGED vars
  BY <1>1 DEF vars, counters, Inv, Heap, Kept
<1> QED
  BY <1>1, KmallocInv, KfreeInv, KreallocInv DEF Next

\* The heap is sound in every reachable state.
LEMMA Invariance ==
    ASSUME Chunk
    PROVE  Spec => []Inv
<1>1. Init => Inv
  BY InitInv
<1>2. Inv /\ [Next]_vars => Inv'
  BY NextInv
<1> QED
  BY <1>1, <1>2, PTL DEF Spec

\* The heap's variables keep their types: in particular no size outgrows the
\* chunk and every list entry is an address of it.
THEOREM TypeCorrect ==
    ASSUME Chunk
    PROVE  Spec => []TypeOK
<1>1. Inv => TypeOK
  <2> SUFFICES ASSUME Inv PROVE TypeOK
    OBVIOUS
  <2>1. Laid(Heap, allocated \cup Entries(m_freeList)) /\ Heap \in Heaps
    BY LaidApart DEF Inv, Sound, Heap
  <2> QED
    BY <2>1 DEF Laid, Tiles, Heaps, Heap, Counter, TypeOK, Inv
<1> QED
  BY <1>1, Invariance, PTL

\* For every size of chunk and every set of requests, in any order of
\* kmalloc, kfree and krealloc, until krealloc copies a block over the header
\* behind a smaller one: the allocated and the free blocks tile the chunk,
\* without overlap and without a gap that no list holds.
THEOREM HeapTiled ==
    ASSUME Chunk
    PROVE  Spec => []Tiled
<1>1. Inv => Tiled
  <2> SUFFICES ASSUME Inv PROVE Tiled
    OBVIOUS
  <2>1. Heap.size = size /\ Heap.list = m_freeList /\ Entries(m_freeList) = Listed
    BY DEF Heap, Entries, Listed
  <2>2. Tiles(size, Blocks) /\ allocated \cap Listed = {}
    BY <2>1 DEF Inv, Sound, Laid, Blocks
  <2> QED
    BY <2>1, <2>2, SMTT(30) DEF Tiled, Tiles, End
<1> QED
  BY <1>1, Invariance, PTL

\* Until then AddToFreeList keeps the free list sorted and merges every pair of
\* free neighbours, also the two that freeing the block between them joins.
THEOREM HeapCoalesced ==
    ASSUME Chunk
    PROVE  Spec => []Coalesced
<1>1. Inv => Coalesced
  <2> SUFFICES ASSUME Inv, NEW i \in 1..(Len(m_freeList) - 1)
               PROVE  End(Heap, m_freeList[i]) < m_freeList[i + 1]
    BY DEF Coalesced
  <2>1. Heap.size = size /\ Heap.list = m_freeList /\ Heap \in Heaps
    BY LaidApart DEF Heap, Inv, Sound
  <2>2. m_freeList \in Seq(Addresses) /\ Gapped(m_freeList, size)
    BY <2>1 DEF Heaps, Inv, Sound
  <2>3. i \in 1..Len(m_freeList) /\ i + 1 \in 1..Len(m_freeList) /\ i < i + 1
    BY <2>2
  <2> QED
    BY <2>1, <2>2, <2>3 DEF Gapped, End
<1> QED
  BY <1>1, Invariance, PTL

\* Until then the three totals add up to the chunk, although one that a
\* remainder or a rounded size makes negative wraps, and m_MetadataMem counts
\* exactly the headers there are.
THEOREM TotalsKept ==
    ASSUME Chunk
    PROVE  Spec => []HeapAccounted
<1>1. Inv => HeapAccounted
  <2> SUFFICES ASSUME Inv PROVE HeapAccounted
    OBVIOUS
  <2>1. Heap.list = m_freeList /\ Entries(m_freeList) = Listed
    BY DEF Heap, Entries, Listed
  <2>2. Balanced(Heap) /\ Heap.meta = Cardinality(Blocks)
    BY <2>1 DEF Inv, Sound, Laid, Blocks
  <2>3. Sums(m_usedMem + m_freeMem + m_MetadataMem) /\ m_MetadataMem = Cardinality(Blocks)
    BY <2>2 DEF Balanced, Heap
  <2> QED
    BY <2>3, Unwrapping DEF HeapAccounted
<1> QED
  BY <1>1, Invariance, PTL

\* No operation on the heap but the copy of krealloc touches the header of a
\* block that a caller holds before and after it.
THEOREM HeldBlocksKept ==
    ASSUME Chunk
    PROVE  Spec => BlocksKept
<1>1. Inv /\ [Next]_vars => [Kept]_vars
  BY NextInv
<1> QED
  BY <1>1, Invariance, PTL DEF Spec, BlocksKept, Kept

-----------------------------------------------------------------------------
(***************************************************************************)
(* LibC's malloc, for every number and size of pages and all requests.     *)
(* The invariant MallocInv says that the blocks are those that callers     *)
(* have and those in the free list, that they are apart, and that their    *)
(* memory is mapped unless it was unmapped under them.                     *)
(***************************************************************************)

CONSTANTS PAGE_SIZE, PageCount, Leftover, MallocRequests

VARIABLES chunks, mallocSize, isStart, mallocFreeList, used, lost, crashed

Malloc == INSTANCE UserHeap WITH
    size <- mallocSize, m_freeList <- mallocFreeList, Requests <- MallocRequests

\* One with a bound has a greatest one.
LEMMA HasGreatest ==
    ASSUME NEW S \in SUBSET Nat, S # {}, NEW n \in Nat, \A x \in S : x <= n
    PROVE  \E x \in S : \A y \in S : x >= y
<1> DEFINE T == {n - x : x \in S}
<1>1. T \in SUBSET Nat /\ T # {}
  <2>1. \A x \in S : n - x \in Nat
    OBVIOUS
  <2> QED
    BY <2>1, Zenon
<1>2. PICK d \in T : \A e \in T : d <= e
  <2> HIDE DEF T
  <2> QED
    BY <1>1, HasLeast
<1>3. PICK x \in S : d = n - x
  BY <1>2
<1>4. \A y \in S : n - x <= n - y
  BY <1>2, <1>3, Zenon
<1> QED
  BY <1>4

\* So Min and Max are in their sets.
LEMMA MinIn ==
    ASSUME NEW S \in SUBSET Nat, S # {}
    PROVE  Malloc!Min(S) \in S /\ \A y \in S : Malloc!Min(S) <= y
<1>1. \E x \in S : \A y \in S : x =< y
  BY HasLeast
<1> QED
  BY <1>1, Zenon DEF Malloc!Min

\* Max likewise, where there is a bound.
LEMMA MaxIn ==
    ASSUME NEW S \in SUBSET Nat, S # {}, NEW n \in Nat, \A x \in S : x <= n
    PROVE  Malloc!Max(S) \in S /\ \A y \in S : Malloc!Max(S) >= y
<1>1. \E x \in S : \A y \in S : x >= y
  BY HasGreatest, Zenon
<1> QED
  BY <1>1, Zenon DEF Malloc!Max

-----------------------------------------------------------------------------
\* Blocks that are apart, in the memory M.
Good(sz, M) ==
    /\ \A a \in DOMAIN sz : a \in Nat /\ sz[a] \in Nat
    /\ \A a \in DOMAIN sz : \A u \in a..(a + sz[a]) : u \in M
    /\ \A a, b \in DOMAIN sz : a < b => a + 1 + sz[a] <= b

\* Block a takes in block b.
MergeInto(sz, a, b) == Malloc!Without(Malloc!With(sz, a, sz[a] + 1 + sz[b]), {b})

Merged(g, sz, M, a, b) ==
    /\ Good(g, M) /\ DOMAIN g = DOMAIN sz \ {b}
    /\ \A c \in DOMAIN sz \ {a, b} : g[c] = sz[c]

\* Merging two blocks that touch keeps all blocks apart.
LEMMA MergeGood ==
    ASSUME NEW M, NEW sz, Good(sz, M), NEW a \in DOMAIN sz, NEW b \in DOMAIN sz, Malloc!Touches(sz, a, b)
    PROVE  Merged(MergeInto(sz, a, b), sz, M, a, b)
<1> DEFINE g == MergeInto(sz, a, b)
<1>1. DOMAIN g = DOMAIN sz \ {b} /\ \A c \in DOMAIN sz \ {b} : g[c] = IF c = a THEN sz[a] + 1 + sz[b] ELSE sz[c]
  BY DEF MergeInto, Malloc!Without, Malloc!With
<1>2. a \in Nat /\ b \in Nat /\ sz[a] \in Nat /\ sz[b] \in Nat /\ a + 1 + sz[a] = b
  BY DEF Good, Malloc!Touches
<1> HIDE DEF g
<1>3. \A c \in DOMAIN g : c \in Nat /\ g[c] \in Nat
  BY <1>1, <1>2 DEF Good
<1>4. \A c \in DOMAIN g : \A u \in c..(c + g[c]) : u \in M
  <2> SUFFICES ASSUME NEW c \in DOMAIN g, NEW u \in c..(c + g[c]) PROVE u \in M
    OBVIOUS
  <2>1. CASE c = a
    <3>1. u \in a..(a + sz[a]) \/ u \in b..(b + sz[b])
      BY <2>1, <1>1, <1>2
    <3> QED
      BY <3>1 DEF Good
  <2>2. CASE c # a
    BY <2>2, <1>1 DEF Good
  <2> QED
    BY <2>1, <2>2
<1>5. \A c, d \in DOMAIN g : c < d => c + 1 + g[c] <= d
  <2> SUFFICES ASSUME NEW c \in DOMAIN g, NEW d \in DOMAIN g, c < d PROVE c + 1 + g[c] <= d
    OBVIOUS
  <2>1. c \in DOMAIN sz /\ d \in DOMAIN sz /\ d # b /\ c \in Nat /\ d \in Nat
    BY <1>1, <1>3
  <2>2. CASE c = a
    <3>1. b < d
      BY <2>1, <2>2, <1>2 DEF Good
    <3>2. b + 1 + sz[b] <= d
      BY <3>1, <2>1 DEF Good
    <3> QED
      BY <3>2, <2>2, <2>1, <1>1, <1>2
  <2>3. CASE c # a
    BY <2>1, <2>3, <1>1 DEF Good
  <2> QED
    BY <2>2, <2>3
<1> QED
  BY <1>1, <1>3, <1>4, <1>5 DEF Good, Merged, g

\* Only the sizes count.
LEMMA GoodLike ==
    ASSUME NEW M, NEW f, NEW g, Good(f, M), DOMAIN g = DOMAIN f, \A c \in DOMAIN f : g[c] = f[c]
    PROVE  Good(g, M)
  BY Zenon DEF Good

\* What AddToFreeList makes of a heap: the blocks that are neither listed nor
\* the one that is added stay as they are.
Added(g, h, M, a) ==
    /\ Good(g.size, M) /\ g.list \subseteq DOMAIN g.size
    /\ DOMAIN g.size \subseteq DOMAIN h.size
    /\ DOMAIN g.size \ g.list = DOMAIN h.size \ (h.list \cup {a})
    /\ \A c \in DOMAIN h.size \ (h.list \cup {a}) : g.size[c] = h.size[c]

\* AddToFreeList keeps all blocks apart.
LEMMA AddGood ==
    ASSUME NEW M, NEW h, Good(h.size, M), h.list \subseteq DOMAIN h.size, NEW a \in DOMAIN h.size \ h.list
    PROVE  Added(Malloc!AddToFreeList(h, a), h, M, a)
<1> DEFINE before == {p \in h.list : p < a}
           after == {n \in h.list : n > a}
           p == Malloc!Max(before)
           m == Malloc!Min(after)
           g == Malloc!AddToFreeList(h, a)
<1>1. /\ a \in Nat /\ h.list \in SUBSET Nat /\ before \in SUBSET Nat /\ after \in SUBSET Nat
      /\ \A c \in DOMAIN h.size : c \in Nat /\ h.size[c] \in Nat
  BY DEF Good
<1>2. before # {} => p \in h.list /\ p < a
  <2>1. before # {} => p \in before
    <3>1. \A x \in before : x <= a
      BY <1>1
    <3> HIDE DEF before
    <3> QED
      BY <3>1, <1>1, MaxIn
  <2> HIDE DEF p
  <2> QED
    BY <2>1
<1>3. after # {} => m \in h.list /\ m > a
  <2>1. after # {} => m \in after
    <3> HIDE DEF after
    <3> QED
      BY <1>1, MinIn
  <2> HIDE DEF m
  <2> QED
    BY <2>1
<1> DEFINE mergesBack == before # {} /\ Malloc!Touches(h.size, p, a)
           first == IF mergesBack THEN p ELSE a
           back == IF mergesBack THEN Malloc!With(h.size, first, h.size[first] + 1 + h.size[a]) ELSE h.size
           mergesOn == after # {} /\ Malloc!Touches(back, first, m)
           gone == (IF mergesBack THEN {a} ELSE {}) \cup (IF mergesOn THEN {m} ELSE {})
<1>4. /\ g.size = Malloc!Without(IF mergesOn THEN Malloc!With(back, first, back[first] + 1 + back[m]) ELSE back, gone)
      /\ g.list = (h.list \cup {first}) \ gone
  BY Zenon DEF Malloc!AddToFreeList
<1> SUFFICES Added(g, h, M, a)
  BY Zenon
<1> HIDE DEF g, p, m, before, after
<1>5. CASE mergesBack
  <2> DEFINE mid == MergeInto(h.size, p, a)
  <2>1. Merged(mid, h.size, M, p, a) /\ p \in h.list /\ p < a
    BY <1>5, <1>2, MergeGood
  <2>2. first = p /\ back = Malloc!With(h.size, p, h.size[p] + 1 + h.size[a])
    BY <1>5
  <2>3. /\ DOMAIN back = DOMAIN h.size /\ DOMAIN mid = DOMAIN h.size \ {a}
        /\ \A c \in DOMAIN h.size \ {a} : mid[c] = back[c]
    BY <2>1, <2>2, Zenon DEF MergeInto, Malloc!Without, Malloc!With
  <2> HIDE DEF mid
  <2>4. CASE mergesOn
    <3>1. m \in h.list /\ m > a /\ m # a /\ m # p
      BY <2>4, <1>3, <2>1, <1>1, SMTT(30)
    <3>2. p \in DOMAIN mid /\ m \in DOMAIN mid
      BY <2>1, <2>3, <3>1, <1>1, SMTT(30)
    <3>3. Malloc!Touches(mid, p, m)
      BY <2>4, <2>2, <2>3, <3>2, <2>1, SMTT(30) DEF Malloc!Touches
    <3>4. Merged(MergeInto(mid, p, m), mid, M, p, m)
      <4>1. Good(mid, M)
        BY <2>1 DEF Merged
      <4> QED
        BY <4>1, <3>2, <3>3, MergeGood
    <3>5. gone = {a, m} /\ g.list = (h.list \cup {p}) \ {a, m}
      BY <1>4, <1>5, <2>4, <2>2, Zenon
    <3>6. g.size = Malloc!Without(Malloc!With(back, p, back[p] + 1 + back[m]), {a, m})
      BY <1>4, <3>5, <2>4, <2>2, Zenon
    <3> HIDE DEF first, back, gone, mergesOn, mergesBack
    <3>7. /\ DOMAIN g.size = DOMAIN h.size \ {a, m} /\ DOMAIN MergeInto(mid, p, m) = DOMAIN h.size \ {a, m}
          /\ \A c \in DOMAIN h.size \ {a, m} : g.size[c] = MergeInto(mid, p, m)[c]
      BY <3>6, <2>3, <3>2, ZenonT(40) DEF MergeInto, Malloc!With, Malloc!Without
    <3>8. Good(g.size, M)
      BY <3>7, <3>4, GoodLike DEF Merged
    <3>9. \A c \in DOMAIN h.size \ (h.list \cup {a}) : g.size[c] = h.size[c]
      BY <3>7, <3>4, <3>1, <2>1, <2>3, ZenonT(40) DEF Merged
    <3> QED
      BY <3>5, <3>7, <3>8, <3>9, <3>1, <2>1, SMTT(30) DEF Added
  <2>5. CASE ~mergesOn
    <3>1. gone = {a} /\ g.list = (h.list \cup {p}) \ {a} /\ g.size = Malloc!Without(back, {a})
      BY <1>4, <1>5, <2>5, <2>2, Zenon
    <3>2. g.size = mid
      BY <3>1, <2>2, Zenon DEF mid, MergeInto
    <3> QED
      BY <3>1, <3>2, <2>1 DEF Added, Merged
  <2> QED
    BY <2>4, <2>5, SMTT(30)
<1>6. CASE ~mergesBack
  <2>1. first = a /\ back = h.size
    BY <1>6, SMTT(30)
  <2>2. CASE mergesOn
    <3>1. m \in h.list /\ m > a /\ m # a
      BY <2>2, <1>3, <1>1, SMTT(30)
    <3>2. Merged(MergeInto(h.size, a, m), h.size, M, a, m)
      BY <2>2, <2>1, <3>1, MergeGood
    <3>3. gone = {m} /\ g.list = (h.list \cup {a}) \ {m} /\ g.size = MergeInto(h.size, a, m)
      BY <1>4, <1>6, <2>2, <2>1, Zenon DEF MergeInto
    <3> QED
      BY <3>1, <3>2, <3>3, SMTT(30) DEF Added, Merged
  <2>3. CASE ~mergesOn
    <3>1. gone = {} /\ g.list = h.list \cup {a} /\ g.size = Malloc!Without(h.size, {})
      BY <1>4, <1>6, <2>3, <2>1, Zenon
    <3>2. DOMAIN g.size = DOMAIN h.size /\ \A c \in DOMAIN h.size : g.size[c] = h.size[c]
      BY <3>1, Zenon DEF Malloc!Without
    <3>3. Good(g.size, M)
      BY <3>2, GoodLike
    <3> QED
      BY <3>1, <3>2, <3>3, Zenon DEF Added
  <2> QED
    BY <2>2, <2>3
<1> QED
  BY <1>5, <1>6

\* What Cut makes of a block: n units stay, the rest is free.
Taken(g, sz, list, M, a, n) ==
    /\ Good(g.size, M) /\ g.list \subseteq DOMAIN g.size
    /\ a \in DOMAIN g.size
    /\ DOMAIN g.size \ g.list = DOMAIN sz \ list
    /\ \A c \in DOMAIN sz \ (list \cup {a}) : g.size[c] = sz[c]

\* Cut does.
LEMMA CutGood ==
    ASSUME NEW M, NEW sz, Good(sz, M), NEW a \in DOMAIN sz, NEW list \in SUBSET (DOMAIN sz \ {a}),
           NEW n \in Nat, n <= sz[a]
    PROVE  Taken(Malloc!Cut(sz, list, a, n), sz, list, M, a, n)
<1>1. CASE sz[a] = n
  BY <1>1 DEF Malloc!Cut, Taken
<1>2. CASE sz[a] # n
  <2> DEFINE r == a + 1 + n
             f == Malloc!With(Malloc!With(sz, a, n), r, Malloc!Remainder(sz[a], n))
             h == [size |-> f, list |-> list]
  <2>1. a \in Nat /\ sz[a] \in Nat /\ n < sz[a] /\ r \in Nat /\ a < r /\ sz[a] - n - 1 \in Nat
    BY <1>2 DEF Good
  <2>2. r \notin DOMAIN sz
    <3> SUFFICES ASSUME r \in DOMAIN sz PROVE FALSE
      OBVIOUS
    <3>1. a + 1 + sz[a] <= r
      <4> HIDE DEF r
      <4> QED
        BY <2>1 DEF Good
    <3> QED
      BY <3>1, <2>1
  <2>3. /\ DOMAIN f = DOMAIN sz \cup {r} /\ f[a] = n /\ f[r] = sz[a] - n - 1
        /\ \A c \in DOMAIN sz \ {a} : f[c] = sz[c]
    <3>1. a # r
      BY <2>1
    <3> HIDE DEF r
    <3> QED
      BY <2>2, <3>1 DEF Malloc!With, Malloc!Remainder
  <2> HIDE DEF f
  <2>4. Good(f, M)
    <3>1. \A c \in DOMAIN f : c \in Nat /\ f[c] \in Nat
      <4> HIDE DEF r
      <4> QED
        BY <2>1, <2>3 DEF Good
    <3>2. \A c \in DOMAIN f : \A u \in c..(c + f[c]) : u \in M
      <4> SUFFICES ASSUME NEW c \in DOMAIN f, NEW u \in c..(c + f[c]) PROVE u \in M
        OBVIOUS
      <4>1. CASE c = r \/ c = a
        <5>1. u \in a..(a + sz[a])
          BY <4>1, <2>1, <2>3
        <5> QED
          BY <5>1 DEF Good
      <4>2. CASE c # r /\ c # a
        <5>1. c \in DOMAIN sz /\ f[c] = sz[c]
          BY <4>2, <2>3
        <5> QED
          BY <5>1 DEF Good
      <4> QED
        BY <4>1, <4>2
    <3>3. \A c, d \in DOMAIN f : c < d => c + 1 + f[c] <= d
      <4> SUFFICES ASSUME NEW c \in DOMAIN f, NEW d \in DOMAIN f, c < d PROVE c + 1 + f[c] <= d
        OBVIOUS
      <4>1. \A e \in DOMAIN sz : /\ e \in Nat /\ sz[e] \in Nat /\ (e < a => e + 1 + sz[e] <= a)
                                 /\ (a < e => a + 1 + sz[a] <= e)
        BY DEF Good
      <4>2. CASE c = a
        <5>1. d = r \/ (d \in DOMAIN sz /\ d # a)
          BY <2>3, <4>2, <2>1, <4>1
        <5> QED
          BY <5>1, <4>1, <4>2, <2>1, <2>3
      <4>3. CASE c = r
        <5>1. d \in DOMAIN sz /\ d # a
          BY <2>3, <4>3, <2>1
        <5> QED
          BY <5>1, <4>1, <4>3, <2>1, <2>3
      <4>4. CASE c # a /\ c # r
        <5>1. c \in DOMAIN sz /\ f[c] = sz[c] /\ c \in Nat
          BY <4>4, <2>3, <4>1
        <5>2. CASE d = r
          <6>1. c < a
            BY <5>1, <5>2, <4>1, <4>4, <2>1
          <6> QED
            BY <6>1, <5>1, <5>2, <4>1, <2>1
        <5>3. CASE d # r
          <6>1. d \in DOMAIN sz
            BY <5>3, <2>3
          <6> QED
            BY <5>1, <6>1 DEF Good
        <5> QED
          BY <5>2, <5>3
      <4> QED
        BY <4>2, <4>3, <4>4
    <3> QED
      BY <3>1, <3>2, <3>3 DEF Good
  <2>5. Added(Malloc!AddToFreeList(h, r), h, M, r)
    <3>1. h.size = f /\ h.list = list
      OBVIOUS
    <3>2. r \in DOMAIN h.size \ h.list /\ h.list \subseteq DOMAIN h.size /\ Good(h.size, M)
      BY <3>1, <2>2, <2>3, <2>4
    <3> HIDE DEF h, r
    <3> QED
      BY <3>2, AddGood
  <2>6. Malloc!Cut(sz, list, a, n) = Malloc!AddToFreeList(h, r)
    BY <1>2, SMTT(30) DEF Malloc!Cut, f
  <2> DEFINE g == Malloc!AddToFreeList(h, r)
  <2>7. /\ Good(g.size, M) /\ g.list \subseteq DOMAIN g.size
        /\ DOMAIN g.size \ g.list = DOMAIN f \ (list \cup {r})
        /\ \A c \in DOMAIN f \ (list \cup {r}) : g.size[c] = f[c]
    <3> HIDE DEF g, r
    <3> QED
      BY <2>5, SMTT(30) DEF Added, g
  <2>8. Taken(g, sz, list, M, a, n)
    <3>1. a # r
      BY <2>1
    <3> HIDE DEF g, r
    <3>2. DOMAIN f \ (list \cup {r}) = DOMAIN sz \ list
      BY <2>2, <2>3
    <3> QED
      BY <2>7, <2>3, <3>1, <3>2 DEF Taken
  <2> QED
    BY <2>6, <2>8
<1> QED
  BY <1>1, <1>2

-----------------------------------------------------------------------------
\* What is in M is in a larger memory.
LEMMA GoodWider ==
    ASSUME NEW M, NEW N, NEW sz, Good(sz, M), M \subseteq N
    PROVE  Good(sz, N)
  BY Zenon DEF Good

\* Some of the blocks.
Fewer(g, sz, S, M) ==
    Good(g, M) /\ DOMAIN g = DOMAIN sz \ S /\ \A c \in DOMAIN sz \ S : g[c] = sz[c]

\* Fewer blocks are apart as well.
LEMMA GoodFewer ==
    ASSUME NEW M, NEW sz, NEW S, Good(sz, M)
    PROVE  Fewer(Malloc!Without(sz, S), sz, S, M)
<1>1. DOMAIN Malloc!Without(sz, S) = DOMAIN sz \ S /\ \A c \in DOMAIN sz \ S : Malloc!Without(sz, S)[c] = sz[c]
  BY DEF Malloc!Without
<1> QED
  BY <1>1, Zenon DEF Good, Fewer

\* Whole pages hold what they are rounded up from.
LEMMA RoundedUp ==
    ASSUME Malloc!Process, NEW n \in Nat
    PROVE  Malloc!RoundUp(n + 1) \in Nat /\ Malloc!RoundUp(n + 1) > n
<1> DEFINE q == (n + 1 + PAGE_SIZE - 1) \div PAGE_SIZE
<1>1. PAGE_SIZE \in Nat /\ PAGE_SIZE > 0
  BY DEF Malloc!Process
<1>2. q \in Nat /\ n + 1 + PAGE_SIZE - 1 < q * PAGE_SIZE + PAGE_SIZE /\ q * PAGE_SIZE \in Int
  BY <1>1
<1> QED
  BY <1>1, <1>2 DEF Malloc!RoundUp

\* The blocks are those of callers and those in the list, they are apart, and
\* their memory is mapped unless it was unmapped under them.
MallocInv ==
    /\ DOMAIN mallocSize = used \cup mallocFreeList /\ used \cap mallocFreeList = {}
    /\ isStart \subseteq DOMAIN mallocSize /\ lost \subseteq DOMAIN mallocSize
    /\ \A c \in DOMAIN chunks : c \in Nat /\ chunks[c] \in Nat \ {0}
    /\ Malloc!Mapped \subseteq Malloc!Units
    /\ Good(mallocSize, Malloc!Units)
    /\ \A a \in DOMAIN mallocSize \ lost : \A u \in a..(a + mallocSize[a]) : u \in Malloc!Mapped

\* The blocks that callers keep stay as large as they were.
MallocKept == \A a \in used \cap used' : mallocSize'[a] = mallocSize[a]

\* A process starts without blocks.
LEMMA MallocInit ==
    ASSUME Malloc!Init
    PROVE  MallocInv
<1>1. chunks = <<>> /\ DOMAIN chunks = {} /\ DOMAIN mallocSize = {}
  BY DEF Malloc!Init
<1>2. Malloc!Mapped = {}
  BY <1>1 DEF Malloc!Mapped
<1> QED
  BY <1>1, <1>2 DEF Malloc!Init, MallocInv, Good

\* While nothing is lost, all blocks are in mapped memory.
LEMMA SoundGood ==
    ASSUME MallocInv, Malloc!Sound
    PROVE  Good(mallocSize, Malloc!Mapped) /\ \A a \in DOMAIN mallocSize : a \in Malloc!Mapped /\ a \in Nat /\ mallocSize[a] \in Nat
<1>1. \A a \in DOMAIN mallocSize : a \in Nat /\ mallocSize[a] \in Nat
  BY DEF MallocInv, Good
<1>2. \A a \in DOMAIN mallocSize : \A u \in a..(a + mallocSize[a]) : u \in Malloc!Mapped
  BY DEF MallocInv, Malloc!Sound
<1>3. \A a \in DOMAIN mallocSize : a \in a..(a + mallocSize[a])
  BY <1>1
<1>4. \A a \in DOMAIN mallocSize : a \in Malloc!Mapped
  BY <1>2, <1>3
<1> QED
  BY <1>1, <1>2, <1>4, Zenon DEF MallocInv, Good

\* A step that takes a block out of sz, the blocks and at most a new chunk.
LEMMA MallocBecome ==
    ASSUME MallocInv, Malloc!Sound, NEW sz, NEW list, NEW a \in DOMAIN sz, list \in SUBSET (DOMAIN sz \ {a}), NEW n \in Nat,
           n <= sz[a], a \notin used, DOMAIN sz \ list = used \cup {a},
           \A c \in used : sz[c] = mallocSize[c], Good(sz, Malloc!Mapped'), Malloc!Mapped' \subseteq Malloc!Units,
           \A c \in DOMAIN chunks' : c \in Nat /\ chunks'[c] \in Nat \ {0},
           Malloc!Become(Malloc!Cut(sz, list, a, n), list, sz, a, n)
    PROVE  MallocInv' /\ MallocKept
<1> DEFINE g == Malloc!Cut(sz, list, a, n)
<1>1. Taken(g, sz, list, Malloc!Mapped', a, n)
  BY CutGood
<1> HIDE DEF g
<1>2. /\ mallocSize' = g.size /\ mallocFreeList' = g.list /\ used' = used \cup {a} /\ lost' = {}
      /\ isStart' \subseteq DOMAIN g.size
  <2>1. mallocSize' = g.size /\ mallocFreeList' = g.list /\ used' = used \cup {a} /\ lost' = {}
    BY SMTT(30) DEF Malloc!Become, Malloc!Sound, g
  <2>2. isStart' \subseteq DOMAIN g.size
    <3>1. a \in DOMAIN g.size
      BY <1>1, SMTT(30) DEF Taken
    <3> QED
      BY <3>1 DEF Malloc!Become, g
  <2> QED
    BY <2>1, <2>2, SMTT(30)
<1>3. DOMAIN mallocSize' = used' \cup mallocFreeList' /\ used' \cap mallocFreeList' = {}
  BY <1>1, <1>2, SMTT(30) DEF Taken
<1>4. Good(mallocSize', Malloc!Mapped') /\ Good(mallocSize', Malloc!Units)
  BY <1>1, <1>2, GoodWider DEF Taken
<1>5. \A c \in DOMAIN mallocSize' : \A u \in c..(c + mallocSize'[c]) : u \in Malloc!Mapped'
  BY <1>4, Zenon DEF Good
<1>6. MallocInv'
  <2>1. Malloc!Units' = Malloc!Units
    BY DEF Malloc!Units
  <2>2. Good(mallocSize, Malloc!Units)'
    BY <1>4, <2>1 DEF Good
  <2> QED
    BY <1>2, <1>3, <1>5, <2>1, <2>2, SMTT(30) DEF MallocInv
<1>7. MallocKept
  <2>1. \A c \in used : c \in DOMAIN sz \ (list \cup {a})
    OBVIOUS
  <2> QED
    BY <2>1, <1>1, <1>2, Zenon DEF MallocKept, Taken
<1> QED
  BY <1>6, <1>7, SMTT(30)

\* Taking a block from the list keeps the invariant, and what callers have.
LEMMA MallocListed ==
    ASSUME Malloc!Process, MallocInv, NEW n \in MallocRequests, Malloc!AllocateListed(n)
    PROVE  MallocInv' /\ MallocKept
<1> DEFINE a == Malloc!Min(Malloc!Fits(n))
           list == mallocFreeList \ {a}
<1>1. Malloc!Sound /\ Malloc!Fits(n) # {} /\ chunks' = chunks /\ Malloc!Become(Malloc!Cut(mallocSize, list, a, n), list, mallocSize, a, n) /\ n \in Nat
  BY DEF Malloc!AllocateListed, Malloc!Process
<1>2. Good(mallocSize, Malloc!Mapped) /\ \A c \in DOMAIN mallocSize : c \in Nat /\ mallocSize[c] \in Nat
  BY <1>1, SoundGood
<1>3. a \in mallocFreeList /\ mallocSize[a] >= n
  <2>1. Malloc!Fits(n) \in SUBSET Nat
    BY <1>2 DEF Malloc!Fits, MallocInv
  <2>2. a \in Malloc!Fits(n)
    BY <1>1, <2>1, MinIn
  <2> HIDE DEF a
  <2> QED
    BY <2>2 DEF Malloc!Fits
<1>4. Malloc!Mapped' = Malloc!Mapped
  BY <1>1 DEF Malloc!Mapped
<1> HIDE DEF a
<1>5. /\ a \in DOMAIN mallocSize /\ a \notin used /\ list \in SUBSET (DOMAIN mallocSize \ {a})
      /\ DOMAIN mallocSize \ list = used \cup {a} /\ n <= mallocSize[a]
  BY <1>2, <1>3, <1>1, SMTT(30) DEF MallocInv
<1>6. Good(mallocSize, Malloc!Mapped') /\ Malloc!Mapped' \subseteq Malloc!Units /\ \A c \in DOMAIN chunks' : c \in Nat /\ chunks'[c] \in Nat \ {0}
  BY <1>1, <1>2, <1>4, SMTT(30) DEF MallocInv
<1> HIDE DEF list
<1> QED
  BY <1>1, <1>5, <1>6, MallocBecome

\* Taking one from a new chunk does.
LEMMA MallocChunk ==
    ASSUME Malloc!Process, MallocInv, NEW n \in MallocRequests, Malloc!AllocateChunk(n)
    PROVE  MallocInv' /\ MallocKept
<1> DEFINE nb == Malloc!RoundUp(n + 1)
<1>1. Malloc!Sound /\ n \in Nat
  BY DEF Malloc!AllocateChunk, Malloc!Process
<1>2. PICK page \in 0..(PageCount - 1) :
            /\ Malloc!Span(page * PAGE_SIZE, nb) \subseteq Malloc!Units \ Malloc!Mapped
            /\ chunks' = Malloc!With(chunks, page * PAGE_SIZE, nb)
            /\ LET sz == Malloc!With(mallocSize, page * PAGE_SIZE, nb - 1)
               IN  Malloc!Become(Malloc!Cut(sz, mallocFreeList, page * PAGE_SIZE, n), mallocFreeList, sz, page * PAGE_SIZE, n)
  BY DEF Malloc!AllocateChunk
<1> DEFINE a == page * PAGE_SIZE
           sz == Malloc!With(mallocSize, a, nb - 1)
<1>3. nb \in Nat /\ nb > n /\ nb > 0
  BY <1>1, RoundedUp
<1>4. a \in Int
  BY DEF Malloc!Process
<1> HIDE DEF nb, a
<1>5. Malloc!Span(a, nb) \subseteq Malloc!Units \ Malloc!Mapped /\ chunks' = Malloc!With(chunks, a, nb) /\ Malloc!Become(Malloc!Cut(sz, mallocFreeList, a, n), mallocFreeList, sz, a, n)
  BY <1>2 DEF a
<1>6. \A u \in a..(a + (nb - 1)) : u \in Malloc!Units /\ u \notin Malloc!Mapped
  <2>1. a..(a + (nb - 1)) = Malloc!Span(a, nb)
    BY <1>3, <1>4 DEF Malloc!Span
  <2> QED
    BY <2>1, <1>5, Zenon
<1>7. a \in Malloc!Units /\ a \notin Malloc!Mapped /\ a \in Nat
  <2>1. a \in a..(a + (nb - 1))
    BY <1>3, <1>4
  <2>2. \A u \in Malloc!Units : u \in Int /\ u >= 0
    BY DEF Malloc!Units, Malloc!Process
  <2> QED
    BY <2>1, <2>2, <1>6
<1>8. Good(mallocSize, Malloc!Mapped) /\ \A c \in DOMAIN mallocSize : c \in Malloc!Mapped /\ c \in Nat /\ mallocSize[c] \in Nat
  BY <1>1, SoundGood
<1>9. a \notin DOMAIN mallocSize /\ a \notin DOMAIN chunks
  <2>1. ASSUME a \in DOMAIN chunks PROVE FALSE
    <3>1. a \in Malloc!Span(a, chunks[a])
      BY <2>1, <1>4 DEF MallocInv, Malloc!Span
    <3> QED
      BY <3>1, <2>1, <1>7 DEF Malloc!Mapped
  <2> QED
    BY <2>1, <1>7, <1>8
<1>10. /\ DOMAIN sz = DOMAIN mallocSize \cup {a} /\ sz[a] = nb - 1 /\ \A c \in DOMAIN mallocSize : sz[c] = mallocSize[c]
  BY <1>9 DEF Malloc!With
<1>11. Malloc!Mapped' = Malloc!Mapped \cup Malloc!Span(a, nb)
  <2>1. /\ DOMAIN chunks' = DOMAIN chunks \cup {a} /\ chunks'[a] = nb
        /\ \A c \in DOMAIN chunks : chunks'[c] = chunks[c]
    BY <1>5, <1>9 DEF Malloc!With
  <2>2. \A u : u \in Malloc!Mapped' <=> \E c \in DOMAIN chunks' : u \in Malloc!Span(c, chunks'[c])
    BY DEF Malloc!Mapped
  <2>3. \A u : u \in Malloc!Mapped <=> \E c \in DOMAIN chunks : u \in Malloc!Span(c, chunks[c])
    BY DEF Malloc!Mapped
  <2>4. \A u : u \in Malloc!Mapped' <=> u \in Malloc!Mapped \/ u \in Malloc!Span(a, nb)
    BY <2>1, <2>2, <2>3, Zenon
  <2> QED
    BY <2>4, Zenon
<1>12. \A c \in DOMAIN chunks' : c \in Nat /\ chunks'[c] \in Nat \ {0}
  BY <1>5, <1>3, <1>7 DEF Malloc!With, MallocInv
<1>13. Malloc!Mapped' \subseteq Malloc!Units
  BY <1>5, <1>11 DEF MallocInv
<1> HIDE DEF sz
<1>14. Good(sz, Malloc!Mapped')
  <2>1. \A c \in DOMAIN sz : c \in Nat /\ sz[c] \in Nat
    BY <1>3, <1>7, <1>8, <1>10
  <2>2. \A c \in DOMAIN sz : \A u \in c..(c + sz[c]) : u \in Malloc!Mapped'
    <3> SUFFICES ASSUME NEW c \in DOMAIN sz, NEW u \in c..(c + sz[c]) PROVE u \in Malloc!Mapped'
      OBVIOUS
    <3>1. CASE c = a
      <4>1. u \in Malloc!Span(a, nb)
        BY <3>1, <1>10, <1>3, <1>4, SMTT(30) DEF Malloc!Span
      <4> QED
        BY <4>1, <1>11
    <3>2. CASE c # a
      <4>1. c \in DOMAIN mallocSize /\ u \in c..(c + mallocSize[c])
        BY <3>2, <1>10
      <4> QED
        BY <4>1, <1>8, <1>11 DEF Good
    <3> QED
      BY <3>1, <3>2
  <2>3. \A c, d \in DOMAIN sz : c < d => c + 1 + sz[c] <= d
    <3> SUFFICES ASSUME NEW c \in DOMAIN sz, NEW d \in DOMAIN sz, c < d PROVE c + 1 + sz[c] <= d
      OBVIOUS
    <3>1. CASE c = a
      <4>1. d \in DOMAIN mallocSize
        BY <3>1, <1>10, <1>7
      <4>2. d \notin a..(a + (nb - 1)) /\ d \in Nat
        BY <4>1, <1>6, <1>8
      <4> QED
        BY <4>2, <3>1, <1>3, <1>7, <1>10, SMTT(30)
    <3>2. CASE c # a /\ d = a
      <4>1. c \in DOMAIN mallocSize /\ sz[c] = mallocSize[c] /\ c \in Nat /\ mallocSize[c] \in Nat
        BY <3>2, <1>10, <1>8
      <4>2. a \notin c..(c + mallocSize[c])
        BY <4>1, <1>7, <1>8 DEF Good
      <4> QED
        BY <4>1, <4>2, <3>2, <1>7
    <3>3. CASE c # a /\ d # a
      BY <3>3, <1>8, <1>10 DEF Good
    <3> QED
      BY <3>1, <3>2, <3>3
  <2> QED
    BY <2>1, <2>2, <2>3 DEF Good
<1>15. /\ a \in DOMAIN sz /\ a \notin used /\ mallocFreeList \in SUBSET (DOMAIN sz \ {a}) /\ n <= sz[a]
       /\ DOMAIN sz \ mallocFreeList = used \cup {a} /\ \A c \in used : sz[c] = mallocSize[c]
  <2>1. n <= nb - 1
    BY <1>1, <1>3
  <2> QED
    BY <2>1, <1>9, <1>10 DEF MallocInv
<1> QED
  BY <1>1, <1>5, <1>12, <1>13, <1>14, <1>15, MallocBecome, SMTT(30)

\* free leaves the blocks of the other callers alone.
LEMMA MallocFree ==
    ASSUME Malloc!Process, MallocInv, NEW a, Malloc!Free(a)
    PROVE  MallocInv' /\ MallocKept
<1> DEFINE b == [size |-> mallocSize, list |-> mallocFreeList]
           h == Malloc!AddToFreeList(b, a)
           out == Malloc!Deleted(h)
           unmapped == {c \in out : Malloc!Unmaps(h, c)}
           gone == UNION {Malloc!Span(c, chunks[c]) : c \in unmapped}
<1>1. /\ Malloc!Sound /\ a \in used /\ chunks' = Malloc!Without(chunks, unmapped)
      /\ mallocFreeList' = h.list \ out /\ mallocSize' = Malloc!Without(h.size, out)
      /\ isStart' = (isStart \cap DOMAIN h.size) \ out /\ used' = used \ {a}
      /\ lost' = {u \in used' \cup mallocFreeList' : Malloc!Span(u, 1 + mallocSize'[u]) \cap gone # {}}
  BY Zenon DEF Malloc!Free
<1>2. out \subseteq h.list
  BY DEF Malloc!Deleted
<1>3. Good(mallocSize, Malloc!Mapped)
  BY <1>1, SoundGood
<1>4. Added(h, b, Malloc!Mapped, a)
  <2>1. b.size = mallocSize /\ b.list = mallocFreeList
    OBVIOUS
  <2>2. a \in DOMAIN b.size \ b.list /\ b.list \subseteq DOMAIN b.size /\ Good(b.size, Malloc!Mapped)
    BY <2>1, <1>1, <1>3, SMTT(30) DEF MallocInv
  <2> HIDE DEF b
  <2> QED
    BY <2>2, AddGood
<1>5. /\ Good(h.size, Malloc!Mapped) /\ h.list \subseteq DOMAIN h.size
      /\ DOMAIN h.size \ h.list = DOMAIN mallocSize \ (mallocFreeList \cup {a})
      /\ \A c \in DOMAIN mallocSize \ (mallocFreeList \cup {a}) : h.size[c] = mallocSize[c]
  <2> HIDE DEF h
  <2> QED
    BY <1>4 DEF Added
<1> HIDE DEF b, h, out, unmapped, gone
<1>6. /\ Good(mallocSize', Malloc!Mapped) /\ DOMAIN mallocSize' = DOMAIN h.size \ out
      /\ \A c \in DOMAIN h.size \ out : mallocSize'[c] = h.size[c]
  <2>1. mallocSize' = Malloc!Without(h.size, out) /\ Good(h.size, Malloc!Mapped)
    BY <1>1, <1>5
  <2>2. Fewer(mallocSize', h.size, out, Malloc!Mapped)
    BY <2>1, GoodFewer, SMTT(30)
  <2> QED
    BY <2>2, Zenon DEF Fewer
<1>7. DOMAIN h.size \ h.list = used \ {a}
  BY <1>5, <1>1, SMTT(30) DEF MallocInv
<1>8. DOMAIN mallocSize' = used' \cup mallocFreeList' /\ used' \cap mallocFreeList' = {}
  BY <1>1, <1>2, <1>5, <1>6, <1>7, SMTT(30)
<1>9. isStart' \subseteq DOMAIN mallocSize' /\ lost' \subseteq DOMAIN mallocSize'
  BY <1>1, <1>6, <1>8, SMTT(30)
<1>10. /\ \A c \in DOMAIN chunks' : c \in Nat /\ chunks'[c] \in Nat \ {0}
       /\ DOMAIN chunks' = DOMAIN chunks \ unmapped
       /\ \A c \in DOMAIN chunks' : chunks'[c] = chunks[c]
  BY <1>1 DEF MallocInv, Malloc!Without
<1>11. Malloc!Mapped' \subseteq Malloc!Mapped /\ Malloc!Mapped \subseteq Malloc!Mapped' \cup gone
  <2>1. \A u : u \in Malloc!Mapped' <=> \E c \in DOMAIN chunks' : u \in Malloc!Span(c, chunks'[c])
    BY DEF Malloc!Mapped
  <2>2. \A u : u \in Malloc!Mapped <=> \E c \in DOMAIN chunks : u \in Malloc!Span(c, chunks[c])
    BY DEF Malloc!Mapped
  <2>3. \A u : u \in gone <=> \E c \in unmapped : u \in Malloc!Span(c, chunks[c])
    BY DEF gone
  <2> QED
    BY <2>1, <2>2, <2>3, <1>10, Zenon
<1>12. \A c \in DOMAIN mallocSize' \ lost' : \A u \in c..(c + mallocSize'[c]) : u \in Malloc!Mapped'
  <2> SUFFICES ASSUME NEW c \in DOMAIN mallocSize' \ lost', NEW u \in c..(c + mallocSize'[c]) PROVE u \in Malloc!Mapped'
    OBVIOUS
  <2>1. u \in Malloc!Mapped /\ c \in Nat /\ mallocSize'[c] \in Nat
    BY <1>6 DEF Good
  <2>2. u \in Malloc!Span(c, 1 + mallocSize'[c])
    BY <2>1 DEF Malloc!Span
  <2>3. u \notin gone
    BY <2>2, <1>1, <1>8
  <2> QED
    BY <2>1, <2>3, <1>11
<1>13. MallocInv'
  <2>1. Malloc!Units' = Malloc!Units
    BY SMTT(30) DEF Malloc!Units
  <2>2. Good(mallocSize', Malloc!Units)
    BY <1>6, GoodWider DEF MallocInv
  <2>3. Good(mallocSize, Malloc!Units)'
    BY <2>1, <2>2 DEF Good
  <2>4. Malloc!Mapped' \subseteq Malloc!Units
    BY <1>11 DEF MallocInv
  <2> QED
    BY <1>8, <1>9, <1>10, <1>12, <2>1, <2>3, <2>4, SMTT(30) DEF MallocInv
<1>14. MallocKept
  <2>1. \A c \in used \ {a} : c \in DOMAIN mallocSize \ (mallocFreeList \cup {a}) /\ c \in DOMAIN h.size \ out
    BY <1>7, <1>2 DEF MallocInv
  <2> QED
    BY <2>1, <1>1, <1>5, <1>6, Zenon DEF MallocKept
<1> QED
  BY <1>13, <1>14

\* Every step does.
LEMMA MallocNext ==
    ASSUME Malloc!Process, MallocInv, [Malloc!Next]_(Malloc!vars)
    PROVE  MallocInv' /\ MallocKept
<1>1. CASE UNCHANGED Malloc!vars
  <2>1. Malloc!Units' = Malloc!Units /\ Malloc!Mapped' = Malloc!Mapped
    BY <1>1 DEF Malloc!vars, Malloc!Units, Malloc!Mapped
  <2>2. Good(mallocSize, Malloc!Units)' = Good(mallocSize, Malloc!Units)
    BY <1>1, <2>1 DEF Malloc!vars, Good
  <2> QED
    BY <1>1, <2>1, <2>2 DEF Malloc!vars, MallocInv, MallocKept
<1> QED
  BY <1>1, MallocListed, MallocChunk, MallocFree, Zenon DEF Malloc!Next

\* The blocks are apart in every reachable state.
LEMMA MallocInvariance ==
    ASSUME Malloc!Process
    PROVE  Malloc!Spec => []MallocInv
<1>1. Malloc!Init => MallocInv
  BY MallocInit
<1>2. MallocInv /\ [Malloc!Next]_(Malloc!vars) => MallocInv'
  BY MallocNext
<1> QED
  BY <1>1, <1>2, PTL DEF Malloc!Spec

\* The blocks of malloc never overlap: neither with one another nor with what
\* is in the free list, nor do they reach out of mapped memory, as long as
\* their own was not unmapped, in any sequence of malloc and free.
THEOREM BlocksStayApart ==
    ASSUME Malloc!Process
    PROVE  Malloc!Spec => []Malloc!BlocksApart
<1>1. MallocInv => Malloc!BlocksApart
  <2> SUFFICES ASSUME MallocInv, NEW a \in used \ lost
               PROVE  /\ Malloc!Block(a) \subseteq Malloc!Mapped
                      /\ \A b \in (used \cup mallocFreeList) \ {a} : Malloc!Block(a) \cap Malloc!Block(b) = {}
    BY DEF Malloc!BlocksApart
  <2>1. \A c \in used \cup mallocFreeList : c \in DOMAIN mallocSize /\ c \in Nat /\ mallocSize[c] \in Nat
    BY DEF MallocInv, Good
  <2>2. \A c \in used \cup mallocFreeList : Malloc!Block(c) = c..(c + mallocSize[c])
    BY <2>1 DEF Malloc!Block, Malloc!Span
  <2>3. Malloc!Block(a) \subseteq Malloc!Mapped
    BY <2>1, <2>2 DEF MallocInv
  <2>4. ASSUME NEW b \in (used \cup mallocFreeList) \ {a} PROVE Malloc!Block(a) \cap Malloc!Block(b) = {}
    <3>1. a + 1 + mallocSize[a] <= b \/ b + 1 + mallocSize[b] <= a
      <4>1. a < b \/ b < a
        BY <2>1
      <4> QED
        BY <4>1, <2>1 DEF MallocInv, Good
    <3> QED
      BY <3>1, <2>1, <2>2
  <2> QED
    BY <2>3, <2>4
<1> QED
  BY <1>1, MallocInvariance, PTL

\* malloc and free leave the blocks that callers keep as large as they were.
THEOREM MallocBlocksKept ==
    ASSUME Malloc!Process
    PROVE  Malloc!Spec => [][\A a \in used \cap used' : mallocSize'[a] = mallocSize[a]]_(Malloc!vars)
<1>1. MallocInv /\ [Malloc!Next]_(Malloc!vars) => [\A a \in used \cap used' : mallocSize'[a] = mallocSize[a]]_(Malloc!vars)
  BY MallocNext DEF MallocKept
<1> QED
  BY <1>1, MallocInvariance, PTL DEF Malloc!Spec

\* Every header that malloc knows is in the memory of the process, is used or
\* free but not both, and isStartOfChunk is set in headers only.
THEOREM MallocTypes ==
    ASSUME Malloc!Process
    PROVE  Malloc!Spec => []Malloc!TypeOK
<1>1. MallocInv => Malloc!TypeOK
  <2> SUFFICES ASSUME MallocInv PROVE Malloc!TypeOK
    OBVIOUS
  <2>1. \A c \in DOMAIN mallocSize : c \in Nat /\ mallocSize[c] \in Nat /\ c \in c..(c + mallocSize[c])
    BY DEF MallocInv, Good
  <2>2. \A c \in DOMAIN mallocSize : c \in Malloc!Units
    BY <2>1 DEF MallocInv, Good
  <2> QED
    BY <2>1, <2>2 DEF MallocInv, Malloc!TypeOK
<1> QED
  BY <1>1, MallocInvariance, PTL
=============================================================================
