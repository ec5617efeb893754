-------------------------- MODULE PageTablesProofs --------------------------
(***************************************************************************)
(* Proofs, for any number of tables and any pages, large pages, frames and *)
(* flags, that the four levels of page tables translate as they were asked *)
(* to.                                                                     *)
(*                                                                         *)
(* Inv says that the tables are a tree: a set of live tables, each with    *)
(* the path of indices that leads to it, no two with the same path.  Every *)
(* page of the reference is entered at each of its levels, and every entry *)
(* that maps a page does so for one of the reference.  map_page goes down  *)
(* that tree a level at a time and hangs fresh tables into it; unmap_page  *)
(* goes up and cuts empty ones off; Mid is what holds in between.          *)
(***************************************************************************)
EXTENDS PageTables, TLAPS

\* An entry that leads to a table.
Open(e) == e.present /\ ~e.large

\* A walk with room for another table.
Further(es, v, b, m) ==
    IF Len(b) = m /\ Open(es[b[m]][v[m]]) THEN Append(b, es[b[m]][v[m]].to) ELSE b

\* The tables b are those on the way to v, in the first n levels.
IsWay(es, v, b, n) ==
    /\ b \in Seq(Int \cup Frames) /\ Len(b) \in 1..n /\ b[1] = 0
    /\ \A m \in 1..(Len(b) - 1) : Open(es[b[m]][v[m]]) /\ b[m + 1] = es[b[m]][v[m]].to
    /\ Len(b) < n => ~Open(es[b[Len(b)]][v[Len(b)]])

\* The type of the entries.
Typed(es) ==
    es \in [Tables -> [Index -> [present : BOOLEAN, flags : SUBSET {"write", "user", "nx"},
                                 large : BOOLEAN, to : Tables \cup Frames]]]

\* A walk that goes on one level stays a way.
LEMMA FurtherIsWay ==
    ASSUME Memory, NEW es, NEW v, NEW b, NEW n \in Nat \ {0}, IsWay(es, v, b, n),
           Len(b) = n => es[b[n]][v[n]].to \in Int \cup Frames
    PROVE  IsWay(es, v, Further(es, v, b, n), n + 1)
<1>1. b \in Seq(Int \cup Frames) /\ Len(b) \in 1..n /\ b[1] = 0
  BY DEF IsWay
<1>2. CASE Len(b) = n /\ Open(es[b[n]][v[n]])
  <2> DEFINE e == es[b[n]][v[n]]
             c == Append(b, e.to)
  <2>1. Further(es, v, b, n) = c
    BY <1>2, Zenon DEF Further
  <2>2. e.to \in Int \cup Frames
    BY <1>2
  <2>3. /\ c \in Seq(Int \cup Frames) /\ Len(c) = n + 1 /\ c[n + 1] = e.to
        /\ \A k \in 1..n : c[k] = b[k]
    <3> HIDE DEF e
    <3> QED
      BY <1>1, <1>2, <2>2
  <2>4. \A m \in 1..n : Open(es[c[m]][v[m]]) /\ c[m + 1] = es[c[m]][v[m]].to
    <3> SUFFICES ASSUME NEW m \in 1..n PROVE Open(es[c[m]][v[m]]) /\ c[m + 1] = es[c[m]][v[m]].to
      BY Zenon
    <3>1. CASE m = n
      <4> HIDE DEF c
      <4> QED
        BY <3>1, <1>2, <2>3
    <3>2. CASE m # n
      <4>1. m \in 1..(Len(b) - 1) /\ m + 1 \in 1..n
        BY <3>2, <1>2
      <4>2. Open(es[b[m]][v[m]]) /\ b[m + 1] = es[b[m]][v[m]].to
        BY <4>1 DEF IsWay
      <4> HIDE DEF c
      <4> QED
        BY <4>1, <4>2, <2>3
    <3> QED
      BY <3>1, <3>2, Zenon
  <2> HIDE DEF c
  <2> QED
    BY <2>1, <2>3, <2>4, <1>1 DEF IsWay
<1>3. CASE ~(Len(b) = n /\ Open(es[b[n]][v[n]]))
  <2>1. Further(es, v, b, n) = b
    BY <1>3, Zenon DEF Further
  <2>2. Len(b) < n + 1 /\ ~Open(es[b[Len(b)]][v[Len(b)]])
    BY <1>1, <1>3 DEF IsWay
  <2> QED
    BY <1>1, <2>1, <2>2 DEF IsWay
<1> QED
  BY <1>2, <1>3

\* Walk, level by level.
Way1 == <<0>>
\* The ways after the second, third and fourth level.
Way2(es, v) == Further(es, v, Way1, 1)
Way3(es, v) == Further(es, v, Way2(es, v), 2)
Way4(es, v) == Further(es, v, Way3(es, v), 3)

\* Walk goes as many levels as the page has indices.
LEMMA WalkUnrolled ==
    ASSUME NEW es, NEW v, Len(v) \in {3, 4}
    PROVE  Walk(es, v) = IF Len(v) = 3 THEN Way3(es, v) ELSE Way4(es, v)
<1> DEFINE N == Len(v)
           B(b, n) == LET e == es[b[n - 1]][v[n - 1]]
                      IN  IF Len(b) = n - 1 /\ e.present /\ ~e.large THEN Append(b, e.to) ELSE b
           Eq(f) == f = [n \in 1..N |-> IF n = 1 THEN <<0>> ELSE B(f[n - 1], n)]
           g == [n \in 1..N |-> IF n = 1 THEN Way1 ELSE IF n = 2 THEN Way2(es, v)
                                ELSE IF n = 3 THEN Way3(es, v) ELSE Way4(es, v)]
           f == CHOOSE h : Eq(h)
<1>1. \A b : B(b, 2) = Further(es, v, b, 1) /\ B(b, 3) = Further(es, v, b, 2) /\ B(b, 4) = Further(es, v, b, 3)
  BY DEF Further, Open
<1>2. N \in {3, 4}
  OBVIOUS
<1> HIDE DEF B, N
<1>3. Eq(g)
  <2>1. \A n \in 1..N : g[n] = IF n = 1 THEN <<0>> ELSE B(g[n - 1], n)
    <3> SUFFICES ASSUME NEW n \in 1..N PROVE g[n] = IF n = 1 THEN <<0>> ELSE B(g[n - 1], n)
      OBVIOUS
    <3>1. n = 1 \/ n = 2 \/ n = 3 \/ n = 4
      BY <1>2
    <3>2. CASE n = 1
      BY <3>2 DEF Way1
    <3>3. CASE n = 2
      <4>1. g[1] = Way1 /\ g[2] = Way2(es, v)
        BY <1>2
      <4> HIDE DEF g
      <4> QED
        BY <3>3, <4>1, <1>1 DEF Way2
    <3>4. CASE n = 3
      <4>1. g[2] = Way2(es, v) /\ g[3] = Way3(es, v)
        BY <1>2
      <4> HIDE DEF g
      <4> QED
        BY <3>4, <4>1, <1>1 DEF Way3
    <3>5. CASE n = 4
      <4>1. g[3] = Way3(es, v) /\ g[4] = Way4(es, v)
        BY <1>2, <3>5
      <4> HIDE DEF g
      <4> QED
        BY <3>5, <4>1, <1>1 DEF Way4
    <3> QED
      BY <3>1, <3>2, <3>3, <3>4, <3>5
  <2>2. g = [n \in 1..N |-> g[n]]
    OBVIOUS
  <2> HIDE DEF g
  <2> QED
    BY <2>1, <2>2
<1>4. Eq(f)
  <2> HIDE DEF g, Eq
  <2> QED
    BY <1>3, Zenon
<1> HIDE DEF f
<1>5. f[1] = Way1 /\ f[2] = B(f[1], 2) /\ f[3] = B(f[2], 3) /\ (N = 4 => f[4] = B(f[3], 4))
  <2>1. \A n \in 1..N : f[n] = IF n = 1 THEN <<0>> ELSE B(f[n - 1], n)
    BY <1>4, Zenon
  <2>2. 1 \in 1..N /\ 2 \in 1..N /\ 3 \in 1..N /\ (N = 4 => 4 \in 1..N)
    BY <1>2
  <2> QED
    BY <2>1, <2>2 DEF Way1
<1>6. f[3] = Way3(es, v) /\ (N = 4 => f[4] = Way4(es, v))
  BY <1>1, <1>5, Zenon DEF Way2, Way3, Way4
<1>7. Walk(es, v) = f[N]
  BY Zenon DEF Walk, f, B, N
<1> QED
  BY <1>2, <1>6, <1>7, Zenon DEF N

-----------------------------------------------------------------------------
(***************************************************************************)
(* Paths of indices.                                                       *)
(***************************************************************************)

\* The first n indices of a page.
Prefix(v, n) == SubSeq(v, 1, n)

\* The prefixes of a page, one index after the other.
LEMMA Prefixes ==
    ASSUME NEW v \in Seq(Index)
    PROVE  /\ Prefix(v, 0) = <<>> /\ Prefix(v, Len(v)) = v
           /\ \A n \in 0..Len(v) : Prefix(v, n) \in Seq(Index) /\ Len(Prefix(v, n)) = n
           /\ \A n \in 1..Len(v) : Append(Prefix(v, n - 1), v[n]) = Prefix(v, n)
<1>1. Len(v) \in Nat /\ \A k \in 1..Len(v) : v[k] \in Index
  OBVIOUS
<1>2. \A n \in 0..Len(v) : /\ Prefix(v, n) \in Seq(Index) /\ Len(Prefix(v, n)) = n
                           /\ \A k \in 1..n : Prefix(v, n)[k] = v[k]
  BY <1>1 DEF Prefix
<1>3. ASSUME NEW n \in 1..Len(v) PROVE Append(Prefix(v, n - 1), v[n]) = Prefix(v, n)
  <2> DEFINE p == Prefix(v, n - 1)
             q == Prefix(v, n)
             r == Append(p, v[n])
  <2>1. n - 1 \in 0..Len(v) /\ n \in 0..Len(v) /\ v[n] \in Index /\ n \in Nat
    BY <1>1
  <2>2. /\ p \in Seq(Index) /\ Len(p) = n - 1 /\ \A k \in 1..(n - 1) : p[k] = v[k]
        /\ q \in Seq(Index) /\ Len(q) = n /\ \A k \in 1..n : q[k] = v[k]
    BY <1>2, <2>1
  <2> HIDE DEF p, q
  <2>3. r \in Seq(Index) /\ Len(r) = n /\ \A k \in 1..n : r[k] = IF k = n THEN v[n] ELSE p[k]
    BY <2>1, <2>2
  <2> HIDE DEF r
  <2>4. \A k \in 1..n : r[k] = q[k]
    BY <2>1, <2>2, <2>3
  <2>5. r = [k \in 1..n |-> r[k]] /\ q = [k \in 1..n |-> q[k]]
    BY <2>2, <2>3
  <2>6. r = q
    BY <2>4, <2>5
  <2> QED
    BY <2>6 DEF p, q, r
<1>4. Prefix(v, Len(v)) = v
  <2> DEFINE q == Prefix(v, Len(v))
  <2>1. q \in Seq(Index) /\ Len(q) = Len(v) /\ \A k \in 1..Len(v) : q[k] = v[k]
    BY <1>1, <1>2
  <2> HIDE DEF q
  <2>2. q = [k \in 1..Len(v) |-> q[k]] /\ v = [k \in 1..Len(v) |-> v[k]]
    BY <2>1
  <2>3. q = v
    BY <2>1, <2>2
  <2> QED
    BY <2>3 DEF q
<1>5. Prefix(v, 0) = <<>>
  BY DEF Prefix
<1> QED
  BY <1>2, <1>3, <1>4, <1>5

\* A path ends with one index.
LEMMA LastIndex ==
    ASSUME NEW p \in Seq(Index), NEW q \in Seq(Index), NEW i \in Index, NEW j \in Index,
           Append(p, i) = Append(q, j)
    PROVE  p = q /\ i = j
<1>1. /\ Len(p) \in Nat /\ Len(q) \in Nat /\ Len(Append(p, i)) = Len(p) + 1 /\ Len(Append(q, j)) = Len(q) + 1
      /\ Append(p, i)[Len(p) + 1] = i /\ Append(q, j)[Len(q) + 1] = j
      /\ \A k \in 1..Len(p) : Append(p, i)[k] = p[k]
      /\ \A k \in 1..Len(q) : Append(q, j)[k] = q[k]
  OBVIOUS
<1>2. Len(p) = Len(q) /\ i = j
  BY <1>1
<1>3. \A k \in 1..Len(p) : p[k] = q[k]
  BY <1>1, <1>2
<1>4. p = [k \in 1..Len(p) |-> p[k]] /\ q = [k \in 1..Len(p) |-> q[k]]
  BY <1>2
<1> QED
  BY <1>2, <1>3, <1>4, Zenon

-----------------------------------------------------------------------------
(***************************************************************************)
(* The tree of tables: each live table hangs on the path pre gives it.     *)
(***************************************************************************)

\* Entry i of table s leads to the table on the path through it.
Leads(es, live, pre, s, i) ==
    /\ es[s][i].to \in live /\ pre[es[s][i].to] = Append(pre[s], i)
    /\ "nx" \notin es[s][i].flags

\* Live tables form a tree: no two share a path, an entry that is open leads
\* to the table on its path, only the third level has large pages, and every
\* table but the root hangs somewhere.
Tree(es, live, pre) ==
    /\ Typed(es) /\ 0 \in live /\ live \subseteq Tables
    /\ pre \in [Tables -> Seq(Index)] /\ pre[0] = <<>>
    /\ \A s, t \in live : pre[s] = pre[t] => s = t
    /\ \A s \in live : Len(pre[s]) <= 3
    /\ \A s \in live, i \in Index :
        /\ Open(es[s][i]) /\ Len(pre[s]) < 3 => Leads(es, live, pre, s, i)
        /\ es[s][i].present /\ es[s][i].large => Len(pre[s]) = 2
    /\ \A t \in live \ {0} : \E s \in live, i \in Index :
        Open(es[s][i]) /\ Len(pre[s]) < 3 /\ es[s][i].to = t

\* The tables b lead along v, in the first n levels.
OnTree(es, live, pre, v, b, n) ==
    /\ IsWay(es, v, b, n)
    /\ \A m \in 1..Len(b) : b[m] \in live /\ pre[b[m]] = Prefix(v, m - 1)

\* The parts of an entry.
LEMMA EntryTyped ==
    ASSUME NEW es, Typed(es), NEW t \in Tables, NEW i \in Index
    PROVE  /\ es[t][i] \in [present : BOOLEAN, flags : SUBSET {"write", "user", "nx"},
                            large : BOOLEAN, to : Tables \cup Frames]
           /\ es[t][i].present \in BOOLEAN /\ es[t][i].large \in BOOLEAN
           /\ es[t][i].flags \subseteq {"write", "user", "nx"} /\ es[t][i].to \in Tables \cup Frames
           /\ es[t] \in [Index -> [present : BOOLEAN, flags : SUBSET {"write", "user", "nx"},
                            large : BOOLEAN, to : Tables \cup Frames]]
<1>1. es[t] \in [Index -> [present : BOOLEAN, flags : SUBSET {"write", "user", "nx"},
                           large : BOOLEAN, to : Tables \cup Frames]]
  BY DEF Typed
<1> QED
  BY <1>1

\* What an open entry of a live table leads to.
LEMMA Below ==
    ASSUME NEW es, NEW live, NEW pre, Tree(es, live, pre), NEW s \in live, NEW i \in Index,
           Open(es[s][i]), Len(pre[s]) < 3
    PROVE  Leads(es, live, pre, s, i)
  BY Zenon DEF Tree

\* A walk that goes on one level stays on the tree.
LEMMA FurtherOnTree ==
    ASSUME Memory, NEW es, NEW live, NEW pre, Tree(es, live, pre), NEW v \in Pages \cup LargePages,
           NEW n \in 1..3, n <= Len(v), NEW b, OnTree(es, live, pre, v, b, n)
    PROVE  OnTree(es, live, pre, v, Further(es, v, b, n), n + 1)
<1>1. v \in Seq(Index) /\ Len(v) \in Nat /\ v[n] \in Index
  BY DEF Memory
<1>2. IsWay(es, v, b, n) /\ Len(b) \in 1..n /\ b \in Seq(Int \cup Frames)
  BY DEF OnTree, IsWay
<1>3. Len(b) = n => b[n] \in live /\ pre[b[n]] = Prefix(v, n - 1)
  BY DEF OnTree
<1>4. live \subseteq Tables /\ Tables \subseteq Int
  BY DEF Tree, Tables, Memory
<1>5. \A t \in Tables, i \in Index : es[t][i].to \in Int \cup Frames
  BY <1>4, EntryTyped, Zenon DEF Tree
<1>6. IsWay(es, v, Further(es, v, b, n), n + 1)
  <2>1. Len(b) = n => es[b[n]][v[n]].to \in Int \cup Frames
    BY <1>1, <1>3, <1>4, <1>5, Zenon
  <2> QED
    BY <2>1, <1>2, FurtherIsWay
<1>7. CASE Len(b) = n /\ Open(es[b[n]][v[n]])
  <2> DEFINE t == es[b[n]][v[n]].to
  <2>1. Len(Prefix(v, n - 1)) = n - 1 /\ Append(Prefix(v, n - 1), v[n]) = Prefix(v, n)
    BY <1>1, Prefixes
  <2>2. t \in live /\ pre[t] = Prefix(v, n)
    <3>1. b[n] \in live /\ Len(pre[b[n]]) < 3 /\ pre[b[n]] = Prefix(v, n - 1)
      BY <1>7, <1>3, <2>1
    <3>2. Open(es[b[n]][v[n]]) /\ v[n] \in Index
      BY <1>1, <1>7
    <3>3. Leads(es, live, pre, b[n], v[n])
      BY <3>1, <3>2, Below
    <3> QED
      BY <3>1, <3>3, <2>1, Zenon DEF Leads
  <2> HIDE DEF t
  <2>3. Further(es, v, b, n) = Append(b, t)
    BY <1>7 DEF Further, t
  <2>4. t \in Int
    BY <2>2, <1>4
  <2>5. /\ Len(Append(b, t)) = n + 1 /\ Append(b, t)[n + 1] = t
        /\ \A m \in 1..n : Append(b, t)[m] = b[m]
    BY <1>2, <1>7, <2>4
  <2>6. \A m \in 1..(n + 1) : Append(b, t)[m] \in live /\ pre[Append(b, t)[m]] = Prefix(v, m - 1)
    <3> SUFFICES ASSUME NEW m \in 1..(n + 1)
                 PROVE  Append(b, t)[m] \in live /\ pre[Append(b, t)[m]] = Prefix(v, m - 1)
      BY Zenon
    <3>1. CASE m = n + 1
      BY <3>1, <2>2, <2>5
    <3>2. CASE m # n + 1
      <4>1. m \in 1..n
        BY <3>2
      <4>2. b[m] \in live /\ pre[b[m]] = Prefix(v, m - 1)
        BY <4>1, <1>7 DEF OnTree
      <4> QED
        BY <4>1, <4>2, <2>5
    <3> QED
      BY <3>1, <3>2, Zenon
  <2> QED
    BY <1>6, <2>3, <2>5, <2>6 DEF OnTree
<1>8. CASE ~(Len(b) = n /\ Open(es[b[n]][v[n]]))
  <2>1. Further(es, v, b, n) = b
    BY <1>8, Zenon DEF Further
  <2> QED
    BY <2>1, <1>6 DEF OnTree
<1> QED
  BY <1>7, <1>8

\* The tables of a walk, and where it ends.
LEMMA WalkOnTree ==
    ASSUME Memory, NEW es, NEW live, NEW pre, Tree(es, live, pre), NEW v \in Pages \cup LargePages
    PROVE  OnTree(es, live, pre, v, Walk(es, v), Len(v))
<1>1. Len(v) \in {3, 4} /\ v \in Seq(Index)
  BY DEF Memory
<1>2. OnTree(es, live, pre, v, Way1, 1)
  <2>1. Prefix(v, 0) = <<>>
    BY <1>1, Prefixes
  <2> QED
    BY <2>1 DEF OnTree, IsWay, Way1, Tree
<1>3. OnTree(es, live, pre, v, Way2(es, v), 2)
  <2>1. 1 \in 1..3 /\ 1 <= Len(v) /\ 1 + 1 = 2
    BY <1>1, SMTT(30)
  <2> QED
    BY <2>1, <1>2, FurtherOnTree, Zenon DEF Way2
<1>4. OnTree(es, live, pre, v, Way3(es, v), 3)
  <2>1. 2 \in 1..3 /\ 2 <= Len(v) /\ 2 + 1 = 3
    BY <1>1, SMTT(30)
  <2> QED
    BY <2>1, <1>3, FurtherOnTree, Zenon DEF Way3
<1>5. OnTree(es, live, pre, v, Way4(es, v), 4)
  <2>1. 3 \in 1..3 /\ 3 <= Len(v) /\ 3 + 1 = 4
    BY <1>1
  <2> QED
    BY <2>1, <1>4, FurtherOnTree, Zenon DEF Way4
<1> QED
  <2>1. CASE Len(v) = 3
    <3>1. Walk(es, v) = Way3(es, v)
      BY <2>1, WalkUnrolled
    <3> QED
      BY <3>1, <2>1, <1>4
  <2>2. CASE Len(v) = 4
    <3>1. Walk(es, v) = Way4(es, v)
      BY <2>2, WalkUnrolled
    <3> QED
      BY <3>1, <2>2, <1>5
  <2> QED
    BY <1>1, <2>1, <2>2

-----------------------------------------------------------------------------
(***************************************************************************)
(* The tree and the reference.                                             *)
(***************************************************************************)

\* The entry that maps page w as m says.
LeafOf(w, m) == [present |-> TRUE, flags |-> m.flags, large |-> Len(w) = 3, to |-> m.frame]

\* Its parts.
LEMMA LeafParts ==
    ASSUME NEW w, NEW m
    PROVE  /\ LeafOf(w, m).present /\ LeafOf(w, m).large = (Len(w) = 3)
           /\ LeafOf(w, m).flags = m.flags /\ LeafOf(w, m).to = m.frame
  BY DEF LeafOf

\* Level n of page w, which is mapped as m says.
EnteredAt(es, live, pre, w, m, n) ==
    \E s \in live :
        /\ pre[s] = Prefix(w, n - 1)
        /\ IF n < Len(w) THEN Open(es[s][w[n]]) /\ m.flags \ {"nx"} \subseteq es[s][w[n]].flags
           ELSE es[s][w[n]] = LeafOf(w, m)

\* An entry, after n indices, that maps a page.
Ends(e, n) == e.present /\ (n = 3 \/ e.large)

\* Every page of the reference is entered at each of its levels, and every
\* entry that maps a page does so for a page of the reference.
Entered(es, live, pre, map) ==
    /\ \A w \in DOMAIN map :
        /\ w \in Pages \cup LargePages /\ map[w].frame \in Frames /\ map[w].flags \in Flags
        /\ \A n \in 1..Len(w) : EnteredAt(es, live, pre, w, map[w], n)
    /\ \A s \in live, i \in Index : Ends(es[s][i], Len(pre[s])) => Append(pre[s], i) \in DOMAIN map

\* Tables 0 to k are in use; those that are not live are empty, and of the live
\* ones at the last level only `at` may be.
Mid(es, live, pre, map, k, at) ==
    /\ Tree(es, live, pre) /\ Entered(es, live, pre, map)
    /\ k \in Nat /\ k <= TableCount /\ live \subseteq 0..k
    /\ \A s \in (0..k) \ live : Empty(es[s])
    /\ \A s \in live \ {at} : Len(pre[s]) = 3 => ~Empty(es[s])

-----------------------------------------------------------------------------
\* Some open entries gain flags.
Granted(new, es, live, pre, flags) ==
    /\ Typed(new)
    /\ \A s \in Tables, i \in Index :
        \/ new[s][i] = es[s][i]
        \/ /\ s \in live /\ Len(pre[s]) < 3 /\ Open(es[s][i])
           /\ new[s][i] = [es[s][i] EXCEPT !.flags = @ \cup (flags \ {"nx"})]

\* Then the other parts of all entries are as before.
LEMMA GrantedParts ==
    ASSUME NEW es, NEW live, NEW pre, NEW new, NEW flags, Typed(es), Granted(new, es, live, pre, flags),
           NEW s \in Tables, NEW i \in Index
    PROVE  /\ new[s][i].present = es[s][i].present /\ new[s][i].large = es[s][i].large
           /\ new[s][i].to = es[s][i].to /\ es[s][i].flags \subseteq new[s][i].flags
           /\ new[s][i].flags \subseteq es[s][i].flags \cup (flags \ {"nx"})
           /\ ~(s \in live /\ Len(pre[s]) < 3 /\ Open(es[s][i])) => new[s][i] = es[s][i]
<1>1. CASE new[s][i] = es[s][i]
  BY <1>1
<1>2. CASE /\ s \in live /\ Len(pre[s]) < 3 /\ Open(es[s][i])
           /\ new[s][i] = [es[s][i] EXCEPT !.flags = @ \cup (flags \ {"nx"})]
  <2>1. es[s][i] \in [present : BOOLEAN, flags : SUBSET {"write", "user", "nx"},
                      large : BOOLEAN, to : Tables \cup Frames]
    BY EntryTyped
  <2> QED
    BY <1>2, <2>1
<1> QED
  BY <1>1, <1>2, Zenon DEF Granted

\* Flags granted to open entries leave the tree as it is,
LEMMA GrantedTree ==
    ASSUME NEW es, NEW live, NEW pre, NEW new, NEW flags,
           Tree(es, live, pre), Granted(new, es, live, pre, flags)
    PROVE  Tree(new, live, pre)
<1>1. Typed(es) /\ Typed(new) /\ live \subseteq Tables
  BY DEF Tree, Granted
<1>2. \A s \in live, i \in Index : /\ Open(new[s][i]) = Open(es[s][i])
                                   /\ new[s][i].present = es[s][i].present /\ new[s][i].large = es[s][i].large
                                   /\ new[s][i].to = es[s][i].to
                                   /\ "nx" \in new[s][i].flags => "nx" \in es[s][i].flags
  BY <1>1, GrantedParts DEF Open
<1>3. \A s \in live, i \in Index : Leads(es, live, pre, s, i) => Leads(new, live, pre, s, i)
  BY <1>2, Zenon DEF Leads
<1>7. /\ \A s \in live, i \in Index : Open(es[s][i]) /\ Len(pre[s]) < 3 => Leads(es, live, pre, s, i)
      /\ \A s \in live, i \in Index : es[s][i].present /\ es[s][i].large => Len(pre[s]) = 2
      /\ \A t \in live \ {0} : \E s \in live, i \in Index : Open(es[s][i]) /\ Len(pre[s]) < 3 /\ es[s][i].to = t
  BY Zenon DEF Tree
<1>4. \A s \in live, i \in Index : Open(new[s][i]) /\ Len(pre[s]) < 3 => Leads(new, live, pre, s, i)
  BY <1>2, <1>3, <1>7
<1>5. \A s \in live, i \in Index : new[s][i].present /\ new[s][i].large => Len(pre[s]) = 2
  BY <1>2, <1>7
<1>6. ASSUME NEW t \in live \ {0}
      PROVE \E s \in live, i \in Index : Open(new[s][i]) /\ Len(pre[s]) < 3 /\ new[s][i].to = t
  <2>1. PICK s \in live, i \in Index : Open(es[s][i]) /\ Len(pre[s]) < 3 /\ es[s][i].to = t
    BY <1>7
  <2> QED
    BY <2>1, <1>2
<1> QED
  BY <1>1, <1>4, <1>5, <1>6, Zenon DEF Tree

\* every page entered,
LEMMA GrantedEntered ==
    ASSUME Memory, NEW es, NEW live, NEW pre, NEW new, NEW flags,
           Tree(es, live, pre), Granted(new, es, live, pre, flags),
           NEW w \in Pages \cup LargePages, NEW m, NEW n \in 1..Len(w), EnteredAt(es, live, pre, w, m, n)
    PROVE  EnteredAt(new, live, pre, w, m, n)
<1>1. Typed(es) /\ live \subseteq Tables
  BY DEF Tree
<1>2. w \in Seq(Index) /\ w[n] \in Index /\ Len(w) \in {3, 4}
  BY DEF Memory
<1>3. PICK s \in live :
        /\ pre[s] = Prefix(w, n - 1)
        /\ IF n < Len(w) THEN Open(es[s][w[n]]) /\ m.flags \ {"nx"} \subseteq es[s][w[n]].flags
           ELSE es[s][w[n]] = LeafOf(w, m)
  BY Zenon DEF EnteredAt
<1>4. /\ new[s][w[n]].present = es[s][w[n]].present /\ new[s][w[n]].large = es[s][w[n]].large
      /\ es[s][w[n]].flags \subseteq new[s][w[n]].flags
      /\ ~(s \in live /\ Len(pre[s]) < 3 /\ Open(es[s][w[n]])) => new[s][w[n]] = es[s][w[n]]
  BY <1>1, <1>2, GrantedParts
<1>5. CASE n < Len(w)
  <2>1. Open(new[s][w[n]]) /\ m.flags \ {"nx"} \subseteq new[s][w[n]].flags
    BY <1>3, <1>4, <1>5 DEF Open
  <2> QED
    BY <2>1, <1>3, <1>5, Zenon DEF EnteredAt
<1>6. CASE ~(n < Len(w))
  <2>1. Len(Prefix(w, n - 1)) = n - 1 /\ n = Len(w)
    BY <1>2, <1>6, Prefixes
  <2>2. es[s][w[n]] = LeafOf(w, m)
    BY <1>3, <1>6
  <2>3. ~(Len(pre[s]) < 3 /\ Open(es[s][w[n]]))
    <3>1. CASE Len(w) = 3
      BY <3>1, <2>2, LeafParts, Zenon DEF Open
    <3>2. CASE Len(w) = 4
      <4>1. Len(pre[s]) = Len(Prefix(w, n - 1))
        BY <1>3, Zenon
      <4>2. Len(pre[s]) = n - 1 /\ n = 4
        BY <4>1, <2>1, <3>2, Zenon
      <4> HIDE <1>3
      <4> QED
        BY <4>2
    <3> QED
      BY <1>2, <3>1, <3>2
  <2>4. new[s][w[n]] = LeafOf(w, m)
    BY <2>2, <2>3, <1>4
  <2> QED
    BY <2>4, <1>3, <1>6, Zenon DEF EnteredAt
<1> QED
  BY <1>5, <1>6

\* and all that holds in the middle of a call.
LEMMA GrantedMid ==
    ASSUME Memory, NEW es, NEW live, NEW pre, NEW map, NEW k, NEW at, NEW new, NEW flags,
           Mid(es, live, pre, map, k, at), Granted(new, es, live, pre, flags)
    PROVE  Mid(new, live, pre, map, k, at)
<1>1. Tree(es, live, pre) /\ Entered(es, live, pre, map) /\ Typed(es) /\ live \subseteq Tables
  BY DEF Mid, Tree
<1>2. Tree(new, live, pre)
  BY <1>1, GrantedTree
<1>3. \A s \in Tables, i \in Index : new[s][i].present = es[s][i].present /\ new[s][i].large = es[s][i].large
  BY <1>1, GrantedParts
<1>4. \A s \in Tables : Empty(new[s]) <=> Empty(es[s])
  BY <1>3 DEF Empty
<1>5. ASSUME NEW w \in DOMAIN map, NEW n \in 1..Len(w) PROVE EnteredAt(new, live, pre, w, map[w], n)
  <2>1. w \in Pages \cup LargePages /\ EnteredAt(es, live, pre, w, map[w], n)
    BY <1>1, Zenon DEF Entered
  <2> QED
    BY <2>1, <1>1, GrantedEntered, Zenon
<1>6. \A s \in live, i \in Index : Ends(new[s][i], Len(pre[s])) = Ends(es[s][i], Len(pre[s]))
  BY <1>1, <1>3 DEF Ends
<1>7. Entered(new, live, pre, map)
  BY <1>5, <1>1, <1>6, Zenon DEF Entered
<1>8. (0..k) \subseteq Tables
  BY DEF Mid, Tables, Memory
<1> QED
  BY <1>1, <1>2, <1>4, <1>7, <1>8, Zenon DEF Mid

-----------------------------------------------------------------------------
\* Table t is cleared and hangs below entry x of table at.
Added(new, es, at, x, flags, t) ==
    /\ Typed(new)
    /\ new[at][x] = [present |-> TRUE, flags |-> flags \ {"nx"}, large |-> FALSE, to |-> t]
    /\ \A i \in Index : new[t][i] = None
    /\ \A s \in Tables, i \in Index : s # t /\ (s # at \/ i # x) => new[s][i] = es[s][i]

\* What the tree needs to take table t there.
Room(es, live, pre, at, x, t) ==
    /\ Tree(es, live, pre) /\ at \in live /\ Len(pre[at]) < 3 /\ x \in Index
    /\ ~es[at][x].present /\ t \in Tables \ live

\* What hanging a table below an entry changes.
LEMMA AddedParts ==
    ASSUME NEW es, NEW live, NEW pre, NEW at, NEW x, NEW flags, NEW t, NEW new,
           Room(es, live, pre, at, x, t), Added(new, es, at, x, flags, t)
    PROVE  /\ at # t /\ t # 0 /\ at \in Tables /\ x \in Index
           /\ Open(new[at][x]) /\ new[at][x].to = t /\ new[at][x].flags = flags \ {"nx"}
           /\ new[at][x].present /\ ~new[at][x].large
           /\ \A i \in Index : ~Open(new[t][i]) /\ ~new[t][i].present
           /\ \A s \in live, i \in Index : s # at \/ i # x => new[s][i] = es[s][i]
           /\ \A s \in live, i \in Index : es[s][i].present => new[s][i] = es[s][i]
<1>1. at \in live /\ t \notin live /\ 0 \in live /\ live \subseteq Tables /\ x \in Index
  BY DEF Room, Tree
<1>2. new[at][x] = [present |-> TRUE, flags |-> flags \ {"nx"}, large |-> FALSE, to |-> t]
  BY DEF Added
<1>3. \A i \in Index : new[t][i] = None
  BY DEF Added
<1>4. \A s \in Tables, i \in Index : s # t /\ (s # at \/ i # x) => new[s][i] = es[s][i]
  BY Zenon DEF Added
<1>5. None.present = FALSE
  BY DEF None
<1>6. ~es[at][x].present
  BY DEF Room
<1>7. \A s \in live, i \in Index : s # at \/ i # x => new[s][i] = es[s][i]
  BY <1>1, <1>4
<1>8. \A s \in live, i \in Index : es[s][i].present => new[s][i] = es[s][i]
  BY <1>7, <1>6
<1>9. /\ Open(new[at][x]) /\ new[at][x].to = t /\ new[at][x].flags = flags \ {"nx"}
      /\ new[at][x].present /\ ~new[at][x].large
  BY <1>2 DEF Open
<1> QED
  BY <1>1, <1>3, <1>5, <1>7, <1>8, <1>9 DEF Open

\* No other table has the new one's place.
LEMMA PlaceFree ==
    ASSUME NEW es, NEW live, NEW pre, NEW at, NEW x, NEW t, Room(es, live, pre, at, x, t), NEW s \in live
    PROVE  pre[s] # Append(pre[at], x)
<1>1. /\ Tree(es, live, pre) /\ at \in live /\ x \in Index /\ ~es[at][x].present
      /\ live \subseteq Tables /\ pre \in [Tables -> Seq(Index)] /\ pre[0] = <<>>
  BY DEF Room, Tree
<1>2. SUFFICES ASSUME pre[s] = Append(pre[at], x) PROVE FALSE
  OBVIOUS
<1>3. pre[at] \in Seq(Index)
  BY <1>1
<1>4. Append(pre[at], x) # <<>>
  BY <1>1, <1>3
<1>5. s \in live \ {0}
  BY <1>1, <1>2, <1>4
<1>6. PICK r \in live, i \in Index : Open(es[r][i]) /\ Len(pre[r]) < 3 /\ es[r][i].to = s
  BY <1>1, <1>5, Zenon DEF Tree
<1>7. Leads(es, live, pre, r, i)
  BY <1>1, <1>6, Below, Zenon
<1>8. Append(pre[r], i) = Append(pre[at], x)
  BY <1>2, <1>6, <1>7 DEF Leads
<1>9. pre[r] = pre[at] /\ i = x
  BY <1>1, <1>3, <1>8, LastIndex
<1>10. r = at
  BY <1>1, <1>9, Zenon DEF Tree
<1> QED
  BY <1>1, <1>6, <1>9, <1>10 DEF Open

\* The tables with the new one are a tree,
LEMMA AddedTree ==
    ASSUME NEW es, NEW live, NEW pre, NEW at, NEW x, NEW flags, NEW t, NEW new,
           Room(es, live, pre, at, x, t), Added(new, es, at, x, flags, t)
    PROVE  Tree(new, live \cup {t}, [pre EXCEPT ![t] = Append(pre[at], x)])
<1> DEFINE p == [pre EXCEPT ![t] = Append(pre[at], x)]
<1>1. /\ Tree(es, live, pre) /\ at \in live /\ Len(pre[at]) < 3 /\ x \in Index /\ t \in Tables \ live
      /\ live \subseteq Tables /\ pre \in [Tables -> Seq(Index)] /\ pre[0] = <<>> /\ 0 \in live /\ Typed(new)
  BY DEF Room, Tree, Added
<1>2. pre[at] \in Seq(Index) /\ Append(pre[at], x) \in Seq(Index) /\ Len(Append(pre[at], x)) = Len(pre[at]) + 1
  BY <1>1
<1>3. /\ p \in [Tables -> Seq(Index)] /\ p[t] = Append(pre[at], x)
      /\ \A s \in live : p[s] = pre[s]
  BY <1>1, <1>2
<1> HIDE DEF p
<1>4. /\ at # t /\ t # 0 /\ at \in Tables /\ x \in Index
      /\ Open(new[at][x]) /\ new[at][x].to = t /\ new[at][x].flags = flags \ {"nx"}
      /\ new[at][x].present /\ ~new[at][x].large
      /\ \A i \in Index : ~Open(new[t][i]) /\ ~new[t][i].present
      /\ \A s \in live, i \in Index : s # at \/ i # x => new[s][i] = es[s][i]
      /\ \A s \in live, i \in Index : es[s][i].present => new[s][i] = es[s][i]
  BY AddedParts
<1>5. \A r, s \in live \cup {t} : p[r] = p[s] => r = s
  <2>1. \A r, s \in live : pre[r] = pre[s] => r = s
    BY <1>1, Zenon DEF Tree
  <2>2. \A s \in live : pre[s] # Append(pre[at], x)
    BY PlaceFree
  <2> QED
    BY <2>1, <2>2, <1>3
<1>6. \A s \in live : Len(pre[s]) <= 3
  BY <1>1 DEF Tree
<1>7. \A s \in live \cup {t} : Len(p[s]) <= 3
  BY <1>1, <1>2, <1>3, <1>6
<1>8. ASSUME NEW s \in live \cup {t}, NEW i \in Index, Open(new[s][i]), Len(p[s]) < 3
      PROVE  Leads(new, live \cup {t}, p, s, i)
  <2>1. s \in live /\ p[s] = pre[s]
    BY <1>8, <1>3, <1>4
  <2>2. CASE s = at /\ i = x
    <3>1. new[s][i].to = t /\ "nx" \notin new[s][i].flags
      BY <2>2, <1>4
    <3>2. p[t] = Append(p[s], i)
      BY <2>1, <2>2, <1>3
    <3> QED
      BY <3>1, <3>2 DEF Leads
  <2>3. CASE s # at \/ i # x
    <3>1. new[s][i] = es[s][i]
      BY <2>1, <2>3, <1>4
    <3>2. Leads(es, live, pre, s, i)
      BY <2>1, <3>1, <1>1, <1>8, Below
    <3> QED
      BY <3>1, <3>2, <2>1, <1>3 DEF Leads
  <2> QED
    BY <2>2, <2>3
<1>9. ASSUME NEW s \in live \cup {t}, NEW i \in Index, new[s][i].present, new[s][i].large
      PROVE  Len(p[s]) = 2
  <2>1. s \in live /\ p[s] = pre[s] /\ ~(s = at /\ i = x)
    BY <1>9, <1>3, <1>4
  <2>2. new[s][i] = es[s][i]
    BY <2>1, <1>4
  <2>3. es[s][i].present /\ es[s][i].large => Len(pre[s]) = 2
    BY <2>1, <1>1, Zenon DEF Tree
  <2> QED
    BY <2>1, <2>2, <2>3, <1>9
<1>10. ASSUME NEW u \in (live \cup {t}) \ {0}
       PROVE  \E s \in live \cup {t}, i \in Index : Open(new[s][i]) /\ Len(p[s]) < 3 /\ new[s][i].to = u
  <2>1. CASE u = t
    BY <2>1, <1>1, <1>3, <1>4
  <2>2. CASE u # t
    <3>1. PICK s \in live, i \in Index : Open(es[s][i]) /\ Len(pre[s]) < 3 /\ es[s][i].to = u
      BY <2>2, <1>1, Zenon DEF Tree
    <3>2. new[s][i] = es[s][i] /\ p[s] = pre[s]
      BY <3>1, <1>3, <1>4 DEF Open
    <3> QED
      BY <3>1, <3>2
  <2> QED
    BY <2>1, <2>2
<1>11. p[0] = <<>> /\ live \cup {t} \subseteq Tables /\ 0 \in live \cup {t}
  BY <1>1, <1>3
<1>12. Tree(new, live \cup {t}, p)
  BY <1>1, <1>3, <1>5, <1>7, <1>8, <1>9, <1>10, <1>11, Zenon DEF Tree
<1> QED
  BY <1>12 DEF p

\* in which every page is entered as before.
LEMMA AddedEntered ==
    ASSUME Memory, NEW es, NEW live, NEW pre, NEW at, NEW x, NEW flags, NEW t, NEW new,
           Room(es, live, pre, at, x, t), Added(new, es, at, x, flags, t),
           NEW w \in Pages \cup LargePages, NEW m, NEW n \in 1..Len(w), EnteredAt(es, live, pre, w, m, n)
    PROVE  EnteredAt(new, live \cup {t}, [pre EXCEPT ![t] = Append(pre[at], x)], w, m, n)
<1> DEFINE p == [pre EXCEPT ![t] = Append(pre[at], x)]
<1>1. live \subseteq Tables /\ pre \in [Tables -> Seq(Index)] /\ t \notin live
  BY DEF Room, Tree
<1>2. w[n] \in Index
  BY DEF Memory
<1>3. PICK s \in live :
        /\ pre[s] = Prefix(w, n - 1)
        /\ IF n < Len(w) THEN Open(es[s][w[n]]) /\ m.flags \ {"nx"} \subseteq es[s][w[n]].flags
           ELSE es[s][w[n]] = LeafOf(w, m)
  BY Zenon DEF EnteredAt
<1>4. es[s][w[n]].present
  <2>1. CASE n < Len(w)
    BY <2>1, <1>3 DEF Open
  <2>2. CASE ~(n < Len(w))
    <3>1. es[s][w[n]] = LeafOf(w, m)
      BY <2>2, <1>3
    <3>2. LeafOf(w, m).present
      BY LeafParts
    <3> QED
      BY <3>1, <3>2, Zenon
  <2> QED
    BY <2>1, <2>2
<1>5. new[s][w[n]] = es[s][w[n]]
  BY <1>2, <1>4, AddedParts
<1>6. p[s] = pre[s] /\ s \in live \cup {t}
  BY <1>1
<1> HIDE DEF p
<1>7. EnteredAt(new, live \cup {t}, p, w, m, n)
  BY <1>3, <1>5, <1>6 DEF EnteredAt
<1> QED
  BY <1>7 DEF p

\* A path of less than three indices is not that of a table of the last level.
LEMMA Under3 ==
    ASSUME NEW p \in Seq(Index), Len(p) < 3
    PROVE  Len(p) # 3
  BY SMTT(30)

\* Then only the new table may be an empty one of the last level.
LEMMA AddedMid ==
    ASSUME Memory, NEW es, NEW live, NEW pre, NEW map, NEW k, NEW at, NEW x, NEW flags, NEW new,
           Mid(es, live, pre, map, k, at), Room(es, live, pre, at, x, k + 1),
           Added(new, es, at, x, flags, k + 1)
    PROVE  Mid(new, live \cup {k + 1}, [pre EXCEPT ![k + 1] = Append(pre[at], x)], map, k + 1, k + 1)
<1> DEFINE t == k + 1
           p == [pre EXCEPT ![t] = Append(pre[at], x)]
<1>1. /\ Entered(es, live, pre, map) /\ k \in Nat /\ live \subseteq 0..k
      /\ \A s \in (0..k) \ live : Empty(es[s])
      /\ \A s \in live \ {at} : Len(pre[s]) = 3 => ~Empty(es[s])
  BY DEF Mid
<1>2. /\ Tree(es, live, pre) /\ at \in live /\ Len(pre[at]) < 3 /\ x \in Index /\ t \in Tables \ live
      /\ live \subseteq Tables /\ pre \in [Tables -> Seq(Index)]
  BY DEF Room, Tree
<1>3. t <= TableCount /\ t \in Nat /\ (0..t) \subseteq Tables
  BY <1>1, <1>2 DEF Tables, Memory
<1>4. /\ p[t] = Append(pre[at], x) /\ \A s \in live : p[s] = pre[s]
  BY <1>2
<1>5. Tree(new, live \cup {t}, p)
  BY AddedTree, Zenon
<1>6. ASSUME NEW w \in DOMAIN map, NEW n \in 1..Len(w) PROVE EnteredAt(new, live \cup {t}, p, w, map[w], n)
  <2>1. w \in Pages \cup LargePages /\ EnteredAt(es, live, pre, w, map[w], n)
    BY <1>1, Zenon DEF Entered
  <2> QED
    BY <2>1, AddedEntered, Zenon
<1>7. /\ at # t /\ Open(new[at][x]) /\ new[at][x].present /\ ~new[at][x].large
      /\ \A i \in Index : ~new[t][i].present
      /\ \A s \in live, i \in Index : s # at \/ i # x => new[s][i] = es[s][i]
  BY AddedParts
<1>8. \A s \in Tables, i \in Index : s # t /\ (s # at \/ i # x) => new[s][i] = es[s][i]
  BY Zenon DEF Added
<1> HIDE DEF p, t
<1>9. ASSUME NEW s \in live \cup {t}, NEW i \in Index, Ends(new[s][i], Len(p[s]))
      PROVE  Append(p[s], i) \in DOMAIN map
  <2>1. s \in live /\ p[s] = pre[s]
    BY <1>4, <1>7, <1>9 DEF Ends
  <2>2. ~(s = at /\ i = x)
    <3>1. ~Ends(new[at][x], Len(pre[at]))
      <4>1. Len(pre[at]) # 3
        <5>1. pre[at] \in Seq(Index) /\ Len(pre[at]) < 3
          BY <1>2
        <5> QED
          BY <5>1, Under3, Zenon
      <4> QED
        BY <4>1, <1>7, Zenon DEF Ends
    <3> QED
      BY <3>1, <2>1, <1>9
  <2>3. Ends(es[s][i], Len(pre[s]))
    BY <2>1, <2>2, <1>7, <1>9
  <2>4. Append(pre[s], i) \in DOMAIN map
    BY <2>1, <2>3, <1>1, Zenon DEF Entered
  <2> QED
    BY <2>1, <2>4
<1>10. Entered(new, live \cup {t}, p, map)
  BY <1>1, <1>6, <1>9, Zenon DEF Entered
<1>11. live \cup {t} \subseteq 0..t
  BY <1>1 DEF t
<1>12. ASSUME NEW s \in (0..t) \ (live \cup {t}) PROVE Empty(new[s])
  <2>1. s \in (0..k) \ live
    BY <1>1 DEF t
  <2>2. s # t /\ s # at /\ s \in Tables
    BY <1>2, <1>3
  <2>3. \A i \in Index : new[s][i] = es[s][i]
    BY <2>2, <1>8
  <2> QED
    BY <2>1, <2>3, <1>1 DEF Empty
<1>13. ASSUME NEW s \in (live \cup {t}) \ {t}, Len(p[s]) = 3 PROVE ~Empty(new[s])
  <2>1. s \in live /\ p[s] = pre[s] /\ s # at
    BY <1>2, <1>4, <1>13, SMTT(30)
  <2>2. \A i \in Index : new[s][i] = es[s][i]
    BY <2>1, <1>7
  <2>3. ~Empty(es[s])
    BY <2>1, <1>1, <1>13
  <2> QED
    BY <2>2, <2>3 DEF Empty
<1>14. Mid(new, live \cup {t}, p, map, t, t)
  BY <1>3, <1>5, <1>10, <1>11, <1>12, <1>13, Zenon DEF Mid
<1> QED
  BY <1>14 DEF p, t

-----------------------------------------------------------------------------
(***************************************************************************)
(* Descend, one level after the other.                                     *)
(***************************************************************************)

\* One level of Descend: an entry that is present gains the flags, one that is
\* not gets the next fresh table.
Level(s, v, flags, n, fresh) ==
    LET old == s.es[s.at][v[n]]
        new == fresh[s.took + 1]
    IN  IF old.large /\ old.present THEN [s EXCEPT !.es[s.at][v[n]].flags = Grant(@, flags)]
        ELSE IF old.present
        THEN [es |-> [s.es EXCEPT ![s.at][v[n]].flags = Grant(@, flags)], at |-> old.to, took |-> s.took]
        ELSE [es |-> [s.es EXCEPT
                        ![s.at][v[n]] = [present |-> TRUE, flags |-> flags \ {"nx"},
                                         large |-> FALSE, to |-> new],
                        ![new] = [i \in Index |-> None]],
              at |-> new, took |-> s.took + 1]

Level0(es) == [es |-> es, at |-> 0, took |-> 0]
Level2(es, v, flags, fresh) == Level(Level(Level0(es), v, flags, 1, fresh), v, flags, 2, fresh)
Level3(es, v, flags, fresh) == Level(Level2(es, v, flags, fresh), v, flags, 3, fresh)

\* Descend goes two levels for a large page and three for a page.
LEMMA DescendUnrolled ==
    ASSUME NEW es, NEW v, NEW flags, NEW fresh
    PROVE  /\ Descend(es, v, flags, 2, fresh) = Level2(es, v, flags, fresh)
           /\ Descend(es, v, flags, 3, fresh) = Level3(es, v, flags, fresh)
<1> DEFINE B(s, n) == Level(s, v, flags, n, fresh)
           Eq(f, N) == f = [n \in 0..N |-> IF n = 0 THEN Level0(es) ELSE B(f[n - 1], n)]
           S0 == Level0(es)
           S1 == B(S0, 1)
           S2 == B(S1, 2)
           S3 == B(S2, 3)
           explicit == [n \in 0..3 |-> IF n = 0 THEN S0 ELSE IF n = 1 THEN S1 ELSE IF n = 2 THEN S2 ELSE S3]
           some(N) == CHOOSE f : Eq(f, N)
<1>1. Descend(es, v, flags, 2, fresh) = some(2)[2] /\ Descend(es, v, flags, 3, fresh) = some(3)[3]
  BY DEF Descend, Level, Level0
<1>2. ASSUME NEW N \in {2, 3} PROVE Eq(some(N), N)
  <2> DEFINE exp == [n \in 0..N |-> explicit[n]]
  <2>1. /\ exp[0] = S0 /\ exp[1] = B(exp[0], 1) /\ exp[2] = B(exp[1], 2) /\ (N = 3 => exp[3] = B(exp[2], 3))
    <3> HIDE DEF B, S0
    <3> QED
      BY Z3
  <2>2. Eq(exp, N)
    <3>1. \A n \in 0..N : exp[n] = IF n = 0 THEN S0 ELSE B(exp[n - 1], n)
      <4> HIDE DEF exp, S0, B
      <4>1. \A n \in 0..N : n = 0 \/ n = 1 \/ n = 2 \/ (n = 3 /\ N = 3)
        OBVIOUS
      <4> QED
        BY <2>1, <4>1
    <3>2. exp = [n \in 0..N |-> exp[n]]
      <4> HIDE DEF explicit
      <4> QED
        OBVIOUS
    <3> HIDE DEF B, S0, exp
    <3> QED
      BY <3>1, <3>2 DEF S0
  <2> HIDE DEF exp, Eq
  <2> QED
    BY <2>2
<1> HIDE DEF B, some, S0
<1>3. /\ some(2)[2] = B(B(S0, 1), 2) /\ some(3)[3] = B(B(B(S0, 1), 2), 3)
  <2>1. ASSUME NEW N \in {2, 3}
        PROVE  some(N)[0] = S0 /\ some(N)[1] = B(some(N)[0], 1) /\ some(N)[2] = B(some(N)[1], 2)
               /\ (N = 3 => some(N)[3] = B(some(N)[2], 3))
    BY <1>2 DEF S0
  <2> QED
    BY <2>1
<1> QED
  BY <1>1, <1>3 DEF B, S0, Level2, Level3

-----------------------------------------------------------------------------
\* The entries differ in flags only.
Alike(new, es) ==
    \A s \in Tables, i \in Index :
        new[s][i].present = es[s][i].present /\ new[s][i].large = es[s][i].large /\ new[s][i].to = es[s][i].to

\* After n levels of the way to v: d.at is the table reached, and tables are
\* taken from the level on where the walk in es ended.
DownIn(es, way, d, v, m, n, map, k, live, pre) ==
    /\ d.took \in Nat /\ Mid(d.es, live, pre, map, k + d.took, d.at)
    /\ d.at \in live /\ pre[d.at] = Prefix(v, n)
    /\ \A j \in 1..n : EnteredAt(d.es, live, pre, v, m, j)
    /\ d.took = 0 => n < Len(way) /\ d.at = way[n + 1] /\ Alike(d.es, es)
    /\ d.took > 0 => n >= Len(way) /\ d.took = n - Len(way) + 1 /\ Empty(d.es[d.at])

\* The same for some tree.
Down(es, way, d, v, m, n, map, k) == \E live, pre : DownIn(es, way, d, v, m, n, map, k, live, pre)

\* What Enter gives Descend.
Ready(es, way, v, m, map, k, fresh) ==
    /\ v \in Pages \cup LargePages /\ m.flags \in Flags /\ k \in Nat
    /\ IsWay(es, v, way, Len(v))
    /\ k + (Len(v) - Len(way)) <= TableCount
    /\ \A i \in 1..(Len(v) - Len(way)) : fresh[i] = k + i
    /\ Len(v) = 4 => Prefix(v, 3) \notin DOMAIN map

\* The lengths of prefixes, and the next one.
LEMMA PrefixLen ==
    ASSUME NEW v \in Seq(Index), NEW n \in 0..Len(v)
    PROVE  Len(Prefix(v, n)) = n
  BY Prefixes

\* What a prefix holds.
LEMMA PrefixIndex ==
    ASSUME NEW v \in Seq(Index), NEW n \in 0..Len(v)
    PROVE  Prefix(v, n) \in Seq(Index) /\ Len(Prefix(v, n)) = n /\ \A i \in 1..n : Prefix(v, n)[i] = v[i]
  BY DEF Prefix

\* A prefix and the next index make the next prefix.
LEMMA NextPrefix ==
    ASSUME NEW v \in Seq(Index), NEW n \in Nat, n < Len(v)
    PROVE  Append(Prefix(v, n), v[n + 1]) = Prefix(v, n + 1)
<1>1. n + 1 \in 1..Len(v) /\ (n + 1) - 1 = n
  OBVIOUS
<1>2. Append(Prefix(v, (n + 1) - 1), v[n + 1]) = Prefix(v, n + 1)
  BY <1>1, Prefixes
<1> QED
  BY <1>1, <1>2

\* The entry that the step looks at is no large page.
Looks(d, v, pre, n) ==
    /\ v \in Seq(Index) /\ v[n + 1] \in Index /\ d.at \in Tables /\ Len(pre[d.at]) = n
    /\ ~(d.es[d.at][v[n + 1]].present /\ d.es[d.at][v[n + 1]].large)

\* Descend meets no large page: one around the page would be in the reference.
LEMMA NoLarge ==
    ASSUME Memory, NEW es, NEW way, NEW v, NEW m, NEW map, NEW k, NEW fresh, NEW d, NEW live, NEW pre,
           Ready(es, way, v, m, map, k, fresh), NEW n \in 0..2, n + 2 <= Len(v),
           DownIn(es, way, d, v, m, n, map, k, live, pre)
    PROVE  Looks(d, v, pre, n)
<1>1. v \in Pages \cup LargePages /\ (Len(v) = 4 => Prefix(v, 3) \notin DOMAIN map)
  BY DEF Ready
<1>2. v \in Seq(Index) /\ Len(v) \in {3, 4}
  BY <1>1 DEF Memory
<1>3. n + 1 \in 1..Len(v) /\ v[n + 1] \in Index /\ n \in 0..2
  BY <1>2
<1>4. /\ Tree(d.es, live, pre) /\ Entered(d.es, live, pre, map) /\ d.at \in live /\ live \subseteq Tables
      /\ pre[d.at] = Prefix(v, n)
  BY DEF DownIn, Mid, Tree
<1>5. Len(pre[d.at]) = n
  <2>1. n \in 0..Len(v)
    BY <1>2, <1>3
  <2> QED
    BY <2>1, <1>2, <1>4, PrefixLen
<1>7. n = 2 => Len(v) = 4 /\ n + 1 = 3
  <2> DEFINE l == Len(v)
  <2>1. l \in Int /\ (l = 3 \/ l = 4) /\ n + 2 <= l
    BY <1>2
  <2> HIDE DEF l
  <2>2. n = 2 => l = 4 /\ n + 1 = 3
    BY <2>1
  <2> QED
    BY <2>2 DEF l
<1>8. n < Len(v) /\ n \in Nat
  BY <1>2
<1>6. ASSUME d.es[d.at][v[n + 1]].present, d.es[d.at][v[n + 1]].large PROVE FALSE
  <2>1. Len(pre[d.at]) = 2
    BY <1>3, <1>4, <1>6, ZenonT(40) DEF Tree
  <2>2. n = 2
    BY <2>1, <1>5, Zenon
  <2>3. Len(v) = 4 /\ n + 1 = 3
    BY <2>2, <1>7
  <2>4. Append(pre[d.at], v[n + 1]) \in DOMAIN map
    BY <1>3, <1>4, <1>6, Zenon DEF Entered, Ends
  <2>5. Append(Prefix(v, n), v[n + 1]) = Prefix(v, n + 1)
    BY <1>2, <1>8, NextPrefix, ZenonT(40)
  <2> QED
    BY <2>3, <2>4, <2>5, <1>1, <1>4, Zenon
<1> QED
  BY <1>2, <1>3, <1>4, <1>5, <1>6 DEF Looks

\* A level whose entry is present: its flags grow.
LEMMA DownOpen ==
    ASSUME Memory, NEW es, NEW way, NEW v, NEW m, NEW map, NEW k, NEW fresh, NEW d, NEW live, NEW pre,
           Ready(es, way, v, m, map, k, fresh), NEW n \in 0..2, n + 2 <= Len(v),
           DownIn(es, way, d, v, m, n, map, k, live, pre), d.es[d.at][v[n + 1]].present
    PROVE  DownIn(es, way, Level(d, v, m.flags, n + 1, fresh), v, m, n + 1, map, k, live, pre)
<1> DEFINE x == v[n + 1]
           old == d.es[d.at][x]
           new == [d.es EXCEPT ![d.at][x].flags = Grant(@, m.flags)]
           e == Level(d, v, m.flags, n + 1, fresh)
<1>1. v \in Seq(Index) /\ x \in Index /\ d.at \in Tables /\ Len(pre[d.at]) = n /\ ~(old.present /\ old.large) /\ n \in 0..2
  <2>1. Looks(d, v, pre, n)
    BY NoLarge
  <2> QED
    BY <2>1 DEF Looks
<1>2. e = [es |-> new, at |-> old.to, took |-> d.took]
  BY <1>1 DEF Level
<1>3. e.es = new /\ e.at = old.to /\ e.took = d.took
  BY <1>2, SMTT(30)
<1>4. /\ Tree(d.es, live, pre) /\ d.at \in live /\ d.took \in Nat /\ pre[d.at] = Prefix(v, n) /\ Typed(d.es)
      /\ Mid(d.es, live, pre, map, k + d.took, d.at) /\ live \subseteq Tables
  BY SMTT(30) DEF DownIn, Mid, Tree
<1>5. Open(old) /\ Len(pre[d.at]) < 3
  BY <1>1 DEF Open
<1>6. Granted(new, d.es, live, pre, m.flags)
  <2>1. m.flags \subseteq {"write", "user", "nx"}
    BY Zenon DEF Ready, Memory
  <2>2. old \in [present : BOOLEAN, flags : SUBSET {"write", "user", "nx"}, large : BOOLEAN, to : Tables \cup Frames]
    BY <1>1, <1>4, EntryTyped
  <2>3. [old EXCEPT !.flags = @ \cup (m.flags \ {"nx"})]
            \in [present : BOOLEAN, flags : SUBSET {"write", "user", "nx"}, large : BOOLEAN, to : Tables \cup Frames]
    <3> HIDE DEF old
    <3> QED
      BY <2>1, <2>2
  <2>4. Typed(new)
    <3> HIDE DEF x
    <3> QED
      BY <2>3, <1>1, <1>4, Zenon DEF Typed, Grant
  <2>5. \A s \in Tables, i \in Index :
          new[s][i] = IF s = d.at /\ i = x THEN [old EXCEPT !.flags = @ \cup (m.flags \ {"nx"})] ELSE d.es[s][i]
    <3> HIDE DEF x
    <3> QED
      BY <1>1, <1>4 DEF Typed, Grant
  <2> HIDE DEF new
  <2> QED
    BY <2>4, <2>5, <1>4, <1>5, Zenon DEF Granted
<1>7. Mid(new, live, pre, map, k + d.took, d.at)
  <2> HIDE DEF new
  <2> QED
    BY <1>4, <1>6, GrantedMid, Zenon
<1>8. Leads(d.es, live, pre, d.at, x)
  BY <1>1, <1>4, <1>5, Below, Zenon
<1>9. old.to \in live /\ pre[old.to] = Prefix(v, n + 1)
  <2>1. n < Len(v) /\ n \in Nat
    BY <1>1
  <2>2. Append(Prefix(v, n), x) = Prefix(v, n + 1)
    BY <2>1, <1>1, NextPrefix
  <2> QED
    BY <2>2, <1>4, <1>8, Zenon DEF Leads
<1>10. Mid(new, live, pre, map, k + d.took, old.to)
  <2>1. \A s \in live \ {old.to} : Len(pre[s]) = 3 => ~Empty(new[s])
    <3>1. \A s \in live \ {d.at} : Len(pre[s]) = 3 => ~Empty(new[s])
      BY <1>7, Zenon DEF Mid
    <3>2. Len(pre[d.at]) # 3
      BY <1>1
    <3> QED
      BY <3>1, <3>2, Zenon
  <2> QED
    BY <2>1, <1>7, Zenon DEF Mid
<1>11. v \in Pages \cup LargePages /\ n + 1 < Len(v)
  BY <1>1 DEF Ready
<1>12. new[d.at][x].present /\ ~new[d.at][x].large /\ m.flags \ {"nx"} \subseteq new[d.at][x].flags
  <2>1. old \in [present : BOOLEAN, flags : SUBSET {"write", "user", "nx"}, large : BOOLEAN, to : Tables \cup Frames]
    BY <1>1, <1>4, EntryTyped
  <2>2. new[d.at][x] = [old EXCEPT !.flags = @ \cup (m.flags \ {"nx"})]
    <3> HIDE DEF x
    <3> QED
      BY <1>1, <1>4 DEF Typed, Grant
  <2> HIDE DEF new, old
  <2> QED
    BY <2>1, <2>2, <1>5 DEF Open
<1>13. ASSUME NEW j \in 1..(n + 1) PROVE EnteredAt(new, live, pre, v, m, j)
  <2>1. CASE j = n + 1
    <3>1. pre[d.at] = Prefix(v, j - 1) /\ v[j] = x /\ j < Len(v)
      BY <2>1, <1>1, <1>4, <1>11
    <3> HIDE DEF new, x
    <3> QED
      BY <3>1, <1>4, <1>12 DEF EnteredAt, Open
  <2>2. CASE j # n + 1
    <3>1. j \in 1..n /\ j \in 1..Len(v)
      BY <2>2, <1>1, <1>11
    <3>2. EnteredAt(d.es, live, pre, v, m, j)
      BY <3>1, Zenon DEF DownIn
    <3> QED
      BY <3>1, <3>2, <1>4, <1>6, <1>11, GrantedEntered, Zenon
  <2> QED
    BY <2>1, <2>2
<1>14. d.took = 0
  <2>1. d.took > 0 => Empty(d.es[d.at])
    BY DEF DownIn
  <2> QED
    BY <2>1, <1>1, <1>4 DEF Empty
<1>15. n < Len(way) /\ d.at = way[n + 1] /\ Alike(d.es, es)
  BY <1>14 DEF DownIn
<1>16. Alike(new, es)
  <2>1. \A s \in Tables, i \in Index : new[s][i].present = d.es[s][i].present /\ new[s][i].large = d.es[s][i].large
                                       /\ new[s][i].to = d.es[s][i].to
    <3> HIDE DEF new
    <3> QED
      BY <1>4, <1>6, GrantedParts, SMTT(30)
  <2> HIDE DEF new
  <2> QED
    BY <2>1, <1>15, SMTT(30) DEF Alike
<1>17. n + 1 < Len(way) /\ old.to = way[n + 2]
  <2>1. Open(es[way[n + 1]][v[n + 1]]) /\ es[way[n + 1]][v[n + 1]].to = old.to
    BY <1>1, <1>5, <1>15, SMTT(30) DEF Alike, Open
  <2>2. /\ Len(way) \in 1..Len(v)
        /\ \A j \in 1..(Len(way) - 1) : Open(es[way[j]][v[j]]) /\ way[j + 1] = es[way[j]][v[j]].to
        /\ Len(way) < Len(v) => ~Open(es[way[Len(way)]][v[Len(way)]])
    BY SMTT(30) DEF Ready, IsWay
  <2>3. n + 1 # Len(way)
    BY <2>1, <2>2, <1>11
  <2>4. n + 1 \in 1..(Len(way) - 1) /\ (n + 1) + 1 = n + 2
    BY <2>2, <2>3, <1>1, <1>15
  <2>5. way[(n + 1) + 1] = es[way[n + 1]][v[n + 1]].to
    BY <2>2, <2>4
  <2> QED
    BY <2>1, <2>2, <2>4, <2>5, SMTT(30)
<1>18. n \in Nat /\ (n + 1) + 1 = n + 2
  BY <1>1
<1> HIDE DEF e, new, old, x
<1> QED
  BY <1>3, <1>4, <1>9, <1>10, <1>13, <1>14, <1>16, <1>17, <1>18, SMTT(30) DEF DownIn, e

\* The table that the step takes.
LEMMA DownTakes ==
    ASSUME Memory, NEW es, NEW way, NEW v, NEW m, NEW map, NEW k, NEW fresh, NEW d, NEW live, NEW pre,
           Ready(es, way, v, m, map, k, fresh), NEW n \in 0..2, n + 2 <= Len(v),
           DownIn(es, way, d, v, m, n, map, k, live, pre), ~d.es[d.at][v[n + 1]].present
    PROVE  /\ d.took + 1 = (n + 1) - Len(way) + 1 /\ n + 1 >= Len(way)
           /\ fresh[d.took + 1] = (k + d.took) + 1 /\ (k + d.took) + 1 <= TableCount
<1> DEFINE l == Len(way)
           lv == Len(v)
           t == d.took
<1>1. v \in Pages \cup LargePages /\ k \in Nat /\ k + (lv - l) <= TableCount
  BY DEF Ready
<1>2. lv \in Nat /\ n + 2 <= lv
  BY <1>1 DEF Memory
<1>3. /\ l \in 1..lv /\ \A j \in 1..(l - 1) : Open(es[way[j]][v[j]])
  BY DEF Ready, IsWay
<1>4. t \in Nat /\ TableCount \in Nat
  BY DEF DownIn, Memory
<1>5. t + 1 = (n + 1) - l + 1 /\ n + 1 >= l
  <2>1. CASE t = 0
    <3>1. n < l /\ d.at = way[n + 1] /\ Alike(d.es, es)
      BY <2>1 DEF DownIn
    <3>2. v[n + 1] \in Index /\ d.at \in Tables
      <4>1. Looks(d, v, pre, n)
        BY NoLarge, Zenon
      <4> QED
        BY <4>1 DEF Looks
    <3>3. ~Open(es[way[n + 1]][v[n + 1]])
      BY <3>1, <3>2 DEF Alike, Open
    <3> HIDE DEF l, lv, t
    <3>4. l = n + 1
      BY <3>1, <3>3, <1>2, <1>3
    <3> QED
      BY <3>4, <2>1, <1>2
  <2>2. CASE t > 0
    <3>1. n >= l /\ t = n - l + 1
      BY <2>2 DEF DownIn
    <3> HIDE DEF l, lv, t
    <3> QED
      BY <3>1, <1>2, <1>3
  <2> QED
    BY <2>1, <2>2, <1>4
<1>6. t + 1 \in 1..(lv - l)
  <2> HIDE DEF l, lv, t
  <2> QED
    BY <1>2, <1>3, <1>4, <1>5
<1>7. fresh[t + 1] = k + (t + 1)
  BY <1>6 DEF Ready
<1> HIDE DEF l, lv, t
<1>8. (k + t) + 1 <= TableCount /\ k + (t + 1) = (k + t) + 1
  BY <1>1, <1>2, <1>3, <1>4, <1>6
<1> QED
  BY <1>5, <1>7, <1>8 DEF l, t

\* A level whose entry is not present: the next fresh table hangs there.
LEMMA DownAdd ==
    ASSUME Memory, NEW es, NEW way, NEW v, NEW m, NEW map, NEW k, NEW fresh, NEW d, NEW live, NEW pre,
           Ready(es, way, v, m, map, k, fresh), NEW n \in 0..2, n + 2 <= Len(v),
           DownIn(es, way, d, v, m, n, map, k, live, pre), ~d.es[d.at][v[n + 1]].present
    PROVE  \E l, p : DownIn(es, way, Level(d, v, m.flags, n + 1, fresh), v, m, n + 1, map, k, l, p)
<1> DEFINE x == v[n + 1]
           k0 == k + d.took
           t == k0 + 1
           new == [d.es EXCEPT ![d.at][x] = [present |-> TRUE, flags |-> m.flags \ {"nx"},
                                             large |-> FALSE, to |-> t],
                               ![t] = [i \in Index |-> None]]
           p == [pre EXCEPT ![t] = Append(pre[d.at], x)]
           e == Level(d, v, m.flags, n + 1, fresh)
<1>1. v \in Seq(Index) /\ x \in Index /\ d.at \in Tables /\ Len(pre[d.at]) = n /\ n \in 0..2
  <2>1. Looks(d, v, pre, n)
    BY NoLarge, Zenon
  <2> QED
    BY <2>1 DEF Looks
<1>2. /\ d.took + 1 = (n + 1) - Len(way) + 1 /\ n + 1 >= Len(way)
      /\ fresh[d.took + 1] = t /\ t <= TableCount
  BY DownTakes, Zenon
<1>3. e.es = new /\ e.at = t /\ e.took = d.took + 1
  <2> HIDE DEF t
  <2>1. e = [es |-> new, at |-> t, took |-> d.took + 1]
    BY <1>2, Zenon DEF Level
  <2> HIDE DEF new, e
  <2> QED
    BY <2>1
<1>4. /\ Tree(d.es, live, pre) /\ d.at \in live /\ d.took \in Nat /\ pre[d.at] = Prefix(v, n) /\ Typed(d.es)
      /\ Mid(d.es, live, pre, map, k0, d.at) /\ live \subseteq Tables /\ k \in Nat
      /\ pre \in [Tables -> Seq(Index)]
  BY Zenon DEF DownIn, Mid, Tree, Ready
<1>5. t \in Tables /\ t \notin live
  <2>1. live \subseteq 0..k0 /\ k0 \in Nat
    BY <1>4, Zenon DEF Mid
  <2> HIDE DEF k0
  <2> QED
    BY <2>1, <1>2 DEF Tables, Memory
<1>6. Room(d.es, live, pre, d.at, x, t)
  BY <1>1, <1>4, <1>5 DEF Room
<1>7. Added(new, d.es, d.at, x, m.flags, t)
  <2>5. 0 \in Tables
    BY DEF Memory, Tables
  <2>1. m.flags \subseteq {"write", "user", "nx"} /\ 0 \in Tables
    BY <2>5, Zenon DEF Ready, Memory
  <2>2. [present |-> TRUE, flags |-> m.flags \ {"nx"}, large |-> FALSE, to |-> t]
            \in [present : BOOLEAN, flags : SUBSET {"write", "user", "nx"}, large : BOOLEAN, to : Tables \cup Frames]
    <3> HIDE DEF t
    <3> QED
      BY <2>1, <1>5
  <2>3. None \in [present : BOOLEAN, flags : SUBSET {"write", "user", "nx"}, large : BOOLEAN, to : Tables \cup Frames]
    BY <2>1 DEF None
  <2>4. d.at # t
    BY <1>4, <1>5, SMTT(30)
  <2> HIDE DEF x, t
  <2> QED
    BY <2>2, <2>3, <2>4, <1>1, <1>4, <1>5, Zenon DEF Typed, Added
<1> HIDE DEF new, e
<1>8. Mid(new, live \cup {t}, p, map, t, t)
  BY <1>4, <1>6, <1>7, AddedMid, Zenon
<1>9. p[t] = Prefix(v, n + 1) /\ p[d.at] = pre[d.at]
  <2>1. n < Len(v) /\ n \in Nat
    BY <1>1
  <2>2. Append(Prefix(v, n), x) = Prefix(v, n + 1)
    BY <2>1, <1>1, NextPrefix, SMTT(30)
  <2> HIDE DEF t, x
  <2> QED
    BY <2>2, <1>4, <1>5
<1>10. /\ Open(new[d.at][x]) /\ new[d.at][x].flags = m.flags \ {"nx"}
       /\ \A i \in Index : ~new[t][i].present
  <2> HIDE DEF t, x
  <2> QED
    BY <1>6, <1>7, AddedParts
<1>11. v \in Pages \cup LargePages /\ n + 1 < Len(v)
  BY <1>1 DEF Ready
<1>12. ASSUME NEW j \in 1..(n + 1) PROVE EnteredAt(new, live \cup {t}, p, v, m, j)
  <2>1. CASE j = n + 1
    <3>1. p[d.at] = Prefix(v, j - 1) /\ v[j] = x /\ j < Len(v) /\ d.at \in live \cup {t}
      BY <2>1, <1>1, <1>4, <1>9, <1>11
    <3> HIDE DEF x, t, p
    <3> QED
      BY <3>1, <1>4, <1>10, <2>1, SMTT(30) DEF EnteredAt
  <2>2. CASE j # n + 1
    <3>1. j \in 1..n /\ j \in 1..Len(v)
      BY <2>2, <1>1, <1>11
    <3>2. EnteredAt(d.es, live, pre, v, m, j)
      BY <3>1, Zenon DEF DownIn
    <3> QED
      BY <3>1, <3>2, <1>6, <1>7, <1>11, AddedEntered, Zenon
  <2> QED
    BY <2>1, <2>2, SMTT(30)
<1>13. Empty(new[t])
  BY <1>10, SMTT(30) DEF Empty
<1>14. k + e.took = t /\ e.took \in Nat /\ e.took > 0 /\ e.took = (n + 1) - Len(way) + 1 /\ n + 1 >= Len(way)
  BY <1>2, <1>3, <1>4, SMTT(30)
<1> HIDE DEF t, x, p
<1>15. DownIn(es, way, e, v, m, n + 1, map, k, live \cup {t}, p)
  <2>1. e.took # 0
    BY <1>14
  <2>2. Mid(e.es, live \cup {t}, p, map, k + e.took, e.at) /\ Empty(e.es[e.at]) /\ p[e.at] = Prefix(v, n + 1)
    BY <1>3, <1>8, <1>9, <1>13, <1>14
  <2>3. \A j \in 1..(n + 1) : EnteredAt(e.es, live \cup {t}, p, v, m, j)
    BY <1>3, <1>12, Zenon
  <2>4. e.at \in live \cup {t}
    BY <1>3
  <2> QED
    BY <2>1, <2>2, <2>3, <2>4, <1>14, Zenon DEF DownIn
<1> QED
  BY <1>15 DEF e

\* Either way the descent goes on a level.
LEMMA DownStep ==
    ASSUME Memory, NEW es, NEW way, NEW v, NEW m, NEW map, NEW k, NEW fresh, NEW d,
           Ready(es, way, v, m, map, k, fresh), NEW n \in 0..2, n + 2 <= Len(v),
           Down(es, way, d, v, m, n, map, k)
    PROVE  Down(es, way, Level(d, v, m.flags, n + 1, fresh), v, m, n + 1, map, k)
<1>1. PICK live, pre : DownIn(es, way, d, v, m, n, map, k, live, pre)
  BY Zenon DEF Down
<1>2. CASE d.es[d.at][v[n + 1]].present
  BY <1>1, <1>2, DownOpen, Zenon DEF Down
<1>3. CASE ~d.es[d.at][v[n + 1]].present
  BY <1>1, <1>3, DownAdd, Zenon DEF Down
<1> QED
  BY <1>2, <1>3

\* Descend arrives at the table for the last index, with every level above
\* entered.
LEMMA DescendDown ==
    ASSUME Memory, NEW es, NEW way, NEW v, NEW m, NEW map, NEW k, NEW fresh, NEW live, NEW pre,
           Ready(es, way, v, m, map, k, fresh), Mid(es, live, pre, map, k, -1)
    PROVE  Down(es, way, Descend(es, v, m.flags, Len(v) - 1, fresh), v, m, Len(v) - 1, map, k)
<1>1. v \in Pages \cup LargePages /\ k \in Nat /\ IsWay(es, v, way, Len(v))
  BY DEF Ready
<1>2. v \in Seq(Index) /\ Len(v) \in {3, 4}
  BY <1>1 DEF Memory
<1> DEFINE S0 == Level0(es)
           S1 == Level(S0, v, m.flags, 1, fresh)
           S2 == Level(S1, v, m.flags, 2, fresh)
           S3 == Level(S2, v, m.flags, 3, fresh)
<1>3. S0.es = es /\ S0.at = 0 /\ S0.took = 0
  BY DEF Level0
<1> HIDE DEF S0
<1>4. Down(es, way, S0, v, m, 0, map, k)
  <2>1. 0 \in live /\ pre[0] = <<>> /\ Prefix(v, 0) = <<>>
    BY <1>2, Prefixes DEF Mid, Tree
  <2>2. Len(way) > 0 /\ way[0 + 1] = 0
    BY <1>1, <1>2 DEF IsWay
  <2>3. Mid(es, live, pre, map, k + 0, 0)
    <3>1. \A s \in live \ {0} : s \in live \ {-1}
      <4>1. live \subseteq 0..k
        BY DEF Mid
      <4> QED
        BY <4>1, <1>1
    <3>2. k + 0 = k
      BY <1>1
    <3> QED
      BY <3>1, <3>2, Zenon DEF Mid
  <2>4. Alike(es, es)
    BY DEF Alike
  <2>5. DownIn(es, way, S0, v, m, 0, map, k, live, pre)
    BY <2>1, <2>2, <2>3, <2>4, <1>3 DEF DownIn
  <2> QED
    BY <2>5 DEF Down
<1>5. /\ 0 + 2 <= Len(v) /\ 1 + 2 <= Len(v) /\ (Len(v) = 4 => 2 + 2 <= Len(v))
      /\ 0 \in 0..2 /\ 1 \in 0..2 /\ 2 \in 0..2 /\ 0 + 1 = 1 /\ 1 + 1 = 2 /\ 2 + 1 = 3
  BY <1>2, SMTT(30)
<1>6. Down(es, way, Level(S0, v, m.flags, 0 + 1, fresh), v, m, 0 + 1, map, k)
  BY <1>4, <1>5, DownStep
<1>7. Down(es, way, S1, v, m, 1, map, k)
  BY <1>5, <1>6
<1> HIDE DEF S1
<1>8. Down(es, way, Level(S1, v, m.flags, 1 + 1, fresh), v, m, 1 + 1, map, k)
  BY <1>5, <1>7, DownStep
<1>9. Down(es, way, S2, v, m, 2, map, k)
  BY <1>5, <1>8
<1> HIDE DEF S2
<1>10. CASE Len(v) = 3
  BY <1>9, <1>10, DescendUnrolled DEF Level2, S0, S1, S2
<1>11. CASE Len(v) = 4
  <2>1. Down(es, way, Level(S2, v, m.flags, 2 + 1, fresh), v, m, 2 + 1, map, k)
    BY <1>5, <1>9, <1>11, DownStep
  <2>2. Down(es, way, S3, v, m, 3, map, k)
    BY <1>5, <2>1
  <2> QED
    BY <2>2, <1>11, DescendUnrolled DEF Level3, Level2, S0, S1, S2
<1> QED
  BY <1>2, <1>10, <1>11

-----------------------------------------------------------------------------
(***************************************************************************)
(* The entry for the page itself.                                          *)
(***************************************************************************)

\* The last index of a page, and the one before.
LEMMA LastLevel ==
    ASSUME NEW v \in Seq(Index), NEW n \in 1..Len(v)
    PROVE  /\ v[n] \in Index /\ n - 1 \in 0..Len(v) /\ n - 1 \in Nat /\ n - 1 < Len(v)
           /\ (n - 1) + 1 = n /\ n \in Nat
<1>1. Len(v) \in Nat /\ v[n] \in Index
  OBVIOUS
<1> DEFINE l == Len(v)
<1> HIDE DEF l
<1>2. l \in Nat /\ n \in 1..l
  BY <1>1 DEF l
<1>3. n - 1 \in 0..l /\ n - 1 \in Nat /\ n - 1 < l /\ (n - 1) + 1 = n /\ n \in Nat
  BY <1>2
<1> QED
  BY <1>1, <1>3 DEF l

\* No other page has the entry for v on its way.
LEMMA OwnEntry ==
    ASSUME Memory, NEW v \in Pages \cup LargePages, NEW w \in Pages \cup LargePages,
           w # v /\ Len(v) = 3 => Prefix(w, 3) # v, NEW n \in 1..Len(w),
           Prefix(w, n - 1) = Prefix(v, Len(v) - 1), w[n] = v[Len(v)]
    PROVE  w = v /\ n = Len(v)
<1> DEFINE lv == Len(v)
           lw == Len(w)
<1>1. v \in Seq(Index) /\ w \in Seq(Index) /\ lv \in {3, 4} /\ lw \in {3, 4}
  BY DEF Memory
<1>2. Prefix(v, lv) = v /\ Prefix(w, lw) = w
  BY <1>1, Prefixes
<1>3. n - 1 \in 0..Len(w) /\ lv - 1 \in 0..Len(v) /\ n - 1 \in Nat /\ lv - 1 \in Nat /\ n - 1 < Len(w) /\ lv - 1 < Len(v)
  <2>1. lv \in 1..Len(v)
    <3>1. \A l \in {3, 4} : l \in 1..l
      OBVIOUS
    <3> QED
      BY <3>1, <1>1, Zenon
  <2>2. n - 1 \in 0..Len(w) /\ n - 1 \in Nat /\ n - 1 < Len(w)
    BY <1>1, LastLevel
  <2>3. lv - 1 \in 0..Len(v) /\ lv - 1 \in Nat /\ lv - 1 < Len(v)
    <3> HIDE DEF lv
    <3> QED
      BY <2>1, <1>1, LastLevel
  <2> QED
    BY <2>2, <2>3
<1>4. Len(Prefix(w, n - 1)) = n - 1 /\ Len(Prefix(v, lv - 1)) = lv - 1
  <2> HIDE DEF lv
  <2>1. Len(Prefix(w, n - 1)) = n - 1
    BY <1>1, <1>3, PrefixLen
  <2>2. Len(Prefix(v, lv - 1)) = lv - 1
    BY <1>1, <1>3, PrefixLen, SMTT(30)
  <2> QED
    BY <2>1, <2>2
<1>5. n - 1 = lv - 1
  BY <1>4
<1>6. n = lv /\ (n - 1) + 1 = n /\ (lv - 1) + 1 = lv
  <2> HIDE DEF lv
  <2> QED
    BY <1>1, <1>5
<1>7. Append(Prefix(w, n - 1), w[(n - 1) + 1]) = Prefix(w, (n - 1) + 1)
  BY <1>1, <1>3, NextPrefix
<1>8. Append(Prefix(v, lv - 1), v[(lv - 1) + 1]) = Prefix(v, (lv - 1) + 1)
  <2> HIDE DEF lv
  <2> QED
    BY <1>1, <1>3, NextPrefix, SMTT(30)
<1>9. Prefix(w, n) = v
  BY <1>2, <1>6, <1>7, <1>8
<1>10. CASE w = v
  BY <1>6, <1>10
<1>11. CASE w # v
  <2>1. n \in 1..lw
    OBVIOUS
  <2>2. lv # 3
    BY <1>6, <1>9, <1>11, Zenon
  <2> HIDE DEF lv, lw
  <2>3. n = lw
    BY <2>1, <2>2, <1>1, <1>6
  <2> QED
    BY <2>3, <1>2, <1>6, <1>9 DEF lv
<1> QED
  BY <1>10, <1>11

\* The entries after the write, slot x of table at.
Written(new, es, at, x, e) ==
    /\ Typed(new) /\ new[at][x] = e
    /\ \A s \in Tables, i \in Index : s # at \/ i # x => new[s][i] = es[s][i]

\* The place of the write.
Slot(es, live, pre, map, at, v) ==
    /\ Tree(es, live, pre) /\ at \in live /\ pre[at] = Prefix(v, Len(v) - 1) /\ v \in Pages \cup LargePages
    /\ Len(v) = 3 => ~Open(es[at][v[3]])
    /\ \A w \in DOMAIN map : Len(v) = 3 => Prefix(w, 3) # v

\* The table and the index of the write.
LEMMA SlotParts ==
    ASSUME Memory, NEW es, NEW live, NEW pre, NEW map, NEW at, NEW v, Slot(es, live, pre, map, at, v)
    PROVE  /\ v \in Seq(Index) /\ Len(v) \in {3, 4} /\ v[Len(v)] \in Index /\ at \in Tables
           /\ Len(pre[at]) = Len(v) - 1 /\ Append(pre[at], v[Len(v)]) = v
<1> DEFINE lv == Len(v)
<1>1. v \in Pages \cup LargePages /\ at \in live /\ live \subseteq Tables /\ pre[at] = Prefix(v, lv - 1)
  BY DEF Slot, Tree
<1>2. v \in Seq(Index) /\ lv \in {3, 4}
  BY <1>1 DEF Memory
<1>3. v[lv] \in Index /\ lv - 1 \in 0..Len(v) /\ lv - 1 \in Nat /\ lv - 1 < Len(v) /\ (lv - 1) + 1 = lv
  <2>1. lv \in 1..Len(v)
    <3>1. \A l \in {3, 4} : l \in 1..l
      OBVIOUS
    <3> QED
      BY <3>1, <1>2
  <2> HIDE DEF lv
  <2> QED
    BY <2>1, <1>2, LastLevel
<1>4. Prefix(v, lv) = v
  BY <1>2, Prefixes
<1> HIDE DEF lv
<1>5. Len(Prefix(v, lv - 1)) = lv - 1
  BY <1>2, <1>3, PrefixLen
<1>6. Append(Prefix(v, lv - 1), v[(lv - 1) + 1]) = Prefix(v, (lv - 1) + 1)
  BY <1>2, <1>3, NextPrefix
<1>7. Append(pre[at], v[lv]) = v
  BY <1>1, <1>3, <1>4, <1>6
<1> QED
  BY <1>1, <1>2, <1>3, <1>5, <1>7, Zenon DEF lv

\* The path of the table is the page's without its last index.
SlotAt(pre, at, v) ==
    /\ v \in Seq(Index) /\ v[Len(v)] \in Index /\ at \in Tables
    /\ Len(pre[at]) = Len(v) - 1 /\ Append(pre[at], v[Len(v)]) = v

\* That is where the write goes.
LEMMA SlotPlace ==
    ASSUME Memory, NEW es, NEW live, NEW pre, NEW map, NEW at, NEW v, Slot(es, live, pre, map, at, v)
    PROVE  SlotAt(pre, at, v)
  BY SlotParts DEF SlotAt

\* The entry written for a page leaves the tree as it is,
LEMMA WrittenTree ==
    ASSUME Memory, NEW es, NEW live, NEW pre, NEW map, NEW at, NEW v, NEW m, NEW new,
           Slot(es, live, pre, map, at, v), Written(new, es, at, v[Len(v)], LeafOf(v, m))
    PROVE  Tree(new, live, pre)
<1> DEFINE x == v[Len(v)]
<1>1. /\ v \in Seq(Index) /\ Len(v) \in {3, 4} /\ x \in Index /\ at \in Tables /\ Len(pre[at]) = Len(v) - 1
  BY SlotParts
<1>2. /\ Tree(es, live, pre) /\ at \in live /\ live \subseteq Tables /\ (Len(v) = 3 => ~Open(es[at][v[3]]))
      /\ Typed(new)
  BY SMTT(30) DEF Slot, Tree, Written
<1>3. new[at][x] = LeafOf(v, m) /\ \A s \in live, i \in Index : s # at \/ i # x => new[s][i] = es[s][i]
  BY <1>2 DEF Written
<1>4. LeafOf(v, m).large = (Len(v) = 3) /\ LeafOf(v, m).present
  BY LeafParts
<1>5. ~(Open(new[at][x]) /\ Len(pre[at]) < 3) /\ ~(Open(es[at][x]) /\ Len(pre[at]) < 3)
      /\ (new[at][x].large => Len(pre[at]) = 2)
  <2>1. CASE Len(v) = 3
    <3>1. Len(pre[at]) = 2 /\ x = v[3]
      BY <2>1, <1>1
    <3> QED
      BY <3>1, <2>1, <1>2, <1>3, <1>4, Zenon DEF Open
  <2>2. CASE Len(v) = 4
    <3>1. Len(pre[at]) = 3 /\ ~(Len(v) = 3)
      BY <2>2, <1>1
    <3>2. ~(Len(pre[at]) < 3)
      BY <3>1
    <3> QED
      BY <3>1, <3>2, <1>3, <1>4, Zenon
  <2> QED
    BY <2>1, <2>2, <1>1
<1> HIDE DEF x
<1>6. /\ \A s \in live, i \in Index : Open(es[s][i]) /\ Len(pre[s]) < 3 => Leads(es, live, pre, s, i)
      /\ \A s \in live, i \in Index : es[s][i].present /\ es[s][i].large => Len(pre[s]) = 2
      /\ \A t \in live \ {0} : \E s \in live, i \in Index : Open(es[s][i]) /\ Len(pre[s]) < 3 /\ es[s][i].to = t
  BY <1>2, Zenon DEF Tree
<1>7. ASSUME NEW s \in live, NEW i \in Index, Open(new[s][i]), Len(pre[s]) < 3 PROVE Leads(new, live, pre, s, i)
  <2>1. new[s][i] = es[s][i]
    BY <1>3, <1>5, <1>7
  <2>2. Leads(es, live, pre, s, i)
    BY <2>1, <1>6, <1>7
  <2> QED
    BY <2>1, <2>2, Zenon DEF Leads
<1>8. ASSUME NEW s \in live, NEW i \in Index, new[s][i].present, new[s][i].large PROVE Len(pre[s]) = 2
  <2>1. CASE s = at /\ i = x
    BY <2>1, <1>5, <1>8, SMTT(30)
  <2>2. CASE s # at \/ i # x
    BY <2>2, <1>3, <1>6, <1>8
  <2> QED
    BY <2>1, <2>2
<1>9. ASSUME NEW t \in live \ {0}
      PROVE  \E s \in live, i \in Index : Open(new[s][i]) /\ Len(pre[s]) < 3 /\ new[s][i].to = t
  <2>1. PICK s \in live, i \in Index : Open(es[s][i]) /\ Len(pre[s]) < 3 /\ es[s][i].to = t
    BY <1>6
  <2>2. new[s][i] = es[s][i]
    BY <2>1, <1>3, <1>5, SMTT(30)
  <2> QED
    BY <2>1, <2>2
<1> QED
  BY <1>2, <1>7, <1>8, <1>9, Zenon DEF Tree

\* and the other pages entered.
LEMMA WrittenEntered ==
    ASSUME Memory, NEW es, NEW live, NEW pre, NEW map, NEW at, NEW v, NEW e, NEW new,
           Slot(es, live, pre, map, at, v), Written(new, es, at, v[Len(v)], e),
           NEW w \in Pages \cup LargePages, NEW m, NEW n \in 1..Len(w), EnteredAt(es, live, pre, w, m, n),
           w # v /\ Len(v) = 3 => Prefix(w, 3) # v, ~(w = v /\ n = Len(v))
    PROVE  EnteredAt(new, live, pre, w, m, n)
<1>1. PICK s \in live :
        /\ pre[s] = Prefix(w, n - 1)
        /\ IF n < Len(w) THEN Open(es[s][w[n]]) /\ m.flags \ {"nx"} \subseteq es[s][w[n]].flags
           ELSE es[s][w[n]] = LeafOf(w, m)
  BY Zenon DEF EnteredAt
<1>2. w[n] \in Index /\ s \in Tables
  <2>1. w[n] \in Index
    BY DEF Memory
  <2> QED
    BY <2>1 DEF Slot, Tree
<1>3. ~(s = at /\ w[n] = v[Len(v)])
  <2>1. v \in Pages \cup LargePages /\ pre[at] = Prefix(v, Len(v) - 1)
    BY DEF Slot
  <2>2. SUFFICES ASSUME s = at, w[n] = v[Len(v)] PROVE FALSE
    OBVIOUS
  <2>3. Prefix(w, n - 1) = Prefix(v, Len(v) - 1)
    BY <2>1, <2>2, <1>1
  <2>4. w = v /\ n = Len(v)
    BY <2>1, <2>2, <2>3, OwnEntry, Zenon
  <2> QED
    BY <2>4
<1>4. new[s][w[n]] = es[s][w[n]]
  BY <1>2, <1>3, Zenon DEF Written
<1> QED
  BY <1>1, <1>4, SMTT(30) DEF EnteredAt

\* The reference with page v mapped as m says.
Put(map, v, m) == [w \in DOMAIN map \cup {v} |-> IF w = v THEN m ELSE map[w]]

\* After the write the page is in the reference and no table of the last level
\* is empty.
LEMMA WrittenMid ==
    ASSUME Memory, NEW es, NEW live, NEW pre, NEW map, NEW k, NEW at, NEW v, NEW m, NEW new,
           Mid(es, live, pre, map, k, at), Slot(es, live, pre, map, at, v),
           Written(new, es, at, v[Len(v)], LeafOf(v, m)), m.frame \in Frames, m.flags \in Flags,
           \A j \in 1..(Len(v) - 1) : EnteredAt(es, live, pre, v, m, j)
    PROVE  Mid(new, live, pre, Put(map, v, m), k, -1)
<1> DEFINE x == v[Len(v)]
           map2 == Put(map, v, m)
<1>1. /\ v \in Seq(Index) /\ Len(v) \in {3, 4} /\ x \in Index /\ at \in Tables
      /\ Len(pre[at]) = Len(v) - 1 /\ Append(pre[at], x) = v
  BY SlotParts, SMTT(30)
<1>2. /\ at \in live /\ live \subseteq Tables /\ v \in Pages \cup LargePages /\ pre[at] = Prefix(v, Len(v) - 1)
      /\ \A w \in DOMAIN map : Len(v) = 3 => Prefix(w, 3) # v
  BY SMTT(30) DEF Slot, Tree
<1>3. /\ new[at][x] = LeafOf(v, m)
      /\ \A s \in Tables, i \in Index : s # at \/ i # x => new[s][i] = es[s][i]
  BY DEF Written
<1>4. LeafOf(v, m).present
  BY LeafParts
<1>5. Tree(new, live, pre)
  BY WrittenTree
<1>6. /\ Entered(es, live, pre, map) /\ k \in Nat /\ k <= TableCount /\ live \subseteq 0..k
      /\ \A s \in (0..k) \ live : Empty(es[s])
      /\ \A s \in live \ {at} : Len(pre[s]) = 3 => ~Empty(es[s])
  BY DEF Mid
<1>7. DOMAIN map2 = DOMAIN map \cup {v} /\ map2[v] = m /\ \A w \in DOMAIN map : w # v => map2[w] = map[w]
  BY DEF Put
<1> HIDE DEF map2, x
<1>8. ASSUME NEW w \in DOMAIN map2
      PROVE  /\ w \in Pages \cup LargePages /\ map2[w].frame \in Frames /\ map2[w].flags \in Flags
             /\ \A n \in 1..Len(w) : EnteredAt(new, live, pre, w, map2[w], n)
  <2>1. CASE w = v
    <3>1. ASSUME NEW n \in 1..Len(v) PROVE EnteredAt(new, live, pre, v, m, n)
      <4>1. CASE n = Len(v)
        <5>1. ~(n < Len(v))
          BY <4>1, <1>1
        <5> QED
          BY <5>1, <4>1, <1>2, <1>3 DEF EnteredAt, x
      <4>2. CASE n # Len(v)
        <5>1. n \in 1..(Len(v) - 1)
          BY <4>2, <1>1
        <5>2. EnteredAt(es, live, pre, v, m, n)
          BY <5>1, SMTT(30)
        <5> QED
          BY <5>2, <4>2, <1>2, WrittenEntered, Zenon
      <4> QED
        BY <4>1, <4>2, SMTT(30)
    <3> QED
      BY <2>1, <3>1, <1>2, <1>7
  <2>2. CASE w # v
    <3>1. w \in DOMAIN map /\ map2[w] = map[w]
      BY <2>2, <1>7
    <3>2. /\ w \in Pages \cup LargePages /\ map[w].frame \in Frames /\ map[w].flags \in Flags
          /\ \A n \in 1..Len(w) : EnteredAt(es, live, pre, w, map[w], n)
      BY <3>1, <1>6, Zenon DEF Entered
    <3>3. \A n \in 1..Len(w) : EnteredAt(new, live, pre, w, map[w], n)
      BY <3>1, <3>2, <2>2, <1>2, WrittenEntered, Zenon
    <3> QED
      BY <3>1, <3>2, <3>3
  <2> QED
    BY <2>1, <2>2, SMTT(30)
<1>9. ASSUME NEW s \in live, NEW i \in Index, Ends(new[s][i], Len(pre[s]))
      PROVE  Append(pre[s], i) \in DOMAIN map2
  <2>1. CASE s = at /\ i = x
    BY <2>1, <1>1, <1>7 DEF x
  <2>2. CASE ~(s = at /\ i = x)
    <3>1. Ends(es[s][i], Len(pre[s]))
      BY <2>2, <1>2, <1>3, <1>9
    <3>2. Append(pre[s], i) \in DOMAIN map
      BY <3>1, <1>6, Zenon DEF Entered
    <3> QED
      BY <3>2, <1>7, SMTT(30)
  <2> QED
    BY <2>1, <2>2
<1>10. Entered(new, live, pre, map2)
  BY <1>8, <1>9, Zenon DEF Entered
<1>11. ASSUME NEW s \in (0..k) \ live PROVE Empty(new[s])
  <2>1. s # at /\ s \in Tables
    BY <1>2, <1>6 DEF Tables, Memory
  <2>2. \A i \in Index : new[s][i] = es[s][i]
    BY <2>1, <1>3
  <2> QED
    BY <2>2, <1>6 DEF Empty
<1>12. ASSUME NEW s \in live \ {-1}, Len(pre[s]) = 3 PROVE ~Empty(new[s])
  <2>1. CASE s = at
    BY <2>1, <1>1, <1>3, <1>4, SMTT(30) DEF Empty, x
  <2>2. CASE s # at
    <3>1. \A i \in Index : new[s][i] = es[s][i]
      BY <2>2, <1>2, <1>3
    <3> QED
      BY <2>2, <3>1, <1>6, <1>12, SMTT(30) DEF Empty
  <2> QED
    BY <2>1, <2>2, SMTT(30)
<1>13. Mid(new, live, pre, map2, k, -1)
  BY <1>5, <1>6, <1>10, <1>11, <1>12, Zenon DEF Mid
<1> QED
  BY <1>13 DEF map2

-----------------------------------------------------------------------------
(***************************************************************************)
(* Enter.                                                                  *)
(***************************************************************************)

\* The inductive invariant: the tables are a tree that holds the reference,
\* and those in use are the first ones.
Inv ==
    /\ \E live, pre, k : Mid(entries, live, pre, mapped, k, -1) /\ used = 0..k
    /\ mapped = [w \in DOMAIN mapped |-> mapped[w]]
    /\ \A w \in DOMAIN mapped : mapped[w] \in [frame : Frames, flags : Flags]
    /\ panicked \in BOOLEAN

\* What Clear says of the prefixes.
LEMMA ClearApart ==
    ASSUME Memory, NEW v \in Pages \cup LargePages, Clear(v)
    PROVE  /\ Len(v) = 4 => Prefix(v, 3) \notin DOMAIN mapped
           /\ Len(v) = 3 => \A w \in DOMAIN mapped : Prefix(w, 3) # v
<1>1. v \in Seq(Index) /\ Len(v) \in {3, 4}
  BY DEF Memory
<1>2. \A w \in DOMAIN mapped : Prefix(w, 3) = Prefix(v, 3) => Len(w) = 4 /\ Len(v) = 4
  BY Zenon DEF Clear, Prefix
<1>3. ASSUME Len(v) = 3 PROVE \A w \in DOMAIN mapped : Prefix(w, 3) # v
  <2>1. Prefix(v, 3) = v
    BY <1>1, <1>3, Prefixes, Zenon
  <2>2. 3 # 4
    OBVIOUS
  <2> QED
    BY <2>1, <2>2, <1>2, <1>3, Zenon
<1>4. ASSUME Len(v) = 4 PROVE Prefix(v, 3) \notin DOMAIN mapped
  <2> DEFINE w == Prefix(v, 3)
  <2>1. 3 \in 0..Len(v)
    BY <1>4
  <2>2. w \in Seq(Index) /\ Len(w) = 3
    BY <2>1, <1>1, Prefixes, Zenon
  <2> HIDE DEF w
  <2>3. Prefix(w, 3) = w
    <3>1. Prefix(w, Len(w)) = w
      BY <2>2, Prefixes, Zenon
    <3> QED
      BY <3>1, <2>2
  <2>4. 3 # 4
    OBVIOUS
  <2> QED
    BY <2>2, <2>3, <2>4, <1>2, Zenon DEF w
<1> QED
  BY <1>3, <1>4

\* A path with one more index.
LEMMA AppendParts ==
    ASSUME NEW p \in Seq(Index), NEW i \in Index
    PROVE  Append(p, i) \in Seq(Index) /\ Len(Append(p, i)) = Len(p) + 1 /\ Append(p, i)[Len(p) + 1] = i
  OBVIOUS

\* A page starts with the indices before its last.
LEMMA FirstThree ==
    ASSUME NEW v \in Seq(Index), Len(v) = 3, NEW i \in Index
    PROVE  Prefix(Append(v, i), 3) = v
<1> DEFINE w == Append(v, i)
<1>1. w \in Seq(Index) /\ Len(w) = 4 /\ w[4] = i
  <2>1. w \in Seq(Index) /\ Len(w) = Len(v) + 1 /\ w[Len(v) + 1] = i
    BY AppendParts, Zenon
  <2>2. Len(v) + 1 = 4
    OBVIOUS
  <2> QED
    BY <2>1, <2>2, Zenon
<1> HIDE DEF w
<1>2. 3 \in 0..Len(w) /\ 3 \in Nat /\ 3 < Len(w) /\ 3 + 1 = 4
  BY <1>1
<1>3. Prefix(w, 3) \in Seq(Index) /\ Prefix(w, 4) = w
  BY <1>1, <1>2, Prefixes, Zenon
<1>4. Append(Prefix(w, 3), w[3 + 1]) = Prefix(w, 3 + 1)
  BY <1>1, <1>2, NextPrefix, Zenon
<1>5. Append(Prefix(w, 3), i) = Append(v, i)
  BY <1>1, <1>2, <1>3, <1>4 DEF w
<1>6. Prefix(w, 3) = v
  BY <1>3, <1>5, LastIndex
<1> QED
  BY <1>6 DEF w

\* The entry for a large page leads to no table: the table would map a page
\* of its own.
LEMMA NothingBelow ==
    ASSUME NEW es, NEW live, NEW pre, NEW map, NEW k, NEW at, NEW v \in Seq(Index),
           Mid(es, live, pre, map, k, at), at \in live, pre[at] = Prefix(v, 2), Len(v) = 3,
           \A w \in DOMAIN map : Prefix(w, 3) # v
    PROVE  ~Open(es[at][v[3]])
<1>1. SUFFICES ASSUME Open(es[at][v[3]]) PROVE FALSE
  OBVIOUS
<1>2. Tree(es, live, pre) /\ Entered(es, live, pre, map)
  BY Zenon DEF Mid
<1>15. v[3] \in Index
  <2>1. 3 \in 1..Len(v)
    OBVIOUS
  <2> QED
    BY <2>1, LastLevel
<1>3. 2 \in 0..Len(v) /\ 2 \in Nat /\ 2 < Len(v) /\ 2 + 1 = 3
  BY <1>1
<1>4. Len(pre[at]) = 2
  BY <1>3, PrefixLen
<1>5. Len(pre[at]) < 3 /\ Len(pre[at]) # 3
  <2>1. 2 < 3 /\ 2 # 3
    OBVIOUS
  <2> QED
    BY <2>1, <1>4, Zenon
<1>6. Leads(es, live, pre, at, v[3])
  BY <1>1, <1>2, <1>5, <1>15, Below, Zenon
<1> DEFINE t == es[at][v[3]].to
<1>7. t \in live /\ pre[t] = Append(Prefix(v, 2), v[3])
  BY <1>6 DEF Leads
<1>8. Append(Prefix(v, 2), v[2 + 1]) = Prefix(v, 2 + 1)
  BY <1>3, NextPrefix, Zenon
<1>9. Prefix(v, 3) = v
  BY Prefixes, Zenon
<1>10. pre[t] = v
  BY <1>3, <1>7, <1>8, <1>9, Zenon
<1> HIDE DEF t
<1>11. t \in live \ {at} /\ Len(pre[t]) = 3
  BY <1>5, <1>7, <1>10, Zenon
<1>12. ~Empty(es[t])
  BY <1>11, Zenon DEF Mid
<1>13. PICK i \in Index : es[t][i].present
  BY <1>12, Zenon DEF Empty
<1>14. Append(pre[t], i) \in DOMAIN map
  BY <1>2, <1>11, <1>13, Zenon DEF Entered, Ends
<1> QED
  BY <1>10, <1>14, FirstThree

-----------------------------------------------------------------------------
(***************************************************************************)
(* unmap_page.                                                             *)
(***************************************************************************)

\* Table t is empty and hangs below entry i of table s.
Idle(es, live, pre, s, i, t) ==
    /\ Tree(es, live, pre) /\ s \in live /\ i \in Index /\ t \in live \ {0} /\ Empty(es[t])
    /\ Open(es[s][i]) /\ Len(pre[s]) < 3 /\ es[s][i].to = t

\* Entry i of table s is no longer present.
Cut(new, es, s, i) ==
    /\ Typed(new) /\ ~new[s][i].present
    /\ \A r \in Tables, j \in Index : r # s \/ j # i => new[r][j] = es[r][j]

\* No other table has that place, and nothing else leads there.
LEMMA IdleParts ==
    ASSUME NEW es, NEW live, NEW pre, NEW s, NEW i, NEW t, Idle(es, live, pre, s, i, t)
    PROVE  /\ live \subseteq Tables /\ s # t /\ pre[t] = Append(pre[s], i) /\ pre[s] \in Seq(Index)
           /\ \A j \in Index : ~es[t][j].present
           /\ \A r \in live : pre[r] = pre[t] => r = t
           /\ \A r \in live, j \in Index : Open(es[r][j]) /\ Len(pre[r]) < 3 /\ es[r][j].to = t => r = s /\ j = i
<1>1. /\ Tree(es, live, pre) /\ s \in live /\ i \in Index /\ t \in live /\ live \subseteq Tables
      /\ pre \in [Tables -> Seq(Index)] /\ Open(es[s][i]) /\ Len(pre[s]) < 3 /\ es[s][i].to = t
  BY DEF Idle, Tree
<1>2. \A j \in Index : ~es[t][j].present
  BY DEF Idle, Empty
<1>3. pre[s] \in Seq(Index) /\ s # t
  BY <1>1, <1>2 DEF Open
<1>4. Leads(es, live, pre, s, i)
  BY <1>1, Below, Zenon
<1>5. pre[t] = Append(pre[s], i)
  BY <1>1, <1>4 DEF Leads
<1>6. \A r, u \in live : pre[r] = pre[u] => r = u
  BY <1>1, Zenon DEF Tree
<1>7. ASSUME NEW r \in live, NEW j \in Index, Open(es[r][j]), Len(pre[r]) < 3, es[r][j].to = t
      PROVE  r = s /\ j = i
  <2>1. Leads(es, live, pre, r, j)
    BY <1>1, <1>7, Below, Zenon
  <2>2. Append(pre[r], j) = Append(pre[s], i) /\ pre[r] \in Seq(Index)
    BY <2>1, <1>1, <1>5, <1>7 DEF Leads
  <2>3. pre[r] = pre[s] /\ j = i
    BY <2>2, <1>1, <1>3, LastIndex
  <2> QED
    BY <2>3, <1>1, <1>6
<1> QED
  BY <1>1, <1>2, <1>3, <1>5, <1>6, <1>7

\* The tables without the idle one are a tree,
LEMMA CutTree ==
    ASSUME NEW es, NEW live, NEW pre, NEW s, NEW i, NEW t, NEW new,
           Idle(es, live, pre, s, i, t), Cut(new, es, s, i)
    PROVE  Tree(new, live \ {t}, pre)
<1>1. /\ live \subseteq Tables /\ s # t /\ \A j \in Index : ~es[t][j].present
      /\ \A r \in live, j \in Index : Open(es[r][j]) /\ Len(pre[r]) < 3 /\ es[r][j].to = t => r = s /\ j = i
  BY IdleParts
<1>2. /\ Tree(es, live, pre) /\ s \in live /\ i \in Index /\ t \in live \ {0} /\ Typed(new) /\ 0 \in live
  BY DEF Idle, Cut, Tree
<1>3. ~new[s][i].present /\ \A r \in live, j \in Index : r # s \/ j # i => new[r][j] = es[r][j]
  BY <1>1 DEF Cut
<1>4. /\ \A r \in live, j \in Index : Open(es[r][j]) /\ Len(pre[r]) < 3 => Leads(es, live, pre, r, j)
      /\ \A r \in live, j \in Index : es[r][j].present /\ es[r][j].large => Len(pre[r]) = 2
      /\ \A u \in live \ {0} : \E r \in live, j \in Index : Open(es[r][j]) /\ Len(pre[r]) < 3 /\ es[r][j].to = u
  BY <1>2, Zenon DEF Tree
<1>5. ASSUME NEW r \in live \ {t}, NEW j \in Index, Open(new[r][j]), Len(pre[r]) < 3
      PROVE  Leads(new, live \ {t}, pre, r, j)
  <2>1. ~(r = s /\ j = i)
    BY <1>3, <1>5 DEF Open
  <2>2. new[r][j] = es[r][j]
    BY <2>1, <1>3, SMTT(30)
  <2>3. Leads(es, live, pre, r, j) /\ es[r][j].to # t
    BY <2>1, <2>2, <1>1, <1>4, <1>5, SMTT(30)
  <2> QED
    BY <2>2, <2>3 DEF Leads
<1>6. ASSUME NEW r \in live \ {t}, NEW j \in Index, new[r][j].present, new[r][j].large PROVE Len(pre[r]) = 2
  <2>1. new[r][j] = es[r][j]
    BY <1>3, <1>6
  <2> QED
    BY <2>1, <1>4, <1>6
<1>7. ASSUME NEW u \in (live \ {t}) \ {0}
      PROVE  \E r \in live \ {t}, j \in Index : Open(new[r][j]) /\ Len(pre[r]) < 3 /\ new[r][j].to = u
  <2>1. PICK r \in live, j \in Index : Open(es[r][j]) /\ Len(pre[r]) < 3 /\ es[r][j].to = u
    BY <1>4
  <2>2. r # t
    BY <2>1, <1>1 DEF Open
  <2>3. ~(r = s /\ j = i)
    <3>1. es[s][i].to = t
      BY DEF Idle
    <3> QED
      BY <2>1, <3>1
  <2> QED
    BY <2>1, <2>2, <2>3, <1>3
<1>8. 0 \in live \ {t} /\ live \ {t} \subseteq Tables
  BY <1>1, <1>2
<1>9. \A r, u \in live \ {t} : pre[r] = pre[u] => r = u
  BY <1>2, Zenon DEF Tree
<1> QED
  BY <1>2, <1>5, <1>6, <1>7, <1>8, <1>9, Zenon DEF Tree

\* in which every page of the reference is entered as before,
LEMMA CutEntered ==
    ASSUME Memory, NEW es, NEW live, NEW pre, NEW map, NEW s, NEW i, NEW t, NEW new,
           Idle(es, live, pre, s, i, t), Cut(new, es, s, i), Entered(es, live, pre, map),
           NEW w \in DOMAIN map, NEW n \in 1..Len(w)
    PROVE  EnteredAt(new, live \ {t}, pre, w, map[w], n)
<1>1. /\ live \subseteq Tables /\ s # t /\ pre[t] = Append(pre[s], i) /\ pre[s] \in Seq(Index)
      /\ \A j \in Index : ~es[t][j].present
      /\ \A r \in live : pre[r] = pre[t] => r = t
  BY IdleParts
<1>2. w \in Pages \cup LargePages /\ \A j \in 1..Len(w) : EnteredAt(es, live, pre, w, map[w], j)
  BY Zenon DEF Entered
<1>3. w \in Seq(Index) /\ Len(w) \in {3, 4} /\ \A j \in 1..Len(w) : w[j] \in Index
  BY <1>2 DEF Memory
<1>4. \A j \in 1..Len(w) : \E r \in live :
        /\ pre[r] = Prefix(w, j - 1)
        /\ IF j < Len(w) THEN Open(es[r][w[j]]) /\ map[w].flags \ {"nx"} \subseteq es[r][w[j]].flags
           ELSE es[r][w[j]] = LeafOf(w, map[w])
  BY <1>2, Zenon DEF EnteredAt
<1>5. LeafOf(w, map[w]).present /\ LeafOf(w, map[w]).large = (Len(w) = 3)
  BY LeafParts
<1>6. \A j \in 1..Len(w) : \E r \in live \ {t} :
        /\ pre[r] = Prefix(w, j - 1)
        /\ IF j < Len(w) THEN Open(es[r][w[j]]) /\ map[w].flags \ {"nx"} \subseteq es[r][w[j]].flags
           ELSE es[r][w[j]] = LeafOf(w, map[w])
  BY <1>1, <1>3, <1>4, <1>5, Zenon DEF Open
<1>7. PICK r \in live \ {t} :
        /\ pre[r] = Prefix(w, n - 1)
        /\ IF n < Len(w) THEN Open(es[r][w[n]]) /\ map[w].flags \ {"nx"} \subseteq es[r][w[n]].flags
           ELSE es[r][w[n]] = LeafOf(w, map[w])
  BY <1>6
<1>8. ~(r = s /\ w[n] = i)
  <2>1. SUFFICES ASSUME r = s, w[n] = i PROVE FALSE
    OBVIOUS
  <2>2. /\ n - 1 \in 0..Len(w) /\ n - 1 \in Nat /\ n - 1 < Len(w) /\ (n - 1) + 1 = n
    BY <1>3, LastLevel
  <2>3. CASE n < Len(w)
    <3>1. n + 1 \in 1..Len(w) /\ (n + 1) - 1 = n
      BY <2>3, <1>3, SMTT(30)
    <3>2. PICK u \in live \ {t} : pre[u] = Prefix(w, (n + 1) - 1)
      BY <3>1, <1>6
    <3>3. Append(Prefix(w, n - 1), w[(n - 1) + 1]) = Prefix(w, (n - 1) + 1)
      BY <2>2, <1>3, NextPrefix, Zenon
    <3>4. pre[u] = pre[t]
      BY <3>1, <3>2, <3>3, <2>1, <2>2, <1>1, <1>7
    <3> QED
      BY <3>2, <3>4, <1>1
  <2>4. CASE ~(n < Len(w))
    <3>1. n = Len(w)
      BY <2>4, <1>3, SMTT(30)
    <3>2. Len(pre[s]) = n - 1 /\ Len(pre[s]) < 3 /\ Open(es[s][i])
      BY <2>1, <2>2, <1>3, <1>7, PrefixLen DEF Idle
    <3>3. Len(w) # 3
      BY <2>1, <2>4, <3>2, <1>5, <1>7, Zenon DEF Open
    <3> QED
      BY <3>1, <3>2, <3>3, <1>3, SMTT(30)
  <2> QED
    BY <2>3, <2>4
<1>9. new[r][w[n]] = es[r][w[n]]
  BY <1>1, <1>3, <1>8 DEF Cut
<1> QED
  BY <1>7, <1>9, SMTT(30) DEF EnteredAt

\* and only the table above may now be an empty one of the last level.
LEMMA CutMid ==
    ASSUME Memory, NEW es, NEW live, NEW pre, NEW map, NEW k, NEW s, NEW i, NEW t, NEW new,
           Mid(es, live, pre, map, k, t), Idle(es, live, pre, s, i, t), Cut(new, es, s, i)
    PROVE  Mid(new, live \ {t}, pre, map, k, s)
<1>1. /\ live \subseteq Tables /\ s # t /\ \A j \in Index : ~es[t][j].present
  BY IdleParts
<1>2. /\ Entered(es, live, pre, map) /\ k \in Nat /\ k <= TableCount /\ live \subseteq 0..k
      /\ \A r \in (0..k) \ live : Empty(es[r])
      /\ \A r \in live \ {t} : Len(pre[r]) = 3 => ~Empty(es[r])
  BY DEF Mid
<1>3. s \in live /\ t \in live /\ i \in Index /\ ~new[s][i].present
      /\ \A r \in Tables, j \in Index : r # s \/ j # i => new[r][j] = es[r][j]
  BY DEF Idle, Cut
<1>4. Tree(new, live \ {t}, pre)
  BY CutTree
<1>5. ASSUME NEW w \in DOMAIN map, NEW n \in 1..Len(w) PROVE EnteredAt(new, live \ {t}, pre, w, map[w], n)
  BY <1>2, CutEntered, Zenon
<1>6. ASSUME NEW r \in live \ {t}, NEW j \in Index, Ends(new[r][j], Len(pre[r]))
      PROVE  Append(pre[r], j) \in DOMAIN map
  <2>1. ~(r = s /\ j = i)
    BY <1>3, <1>6 DEF Ends
  <2>2. new[r][j] = es[r][j]
    BY <2>1, <1>1, <1>3
  <2>3. Ends(es[r][j], Len(pre[r]))
    BY <2>2, <1>6
  <2> QED
    BY <2>3, <1>2, Zenon DEF Entered
<1>7. Entered(new, live \ {t}, pre, map)
  BY <1>2, <1>5, <1>6, Zenon DEF Entered
<1>8. ASSUME NEW r \in (0..k) \ (live \ {t}) PROVE Empty(new[r])
  <2>1. r \in Tables /\ r # s
    <3>1. (0..k) \subseteq Tables
      BY <1>2 DEF Tables, Memory
    <3> QED
      BY <3>1, <1>1, <1>3
  <2>2. \A j \in Index : new[r][j] = es[r][j]
    BY <2>1, <1>3
  <2>3. \A j \in Index : ~es[r][j].present
    BY <1>1, <1>2 DEF Empty
  <2> QED
    BY <2>2, <2>3 DEF Empty
<1>9. ASSUME NEW r \in (live \ {t}) \ {s}, Len(pre[r]) = 3 PROVE ~Empty(new[r])
  <2>1. \A j \in Index : new[r][j] = es[r][j]
    BY <1>1, <1>3
  <2> QED
    BY <2>1, <1>2, <1>9 DEF Empty
<1>10. live \ {t} \subseteq 0..k
  BY <1>2, Zenon
<1> QED
  BY <1>2, <1>4, <1>7, <1>8, <1>9, <1>10, Zenon DEF Mid

\* The reference without page v.
Dropped(map, v) == [w \in DOMAIN map \ {v} |-> map[w]]

\* The entry for a page is cleared.
LEMMA ClearedMid ==
    ASSUME Memory, NEW es, NEW live, NEW pre, NEW map, NEW k, NEW at, NEW v, NEW new,
           Mid(es, live, pre, map, k, -1), Slot(es, live, pre, map, at, v), Len(v) = 4,
           Written(new, es, at, v[Len(v)], None)
    PROVE  Mid(new, live, pre, Dropped(map, v), k, at)
<1> DEFINE x == v[Len(v)]
           map2 == Dropped(map, v)
<1>1. /\ v \in Seq(Index) /\ x \in Index /\ at \in Tables /\ Len(pre[at]) = Len(v) - 1 /\ Append(pre[at], x) = v
  <2>1. SlotAt(pre, at, v)
    BY SlotPlace, Zenon
  <2> QED
    BY <2>1, Zenon DEF SlotAt
<1>2. /\ at \in live /\ live \subseteq Tables /\ Tree(es, live, pre)
      /\ pre \in [Tables -> Seq(Index)]
  BY SMTT(30) DEF Slot, Tree
<1>3. /\ new[at][x] = None /\ Typed(new)
      /\ \A s \in Tables, i \in Index : s # at \/ i # x => new[s][i] = es[s][i]
  BY DEF Written
<1>4. None.present = FALSE
  BY DEF None
<1>5. /\ Entered(es, live, pre, map) /\ k \in Nat /\ k <= TableCount /\ live \subseteq 0..k
      /\ \A s \in (0..k) \ live : Empty(es[s])
      /\ \A s \in live \ {-1} : Len(pre[s]) = 3 => ~Empty(es[s])
  BY DEF Mid
<1>6. DOMAIN map2 = DOMAIN map \ {v} /\ \A w \in DOMAIN map2 : map2[w] = map[w]
  BY DEF Dropped
<1>7. Len(pre[at]) = 3 /\ ~(Len(pre[at]) < 3)
  <2>1. 4 - 1 = 3 /\ ~(3 < 3)
    OBVIOUS
  <2> QED
    BY <2>1, <1>1, Zenon
<1> HIDE DEF map2, x
<1>8. Tree(new, live, pre)
  <2>1. /\ \A s \in live, i \in Index : Open(es[s][i]) /\ Len(pre[s]) < 3 => Leads(es, live, pre, s, i)
        /\ \A s \in live, i \in Index : es[s][i].present /\ es[s][i].large => Len(pre[s]) = 2
        /\ \A t \in live \ {0} : \E s \in live, i \in Index : Open(es[s][i]) /\ Len(pre[s]) < 3 /\ es[s][i].to = t
    BY <1>2, Zenon DEF Tree
  <2>2. \A s \in live, i \in Index : Len(pre[s]) < 3 => new[s][i] = es[s][i]
    BY <1>2, <1>3, <1>7, Zenon
  <2>3. ASSUME NEW s \in live, NEW i \in Index, Open(new[s][i]), Len(pre[s]) < 3 PROVE Leads(new, live, pre, s, i)
    <3>1. new[s][i] = es[s][i]
      BY <2>2, <2>3, SMTT(30)
    <3>2. Leads(es, live, pre, s, i)
      BY <3>1, <2>1, <2>3, SMTT(30)
    <3> QED
      BY <3>1, <3>2, Zenon DEF Leads
  <2>4. ASSUME NEW s \in live, NEW i \in Index, new[s][i].present, new[s][i].large PROVE Len(pre[s]) = 2
    <3>1. new[s][i] = es[s][i]
      BY <1>2, <1>3, <1>4, <2>4, SMTT(30)
    <3> QED
      BY <3>1, <2>1, <2>4, SMTT(30)
  <2>5. ASSUME NEW t \in live \ {0}
        PROVE  \E s \in live, i \in Index : Open(new[s][i]) /\ Len(pre[s]) < 3 /\ new[s][i].to = t
    <3>1. PICK s \in live, i \in Index : Open(es[s][i]) /\ Len(pre[s]) < 3 /\ es[s][i].to = t
      BY <2>1, SMTT(30)
    <3> QED
      BY <3>1, <2>2, SMTT(30)
  <2> QED
    BY <1>2, <1>3, <2>3, <2>4, <2>5, Zenon DEF Tree
<1>9. ASSUME NEW w \in DOMAIN map2
      PROVE  /\ w \in Pages \cup LargePages /\ map2[w].frame \in Frames /\ map2[w].flags \in Flags
             /\ \A n \in 1..Len(w) : EnteredAt(new, live, pre, w, map2[w], n)
  <2>1. w \in DOMAIN map /\ w # v /\ map2[w] = map[w]
    BY <1>6
  <2>2. /\ w \in Pages \cup LargePages /\ map[w].frame \in Frames /\ map[w].flags \in Flags
        /\ \A n \in 1..Len(w) : EnteredAt(es, live, pre, w, map[w], n)
    BY <2>1, <1>5, Zenon DEF Entered
  <2>3. Len(v) # 3
    OBVIOUS
  <2>4. \A n \in 1..Len(w) : EnteredAt(new, live, pre, w, map[w], n)
    BY <2>1, <2>2, <2>3, WrittenEntered, Zenon
  <2> QED
    BY <2>1, <2>2, <2>4
<1>10. ASSUME NEW s \in live, NEW i \in Index, Ends(new[s][i], Len(pre[s]))
       PROVE  Append(pre[s], i) \in DOMAIN map2
  <2>1. ~(s = at /\ i = x)
    BY <1>3, <1>4, <1>10, SMTT(30) DEF Ends
  <2>2. Ends(es[s][i], Len(pre[s]))
    BY <2>1, <1>2, <1>3, <1>10
  <2>3. Append(pre[s], i) \in DOMAIN map
    BY <2>2, <1>5, Zenon DEF Entered
  <2>4. Append(pre[s], i) # v
    <3>1. SUFFICES ASSUME Append(pre[s], i) = v PROVE FALSE
      OBVIOUS
    <3>2. pre[s] \in Seq(Index) /\ pre[at] \in Seq(Index) /\ Append(pre[s], i) = Append(pre[at], x)
      BY <3>1, <1>1, <1>2
    <3>5. x \in Index /\ i \in Index
      BY <1>1
    <3>3. pre[s] = pre[at] /\ i = x
      BY <3>2, <3>5, LastIndex, SMTT(30)
    <3>4. s = at
      BY <3>3, <1>2, Zenon DEF Tree
    <3> QED
      BY <3>3, <3>4, <2>1
  <2> QED
    BY <2>3, <2>4, <1>6, SMTT(30)
<1>11. Entered(new, live, pre, map2)
  BY <1>9, <1>10, Zenon DEF Entered
<1>12. ASSUME NEW s \in (0..k) \ live PROVE Empty(new[s])
  <2>1. s # at /\ s \in Tables
    BY <1>2, <1>5, SMTT(30) DEF Tables, Memory
  <2>2. \A i \in Index : new[s][i] = es[s][i]
    BY <2>1, <1>3
  <2> QED
    BY <2>2, <1>5 DEF Empty
<1>13. ASSUME NEW s \in live \ {at}, Len(pre[s]) = 3 PROVE ~Empty(new[s])
  <2>1. \A i \in Index : new[s][i] = es[s][i]
    BY <1>2, <1>3
  <2>2. s # -1
    BY <1>5
  <2> QED
    BY <2>1, <2>2, <1>5, <1>13, SMTT(30) DEF Empty
<1>14. Mid(new, live, pre, map2, k, at)
  BY <1>5, <1>8, <1>11, <1>12, <1>13, Zenon DEF Mid
<1> QED
  BY <1>14 DEF map2

-----------------------------------------------------------------------------
\* The way of a page that is mapped, or is covered by one that is.
Reaches(es, live, pre, b, v, m, l) ==
    /\ Len(b) = l
    /\ \A n \in 1..l : b[n] \in live /\ pre[b[n]] = Prefix(v, n - 1)
    /\ \A n \in 1..(l - 1) : /\ Open(es[b[n]][v[n]]) /\ es[b[n]][v[n]].to = b[n + 1]
                             /\ m.flags \ {"nx"} \subseteq es[b[n]][v[n]].flags
    /\ es[b[l]][v[l]].present /\ es[b[l]][v[l]].to = m.frame /\ es[b[l]][v[l]].flags = m.flags
    /\ es[b[l]][v[l]].large = (l = 3)

\* The walk to a page goes through live tables down to the entry that maps it.
LEMMA WayOfMapped ==
    ASSUME Memory, NEW es, NEW live, NEW pre, NEW map, NEW k, Mid(es, live, pre, map, k, -1),
           NEW v \in Pages, NEW w \in DOMAIN map, Len(w) \in {3, 4},
           \A n \in 1..Len(w) : w[n] = v[n] /\ Prefix(w, n - 1) = Prefix(v, n - 1)
    PROVE  Reaches(es, live, pre, Walk(es, v), v, map[w], Len(w))
<1> DEFINE b == Walk(es, v)
           l == Len(b)
           lw == Len(w)
           m == map[w]
<1>1. Tree(es, live, pre) /\ Entered(es, live, pre, map)
  BY Zenon DEF Mid
<1>2. v \in Seq(Index) /\ Len(v) = 4
  BY DEF Memory
<1>3. OnTree(es, live, pre, v, b, Len(v))
  BY <1>1, WalkOnTree, Zenon
<1> HIDE DEF b
<1>4. /\ l \in 1..4 /\ \A n \in 1..(l - 1) : Open(es[b[n]][v[n]]) /\ b[n + 1] = es[b[n]][v[n]].to
      /\ l < 4 => ~Open(es[b[l]][v[l]])
      /\ \A n \in 1..l : b[n] \in live /\ pre[b[n]] = Prefix(v, n - 1)
  BY <1>2, <1>3 DEF OnTree, IsWay
<1>5. \A r, s \in live : pre[r] = pre[s] => r = s
  BY <1>1, Zenon DEF Tree
<1>6. ASSUME NEW n \in 1..lw, n \in 1..l
      PROVE  IF n < lw THEN Open(es[b[n]][v[n]]) /\ m.flags \ {"nx"} \subseteq es[b[n]][v[n]].flags
             ELSE es[b[n]][v[n]] = LeafOf(w, m)
  <2>1. EnteredAt(es, live, pre, w, m, n)
    BY <1>1, Zenon DEF Entered
  <2>2. PICK s \in live :
          /\ pre[s] = Prefix(w, n - 1)
          /\ IF n < Len(w) THEN Open(es[s][w[n]]) /\ m.flags \ {"nx"} \subseteq es[s][w[n]].flags
             ELSE es[s][w[n]] = LeafOf(w, m)
    BY <2>1, Zenon DEF EnteredAt
  <2>3. s = b[n]
    BY <2>2, <1>4, <1>5, <1>6
  <2>4. w[n] = v[n]
    BY <1>6, SMTT(30)
  <2> QED
    BY <2>2, <2>3, <2>4
<1>7. LeafOf(w, m).present /\ LeafOf(w, m).large = (lw = 3) /\ LeafOf(w, m).flags = m.flags /\ LeafOf(w, m).to = m.frame
  BY LeafParts
<1>8. lw \in {3, 4}
  OBVIOUS
<1> HIDE DEF l, lw, m
<1>9. l = lw
  <2>1. ~(l < lw)
    <3>1. SUFFICES ASSUME l < lw PROVE FALSE
      OBVIOUS
    <3>2. l \in 1..lw /\ l \in 1..l /\ l < 4
      BY <3>1, <1>4, <1>8
    <3> QED
      BY <3>1, <3>2, <1>4, <1>6
  <2>2. ~(l > lw)
    <3>1. SUFFICES ASSUME l > lw PROVE FALSE
      OBVIOUS
    <3>2. lw = 3 /\ lw \in 1..(l - 1) /\ lw \in 1..lw /\ lw \in 1..l /\ ~(lw < lw)
      BY <3>1, <1>4, <1>8, SMTT(30)
    <3>3. es[b[lw]][v[lw]] = LeafOf(w, m)
      BY <3>2, <1>6
    <3>4. ~Open(es[b[lw]][v[lw]])
      BY <3>2, <3>3, <1>7, Zenon DEF Open
    <3> QED
      BY <3>2, <3>4, <1>4
  <2> QED
    BY <2>1, <2>2, <1>4, <1>8, SMTT(30)
<1>10. ~(lw < lw) /\ lw \in 1..lw /\ \A n \in 1..(lw - 1) : n \in 1..lw /\ n < lw
  BY <1>8, SMTT(30)
<1>11. es[b[lw]][v[lw]] = LeafOf(w, m)
  BY <1>6, <1>9, <1>10, SMTT(30)
<1>12. \A n \in 1..(lw - 1) : /\ Open(es[b[n]][v[n]]) /\ es[b[n]][v[n]].to = b[n + 1]
                              /\ m.flags \ {"nx"} \subseteq es[b[n]][v[n]].flags
  BY <1>4, <1>6, <1>9, <1>10, SMTT(30)
<1>13. Len(b) = lw /\ \A n \in 1..lw : b[n] \in live /\ pre[b[n]] = Prefix(v, n - 1)
  BY <1>4, <1>9, SMTT(30) DEF l
<1>14. /\ es[b[lw]][v[lw]].present /\ es[b[lw]][v[lw]].to = m.frame /\ es[b[lw]][v[lw]].flags = m.flags
       /\ es[b[lw]][v[lw]].large = (lw = 3)
  BY <1>7, <1>11
<1>15. Reaches(es, live, pre, b, v, m, lw)
  BY <1>12, <1>13, <1>14, Zenon DEF Reaches
<1> QED
  BY <1>15 DEF b, lw, m

-----------------------------------------------------------------------------
\* The last levels down to j have been looked at.
UpIn(es, live, pre, map, k, b, v, j) ==
    /\ Mid(es, live, pre, map, k, b[j])
    /\ \A n \in 1..j : b[n] \in live /\ pre[b[n]] = Prefix(v, n - 1)
    /\ \A n \in 1..(j - 1) : Open(es[b[n]][v[n]]) /\ es[b[n]][v[n]].to = b[n + 1]

\* The same for some tree.
Up(es, pre, map, k, b, v, j) == \E live : UpIn(es, live, pre, map, k, b, v, j)

\* A table that is empty is cut off.
Raise(es, b, v, j) == IF Empty(es[b[j]]) THEN [es EXCEPT ![b[j - 1]][v[j - 1]].present = FALSE] ELSE es

\* Looking at a level and cutting its table off when it is empty keeps all
\* that holds in the middle of unmap_page.
LEMMA UpStep ==
    ASSUME Memory, NEW es, NEW pre, NEW map, NEW k, NEW b, NEW v \in Pages, NEW j \in 2..4,
           Up(es, pre, map, k, b, v, j)
    PROVE  Up(Raise(es, b, v, j), pre, map, k, b, v, j - 1)
<1>1. PICK live : UpIn(es, live, pre, map, k, b, v, j)
  BY Zenon DEF Up
<1>2. /\ Mid(es, live, pre, map, k, b[j])
      /\ \A n \in 1..j : b[n] \in live /\ pre[b[n]] = Prefix(v, n - 1)
      /\ \A n \in 1..(j - 1) : Open(es[b[n]][v[n]]) /\ es[b[n]][v[n]].to = b[n + 1]
  BY <1>1, Zenon DEF UpIn
<1>3. v \in Seq(Index) /\ Len(v) = 4
  BY SMTT(30) DEF Memory
<1>4. Tree(es, live, pre) /\ live \subseteq Tables /\ Typed(es)
  BY <1>2, SMTT(30) DEF Mid, Tree
<1>5. \A n \in 1..j : Len(pre[b[n]]) = n - 1 /\ v[n] \in Index
  <2> SUFFICES ASSUME NEW n \in 1..j PROVE Len(pre[b[n]]) = n - 1 /\ v[n] \in Index
    OBVIOUS
  <2>1. n \in 1..Len(v)
    BY <1>3
  <2>2. v[n] \in Index /\ n - 1 \in 0..Len(v)
    BY <2>1, <1>3, LastLevel, SMTT(30)
  <2>3. Len(Prefix(v, n - 1)) = n - 1
    BY <2>2, <1>3, PrefixLen, Zenon
  <2> QED
    BY <2>2, <2>3, <1>2
<1>6. /\ \A n \in 1..(j - 1) : n \in 1..j /\ n # j
      /\ \A n \in 1..((j - 1) - 1) : n \in 1..(j - 1) /\ n # j - 1
      /\ j \in Nat /\ (j - 1) - 1 < 3 /\ (j - 1) - 1 # 3
  OBVIOUS
<1>7. j - 1 \in 1..(j - 1) /\ (j - 1) + 1 = j /\ j \in 1..j /\ j - 1 \in 1..j
  OBVIOUS
<1> DEFINE s == b[j - 1]
           i == v[j - 1]
           t == b[j]
<1>8. s \in live /\ i \in Index /\ t \in live /\ Open(es[s][i]) /\ es[s][i].to = t /\ Len(pre[s]) = (j - 1) - 1
      /\ Len(pre[t]) = j - 1
  BY <1>2, <1>5, <1>7, SMTT(30)
<1>9. Len(pre[s]) < 3 /\ Len(pre[s]) # 3
  BY <1>6, <1>8
<1>10. CASE Empty(es[t])
  <2> DEFINE new == [es EXCEPT ![s][i].present = FALSE]
  <2>1. Raise(es, b, v, j) = new
    BY <1>10, Zenon DEF Raise
  <2>2. t # 0
    <3>1. pre[0] = <<>>
      BY <1>4 DEF Tree
    <3>2. Len(pre[t]) # 0
      BY <1>8
    <3> QED
      BY <3>1, <3>2, SMTT(30)
  <2> HIDE DEF s, i, t
  <2>3. Idle(es, live, pre, s, i, t)
    BY <2>2, <1>4, <1>8, <1>9, <1>10 DEF Idle
  <2>4. Cut(new, es, s, i)
    <3>1. es[s][i] \in [present : BOOLEAN, flags : SUBSET {"write", "user", "nx"}, large : BOOLEAN, to : Tables \cup Frames]
      BY <1>4, <1>8, EntryTyped
    <3> DEFINE e == [es[s][i] EXCEPT !.present = FALSE]
    <3>2. e \in [present : BOOLEAN, flags : SUBSET {"write", "user", "nx"}, large : BOOLEAN, to : Tables \cup Frames]
          /\ ~e.present
      BY <3>1, Zenon
    <3>3. new = [es EXCEPT ![s][i] = e]
      BY <1>4, <1>8 DEF Typed
    <3> HIDE DEF new, e
    <3> QED
      BY <3>2, <3>3, <1>4, <1>8, SMTT(30) DEF Cut, Typed
  <2> HIDE DEF new
  <2>5. Mid(new, live \ {t}, pre, map, k, s)
    BY <2>3, <2>4, <1>2, CutMid, Zenon DEF t
  <2>6. \A n \in 1..(j - 1) : b[n] \in live \ {t} /\ pre[b[n]] = Prefix(v, n - 1)
    <3> SUFFICES ASSUME NEW n \in 1..(j - 1) PROVE b[n] \in live \ {t} /\ pre[b[n]] = Prefix(v, n - 1)
      OBVIOUS
    <3>1. n \in 1..j /\ n - 1 # j - 1
      OBVIOUS
    <3>2. b[n] \in live /\ pre[b[n]] = Prefix(v, n - 1) /\ Len(pre[b[n]]) = n - 1
      BY <3>1, <1>2, <1>5
    <3>3. b[n] # t
      BY <3>1, <3>2, <1>8
    <3> QED
      BY <3>2, <3>3
  <2>7. \A n \in 1..((j - 1) - 1) : Open(new[b[n]][v[n]]) /\ new[b[n]][v[n]].to = b[n + 1]
    <3> SUFFICES ASSUME NEW n \in 1..((j - 1) - 1) PROVE Open(new[b[n]][v[n]]) /\ new[b[n]][v[n]].to = b[n + 1]
      OBVIOUS
    <3>1. n \in 1..j /\ n \in 1..(j - 1) /\ n - 1 # (j - 1) - 1
      OBVIOUS
    <3>2. b[n] \in live /\ v[n] \in Index /\ Len(pre[b[n]]) = n - 1
      BY <3>1, <1>2, <1>5
    <3>3. b[n] # s
      BY <3>1, <3>2, <1>8, SMTT(30)
    <3>4. new[b[n]][v[n]] = es[b[n]][v[n]]
      BY <3>2, <3>3, <2>4, <1>4, SMTT(30) DEF Cut
    <3>5. Open(es[b[n]][v[n]]) /\ es[b[n]][v[n]].to = b[n + 1]
      BY <3>1, <1>2
    <3> QED
      BY <3>4, <3>5
  <2>8. UpIn(new, live \ {t}, pre, map, k, b, v, j - 1)
    BY <2>5, <2>6, <2>7, Zenon DEF UpIn, s
  <2> QED
    BY <2>1, <2>8 DEF Up
<1>11. CASE ~Empty(es[t])
  <2>1. Raise(es, b, v, j) = es
    BY <1>11, Zenon DEF Raise
  <2> HIDE DEF s, i, t
  <2>2. \A r \in live \ {s} : Len(pre[r]) = 3 => ~Empty(es[r])
    <3>1. \A r \in live \ {t} : Len(pre[r]) = 3 => ~Empty(es[r])
      BY <1>2, Zenon DEF Mid, t
    <3> QED
      BY <3>1, <1>11
  <2>3. Mid(es, live, pre, map, k, s)
    BY <2>2, <1>2, Zenon DEF Mid
  <2>4. /\ \A n \in 1..(j - 1) : b[n] \in live /\ pre[b[n]] = Prefix(v, n - 1)
        /\ \A n \in 1..((j - 1) - 1) : Open(es[b[n]][v[n]]) /\ es[b[n]][v[n]].to = b[n + 1]
    BY <1>2, <1>6
  <2>5. UpIn(es, live, pre, map, k, b, v, j - 1)
    BY <2>3, <2>4, Zenon DEF UpIn, s
  <2> QED
    BY <2>1, <2>5 DEF Up
<1> QED
  BY <1>10, <1>11

\* unmap_page, level by level.
Leafless(v) == [entries EXCEPT ![Walk(entries, v)[4]][v[4]] = None]

\* It clears the entry and looks at three levels.
LEMMA UnmapUnrolled ==
    ASSUME NEW v, unmap_page(v)
    PROVE  LET b == Walk(entries, v)
           IN  entries' = Raise(Raise(Raise(Leafless(v), b, v, 4), b, v, 3), b, v, 2)
<1> DEFINE way == Walk(entries, v)
           leaf == Leafless(v)
           B(es, n) == IF Empty(es[way[6 - n]]) THEN [es EXCEPT ![way[5 - n]][v[5 - n]].present = FALSE] ELSE es
           Eq(f) == f = [n \in 1..4 |-> IF n = 1 THEN leaf ELSE B(f[n - 1], n)]
           g == [n \in 1..4 |-> IF n = 1 THEN leaf ELSE IF n = 2 THEN B(leaf, 2)
                                ELSE IF n = 3 THEN B(B(leaf, 2), 3) ELSE B(B(B(leaf, 2), 3), 4)]
           f == CHOOSE h : Eq(h)
<1>1. entries' = f[4]
  BY Zenon DEF unmap_page, Leafless
<1>2. \A es : B(es, 2) = Raise(es, way, v, 4) /\ B(es, 3) = Raise(es, way, v, 3) /\ B(es, 4) = Raise(es, way, v, 2)
  <2>1. 6 - 2 = 4 /\ 5 - 2 = 4 - 1 /\ 6 - 3 = 3 /\ 5 - 3 = 3 - 1 /\ 6 - 4 = 2 /\ 5 - 4 = 2 - 1
    OBVIOUS
  <2> HIDE DEF way
  <2> QED
    BY <2>1 DEF Raise
<1> HIDE DEF B, leaf
<1>3. Eq(g)
  <2>1. \A n \in 1..4 : g[n] = IF n = 1 THEN leaf ELSE B(g[n - 1], n)
    <3>1. g[1] = leaf /\ g[2] = B(g[1], 2) /\ g[3] = B(g[2], 3) /\ g[4] = B(g[3], 4)
      BY Z3
    <3> HIDE DEF g
    <3>2. \A n \in 1..4 : n = 1 \/ n = 2 \/ n = 3 \/ n = 4
      OBVIOUS
    <3> QED
      BY <3>1, <3>2
  <2>2. g = [n \in 1..4 |-> g[n]]
    OBVIOUS
  <2> HIDE DEF g
  <2> QED
    BY <2>1, <2>2
<1>4. Eq(f)
  <2> HIDE DEF g, Eq
  <2> QED
    BY <1>3, Zenon
<1> HIDE DEF f
<1>5. f[4] = B(B(B(leaf, 2), 3), 4)
  BY <1>4
<1> QED
  BY <1>1, <1>2, <1>5 DEF leaf

\* The way of a page of four indices that is mapped.
LEMMA WayOfPage ==
    ASSUME Memory, NEW es, NEW live, NEW pre, NEW map, NEW k, Mid(es, live, pre, map, k, -1),
           NEW v \in Pages, v \in DOMAIN map
    PROVE  Reaches(es, live, pre, Walk(es, v), v, map[v], 4)
<1>1. Len(v) = 4 /\ Len(v) \in {3, 4}
  BY DEF Memory
<1>2. Reaches(es, live, pre, Walk(es, v), v, map[v], Len(v))
  BY <1>1, WayOfMapped, Zenon
<1> QED
  BY <1>1, <1>2

\* Its entry can be written.
LEMMA SlotOfPage ==
    ASSUME Memory, NEW es, NEW live, NEW pre, NEW map, Tree(es, live, pre), NEW v \in Pages, NEW b,
           b[4] \in live, pre[b[4]] = Prefix(v, 3)
    PROVE  Slot(es, live, pre, map, b[4], v) /\ Len(v) = 4
<1>2. Len(v) = 4
  BY DEF Memory
<1>1. Len(v) = 4 /\ Len(v) # 3 /\ Len(v) - 1 = 3
  <2>1. 4 # 3 /\ 4 - 1 = 3
    OBVIOUS
  <2> QED
    BY <2>1, <1>2, Zenon
<1> QED
  BY <1>1, Zenon DEF Slot

\* unmap_page keeps the invariant.
LEMMA UnmapStep ==
    ASSUME Memory, Inv, NEW v \in Pages, unmap_page(v)
    PROVE  Inv'
<1> DEFINE b == Walk(entries, v)
           leaf == Leafless(v)
           map2 == Dropped(mapped, v)
<1>1. /\ v \in DOMAIN mapped /\ mapped' = [w \in DOMAIN mapped \ {v} |-> mapped[w]]
      /\ used' = used /\ panicked' = panicked
  BY Zenon DEF unmap_page
<1>2. PICK live, pre, k : Mid(entries, live, pre, mapped, k, -1) /\ used = 0..k
  BY Zenon DEF Inv
<1>3. entries' = Raise(Raise(Raise(leaf, b, v, 4), b, v, 3), b, v, 2)
  BY UnmapUnrolled
<1>4. leaf = [entries EXCEPT ![b[4]][v[4]] = None]
  BY Zenon DEF Leafless
<1>5. Reaches(entries, live, pre, b, v, mapped[v], 4)
  BY <1>1, <1>2, WayOfPage, ZenonT(40)
<1> HIDE DEF b, leaf
<1>6. /\ \A n \in 1..4 : b[n] \in live /\ pre[b[n]] = Prefix(v, n - 1)
      /\ \A n \in 1..3 : Open(entries[b[n]][v[n]]) /\ entries[b[n]][v[n]].to = b[n + 1]
  BY <1>5, SMTT(30) DEF Reaches
<1>7. Tree(entries, live, pre) /\ Typed(entries) /\ live \subseteq Tables
  BY <1>2 DEF Mid, Tree
<1>8. Slot(entries, live, pre, mapped, b[4], v) /\ Len(v) = 4
  <2>1. b[4] \in live /\ pre[b[4]] = Prefix(v, 3)
    <3>1. 4 \in 1..4 /\ 4 - 1 = 3
      OBVIOUS
    <3> QED
      BY <3>1, <1>6
  <2> QED
    BY <2>1, <1>7, SlotOfPage, Zenon
<1>9. v \in Seq(Index) /\ \A n \in 1..4 : v[n] \in Index
  BY DEF Memory
<1>10. Written(leaf, entries, b[4], v[Len(v)], None)
  <2>1. None \in [present : BOOLEAN, flags : SUBSET {"write", "user", "nx"}, large : BOOLEAN, to : Tables \cup Frames]
    <3>1. 0 \in Tables
      BY DEF Tables, Memory
    <3> QED
      BY <3>1 DEF None
  <2>2. b[4] \in Tables /\ v[4] \in Index
    BY <1>6, <1>7, <1>9
  <2>3. Written(leaf, entries, b[4], v[4], None)
    BY <2>1, <2>2, <1>4, <1>7 DEF Written, Typed
  <2> QED
    BY <2>3, <1>8
<1>11. Mid(leaf, live, pre, map2, k, b[4])
  BY <1>2, <1>8, <1>10, ClearedMid, Zenon
<1>12. \A n \in 1..4 : Len(pre[b[n]]) = n - 1
  <2> SUFFICES ASSUME NEW n \in 1..4 PROVE Len(pre[b[n]]) = n - 1
    OBVIOUS
  <2>1. n - 1 \in 0..Len(v)
    BY <1>8
  <2>2. Len(Prefix(v, n - 1)) = n - 1
    BY <2>1, <1>9, PrefixLen
  <2> QED
    BY <2>2, <1>6
<1>13. \A n \in 1..3 : Open(leaf[b[n]][v[n]]) /\ leaf[b[n]][v[n]].to = b[n + 1]
  <2> SUFFICES ASSUME NEW n \in 1..3 PROVE Open(leaf[b[n]][v[n]]) /\ leaf[b[n]][v[n]].to = b[n + 1]
    OBVIOUS
  <2>1. n \in 1..4 /\ 4 \in 1..4 /\ n - 1 # 4 - 1
    OBVIOUS
  <2>2. b[n] # b[4]
    BY <2>1, <1>12, SMTT(30)
  <2>3. b[n] \in Tables /\ v[n] \in Index
    BY <2>1, <1>6, <1>7, <1>9
  <2>4. leaf[b[n]][v[n]] = entries[b[n]][v[n]]
    BY <2>2, <2>3, <1>10 DEF Written
  <2> QED
    BY <2>4, <1>6
<1>14. Up(leaf, pre, map2, k, b, v, 4)
  <2>1. UpIn(leaf, live, pre, map2, k, b, v, 4)
    <3>1. 4 - 1 = 3
      OBVIOUS
    <3> QED
      BY <3>1, <1>6, <1>11, <1>13, Zenon DEF UpIn
  <2> QED
    BY <2>1 DEF Up
<1> HIDE DEF map2
<1>15. 4 \in 2..4 /\ 3 \in 2..4 /\ 2 \in 2..4 /\ 4 - 1 = 3 /\ 3 - 1 = 2 /\ 2 - 1 = 1
  OBVIOUS
<1> DEFINE u4 == Raise(leaf, b, v, 4)
           u3 == Raise(u4, b, v, 3)
           u2 == Raise(u3, b, v, 2)
<1>16. Up(u4, pre, map2, k, b, v, 3)
  <2>1. Up(u4, pre, map2, k, b, v, 4 - 1)
    BY <1>14, <1>15, UpStep
  <2> QED
    BY <2>1, <1>15
<1> HIDE DEF u4
<1>17. Up(u3, pre, map2, k, b, v, 2)
  <2>1. Up(u3, pre, map2, k, b, v, 3 - 1)
    BY <1>16, <1>15, UpStep
  <2> QED
    BY <2>1, <1>15
<1> HIDE DEF u3
<1>18. Up(u2, pre, map2, k, b, v, 1)
  <2>1. Up(u2, pre, map2, k, b, v, 2 - 1)
    BY <1>17, <1>15, UpStep
  <2> QED
    BY <2>1, <1>15
<1>19. entries' = u2
  BY <1>3 DEF u2, u3, u4
<1> HIDE DEF u2
<1>20. PICK l : UpIn(u2, l, pre, map2, k, b, v, 1)
  BY <1>18, Zenon DEF Up
<1>21. Mid(u2, l, pre, map2, k, b[1])
  BY <1>20, Zenon DEF UpIn
<1>22. Mid(u2, l, pre, map2, k, -1)
  <2>1. Len(pre[b[1]]) # 3
    <3>1. 1 \in 1..4 /\ 1 - 1 # 3
      OBVIOUS
    <3> QED
      BY <3>1, <1>12, Zenon
  <2>2. \A s \in l \ {-1} : Len(pre[s]) = 3 => ~Empty(u2[s])
    <3>1. \A s \in l \ {b[1]} : Len(pre[s]) = 3 => ~Empty(u2[s])
      BY <1>21, Zenon DEF Mid
    <3> QED
      BY <3>1, <2>1
  <2> QED
    BY <2>2, <1>21, Zenon DEF Mid
<1>23. mapped' = map2
  BY <1>1, Zenon DEF map2, Dropped
<1>24. /\ mapped' = [w \in DOMAIN mapped' |-> mapped'[w]]
       /\ \A w \in DOMAIN mapped' : mapped'[w] \in [frame : Frames, flags : Flags]
  <2>1. \A w \in DOMAIN mapped : mapped[w] \in [frame : Frames, flags : Flags]
    BY DEF Inv
  <2> QED
    BY <2>1, <1>1
<1>25. panicked' \in BOOLEAN
  BY <1>1 DEF Inv
<1>26. Mid(entries', l, pre, mapped', k, -1) /\ used' = 0..k
  BY <1>1, <1>2, <1>19, <1>22, <1>23
<1> QED
  BY <1>24, <1>25, <1>26 DEF Inv

-----------------------------------------------------------------------------
(***************************************************************************)
(* remap_page.                                                             *)
(***************************************************************************)

\* The upper levels after remap_page.
Upper(v, flags) ==
    [t \in Tables |-> [i \in Index |->
        IF \E n \in 1..3 : Walk(entries, v)[n] = t /\ v[n] = i
        THEN [entries[t][i] EXCEPT !.flags = Grant(@, flags)]
        ELSE entries[t][i]]]

\* They only gain flags, and the entry for the page is as before.
LEMMA UpperGranted ==
    ASSUME Memory, NEW live, NEW pre, Tree(entries, live, pre), NEW v \in Pages, NEW m, NEW flags \in Flags,
           Reaches(entries, live, pre, Walk(entries, v), v, m, 4)
    PROVE  LET b == Walk(entries, v)
               new == Upper(v, flags)
           IN  /\ Granted(new, entries, live, pre, flags)
               /\ \A n \in 1..3 : Open(new[b[n]][v[n]]) /\ flags \ {"nx"} \subseteq new[b[n]][v[n]].flags
               /\ new[b[4]][v[4]] = entries[b[4]][v[4]]
<1> DEFINE b == Walk(entries, v)
           new == Upper(v, flags)
           Entry == [present : BOOLEAN, flags : SUBSET {"write", "user", "nx"}, large : BOOLEAN, to : Tables \cup Frames]
           more(e) == [e EXCEPT !.flags = @ \cup (flags \ {"nx"})]
<1>1. /\ \A n \in 1..4 : b[n] \in live /\ pre[b[n]] = Prefix(v, n - 1)
      /\ \A n \in 1..3 : Open(entries[b[n]][v[n]])
  <2>1. 4 - 1 = 3
    OBVIOUS
  <2> QED
    BY <2>1, Zenon DEF Reaches
<1>2. Typed(entries) /\ live \subseteq Tables /\ flags \subseteq {"write", "user", "nx"}
  BY DEF Tree, Memory
<1>3. v \in Seq(Index) /\ Len(v) = 4 /\ \A n \in 1..4 : v[n] \in Index
  BY SMTT(30) DEF Memory
<1>4. \A n \in 1..4 : Len(pre[b[n]]) = n - 1
  <2> SUFFICES ASSUME NEW n \in 1..4 PROVE Len(pre[b[n]]) = n - 1
    OBVIOUS
  <2>1. n - 1 \in 0..Len(v)
    BY <1>3
  <2>2. Len(Prefix(v, n - 1)) = n - 1
    BY <2>1, <1>3, PrefixLen, Zenon
  <2> QED
    BY <2>2, <1>1
<1>5. \A t \in Tables, i \in Index : entries[t][i] \in Entry /\ more(entries[t][i]) \in Entry
  <2> SUFFICES ASSUME NEW t \in Tables, NEW i \in Index PROVE entries[t][i] \in Entry /\ more(entries[t][i]) \in Entry
    OBVIOUS
  <2>1. entries[t][i] \in Entry
    BY <1>2, EntryTyped
  <2> QED
    BY <2>1, <1>2
<1>6. \A t \in Tables, i \in Index :
        new[t][i] = IF \E n \in 1..3 : b[n] = t /\ v[n] = i THEN more(entries[t][i]) ELSE entries[t][i]
  <2> HIDE DEF b
  <2> QED
    BY DEF Upper, Grant, b
<1>7. Typed(new)
  <2>1. new = [t \in Tables |-> [i \in Index |-> IF \E n \in 1..3 : b[n] = t /\ v[n] = i
                                                THEN more(entries[t][i]) ELSE entries[t][i]]]
    BY Zenon DEF Upper, Grant
  <2> HIDE DEF b, more, Entry, new
  <2>2. new \in [Tables -> [Index -> Entry]]
    BY <2>1, <1>5
  <2> QED
    BY <2>2 DEF Typed, Entry
<1> HIDE DEF b, new
<1>8. Granted(new, entries, live, pre, flags)
  <2>1. ASSUME NEW t \in Tables, NEW i \in Index, new[t][i] # entries[t][i]
        PROVE  /\ t \in live /\ Len(pre[t]) < 3 /\ Open(entries[t][i])
               /\ new[t][i] = [entries[t][i] EXCEPT !.flags = @ \cup (flags \ {"nx"})]
    <3> HIDE DEF more
    <3>1. PICK n \in 1..3 : b[n] = t /\ v[n] = i
      BY <2>1, <1>6
    <3>2. n \in 1..4 /\ n - 1 < 3
      OBVIOUS
    <3>3. t \in live /\ Len(pre[t]) < 3 /\ Open(entries[t][i])
      BY <3>1, <3>2, <1>1, <1>4, SMTT(30)
    <3>4. new[t][i] = more(entries[t][i])
      BY <3>1, <1>6
    <3> QED
      BY <3>3, <3>4 DEF more
  <2> QED
    BY <2>1, <1>7, Zenon DEF Granted
<1>9. ASSUME NEW n \in 1..3 PROVE Open(new[b[n]][v[n]]) /\ flags \ {"nx"} \subseteq new[b[n]][v[n]].flags
  <2>1. n \in 1..4
    BY SMTT(30)
  <2>2. b[n] \in Tables /\ v[n] \in Index /\ Open(entries[b[n]][v[n]])
    BY <2>1, <1>1, <1>2, <1>3, SMTT(30)
  <2> DEFINE e == entries[b[n]][v[n]]
  <2>3. new[b[n]][v[n]] = more(e)
    <3> HIDE DEF more
    <3> QED
      BY <2>2, <1>6
  <2>4. e \in Entry /\ Open(e)
    BY <2>2, <1>5, Zenon
  <2> HIDE DEF e
  <2>5. more(e).present = e.present /\ more(e).large = e.large /\ more(e).flags = e.flags \cup (flags \ {"nx"})
    BY <2>4, SMTT(30)
  <2> HIDE DEF more
  <2> QED
    BY <2>3, <2>4, <2>5 DEF Open
<1>10. new[b[4]][v[4]] = entries[b[4]][v[4]]
  <2>1. \A n \in 1..3 : b[n] # b[4]
    <3> SUFFICES ASSUME NEW n \in 1..3 PROVE b[n] # b[4]
      OBVIOUS
    <3>1. n \in 1..4 /\ 4 \in 1..4 /\ n - 1 # 4 - 1
      BY SMTT(30)
    <3> QED
      BY <3>1, <1>4
  <2>2. b[4] \in Tables /\ v[4] \in Index
    BY <1>1, <1>2, <1>3
  <2> HIDE DEF more
  <2> QED
    BY <2>1, <2>2, <1>6
<1> QED
  BY <1>8, <1>9, <1>10, Zenon DEF b, new

\* An entry with other flags.
LEMMA Reflagged ==
    ASSUME NEW old \in [present : BOOLEAN, flags : SUBSET {"write", "user", "nx"}, large : BOOLEAN, to : Tables \cup Frames],
           NEW f \in SUBSET {"write", "user", "nx"}
    PROVE  /\ [old EXCEPT !.flags = f] = [present |-> old.present, flags |-> f, large |-> old.large, to |-> old.to]
           /\ [old EXCEPT !.flags = f] \in
                [present : BOOLEAN, flags : SUBSET {"write", "user", "nx"}, large : BOOLEAN, to : Tables \cup Frames]
  OBVIOUS

\* remap_page keeps the invariant.
LEMMA RemapStep ==
    ASSUME Memory, Inv, NEW v \in Pages, NEW flags \in Flags, remap_page(v, flags)
    PROVE  Inv'
<1> DEFINE b == Walk(entries, v)
           new == Upper(v, flags)
           m == [frame |-> mapped[v].frame, flags |-> flags]
           Entry == [present : BOOLEAN, flags : SUBSET {"write", "user", "nx"}, large : BOOLEAN, to : Tables \cup Frames]
<1>1. /\ v \in DOMAIN mapped /\ mapped' = [mapped EXCEPT ![v].flags = flags]
      /\ used' = used /\ panicked' = panicked
      /\ entries' = [new EXCEPT ![b[4]][v[4]].flags = flags]
  BY Zenon DEF remap_page, Upper
<1>2. PICK live, pre, k : Mid(entries, live, pre, mapped, k, -1) /\ used = 0..k
  BY Zenon DEF Inv
<1>3. Tree(entries, live, pre) /\ live \subseteq Tables /\ Entered(entries, live, pre, mapped)
  BY <1>2 DEF Mid, Tree
<1>4. Reaches(entries, live, pre, b, v, mapped[v], 4)
  BY <1>1, <1>2, WayOfPage, Zenon
<1>5. /\ Granted(new, entries, live, pre, flags)
      /\ \A n \in 1..3 : Open(new[b[n]][v[n]]) /\ flags \ {"nx"} \subseteq new[b[n]][v[n]].flags
      /\ new[b[4]][v[4]] = entries[b[4]][v[4]]
  BY <1>3, <1>4, UpperGranted, Zenon
<1> HIDE DEF b, new
<1>6. /\ \A n \in 1..4 : b[n] \in live /\ pre[b[n]] = Prefix(v, n - 1)
      /\ entries[b[4]][v[4]].present /\ entries[b[4]][v[4]].to = mapped[v].frame
      /\ ~entries[b[4]][v[4]].large
  <2>1. 4 # 3
    OBVIOUS
  <2> QED
    BY <2>1, <1>4, Zenon DEF Reaches
<1>7. mapped[v] \in [frame : Frames, flags : Flags] /\ mapped = [w \in DOMAIN mapped |-> mapped[w]]
  BY <1>1 DEF Inv
<1>8. m.frame = mapped[v].frame /\ m.flags = flags /\ m.frame \in Frames /\ m \in [frame : Frames, flags : Flags]
  BY <1>7
<1>9. m = [mapped[v] EXCEPT !.flags = flags]
  BY <1>7
<1> HIDE DEF m
<1>10. mapped' = Put(mapped, v, m)
  <2>1. mapped' = [mapped EXCEPT ![v] = m]
    BY <1>1, <1>7, <1>9
  <2>2. mapped' = [w \in DOMAIN mapped |-> IF w = v THEN m ELSE mapped[w]]
    BY <2>1, <1>7, Zenon
  <2>3. DOMAIN mapped \cup {v} = DOMAIN mapped
    BY <1>1
  <2> QED
    BY <2>2, <2>3, Zenon DEF Put
<1>11. Mid(new, live, pre, mapped, k, -1)
  BY <1>2, <1>5, GrantedMid, Zenon
<1>12. Mid(new, live, pre, mapped, k, b[4]) /\ Tree(new, live, pre)
  <2>1. \A s \in live \ {b[4]} : Len(pre[s]) = 3 => ~Empty(new[s])
    <3>1. live \subseteq 0..k /\ k \in Nat /\ \A s \in live \ {-1} : Len(pre[s]) = 3 => ~Empty(new[s])
      BY <1>11, Zenon DEF Mid
    <3>2. \A s \in live : s # -1
      BY <3>1, SMTT(30)
    <3> QED
      BY <3>1, <3>2
  <2> QED
    BY <2>1, <1>11, Zenon DEF Mid
<1>13. b[4] \in live /\ pre[b[4]] = Prefix(v, 3)
  <2>1. 4 \in 1..4 /\ 4 - 1 = 3
    OBVIOUS
  <2> QED
    BY <2>1, <1>6
<1>14. Slot(new, live, pre, mapped, b[4], v) /\ Len(v) = 4
  BY <1>12, <1>13, SlotOfPage, Zenon
<1>15. v[4] \in Index /\ b[4] \in Tables /\ Typed(new)
  <2>1. v[4] \in Index
    BY DEF Memory
  <2> QED
    BY <2>1, <1>13, <1>3, <1>12, Zenon DEF Tree
<1>16. Written(entries', new, b[4], v[Len(v)], LeafOf(v, m))
  <2> DEFINE old == new[b[4]][v[4]]
             e == [old EXCEPT !.flags = flags]
  <2>1. old \in Entry /\ old.present = TRUE /\ old.large = FALSE /\ old.to = m.frame
    <3>1. old \in Entry
      BY <1>15, EntryTyped, SMTT(30)
    <3>2. old.present /\ ~old.large /\ old.to = m.frame
      BY <1>5, <1>6, <1>8
    <3> HIDE DEF old
    <3> QED
      BY <3>1, <3>2
  <2> HIDE DEF old
  <2>2. flags \subseteq {"write", "user", "nx"} /\ (Len(v) = 3) = FALSE
    <3>1. flags \subseteq {"write", "user", "nx"}
      BY DEF Memory
    <3>2. 4 # 3
      OBVIOUS
    <3>3. ~(Len(v) = 3)
      BY <3>2, <1>14, Zenon
    <3> QED
      BY <3>1, <3>3, Zenon
  <2>3. e = [present |-> TRUE, flags |-> flags, large |-> FALSE, to |-> m.frame] /\ e \in Entry
    <3>1. e = [present |-> old.present, flags |-> flags, large |-> old.large, to |-> old.to] /\ e \in Entry
      BY <2>1, <2>2, Reflagged
    <3> QED
      BY <2>1, <3>1, Zenon
  <2>4. LeafOf(v, m) = [present |-> TRUE, flags |-> flags, large |-> FALSE, to |-> m.frame]
    BY <2>2, <1>8, Zenon DEF LeafOf
  <2>5. entries' = [new EXCEPT ![b[4]][v[4]] = e]
    BY <1>1, <1>15, SMTT(30) DEF Typed, old
  <2> HIDE DEF e
  <2>6. Written(entries', new, b[4], v[4], e)
    BY <2>3, <2>5, <1>15, SMTT(30) DEF Written, Typed
  <2>7. e = LeafOf(v, m)
    BY <2>3, <2>4
  <2> QED
    BY <2>6, <2>7, <1>14
<1>17. \A j \in 1..(Len(v) - 1) : EnteredAt(new, live, pre, v, m, j)
  <2> SUFFICES ASSUME NEW j \in 1..3 PROVE EnteredAt(new, live, pre, v, m, j)
    BY <1>14
  <2>1. j \in 1..4 /\ j < 4
    OBVIOUS
  <2>2. j < Len(v)
    BY <2>1, <1>14, Zenon
  <2>3. b[j] \in live /\ pre[b[j]] = Prefix(v, j - 1) /\ Open(new[b[j]][v[j]])
        /\ m.flags \ {"nx"} \subseteq new[b[j]][v[j]].flags
    BY <2>1, <1>5, <1>6, <1>8, Zenon
  <2> QED
    BY <2>2, <2>3, Zenon DEF EnteredAt
<1>18. Mid(entries', live, pre, Put(mapped, v, m), k, -1)
  BY <1>8, <1>12, <1>14, <1>16, <1>17, WrittenMid, Zenon
<1>19. /\ mapped' = [w \in DOMAIN mapped' |-> mapped'[w]]
       /\ \A w \in DOMAIN mapped' : mapped'[w] \in [frame : Frames, flags : Flags]
  <2>1. \A w \in DOMAIN mapped : mapped[w] \in [frame : Frames, flags : Flags]
    BY DEF Inv
  <2> QED
    BY <2>1, <1>8, <1>10 DEF Put
<1>20. panicked' \in BOOLEAN
  BY <1>1 DEF Inv
<1>21. Mid(entries', live, pre, mapped', k, -1) /\ used' = 0..k
  BY <1>1, <1>2, <1>10, <1>18, Zenon
<1> QED
  BY <1>19, <1>20, <1>21 DEF Inv

-----------------------------------------------------------------------------
\* An empty root is a tree.
LEMMA InvInit ==
    ASSUME Memory, Init
    PROVE  Inv
<1> DEFINE pre == [t \in Tables |-> <<>>]
           Entry == [present : BOOLEAN, flags : SUBSET {"write", "user", "nx"}, large : BOOLEAN, to : Tables \cup Frames]
<1>1. /\ entries = [t \in Tables |-> [i \in Index |-> None]] /\ used = {0} /\ mapped = <<>> /\ panicked = FALSE
  BY DEF Init
<1>2. 0 \in Tables /\ TableCount \in Nat
  BY DEF Memory, Tables
<1>3. None \in Entry /\ None.present = FALSE
  BY <1>2 DEF None
<1>4. Typed(entries)
  <2>1. entries \in [Tables -> [Index -> Entry]]
    BY <1>1, <1>3
  <2> QED
    BY <2>1 DEF Typed
<1>5. \A i \in Index : ~entries[0][i].present
  BY <1>1, <1>2, <1>3
<1>6. pre \in [Tables -> Seq(Index)] /\ pre[0] = <<>> /\ Len(pre[0]) = 0
  BY <1>2
<1> HIDE DEF pre
<1>7. Tree(entries, {0}, pre)
  BY <1>2, <1>4, <1>5, <1>6 DEF Tree, Open
<1>8. DOMAIN mapped = {}
  BY <1>1
<1>9. Entered(entries, {0}, pre, mapped)
  BY <1>5, <1>8 DEF Entered, Ends
<1>10. Mid(entries, {0}, pre, mapped, 0, -1) /\ used = 0..0
  <2>1. 0 \in Nat /\ 0 <= TableCount /\ {0} = 0..0
    BY <1>2
  <2>3. 0 # 3
    OBVIOUS
  <2>2. \A s \in {0} : Len(pre[s]) # 3
    BY <2>3, <1>6, Zenon
  <2> QED
    BY <2>1, <2>2, <1>1, <1>7, <1>9 DEF Mid
<1>11. mapped = [w \in DOMAIN mapped |-> mapped[w]]
  BY <1>1, <1>8
<1> QED
  BY <1>1, <1>8, <1>10, <1>11, Zenon DEF Inv

-----------------------------------------------------------------------------
(***************************************************************************)
(* What the invariant says of pages.                                       *)
(***************************************************************************)

\* A page, or the large page around it, has the page's first indices.
LEMMA CoveringPrefix ==
    ASSUME Memory, NEW v \in Pages, NEW w \in Covering(v)
    PROVE  /\ w \in DOMAIN mapped /\ Len(w) \in {3, 4}
           /\ \A n \in 1..Len(w) : w[n] = v[n] /\ Prefix(w, n - 1) = Prefix(v, n - 1)
<1>1. v \in Seq(Index) /\ Len(v) = 4
  BY DEF Memory
<1>2. w \in DOMAIN mapped /\ (w = v \/ w = Prefix(v, 3))
  BY Zenon DEF Covering, Prefix
<1>3. CASE w = v
  BY <1>1, <1>2, <1>3
<1>4. CASE w = Prefix(v, 3)
  <2>1. Len(w) = 3 /\ w \in Seq(Index) /\ \A n \in 1..3 : w[n] = v[n]
    <3>1. 3 \in 0..Len(v)
      BY <1>1
    <3> QED
      BY <3>1, <1>1, <1>4, PrefixIndex, Zenon
  <2>2. \A n \in 1..3 : Prefix(w, n - 1) = Prefix(v, n - 1)
    <3> SUFFICES ASSUME NEW n \in 1..3 PROVE Prefix(w, n - 1) = Prefix(v, n - 1)
      OBVIOUS
    <3>1. n = 1 \/ n = 2 \/ n = 3
      OBVIOUS
    <3>2. Prefix(w, 0) = <<>> /\ Prefix(v, 0) = <<>>
      BY <1>1, <2>1, Prefixes
    <3>3. Append(Prefix(w, 0), w[0 + 1]) = Prefix(w, 0 + 1) /\ Append(Prefix(v, 0), v[0 + 1]) = Prefix(v, 0 + 1)
      <4>1. 0 \in Nat /\ 0 < Len(w) /\ 0 < Len(v)
        BY <1>1, <2>1
      <4> QED
        BY <4>1, <1>1, <2>1, NextPrefix, Zenon
    <3>4. Append(Prefix(w, 1), w[1 + 1]) = Prefix(w, 1 + 1) /\ Append(Prefix(v, 1), v[1 + 1]) = Prefix(v, 1 + 1)
      <4>1. 1 \in Nat /\ 1 < Len(w) /\ 1 < Len(v)
        BY <1>1, <2>1
      <4> QED
        BY <4>1, <1>1, <2>1, NextPrefix
    <3>5. 0 + 1 = 1 /\ 1 + 1 = 2 /\ w[1] = v[1] /\ w[2] = v[2]
      BY <2>1
    <3>6. Prefix(w, 1) = Prefix(v, 1)
      BY <3>2, <3>3, <3>5
    <3>7. Prefix(w, 2) = Prefix(v, 2)
      BY <3>4, <3>5, <3>6
    <3> QED
      BY <3>1, <3>2, <3>6, <3>7
  <2> QED
    BY <2>1, <2>2, <1>2
<1> QED
  BY <1>2, <1>3, <1>4

\* An entry at the end of a walk that maps a page is in the reference.
LEMMA EndsCovered ==
    ASSUME Memory, NEW live, NEW pre, NEW k, Mid(entries, live, pre, mapped, k, -1), NEW v \in Pages,
           LastEntry(entries, v).present,
           LastEntry(entries, v).large \/ Len(Walk(entries, v)) = 4
    PROVE  Covering(v) # {}
<1> DEFINE b == Walk(entries, v)
           l == Len(b)
           e == entries[b[l]][v[l]]
<1>1. LastEntry(entries, v) = e
  BY Zenon DEF LastEntry
<1>2. Tree(entries, live, pre) /\ Entered(entries, live, pre, mapped)
  BY Zenon DEF Mid
<1>3. v \in Seq(Index) /\ Len(v) = 4
  BY DEF Memory
<1>4. OnTree(entries, live, pre, v, b, Len(v))
  BY <1>2, WalkOnTree, Zenon
<1> HIDE DEF b
<1>5. l \in 1..4 /\ \A n \in 1..l : b[n] \in live /\ pre[b[n]] = Prefix(v, n - 1)
  BY <1>3, <1>4 DEF OnTree, IsWay
<1>6. l \in 1..l /\ l \in 1..Len(v)
  BY <1>3, <1>5, SMTT(30)
<1>7. e.present /\ (e.large \/ l = 4)
  BY <1>1 DEF b
<1> HIDE DEF l
<1>8. v[l] \in Index /\ l - 1 \in 0..Len(v) /\ l - 1 \in Nat /\ l - 1 < Len(v) /\ (l - 1) + 1 = l
  BY <1>3, <1>6, LastLevel, Zenon
<1>9. b[l] \in live /\ pre[b[l]] = Prefix(v, l - 1)
  BY <1>5, <1>6
<1>10. Len(pre[b[l]]) = l - 1
  BY <1>3, <1>8, <1>9, PrefixLen, Zenon
<1>11. Ends(e, Len(pre[b[l]]))
  <2>1. CASE e.large
    BY <2>1, <1>7 DEF Ends
  <2>2. CASE l = 4
    <3>1. 4 - 1 = 3
      OBVIOUS
    <3> QED
      BY <3>1, <2>2, <1>7, <1>10, Zenon DEF Ends
  <2> QED
    BY <2>1, <2>2, <1>7, SMTT(30)
<1>12. Append(pre[b[l]], v[l]) \in DOMAIN mapped
  BY <1>2, <1>8, <1>9, <1>11, Zenon DEF Entered
<1>13. Append(Prefix(v, l - 1), v[(l - 1) + 1]) = Prefix(v, (l - 1) + 1)
  BY <1>3, <1>8, NextPrefix, Zenon
<1>14. Prefix(v, l) \in DOMAIN mapped
  BY <1>8, <1>9, <1>12, <1>13, Zenon
<1>15. l = 3 \/ l = 4
  <2>1. e.large => Len(pre[b[l]]) = 2
    BY <1>2, <1>7, <1>8, <1>9, Zenon DEF Tree
  <2>2. e.large => l - 1 = 2
    BY <2>1, <1>10
  <2> QED
    BY <2>2, <1>5, <1>7
<1>16. CASE l = 3
  BY <1>14, <1>16, Zenon DEF Covering, Prefix
<1>17. CASE l = 4
  <2>1. Prefix(v, 4) = v
    BY <1>3, Prefixes, Zenon
  <2> QED
    BY <2>1, <1>14, <1>17, Zenon DEF Covering
<1> QED
  BY <1>15, <1>16, <1>17

\* A walk of the tables finds what the reference says,
LEMMA InvTranslates ==
    ASSUME Memory, Inv
    PROVE  Translates
<1>1. PICK live, pre, k : Mid(entries, live, pre, mapped, k, -1) /\ used = 0..k
  BY Zenon DEF Inv
<1> SUFFICES ASSUME NEW v \in Pages
             PROVE  get_physaddr(entries, v) =
                      IF Covering(v) = {} THEN 0 ELSE mapped[CHOOSE w \in Covering(v) : TRUE].frame
  BY Zenon DEF Translates
<1> DEFINE b == Walk(entries, v)
           e == LastEntry(entries, v)
<1>2. get_physaddr(entries, v) = IF e.present /\ (e.large \/ Len(b) = 4) THEN e.to ELSE 0
  BY Zenon DEF get_physaddr
<1>3. CASE Covering(v) = {}
  <2>1. ~(e.present /\ (e.large \/ Len(b) = 4))
    BY <1>1, <1>3, EndsCovered
  <2> QED
    BY <2>1, <1>2, <1>3
<1>4. CASE Covering(v) # {}
  <2> DEFINE w == CHOOSE w \in Covering(v) : TRUE
  <2>1. w \in Covering(v)
    BY <1>4
  <2> HIDE DEF w
  <2>2. /\ w \in DOMAIN mapped /\ Len(w) \in {3, 4}
        /\ \A n \in 1..Len(w) : w[n] = v[n] /\ Prefix(w, n - 1) = Prefix(v, n - 1)
    BY <2>1, CoveringPrefix
  <2>3. Reaches(entries, live, pre, b, v, mapped[w], Len(w))
    BY <2>2, <1>1, WayOfMapped, Zenon
  <2> DEFINE l == Len(w)
  <2>4. Len(b) = l /\ e = entries[b[l]][v[l]]
    BY <2>3, Zenon DEF Reaches, LastEntry
  <2>5. /\ entries[b[l]][v[l]].present /\ entries[b[l]][v[l]].to = mapped[w].frame
        /\ entries[b[l]][v[l]].large = (l = 3)
    BY <2>3, Zenon DEF Reaches
  <2> HIDE DEF l, b, e
  <2>6. e.present /\ e.to = mapped[w].frame /\ e.large = (l = 3)
    BY <2>4, <2>5
  <2>7. l = 3 \/ l = 4
    BY <2>2 DEF l
  <2>8. e.present /\ (e.large \/ Len(b) = 4)
    BY <2>4, <2>6, <2>7, Zenon
  <2> QED
    BY <2>6, <2>8, <1>2, <1>4 DEF w
<1> QED
  BY <1>3, <1>4

\* with the rights that were asked for;
LEMMA InvRights ==
    ASSUME Memory, Inv
    PROVE  RightsAsAsked
<1>1. PICK live, pre, k : Mid(entries, live, pre, mapped, k, -1) /\ used = 0..k
  BY Zenon DEF Inv
<1> SUFFICES ASSUME NEW v \in Pages, Covering(v) # {}
             PROVE  Effective(entries, v) = mapped[CHOOSE w \in Covering(v) : TRUE].flags
  BY Zenon DEF RightsAsAsked
<1> DEFINE b == Walk(entries, v)
           w == CHOOSE w \in Covering(v) : TRUE
           l == Len(w)
           m == mapped[w]
           level(n) == entries[b[n]][v[n]].flags
<1>2. w \in Covering(v)
  OBVIOUS
<1>3. Tree(entries, live, pre) /\ Entered(entries, live, pre, mapped)
  BY <1>1, Zenon DEF Mid
<1>4. v \in Seq(Index) /\ Len(v) = 4
  BY DEF Memory
<1>5. OnTree(entries, live, pre, v, b, Len(v))
  BY <1>3, WalkOnTree, Zenon
<1>6. b \in Seq(Int \cup Frames)
  BY <1>5 DEF OnTree, IsWay
<1>7. Effective(entries, v) = {f \in {"write", "user"} : \A n \in DOMAIN b : f \in level(n)}
                              \cup {f \in {"nx"} : \E n \in DOMAIN b : f \in level(n)}
  BY Zenon DEF Effective
<1> HIDE DEF w, b
<1>8. /\ w \in DOMAIN mapped /\ l \in {3, 4}
      /\ \A n \in 1..l : w[n] = v[n] /\ Prefix(w, n - 1) = Prefix(v, n - 1)
  BY <1>2, CoveringPrefix
<1>9. Reaches(entries, live, pre, b, v, m, l)
  BY <1>8, <1>1, WayOfMapped, Zenon DEF b
<1> HIDE DEF l, m
<1>10. /\ Len(b) = l /\ \A n \in 1..l : b[n] \in live /\ pre[b[n]] = Prefix(v, n - 1)
       /\ \A n \in 1..(l - 1) : Open(entries[b[n]][v[n]]) /\ m.flags \ {"nx"} \subseteq level(n)
       /\ level(l) = m.flags
  BY <1>9, Zenon DEF Reaches
<1>11. DOMAIN b = 1..l /\ l \in 1..l /\ \A n \in 1..l : n = l \/ n \in 1..(l - 1)
  BY <1>6, <1>8, <1>10
<1>12. ASSUME NEW n \in 1..(l - 1) PROVE "nx" \notin level(n)
  <2>1. n \in 1..Len(v) /\ n \in 1..l /\ n - 1 < 3
    BY <1>4, <1>8
  <2>2. v[n] \in Index /\ n - 1 \in 0..Len(v)
    BY <2>1, <1>4, LastLevel, Zenon
  <2>3. b[n] \in live /\ Len(pre[b[n]]) = n - 1 /\ Open(entries[b[n]][v[n]])
    BY <2>1, <2>2, <1>4, <1>10, PrefixLen, Zenon
  <2>4. Len(pre[b[n]]) < 3
    BY <2>1, <2>3
  <2>5. Leads(entries, live, pre, b[n], v[n])
    BY <2>2, <2>3, <2>4, <1>3, Below, Zenon
  <2> QED
    BY <2>5, Zenon DEF Leads
<1>13. m.flags \subseteq {"write", "user", "nx"}
  <2>1. m.flags \in Flags
    BY <1>3, <1>8, Zenon DEF Entered, m
  <2> QED
    BY <2>1, Zenon DEF Memory
<1> HIDE DEF level
<1>14. \A f \in {"write", "user"} : (\A n \in DOMAIN b : f \in level(n)) <=> f \in m.flags
  <2> SUFFICES ASSUME NEW f \in {"write", "user"} PROVE (\A n \in DOMAIN b : f \in level(n)) <=> f \in m.flags
    OBVIOUS
  <2>1. f # "nx"
    OBVIOUS
  <2>2. f \in m.flags => \A n \in 1..l : f \in level(n)
    BY <2>1, <1>10, <1>11
  <2> QED
    BY <2>2, <1>10, <1>11
<1>15. (\E n \in DOMAIN b : "nx" \in level(n)) <=> "nx" \in m.flags
  BY <1>10, <1>11, <1>12
<1>16. Effective(entries, v) = m.flags
  BY <1>7, <1>13, <1>14, <1>15
<1> QED
  BY <1>16 DEF m, w

\* no table serves two entries or the pages of two callers;
LEMMA InvOwned ==
    ASSUME Memory, Inv
    PROVE  TablesOwned
<1>1. PICK live, pre, k : Mid(entries, live, pre, mapped, k, -1) /\ used = 0..k
  BY Zenon DEF Inv
<1>2. /\ Tree(entries, live, pre) /\ Entered(entries, live, pre, mapped)
      /\ \A s \in (0..k) \ live : Empty(entries[s])
      /\ live \subseteq Tables /\ pre \in [Tables -> Seq(Index)] /\ Frames \cap Tables = {}
  BY <1>1 DEF Mid, Tree, Memory
<1>3. \A s \in live : Len(pre[s]) <= 3
  BY <1>2, Zenon DEF Tree
\* An entry that leads to a table is one of a live table above the last level.
<1>4. ASSUME NEW s \in used, NEW i \in Index, Open(entries[s][i]), entries[s][i].to \in Tables
      PROVE  s \in live /\ Leads(entries, live, pre, s, i)
  <2>1. s \in live
    BY <1>1, <1>2, <1>4, SMTT(30) DEF Empty, Open
  <2>2. Len(pre[s]) # 3
    <3>1. SUFFICES ASSUME Len(pre[s]) = 3 PROVE FALSE
      OBVIOUS
    <3> DEFINE w == Append(pre[s], i)
    <3>2. Ends(entries[s][i], Len(pre[s]))
      BY <3>1, <1>4 DEF Ends, Open
    <3>3. w \in DOMAIN mapped
      BY <3>2, <2>1, <1>2, Zenon DEF Entered
    <3>4. pre[s] \in Seq(Index)
      BY <2>1, <1>2
    <3>5. Len(w) = Len(pre[s]) + 1 /\ w[Len(pre[s]) + 1] = i /\ w \in Seq(Index)
      BY <3>4, AppendParts
    <3>6. 3 + 1 = 4 /\ 4 \in 1..4 /\ ~(4 < 4) /\ 4 - 1 = 3 /\ 3 \in 0..4
      OBVIOUS
    <3>7. Len(w) = 4 /\ w[4] = i
      BY <3>1, <3>5, <3>6, Zenon
    <3>8. Prefix(w, 3) = pre[s]
      BY <3>1, <3>4, FirstThree
    <3> HIDE DEF w
    <3>9. EnteredAt(entries, live, pre, w, mapped[w], 4) /\ mapped[w].frame \in Frames
      BY <3>3, <3>6, <3>7, <1>2, Zenon DEF Entered
    <3>10. PICK r \in live : pre[r] = Prefix(w, 3) /\ entries[r][w[4]] = LeafOf(w, mapped[w])
      BY <3>6, <3>7, <3>9, Zenon DEF EnteredAt
    <3>11. r = s
      BY <3>8, <3>10, <2>1, <1>2, Zenon DEF Tree
    <3>12. entries[s][i].to = mapped[w].frame
      <4>1. LeafOf(w, mapped[w]).to = mapped[w].frame
        BY LeafParts
      <4> QED
        BY <4>1, <3>7, <3>10, <3>11
    <3> QED
      BY <3>9, <3>12, <1>2, <1>4
  <2>3. Len(pre[s]) < 3
    <3>1. pre[s] \in Seq(Index) /\ Len(pre[s]) <= 3
      BY <2>1, <1>2, <1>3
    <3>2. Len(pre[s]) \in Nat
      BY <3>1
    <3>3. \A n \in Nat : n <= 3 /\ n # 3 => n < 3
      OBVIOUS
    <3> QED
      BY <2>2, <3>1, <3>2, <3>3, Zenon
  <2> QED
    BY <2>1, <2>3, <1>2, <1>4, Below, ZenonT(40)
<1>5. ASSUME NEW s \in used, NEW t \in used, NEW i \in Index, NEW j \in Index,
             entries[s][i].present, ~entries[s][i].large, entries[s][i].to \in Tables,
             entries[t][j].present, ~entries[t][j].large, entries[t][j].to = entries[s][i].to
      PROVE  s = t /\ i = j
  <2>1. s \in live /\ Leads(entries, live, pre, s, i) /\ t \in live /\ Leads(entries, live, pre, t, j)
    BY <1>4, <1>5, SMTT(30) DEF Open
  <2>2. Append(pre[s], i) = Append(pre[t], j) /\ pre[s] \in Seq(Index) /\ pre[t] \in Seq(Index)
    BY <2>1, <1>2, <1>5 DEF Leads
  <2>3. pre[s] = pre[t] /\ i = j
    BY <2>2, LastIndex, SMTT(30)
  <2>4. s = t
    BY <2>1, <2>3, <1>2, Zenon DEF Tree
  <2> QED
    BY <2>3, <2>4
<1> QED
  BY <1>5, ZenonT(40) DEF TablesOwned

\* and the variables have their types.
LEMMA InvTypes ==
    ASSUME Memory, Inv
    PROVE  TypeOK
<1>1. PICK live, pre, k : Mid(entries, live, pre, mapped, k, -1) /\ used = 0..k
  BY Zenon DEF Inv
<1>2. Typed(entries) /\ k \in Nat /\ k <= TableCount /\ Entered(entries, live, pre, mapped) /\ panicked \in BOOLEAN
  BY <1>1 DEF Mid, Tree, Inv
<1>3. used \subseteq Tables
  BY <1>1, <1>2, SMTT(30) DEF Tables, Memory
<1>4. \A t \in Tables, i \in Index : entries[t][i].to \in Tables \cup Frames
  BY <1>2, EntryTyped
<1>5. DOMAIN mapped \subseteq Pages \cup LargePages
  BY <1>2, Zenon DEF Entered
<1> QED
  BY <1>2, <1>3, <1>4, <1>5 DEF TypeOK

-----------------------------------------------------------------------------
(***************************************************************************)
(* The steps, and the theorems.                                            *)
(***************************************************************************)
INSTANCE FiniteSetTheorems

\* The tables that Fresh lists.
LEMMA FreshTables ==
    ASSUME Memory, NEW k \in Nat, k <= TableCount, used = 0..k
    PROVE  /\ Cardinality(used) = k + 1 /\ Len(Fresh) = TableCount - k
           /\ \A i \in 1..(TableCount - k) : Fresh[i] = k + i
<1>1. TableCount \in Nat
  BY DEF Memory
<1>2. Cardinality(used) = k + 1
  <2>1. Cardinality(0..k) = k - 0 + 1
    BY FS_Interval
  <2> QED
    BY <2>1
<1>3. Fresh = [i \in 1..(TableCount - k) |-> k + i]
  <2>1. Fresh = [i \in 1..(TableCount + 1 - (k + 1)) |-> (k + 1) + i - 1]
    BY <1>2, Zenon DEF Fresh
  <2>2. TableCount + 1 - (k + 1) = TableCount - k /\ \A i \in 1..(TableCount - k) : (k + 1) + i - 1 = k + i
    BY <1>1
  <2> QED
    BY <2>1, <2>2, <1>1
<1>4. TableCount - k \in Nat
  BY <1>1
<1> QED
  BY <1>2, <1>3, <1>4

\* map_page and map_large_page keep the invariant.
LEMMA EnterStep ==
    ASSUME Memory, Inv, NEW v \in Pages \cup LargePages, NEW frame \in Frames, NEW flags \in Flags,
           Enter(v, frame, flags)
    PROVE  Inv'
<1> DEFINE m == [frame |-> frame, flags |-> flags]
           way == Walk(entries, v)
           d == Descend(entries, v, flags, Len(v) - 1, Fresh)
<1>1. Clear(v)
  BY Zenon DEF Enter
<1>2. PICK live, pre, k : Mid(entries, live, pre, mapped, k, -1) /\ used = 0..k
  BY Zenon DEF Inv
<1>3. CASE Missing(v) > Len(Fresh)
  <2>1. panicked' = TRUE /\ entries' = entries /\ used' = used /\ mapped' = mapped
    BY <1>3 DEF Enter
  <2> QED
    BY <2>1, <1>2, SMTT(30) DEF Inv
<1>4. CASE ~(Missing(v) > Len(Fresh))
  <2>1. /\ entries' = [d.es EXCEPT ![d.at][v[Len(v)]] = [present |-> TRUE, flags |-> flags,
                                                         large |-> Len(v) = 3, to |-> frame]]
        /\ used' = 0..(Cardinality(used) - 1 + d.took)
        /\ mapped' = [w \in DOMAIN mapped \cup {v} |-> IF w = v THEN [frame |-> frame, flags |-> flags]
                                                      ELSE mapped[w]]
        /\ panicked' = panicked
    BY <1>4, Zenon DEF Enter
  <2>2. m.frame = frame /\ m.flags = flags /\ m \in [frame : Frames, flags : Flags]
    OBVIOUS
  <2> HIDE DEF d, way, m
  <2>3. v \in Seq(Index) /\ Len(v) \in {3, 4}
    BY DEF Memory
  <2>4. Tree(entries, live, pre) /\ k \in Nat /\ k <= TableCount
    BY <1>2, Zenon DEF Mid
  <2>5. IsWay(entries, v, way, Len(v)) /\ Len(way) \in 1..Len(v)
    <3>1. OnTree(entries, live, pre, v, way, Len(v))
      BY <2>4, WalkOnTree, Zenon DEF way
    <3> QED
      BY <3>1 DEF OnTree, IsWay
  <2>6. /\ Cardinality(used) = k + 1 /\ Len(Fresh) = TableCount - k
        /\ \A i \in 1..(TableCount - k) : Fresh[i] = k + i
    BY <1>2, <2>4, FreshTables
  <2>7. Missing(v) = Len(v) - Len(way)
    BY Zenon DEF Missing, way
  <2>8. Ready(entries, way, v, m, mapped, k, Fresh)
    <3> DEFINE lv == Len(v)
               lw == Len(way)
    <3>1. TableCount \in Nat /\ lv \in Nat /\ lw \in Nat /\ ~(lv - lw > TableCount - k)
      BY <1>4, <2>3, <2>5, <2>6, <2>7, SMTT(30) DEF Memory
    <3> HIDE DEF lv, lw
    <3>2. k + (lv - lw) <= TableCount /\ \A i \in 1..(lv - lw) : i \in 1..(TableCount - k)
      BY <3>1, <2>4
    <3>3. \A i \in 1..(lv - lw) : Fresh[i] = k + i
      BY <3>2, <2>6
    <3> QED
      BY <3>2, <3>3, <2>2, <2>4, <2>5, <1>1, ClearApart, SMTT(30) DEF Ready, lv, lw
  <2>9. Down(entries, way, d, v, m, Len(v) - 1, mapped, k)
    <3>1. Down(entries, way, Descend(entries, v, m.flags, Len(v) - 1, Fresh), v, m, Len(v) - 1, mapped, k)
      BY <1>2, <2>8, DescendDown
    <3> QED
      BY <3>1, <2>2 DEF d
  <2>10. PICK l, p : DownIn(entries, way, d, v, m, Len(v) - 1, mapped, k, l, p)
    BY <2>9, Zenon DEF Down
  <2>11. /\ d.took \in Nat /\ Mid(d.es, l, p, mapped, k + d.took, d.at)
         /\ d.at \in l /\ p[d.at] = Prefix(v, Len(v) - 1)
         /\ \A j \in 1..(Len(v) - 1) : EnteredAt(d.es, l, p, v, m, j)
    BY <2>10, Zenon DEF DownIn
  <2>12. Slot(d.es, l, p, mapped, d.at, v)
    <3>1. Tree(d.es, l, p)
      BY <2>11, Zenon DEF Mid
    <3>2. Len(v) = 3 => \A w \in DOMAIN mapped : Prefix(w, 3) # v
      BY <1>1, ClearApart
    <3>3. ASSUME Len(v) = 3 PROVE ~Open(d.es[d.at][v[3]])
      <4>1. p[d.at] = Prefix(v, 2)
        BY <2>11, <3>3
      <4> QED
        BY <4>1, <2>3, <2>11, <3>2, <3>3, NothingBelow, ZenonT(40)
    <3> QED
      BY <3>1, <3>2, <3>3, <2>11, Zenon DEF Slot
  <2>13. Written(entries', d.es, d.at, v[Len(v)], LeafOf(v, m))
    <3>1. v[Len(v)] \in Index /\ d.at \in Tables
      BY <2>12, SlotParts, SMTT(30)
    <3>2. LeafOf(v, m) = [present |-> TRUE, flags |-> flags, large |-> Len(v) = 3, to |-> frame]
      BY <2>2, SMTT(30) DEF LeafOf
    <3>3. LeafOf(v, m) \in [present : BOOLEAN, flags : SUBSET {"write", "user", "nx"}, large : BOOLEAN, to : Tables \cup Frames]
      <4>1. flags \subseteq {"write", "user", "nx"} /\ (Len(v) = 3) \in BOOLEAN
        BY SMTT(30) DEF Memory
      <4> QED
        BY <3>2, <4>1
    <3>4. Typed(d.es)
      BY <2>12 DEF Slot, Tree
    <3> DEFINE x == v[Len(v)]
               e == LeafOf(v, m)
    <3>5. entries' = [d.es EXCEPT ![d.at][x] = e]
      BY <2>1, <3>2, ZenonT(40)
    <3> HIDE DEF x, e
    <3>6. Written(entries', d.es, d.at, x, e)
      BY <3>1, <3>3, <3>4, <3>5 DEF Written, Typed, x, e
    <3> QED
      BY <3>6 DEF x, e
  <2>14. Mid(entries', l, p, Put(mapped, v, m), k + d.took, -1)
    BY <2>2, <2>11, <2>12, <2>13, WrittenMid, Zenon
  <2>15. mapped' = Put(mapped, v, m)
    BY <2>1, ZenonT(40) DEF Put, m
  <2>16. used' = 0..(k + d.took)
    <3>1. Cardinality(used) - 1 + d.took = k + d.took
      BY <2>4, <2>6, <2>11, SMTT(30)
    <3> QED
      BY <3>1, <2>1, SMTT(30)
  <2>17. /\ mapped' = [w \in DOMAIN mapped' |-> mapped'[w]]
         /\ \A w \in DOMAIN mapped' : mapped'[w] \in [frame : Frames, flags : Flags]
    <3>1. \A w \in DOMAIN mapped : mapped[w] \in [frame : Frames, flags : Flags]
      BY DEF Inv
    <3> QED
      BY <3>1, <2>2, <2>15 DEF Put
  <2>18. panicked' \in BOOLEAN
    BY <2>1 DEF Inv
  <2> QED
    BY <2>14, <2>15, <2>16, <2>17, <2>18, SMTT(30) DEF Inv
<1> QED
  BY <1>3, <1>4

\* Every step keeps the invariant.
LEMMA InvNext ==
    ASSUME Memory, Inv, [Next]_vars
    PROVE  Inv'
<1>1. ASSUME NEW v \in Pages, NEW flags \in Flags, NEW f \in Frames, map_page(v, f, flags) PROVE Inv'
  BY <1>1, EnterStep DEF map_page
<1>2. ASSUME NEW v \in LargePages, NEW flags \in Flags, NEW f \in Frames, map_large_page(v, f, flags) PROVE Inv'
  BY <1>2, EnterStep DEF map_large_page
<1>3. ASSUME NEW v \in Pages, NEW flags \in Flags, remap_page(v, flags) PROVE Inv'
  BY <1>3, RemapStep
<1>4. ASSUME NEW v \in Pages, unmap_page(v) PROVE Inv'
  BY <1>4, UnmapStep
<1>5. CASE UNCHANGED vars
  BY <1>5 DEF vars, Inv
<1> QED
  BY <1>1, <1>2, <1>3, <1>4, <1>5, Zenon DEF Next

\* The invariant holds throughout.
LEMMA Invariance ==
    ASSUME Memory
    PROVE  Spec => []Inv
<1>1. Init => Inv
  BY InvInit
<1>2. Inv /\ [Next]_vars => Inv'
  BY InvNext
<1> QED
  BY <1>1, <1>2, PTL DEF Spec

\* For every number of tables and whatever indices the pages have, and all large
\* pages, frames and flags: get_physaddr finds for each page the frame that
\* map_page, map_large_page and unmap_page, in any order, last gave it, and
\* nothing for a page that is not mapped, as long as no page is mapped inside
\* a large page that is.
THEOREM PagesTranslated ==
    ASSUME Memory
    PROVE  Spec => []Translates
<1>1. Inv => Translates
  BY InvTranslates
<1> QED
  BY <1>1, Invariance, PTL

\* For every size: what the four levels grant together is what the caller of
\* map_page or remap_page asked for, although the entries of the upper levels
\* are shared and only gain flags.
THEOREM RightsGranted ==
    ASSUME Memory
    PROVE  Spec => []RightsAsAsked
<1>1. Inv => RightsAsAsked
  BY InvRights, SMTT(30)
<1> QED
  BY <1>1, Invariance, PTL

\* For every size: each table hangs below at most one entry, so that clearing
\* an entry on the way up in unmap_page never frees a table that another page
\* needs.
THEOREM TablesApart ==
    ASSUME Memory
    PROVE  Spec => []TablesOwned
<1>1. Inv => TablesOwned
  BY InvOwned
<1> QED
  BY <1>1, Invariance, PTL

\* For every size: the entries and the reference keep their types.
THEOREM TableTypes ==
    ASSUME Memory
    PROVE  Spec => []TypeOK
<1>1. Inv => TypeOK
  BY InvTypes
<1> QED
  BY <1>1, Invariance, PTL
=============================================================================
