----------------------------- MODULE PageTables -----------------------------
(***************************************************************************)
(* The four levels of x86-64 page tables                                   *)
(* (arch/x86_64/Memory/PageMapIndexer.cpp) under one root, and the         *)
(* reference they must agree with: which frame a page was last mapped to,  *)
(* with which rights.                                                      *)
(*                                                                         *)
(* A page is the tuple of its indices, PML4 first; a large page has three. *)
(* An entry holds the table or frame it points to, the flags among "write",*)
(* "user" and "nx", and whether it is a large page.  The caller holds the  *)
(* page manager's lock.  Tables are never given back: unmap passes FreePage*)
(* the table's address in the direct map, which is past the bitmap's end.  *)
(***************************************************************************)
EXTENDS Integers, Sequences, FiniteSets

CONSTANTS
    Pages, LargePages,  \* tuples of four and of three indices
    Frames,             \* frames that pages are mapped to
    TableCount,         \* frames the allocator has for tables
    Flags               \* sets of flags that callers use

Tables == 0..TableCount     \* table 0 is the root

Index == UNION {{v[i] : i \in DOMAIN v} : v \in Pages \cup LargePages}

\* Pages have four indices and large pages three; the frames of tables are not
\* given to callers.
Memory ==
    /\ TableCount \in Nat /\ Frames \cap Tables = {}
    /\ \A v \in Pages : v \in Seq(Index) /\ Len(v) = 4
    /\ \A v \in LargePages : v \in Seq(Index) /\ Len(v) = 3
    /\ Flags \subseteq SUBSET {"write", "user", "nx"}

None == [present |-> FALSE, flags |-> {}, large |-> FALSE, to |-> 0]

VARIABLES
    entries,    \* table -> index -> entry
    used,       \* tables handed out
    mapped,     \* reference: page -> [frame, flags]
    panicked

vars == <<entries, used, mapped, panicked>>

Init ==
    /\ entries = [t \in Tables |-> [i \in Index |-> None]]
    /\ used = {0}
    /\ mapped = <<>>
    /\ panicked = FALSE

-----------------------------------------------------------------------------
\* The tables on the way to v, as far as there are any: es are the entries.
Walk(es, v) ==
    LET follow[n \in 1..Len(v)] ==
            IF n = 1 THEN <<0>>
            ELSE LET before == follow[n - 1]
                     e == es[before[n - 1]][v[n - 1]]
                 IN  IF Len(before) = n - 1 /\ e.present /\ ~e.large
                     THEN Append(before, e.to) ELSE before
    IN  follow[Len(v)]

\* Where the walk for v ends, and the entry it ends with.
LastEntry(es, v) == LET way == Walk(es, v) IN es[way[Len(way)]][v[Len(way)]]

\* x86_64_get_physaddr: the frame, or 0; a large page covers its pages.
get_physaddr(es, v) ==
    LET e == LastEntry(es, v)
        depth == Len(Walk(es, v))
    IN  IF e.present /\ (e.large \/ depth = 4) THEN e.to ELSE 0

\* What the processor allows: writes and user accesses need every level's
\* consent, and any level may forbid execution.
Effective(es, v) ==
    LET way == Walk(es, v)
        level(i) == es[way[i]][v[i]].flags
    IN  {f \in {"write", "user"} : \A i \in DOMAIN way : f \in level(i)}
        \cup {f \in {"nx"} : \E i \in DOMAIN way : f \in level(i)}

\* Fault: upper levels that exist keep their flags.
GrantKeep(old, flags) == old

\* Upper levels collect the flags of everything below them, except "nx".
Grant(old, flags) == old \cup (flags \ {"nx"})

\* The entries after a table for each missing level on the way to v, down to
\* depth, and the collected flags; fresh gives the tables in order.
Descend(es, v, flags, depth, fresh) ==
    LET step[n \in 0..depth] ==
            IF n = 0 THEN [es |-> es, at |-> 0, took |-> 0]
            ELSE LET s == step[n - 1]
                     old == s.es[s.at][v[n]]
                     new == fresh[s.took + 1]
                 IN  IF old.large /\ old.present THEN [s EXCEPT !.es[s.at][v[n]].flags = Grant(@, flags)]
                     ELSE IF old.present
                     THEN [es |-> [s.es EXCEPT ![s.at][v[n]].flags = Grant(@, flags)],
                           at |-> old.to, took |-> s.took]
                     ELSE [es |-> [s.es EXCEPT
                                    ![s.at][v[n]] = [present |-> TRUE, flags |-> flags \ {"nx"},
                                                     large |-> FALSE, to |-> new],
                                    ![new] = [i \in Index |-> None]],
                           at |-> new, took |-> s.took + 1]
    IN  step[depth]

\* The tables that AllocatePage would hand out next.
Fresh == [i \in 1..(TableCount + 1 - Cardinality(used)) |-> Cardinality(used) + i - 1]

\* How many levels are missing on the way to v, above the last one.
Missing(v) == Len(v) - Len(Walk(entries, v))

\* No page under a large page is mapped on its own, and the other way round.
Clear(v) ==
    \A w \in DOMAIN mapped :
        SubSeq(w, 1, 3) = SubSeq(v, 1, 3) => Len(w) = 4 /\ Len(v) = 4

\* Map a page or, with three indices, a large page.
Enter(v, frame, flags) ==
    /\ ~panicked /\ Clear(v)
    /\ IF Missing(v) > Len(Fresh)
       THEN panicked' = TRUE /\ UNCHANGED <<entries, used, mapped>>
       ELSE LET d == Descend(entries, v, flags, Len(v) - 1, Fresh)
            IN  /\ entries' = [d.es EXCEPT ![d.at][v[Len(v)]] =
                                [present |-> TRUE, flags |-> flags,
                                 large |-> Len(v) = 3, to |-> frame]]
                /\ used' = 0..(Cardinality(used) - 1 + d.took)
                /\ mapped' = [w \in DOMAIN mapped \cup {v} |->
                                IF w = v THEN [frame |-> frame, flags |-> flags]
                                ELSE mapped[w]]
                /\ UNCHANGED panicked

map_page(v, frame, flags) == Enter(v, frame, flags)

map_large_page(v, frame, flags) == v \notin DOMAIN mapped /\ Enter(v, frame, flags)

Empty(table) == \A i \in Index : ~table[i].present

\* Clear the entry; then, from the last level up, the entry for each table
\* that has become empty.
unmap_page(v) ==
    LET way == Walk(entries, v)
        leaf == [entries EXCEPT ![way[4]][v[4]] = None]
        up[n \in 1..4] ==   \* after looking at the table of level n
            IF n = 1 THEN leaf
            ELSE IF Empty(up[n - 1][way[6 - n]])
            THEN [up[n - 1] EXCEPT ![way[5 - n]][v[5 - n]].present = FALSE]
            ELSE up[n - 1]
    IN  /\ ~panicked /\ v \in DOMAIN mapped
        /\ entries' = up[4]
        /\ mapped' = [w \in DOMAIN mapped \ {v} |-> mapped[w]]
        /\ UNCHANGED <<used, panicked>>

\* Other rights for a page that is mapped; upper levels only gain flags.
remap_page(v, flags) ==
    LET way == Walk(entries, v)
        granted == [t \in Tables |-> [i \in Index |->
                      IF \E n \in 1..3 : way[n] = t /\ v[n] = i
                      THEN [entries[t][i] EXCEPT !.flags = Grant(@, flags)]
                      ELSE entries[t][i]]]
    IN  /\ ~panicked /\ v \in DOMAIN mapped
        /\ entries' = [granted EXCEPT ![way[4]][v[4]].flags = flags]
        /\ mapped' = [mapped EXCEPT ![v].flags = flags]
        /\ UNCHANGED <<used, panicked>>

Next ==
    \/ \E v \in Pages, flags \in Flags :
        remap_page(v, flags) \/ \E f \in Frames : map_page(v, f, flags)
    \/ \E v \in Pages : unmap_page(v)
    \/ \E v \in LargePages, flags \in Flags, f \in Frames : map_large_page(v, f, flags)

Spec == Init /\ [][Next]_vars

-----------------------------------------------------------------------------
\* The page, or the large page around it, in the reference.
Covering(v) == {w \in DOMAIN mapped : w = v \/ w = SubSeq(v, 1, 3)}

\* Type correctness.
TypeOK ==
    /\ \A t \in Tables, i \in Index : entries[t][i].to \in Tables \cup Frames
    /\ used \subseteq Tables /\ panicked \in BOOLEAN
    /\ DOMAIN mapped \subseteq Pages \cup LargePages

\* get_physaddr gives, for every page, the frame of the last map_page or
\* map_large_page, and 0 for a page that is not mapped, whatever tables other
\* calls created, shared or dropped in between.
Translates ==
    \A v \in Pages :
        get_physaddr(entries, v) =
            IF Covering(v) = {} THEN 0 ELSE mapped[CHOOSE w \in Covering(v) : TRUE].frame

\* The rights the processor grants on a page, through all four levels, are
\* the ones it was mapped with, although upper levels only ever gain flags
\* and are shared with pages of other rights.
RightsAsAsked ==
    \A v \in Pages : Covering(v) # {} =>
        Effective(entries, v) = mapped[CHOOSE w \in Covering(v) : TRUE].flags

\* No table hangs below two entries: a change for one page never shows at
\* another.
TablesOwned ==
    \A s, t \in used, i, j \in Index :
        /\ entries[s][i].present /\ ~entries[s][i].large /\ entries[s][i].to \in Tables
        /\ entries[t][j].present /\ ~entries[t][j].large /\ entries[t][j].to = entries[s][i].to
        => s = t /\ i = j
=============================================================================
