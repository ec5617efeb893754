--------------------------- MODULE FrameAllocator ---------------------------
(***************************************************************************)
(* The physical page frame allocator (Memory/PhysicalPageFrameAllocator):  *)
(* a bitmap with one bit per frame (set: not available), counters, and     *)
(* m_nextFree, a guess at the next free frame.                             *)
(*                                                                         *)
(* Sizes are in pages.  The boot processor runs alone until FullInit; only *)
(* with more memory than EarlyLimit (4 GiB) does FullInit set              *)
(* m_fullyInitialised, and only then do the operations take the two locks. *)
(* Each section under a lock is one step, so a test-and-set of the bitmap, *)
(* the counters' update that follows it and the search before it are       *)
(* separate steps.  Without the locks only the boot processor is modelled. *)
(***************************************************************************)
EXTENDS Integers, Sequences, FiniteSets, FiniteSetsExt

CONSTANTS
    CPUs, Boot,
    MemSize,        \* frames the machine has
    EarlyLimit,     \* frames the early bitmap covers
    BitmapPages,    \* frames that the full bitmap takes
    MemoryMaps,     \* memory maps: sequences of [free, first, count]
    NoFrame,        \* UINT64_MAX
    MaxHeld,        \* bound: frames that callers hold, together
    MaxReserved     \* bound: m_ReservedMem

Frames == 0..(MemSize - 1)

VARIABLES
    map,            \* the memory map of this machine
    m_Bitmap,       \* one bit per frame of the machine
    m_size,         \* how many of them the bitmap covers
    m_FreeMem, m_UsedMem, m_ReservedMem, m_nextFree,
    m_fullyInitialised,
    pc, page,       \* where each processor is in an operation, and its frame
    panicked,
    held,           \* ghost: how many callers hold each frame
    reserved,       \* ghost: the frames reserved by ReservePage
    skew,           \* ghost: what the boot miscounts
    overlapped      \* ghost: two operations have overlapped

boot == <<map, m_size, m_fullyInitialised, skew>>
counters == <<m_FreeMem, m_UsedMem, m_ReservedMem, m_nextFree>>
vars == <<boot, m_Bitmap, counters, pc, page, panicked, held, reserved, overlapped>>

-----------------------------------------------------------------------------
\* Reads past the end of the bitmap give zero, writes there do nothing.
Bit(bitmap, size, i) == i < size /\ bitmap[i]

FreeBits(bitmap, size) == {i \in Frames : i < size /\ ~bitmap[i]}

Covers(entry, i) == i \in entry.first..(entry.first + entry.count - 1)

\* The entries in order, for the frames from "from" on: the last one counts.
EnterMap(bitmap, entries, from) ==
    [i \in Frames |->
        LET over == {k \in 1..Len(entries) : Covers(entries[k], i)}
        IN  IF i < from \/ over = {} THEN bitmap[i] ELSE ~entries[Max(over)].free]

\* The lengths of the free or of the other entries, together.
Lengths(entries, free) ==
    MapThenSumSet(LAMBDA k : entries[k].count,
                  {k \in 1..Len(entries) : entries[k].free = free})

\* EarlyInit counts whole entries, those past the early bitmap included, and
\* does not take frame 0 off the free memory when it reserves it.
EarlyBitmap(entries) == EnterMap([i \in Frames |-> TRUE], entries, 0)

Init ==
    /\ map \in MemoryMaps
    /\ m_size = IF MemSize > EarlyLimit THEN EarlyLimit ELSE MemSize
    /\ m_Bitmap = [EarlyBitmap(map) EXCEPT ![0] = TRUE]
    /\ m_FreeMem = Lengths(map, TRUE)
    /\ m_ReservedMem = Lengths(map, FALSE) + IF EarlyBitmap(map)[0] THEN 0 ELSE 1
    /\ m_UsedMem = 0 /\ m_nextFree = NoFrame
    /\ m_fullyInitialised = FALSE
    /\ pc = [c \in CPUs |-> "idle"] /\ page = [c \in CPUs |-> 0]
    /\ panicked = FALSE
    /\ held = [i \in Frames |-> 0] /\ reserved = {} /\ overlapped = FALSE
    /\ skew = m_FreeMem - Cardinality(FreeBits(m_Bitmap, m_size))

\* FindFreePages, for more than one page: the first frame that is free and is
\* followed by count free frames (one more than asked for).  The search skips
\* to the frame that stopped it, which no shorter skip could use either.
FindFreePages(bitmap, size, count) ==
    LET fits == {i \in 0..(size - 1) :
                    \A j \in 0..count : ~Bit(bitmap, size, i + j)}
    IN  IF fits = {} THEN NoFrame ELSE Min(fits)

\* The entries that FullInit enters: those that reach past the limit.
LateEntries(entries) == SelectSeq(entries, LAMBDA e : e.first + e.count > EarlyLimit)

\* What is assumed of a machine: it has some frames and some processors, and the
\* lengths of the memory map's entries add up to numbers.
Machine ==
    /\ MemSize \in Nat \ {0} /\ EarlyLimit \in Nat
    /\ IsFiniteSet(CPUs)
    /\ \A m \in MemoryMaps : \A free \in BOOLEAN :
          Lengths(m, free) \in Nat /\ Lengths(LateEntries(m), free) \in Nat

\* FullInit with more memory than the early bitmap covers: the new bitmap's
\* own frames are taken, the old bits are copied, the rest comes from the map.
\* Entries that reach past the limit are counted a second time.
FullInit ==
    LET at == FindFreePages(m_Bitmap, m_size, BitmapPages)
        taken == {i \in Frames : i < m_size /\ i \in at..(at + BitmapPages - 1)}
        old == [i \in Frames |-> IF i < m_size THEN m_Bitmap[i] \/ i \in taken ELSE TRUE]
        late == LateEntries(map)
    IN  /\ ~panicked /\ ~m_fullyInitialised /\ MemSize > EarlyLimit
        /\ pc[Boot] = "idle"
        /\ at # NoFrame
        /\ m_Bitmap' = EnterMap(old, late, EarlyLimit)
        /\ m_size' = MemSize
        /\ m_FreeMem' = m_FreeMem - Cardinality(taken) + Lengths(late, TRUE)
        /\ m_UsedMem' = m_UsedMem + Cardinality(taken)
        /\ m_ReservedMem' = m_ReservedMem + Lengths(late, FALSE)
        /\ m_nextFree' = NoFrame
        /\ m_fullyInitialised' = TRUE
        /\ skew' = m_FreeMem' - Cardinality(FreeBits(m_Bitmap', m_size'))
        /\ UNCHANGED <<map, pc, page, panicked, held, reserved, overlapped>>

\* Its assertion: no run of frames is long enough.
FullInitPanics ==
    /\ ~panicked /\ ~m_fullyInitialised /\ MemSize > EarlyLimit
    /\ pc[Boot] = "idle"
    /\ FindFreePages(m_Bitmap, m_size, BitmapPages) = NoFrame
    /\ panicked' = TRUE
    /\ UNCHANGED <<boot, m_Bitmap, counters, pc, page, held, reserved, overlapped>>

-----------------------------------------------------------------------------
Running(c) == ~panicked /\ (c = Boot \/ m_fullyInitialised)

\* A processor enters an operation.
Enter(c) ==
    /\ Running(c) /\ pc[c] = "idle"
    /\ m_ReservedMem <= MaxReserved
    /\ overlapped' = (overlapped \/ \E d \in CPUs \ {c} : pc[d] # "idle")

\* Fault: the guess moves on without a look at the bitmap.
NextGuessBlind(i) == IF i + 1 < m_size THEN i + 1 ELSE NoFrame

\* The guess that FindFreePage leaves: the following frame, if it is free.
NextGuess(i) ==
    IF i + 1 < m_size /\ ~Bit(m_Bitmap, m_size, i + 1) THEN i + 1 ELSE NoFrame

HeldFrames == MapThenSumSet(LAMBDA i : held[i], Frames)

\* AllocatePage, FindFreePage's section under both locks: the guess is
\* returned as it is; without one the bitmap is searched.
FindFreePage(c) ==
    /\ Enter(c) /\ HeldFrames < MaxHeld
    /\ UNCHANGED <<boot, m_Bitmap, m_FreeMem, m_UsedMem, m_ReservedMem, held, reserved>>
    /\ LET free == FreeBits(m_Bitmap, m_size)
           i == IF m_nextFree # NoFrame THEN m_nextFree ELSE Min(free)
       IN  \/ /\ m_nextFree = NoFrame /\ free = {}
              /\ panicked' = TRUE
              /\ UNCHANGED <<m_nextFree, pc, page>>
           \/ /\ m_nextFree # NoFrame \/ free # {}
              /\ page' = [page EXCEPT ![c] = i]
              /\ pc' = [pc EXCEPT ![c] = "lock"]
              /\ m_nextFree' = NextGuess(i)
              /\ UNCHANGED panicked

\* AllocatePage returns the frame whether or not LockPage found its bit clear.
LockPage(c) ==
    /\ Running(c) /\ pc[c] = "lock"
    /\ m_Bitmap' = [m_Bitmap EXCEPT ![page[c]] = TRUE]
    /\ pc' = [pc EXCEPT ![c] = IF m_Bitmap[page[c]] THEN "idle" ELSE "used"]
    /\ held' = [held EXCEPT ![page[c]] = @ + 1]
    /\ UNCHANGED <<boot, counters, page, panicked, reserved, overlapped>>

\* FreePage and UnreservePage, the section under the bitmap's lock.
ClearBit(c, i, then) ==
    /\ Enter(c)
    /\ m_Bitmap' = [m_Bitmap EXCEPT ![i] = FALSE]
    /\ page' = [page EXCEPT ![c] = i]
    /\ pc' = [pc EXCEPT ![c] = IF m_Bitmap[i] THEN then ELSE "idle"]
    /\ UNCHANGED <<boot, counters, panicked>>

\* A caller gives back a frame that it holds.
FreePage(c, i) ==
    /\ held[i] > 0
    /\ held' = [held EXCEPT ![i] = @ - 1]
    /\ ClearBit(c, i, "free")
    /\ UNCHANGED reserved

UnreservePage(c, i) ==
    /\ i \in reserved
    /\ reserved' = reserved \ {i}
    /\ ClearBit(c, i, "unreserve")
    /\ UNCHANGED held

\* ReservePage does nothing to a frame whose bit is set.
ReservePage(c, i) ==
    /\ Enter(c) /\ i < m_size
    /\ m_Bitmap' = [m_Bitmap EXCEPT ![i] = TRUE]
    /\ page' = [page EXCEPT ![c] = i]
    /\ pc' = [pc EXCEPT ![c] = IF m_Bitmap[i] THEN "idle" ELSE "reserve"]
    /\ reserved' = IF m_Bitmap[i] THEN reserved ELSE reserved \cup {i}
    /\ UNCHANGED <<boot, counters, panicked, held>>

\* Fault: an allocation leaves the free memory as it was.
CountUncharged(kind) ==
    CASE kind = "used"      -> <<0, 1, 0>>
      [] kind = "free"      -> <<1, -1, 0>>
      [] kind = "reserve"   -> <<-1, 0, 1>>
      [] kind = "unreserve" -> <<1, 0, -1>>

\* What each operation adds to the free, used and reserved memory.
Count(kind) ==
    CASE kind = "used"      -> <<-1, 1, 0>>
      [] kind = "free"      -> <<1, -1, 0>>
      [] kind = "reserve"   -> <<-1, 0, 1>>
      [] kind = "unreserve" -> <<1, 0, -1>>

\* The guess after the section under the global lock.
Guess(kind, i) ==
    CASE kind \in {"free", "unreserve"} -> i
      [] kind = "reserve" /\ m_nextFree = i -> NoFrame
      [] OTHER -> m_nextFree

\* The second section of LockPage, FreePage, ReservePage and UnreservePage,
\* under the global lock.
Settle(c) ==
    LET kind == pc[c]
    IN  /\ Running(c) /\ kind \in {"used", "free", "reserve", "unreserve"}
        /\ m_FreeMem' = m_FreeMem + Count(kind)[1]
        /\ m_UsedMem' = m_UsedMem + Count(kind)[2]
        /\ m_ReservedMem' = m_ReservedMem + Count(kind)[3]
        /\ m_nextFree' = Guess(kind, page[c])
        /\ pc' = [pc EXCEPT ![c] = "idle"]
        /\ UNCHANGED <<boot, m_Bitmap, page, panicked, held, reserved, overlapped>>

Next ==
    \/ FullInit \/ FullInitPanics
    \/ \E c \in CPUs :
        \/ FindFreePage(c) \/ LockPage(c) \/ Settle(c)
        \/ \E i \in Frames : FreePage(c, i) \/ ReservePage(c, i) \/ UnreservePage(c, i)

Spec == Init /\ [][Next]_vars

-----------------------------------------------------------------------------
Doing(kinds) == {c \in CPUs : pc[c] \in kinds}

\* Type correctness.
TypeOK ==
    /\ m_Bitmap \in [Frames -> BOOLEAN] /\ m_size \in Nat
    /\ m_FreeMem \in Int /\ m_UsedMem \in Int /\ m_ReservedMem \in Int
    /\ m_nextFree \in Frames \cup {NoFrame}
    /\ m_fullyInitialised \in BOOLEAN
    /\ pc \in [CPUs -> {"idle", "lock", "used", "free", "reserve", "unreserve"}]
    /\ page \in [CPUs -> Frames]
    /\ panicked \in BOOLEAN /\ overlapped \in BOOLEAN
    /\ held \in [Frames -> Nat] /\ reserved \subseteq Frames
    /\ skew \in Int

\* The free memory is the number of clear bits (up to what the boot
\* miscounts), as soon as the operations under way have reached their second
\* section: however the sections of AllocatePage, FreePage, ReservePage and
\* UnreservePage interleave, even when a frame is handed out twice, no count is
\* lost and none is made twice.
FramesAccounted ==
    m_FreeMem - Cardinality(Doing({"used", "reserve"}))
              + Cardinality(Doing({"free", "unreserve"}))
        = Cardinality(FreeBits(m_Bitmap, m_size)) + skew

\* AllocatePage finds a frame in one section and marks it in another, so two
\* callers can get one frame; but only when two operations overlap.  Without
\* an overlap no frame has two holders, a held frame is marked, and no frame
\* that is held or reserved is about to be handed out.
HandedOutOnce ==
    ~overlapped =>
        \A i \in Frames :
            /\ held[i] <= 1
            /\ held[i] = 1 => m_Bitmap[i] /\ i \notin reserved
            /\ \A c \in CPUs : pc[c] = "lock" /\ page[c] = i
                                => held[i] = 0 /\ i \notin reserved

\* m_nextFree, which FindFreePage returns without a look at the bitmap, is a
\* free frame whenever no operation is under way and none has overlapped.
GuessIsFree ==
    ~overlapped /\ Doing({"lock", "used", "free", "reserve", "unreserve"}) = {}
        => m_nextFree = NoFrame \/ ~Bit(m_Bitmap, m_size, m_nextFree)

=============================================================================
