---------------------------- MODULE PageManager ----------------------------
(***************************************************************************)
(* A process's page manager (Memory/PageManager.cpp), the system calls     *)
(* that use it (SystemCalls/memory.cpp), its virtual page manager and its  *)
(* page table.                                                             *)
(*                                                                         *)
(* A process has one thread (no system call makes another one), so a       *)
(* system call is one step.  Which frame a page gets is the frame          *)
(* allocator's affair (FrameAllocator): the frames are only counted here.  *)
(* ReservePage and ReservePages have no caller, so no object is on standby *)
(* and that part of AllocatePages is not modelled.                         *)
(***************************************************************************)
EXTENDS VirtualPages, FiniteSets

CONSTANTS
    FrameCount,     \* frames of the machine
    MaxCount,       \* bound: pages of one request
    Perms,          \* PagePermissions
    AutoExpand      \* m_auto_expand

VARIABLES
    m_VPM,
    m_allocated_objects,    \* address -> [count, perms]
    m_PT,                   \* permissions of the pages that are mapped
    freeFrames,             \* how many frames are free
    stuck,                  \* the thread waits for the m_lock that it holds
    panicked

table == <<m_allocated_objects, m_PT, freeFrames>>
vars == <<m_VPM, table, stuck, panicked>>

Init ==
    /\ m_VPM = NewManager
    /\ m_allocated_objects = <<>> /\ m_PT = <<>>
    /\ freeFrames = FrameCount
    /\ stuck = FALSE /\ panicked = FALSE

Objects == DOMAIN m_allocated_objects

PagesOf(addr) == Block(addr, m_allocated_objects[addr].count)

CanRun == ~stuck /\ ~panicked /\ ~Corrupt(m_VPM)

-----------------------------------------------------------------------------
\* AllocatePage and AllocatePages refuse an address in different ways.
Refused(addr, count) ==
    /\ addr # 0
    /\ IF count = 1 THEN addr \in Objects
       ELSE \/ ~IsInside(addr, count)
            \/ \E o \in Objects : Block(addr, count) \subseteq PagesOf(o)

VirtualAddress(addr, count) ==
    IF addr = 0 THEN AllocatePages(m_VPM, count) ELSE AllocateAt(m_VPM, addr, count)

\* Map pages with the permissions.
MapPages(pages, perms) ==
    [p \in DOMAIN m_PT \cup pages |-> IF p \in pages THEN perms ELSE m_PT[p]]

\* The object and a frame for each of its pages.
NewObject(addr, count, perms) ==
    IF freeFrames < count
    THEN panicked' = TRUE /\ UNCHANGED table
    ELSE /\ m_allocated_objects' =
                [o \in Objects \cup {addr} |->
                    IF o = addr THEN [count |-> count, perms |-> perms]
                    ELSE m_allocated_objects[o]]
         /\ m_PT' = MapPages(Block(addr, count), perms)
         /\ freeFrames' = freeFrames - count
         /\ UNCHANGED panicked

\* sys_mmap.  When the region has no room, a manager that expands calls
\* ExpandVRegionToRight, which takes m_lock again: the thread waits for itself.
sys_mmap(addr, count, perms) ==
    /\ CanRun
    /\ addr = 0 \/ IsInside(addr, 1)
    /\ ~Refused(addr, count)
    /\ \E r \in {VirtualAddress(addr, count)} :
           /\ m_VPM' = r.vpm
           /\ \/ r.addr = 0 /\ stuck' = AutoExpand /\ UNCHANGED <<table, panicked>>
              \/ r.addr # 0 /\ NewObject(r.addr, count, perms) /\ UNCHANGED stuck

\* isValidAllocation does not ask that the address lie inside the object.
isValidAllocation(addr, count) ==
    \E o \in Objects : addr >= o /\ count = m_allocated_objects[o].count

\* The requests that munmap and mprotect do not turn down.
Accepted(addr, count) == CanRun /\ IsInside(addr, count) /\ isValidAllocation(addr, count)

\* Fault: the size asked for decides how many pages go.
GoneAsked(addr, count) == Block(addr, count)

\* The pages that FreePage, or FreePages, takes away: the object's own.
Gone(addr, count) == PagesOf(addr)

\* sys_munmap.  FreePage takes an object of one page and FreePages one of
\* several; which of them is called is decided by the size that the caller gave.
sys_munmap(addr, count) ==
    LET found == addr \in Objects /\ (count = 1 <=> m_allocated_objects[addr].count = 1)
        gone == Gone(addr, count) \cap DOMAIN m_PT
    IN  /\ Accepted(addr, count)
        /\ \/ ~found /\ UNCHANGED <<m_VPM, table>>
           \/ /\ found
              /\ m_VPM' = UnallocatePages(m_VPM, addr, m_allocated_objects[addr].count)
              /\ freeFrames' = freeFrames + Cardinality(gone)
              /\ m_PT' = [p \in DOMAIN m_PT \ gone |-> m_PT[p]]
              /\ m_allocated_objects' = [o \in Objects \ {addr} |-> m_allocated_objects[o]]
        /\ UNCHANGED <<stuck, panicked>>

\* sys_mprotect, and Remap.
sys_mprotect(addr, count, perms) ==
    /\ Accepted(addr, count)
    /\ \/ addr \notin Objects /\ UNCHANGED <<m_VPM, table>>
       \/ /\ addr \in Objects
          /\ m_allocated_objects' = [m_allocated_objects EXCEPT ![addr].perms = perms]
          /\ m_PT' = MapPages(PagesOf(addr), perms)
          /\ UNCHANGED <<m_VPM, freeFrames>>
    /\ UNCHANGED <<stuck, panicked>>

Next ==
    \E count \in 0..MaxCount :
        \/ \E addr \in {0} \cup Region, perms \in Perms : sys_mmap(addr, count, perms)
        \/ \E addr \in Region : sys_munmap(addr, count)
        \/ \E addr \in Region, perms \in Perms : sys_mprotect(addr, count, perms)

Spec == Init /\ [][Next]_vars

-----------------------------------------------------------------------------
\* Type correctness.
TypeOK ==
    /\ \A o \in Objects : o \in Region /\ m_allocated_objects[o].count \in 1..MaxCount
                            /\ m_allocated_objects[o].perms \in Perms
    /\ DOMAIN m_PT \subseteq Region /\ freeFrames \in 0..FrameCount
    /\ stuck \in BOOLEAN /\ panicked \in BOOLEAN

\* No two objects share a page and none leaves the region, whatever the
\* sequence of mmap and munmap calls does to the trees of the virtual page
\* manager: blocks may get lost there, but a block in use is never given again.
ObjectsApart ==
    \A o \in Objects :
        /\ PagesOf(o) \subseteq Region
        /\ \A q \in Objects \ {o} : PagesOf(o) \cap PagesOf(q) = {}

\* The page table, the objects and the frame allocator agree: exactly the
\* pages of the objects are mapped, each with its object's permissions, and
\* every other frame is free, also when munmap or mprotect is accepted for an
\* address that is not an object's, which isValidAllocation lets through.
MappedExactly ==
    /\ DOMAIN m_PT = UNION {PagesOf(o) : o \in Objects}
    /\ \A o \in Objects : \A p \in PagesOf(o) : m_PT[p] = m_allocated_objects[o].perms
    /\ freeFrames + Cardinality(DOMAIN m_PT) = FrameCount

\* The virtual page manager never counts a page as free twice, nor as free
\* while an object has it, through every split and return of a block.
NeverFreeAndUsed ==
    ~Corrupt(m_VPM) =>
        /\ \A b, c \in FreeBlocks(m_VPM) :
              b # c => Block(b[1], b[2]) \cap Block(c[1], c[2]) = {}
        /\ \A b \in FreeBlocks(m_VPM), o \in Objects :
              Block(b[1], b[2]) \cap PagesOf(o) = {}
=============================================================================
