------------------------------ MODULE MCMemory ------------------------------
(***************************************************************************)
(* Memory, in one run: the frames, the page tables and the TLBs, a process's*)
(* pages, the heaps of the kernel and of a program, and the loader that    *)
(* fills a new address space.  The models share no state, so a behaviour   *)
(* exercises the one that "part" names.                                    *)
(***************************************************************************)
EXTENDS Shootdown, TLC

CONSTANTS
    NoFrame

VARIABLES
    part, map, m_Bitmap, m_size, m_FreeMem, m_UsedMem, m_ReservedMem, m_nextFree,
    m_fullyInitialised, framePc, page, framePanicked, frameHeld, reserved, skew,
    overlapped, entries, usedTables, mappedTo, tablePanicked, m_VPM,
    m_allocated_objects, m_PT, freeFrames, stuck, pagePanicked, size,
    m_freeList, allocated, m_freeMem, m_usedMem, m_MetadataMem, panicked, trampled, chunks,
    mallocSize, isStart, mallocFreeList, used, lost, crashed, file, header, mayExecute,
    argv, loaderPc, i, cr3, interrupts, objects, mem, written, held, result

frameVars == <<map, m_Bitmap, m_size, m_FreeMem, m_UsedMem, m_ReservedMem, m_nextFree,
               m_fullyInitialised, framePc, page, framePanicked, frameHeld, reserved,
               skew, overlapped>>
tableVars == <<entries, usedTables, mappedTo, tablePanicked>>
pageVars == <<m_VPM, m_allocated_objects, m_PT, freeFrames, stuck, pagePanicked>>
heapVars == <<size, m_freeList, allocated, m_freeMem, m_usedMem, m_MetadataMem, panicked, trampled>>
mallocVars == <<chunks, mallocSize, isStart, mallocFreeList, used, lost, crashed>>
loaderVars == <<file, header, mayExecute, argv, loaderPc, i, cr3, interrupts, objects,
                mem, written, held, result>>

MapEntry(free, first, count) == [free |-> free, first |-> first, count |-> count]

MemoryMaps ==
    {<<MapEntry(TRUE, 0, 4), MapEntry(FALSE, 4, 1), MapEntry(TRUE, 5, 2)>>,
     <<MapEntry(TRUE, 1, 5), MapEntry(FALSE, 6, 1)>>}

SmallPages == {<<0, 0, 0, 0>>, <<0, 0, 0, 1>>, <<0, 0, 1, 0>>, <<1, 0, 0, 0>>}

\* Program segments: addresses of two words to a page, two pages to the
\* largest alignment.
Segments ==
    {s \in [vaddr : {4, 5, 8, 10}, memsz : {2, 3, 5}, filesz : {0, 2, 3}, align : {1, 2, 4},
            flags : {{}, {"R"}, {"R", "X"}, {"R", "W"}, {"R", "W", "X"}}] :
        s.filesz <= s.memsz}
PlainSegments == {s \in Segments : s.flags = {"R", "W"}}

\* One segment of every kind, and two that come one after the other.
Programs ==
    {<<s>> : s \in Segments}
        \cup {<<s, t>> : s \in {x \in PlainSegments : x.align = 2},
                         t \in {x \in PlainSegments : x.vaddr > 5 /\ x.align # 1}}

Allocator == INSTANCE FrameAllocator WITH
    pc <- framePc, panicked <- framePanicked, held <- frameHeld, Boot <- 0,
    MemSize <- 7, EarlyLimit <- 4, BitmapPages <- 2, MaxHeld <- 2, MaxReserved <- 2

\* This machine is one that the allocator's proofs are about.
ASSUME ProvedFor == Allocator!Machine

Tables == INSTANCE PageTables WITH
    mapped <- mappedTo, panicked <- tablePanicked, used <- usedTables,
    Pages <- SmallPages, LargePages <- {<<0, 0, 1>>},
    Flags <- {{"nx"}, {"write", "user"}}, Frames <- {101, 102}, TableCount <- 6

\* Its pages and frames are such as the proofs of the page tables are about.
ASSUME ProvedTables == Tables!Memory

\* A region that is larger than the memory, and memory for two blocks of
\* different sizes above one page.
Manager == INSTANCE PageManager WITH
    panicked <- pagePanicked, RegionStart <- 1, RegionSize <- 6, FrameCount <- 3,
    MaxCount <- 3, Perms <- {"r", "rw"}, AutoExpand <- TRUE

Roomy == INSTANCE PageManager WITH
    panicked <- pagePanicked, RegionStart <- 1, RegionSize <- 5, FrameCount <- 5,
    MaxCount <- 3, Perms <- {"r", "rw"}, AutoExpand <- TRUE

Heap == INSTANCE KernelHeap WITH
    Units <- 9, Requests <- 0..3, CounterW <- 16

\* Its chunk is one that the heap's proofs are about.
ASSUME ProvedHeap == Heap!Chunk

Malloc == INSTANCE UserHeap WITH
    size <- mallocSize, m_freeList <- mallocFreeList, PAGE_SIZE <- 4, PageCount <- 3,
    Leftover <- {TRUE, FALSE}, Requests <- {1, 3, 5}

\* So is its process.
ASSUME ProvedMalloc == Malloc!Process

Loader == INSTANCE ProgramLoader WITH
    pc <- loaderPc, PAGE_SIZE <- 2,
    Arguments <- {<<>>, <<2>>, <<5, 6>>, <<1, 1, 1>>, <<7, 1>>}, Pages <- 2..8

FrameUnused ==
    /\ map = {} /\ m_Bitmap = {} /\ m_size = {} /\ m_FreeMem = {} /\ m_UsedMem = {}
    /\ m_ReservedMem = {} /\ m_nextFree = {} /\ m_fullyInitialised = {} /\ framePc = {}
    /\ page = {} /\ framePanicked = {} /\ frameHeld = {} /\ reserved = {} /\ skew = {}
    /\ overlapped = {}

PartsInit ==
    \/ /\ part = "shootdown" /\ Init /\ FrameUnused /\ Tables!Init /\ Manager!Init
       /\ Heap!Init /\ Malloc!Init /\ Loader!Init
    \/ /\ part = "frames" /\ Allocator!Init /\ Init /\ Tables!Init /\ Manager!Init
       /\ Heap!Init /\ Malloc!Init /\ Loader!Init
    \/ /\ part = "tables" /\ Tables!Init /\ Init /\ FrameUnused /\ Manager!Init
       /\ Heap!Init /\ Malloc!Init /\ Loader!Init
    \/ /\ part = "pages" /\ Manager!Init /\ Init /\ FrameUnused /\ Tables!Init
       /\ Heap!Init /\ Malloc!Init /\ Loader!Init
    \/ /\ part = "roomy" /\ Roomy!Init /\ Init /\ FrameUnused /\ Tables!Init
       /\ Heap!Init /\ Malloc!Init /\ Loader!Init
    \/ /\ part = "heap" /\ Heap!Init /\ Init /\ FrameUnused /\ Tables!Init
       /\ Manager!Init /\ Malloc!Init /\ Loader!Init
    \/ /\ part = "malloc" /\ Malloc!Init /\ Init /\ FrameUnused /\ Tables!Init
       /\ Manager!Init /\ Heap!Init /\ Loader!Init
    \/ /\ part = "loader" /\ Loader!Init /\ Init /\ FrameUnused /\ Tables!Init
       /\ Manager!Init /\ Heap!Init /\ Malloc!Init

ShootdownStep ==
    /\ part = "shootdown" /\ Next
    /\ UNCHANGED <<part, frameVars, tableVars, pageVars, heapVars, mallocVars,
                   loaderVars>>
FramesStep ==
    /\ part = "frames" /\ Allocator!Next
    /\ UNCHANGED <<part, vars, tableVars, pageVars, heapVars, mallocVars, loaderVars>>
TablesStep ==
    /\ part = "tables" /\ Tables!Next
    /\ UNCHANGED <<part, vars, frameVars, pageVars, heapVars, mallocVars, loaderVars>>
PagesStep ==
    /\ \/ part = "pages" /\ Manager!Next
       \/ part = "roomy" /\ Roomy!Next
    /\ UNCHANGED <<part, vars, frameVars, tableVars, heapVars, mallocVars, loaderVars>>
HeapStep ==
    /\ part = "heap" /\ Heap!Next
    /\ UNCHANGED <<part, vars, frameVars, tableVars, pageVars, mallocVars, loaderVars>>
MallocStep ==
    /\ part = "malloc" /\ Malloc!Next
    /\ UNCHANGED <<part, vars, frameVars, tableVars, pageVars, heapVars, loaderVars>>
LoaderStep ==
    /\ part = "loader" /\ Loader!Next
    /\ UNCHANGED <<part, vars, frameVars, tableVars, pageVars, heapVars, mallocVars>>

PartsNext ==
    \/ ShootdownStep \/ FramesStep \/ TablesStep \/ PagesStep \/ HeapStep
    \/ MallocStep \/ LoaderStep

partsVars == <<part, vars, frameVars, tableVars, pageVars, heapVars, mallocVars,
               loaderVars>>

PartsSpec == PartsInit /\ [][PartsNext]_partsVars

-----------------------------------------------------------------------------
\* The variables of the part that runs keep their types.
PartsTypeOK ==
    /\ TypeOK
    /\ part = "frames" => Allocator!TypeOK
    /\ part = "tables" => Tables!TypeOK
    /\ part = "pages" => Manager!TypeOK
    /\ part = "roomy" => Roomy!TypeOK
    /\ part = "heap" => Heap!TypeOK
    /\ part = "malloc" => Malloc!TypeOK
    /\ part = "loader" => Loader!TypeOK

\* FrameAllocator: the free memory is the number of clear bits, up to what the
\* boot miscounts, however the sections of the operations interleave; a frame is
\* handed out twice only when two operations overlap, since AllocatePage finds
\* and marks a frame in two sections; and m_nextFree, which is returned unseen,
\* is free whenever no operation is under way and none has overlapped.
FramesSound ==
    part = "frames" =>
        Allocator!FramesAccounted /\ Allocator!HandedOutOnce /\ Allocator!GuessIsFree

\* PageTables: get_physaddr gives the frame of the last map_page and the rights
\* through all four levels are the ones asked for then, whatever tables were
\* created, shared or dropped in between; no table hangs below two entries.
TranslatesAsMapped ==
    part = "tables" => Tables!Translates /\ Tables!RightsAsAsked /\ Tables!TablesOwned

\* PageManager: the objects of mmap are disjoint, the virtual page manager has
\* no page free twice or free and in use, and page table, objects and free
\* frames agree, through the splits, rotations and deletions of the trees of free
\* and used blocks, until a deletion leaves a pointer to a freed list behind.
PagesMatchObjects ==
    /\ part = "pages" =>
          Manager!ObjectsApart /\ Manager!NeverFreeAndUsed /\ Manager!MappedExactly
    /\ part = "roomy" => Roomy!ObjectsApart /\ Roomy!NeverFreeAndUsed /\ Roomy!MappedExactly

\* Both heaps.  KernelHeap: until krealloc copies a block over the header behind
\* a smaller one, blocks tile the chunk, free ones are sorted and do not touch,
\* and the totals that can be relied on agree with them.  UserHeap: no two
\* blocks share memory, nor does one reach over its chunk, as long as its memory
\* was not unmapped under it.
HeapsSound ==
    /\ part = "heap" => Heap!Tiled /\ Heap!Coalesced /\ Heap!HeapAccounted
    /\ part = "malloc" => Malloc!BlocksApart

\* KernelHeap: no operation moves or resizes a block that a caller holds, but
\* for the copy of krealloc.
BlocksKept == Heap!BlocksKept

\* ProgramLoader: a program that starts finds its segments in place, with the
\* rights of their flags, and its arguments, overrun by at most a byte for each;
\* on every path exec frees what it made, but for the stream or the buffer the
\* model names, and returns in the caller's address space, but for ENOMEM.
ProgramAsFiled ==
    part = "loader" =>
        /\ Loader!SegmentsInPlace /\ Loader!RightsFromFlags /\ Loader!ArgumentsInside
        /\ Loader!LeftBehind /\ Loader!ReturnsToCaller
=============================================================================
