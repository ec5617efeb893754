----------------------------- MODULE KernelHeap -----------------------------
(***************************************************************************)
(* The kernel heap (Memory/kmalloc.cpp): first-fit allocation from a list  *)
(* of free blocks sorted by address, with splitting and coalescing.        *)
(*                                                                         *)
(* The unit of memory is 16 bytes: MIN_SIZE and sizeof(BlockHeader).  A    *)
(* block is the address of its header; the header takes one unit and the   *)
(* block's size in units follows.  Every operation runs under the heap's   *)
(* lock and is one step.  The pages of the heap are taken to be zero when  *)
(* it is created: the constructor does not set the first header's next.    *)
(***************************************************************************)
EXTENDS Integers, Sequences, FiniteSets

CONSTANTS
    Units,          \* size of the chunk (4 MiB in the code)
    Requests,       \* sizes asked for, in units and rounded up
    CounterW        \* number of values of a size_t counter

Addresses == 0..(Units - 1)

\* A chunk holds at least a header, and a size_t counts its bytes.
Chunk == Units \in Nat \ {0} /\ CounterW \in Nat /\ Units < CounterW /\ Requests \subseteq Nat

VARIABLES
    size,           \* header->size of the blocks
    m_freeList,     \* the free blocks in list order
    allocated,      \* the blocks that callers hold
    m_freeMem, m_usedMem, m_MetadataMem,
    panicked,
    trampled        \* a copy has run over a header

counters == <<m_freeMem, m_usedMem, m_MetadataMem>>
vars == <<size, m_freeList, allocated, counters, panicked, trampled>>

Init ==
    /\ size = [a \in Addresses |-> IF a = 0 THEN Units - 1 ELSE 0]
    /\ m_freeList = <<0>>
    /\ allocated = {}
    /\ m_freeMem = Units - 1 /\ m_usedMem = 0 /\ m_MetadataMem = 1
    /\ panicked = FALSE /\ trampled = FALSE

-----------------------------------------------------------------------------
\* A heap state that one operation hands from function to function.
Heap == [size |-> size, list |-> m_freeList, free |-> m_freeMem,
         used |-> m_usedMem, meta |-> m_MetadataMem]

\* Where a block ends and the next header begins.
End(h, a) == a + 1 + h.size[a]

Wrap(n) == n % CounterW

\* The position AddToFreeList's search stops at.
PlaceOf(list, a) ==
    CHOOSE i \in 1..Len(list) + 1 :
        /\ i = Len(list) + 1 \/ (a < list[i] /\ (i = 1 \/ list[i - 1] < a))
        /\ \A j \in 1..(i - 1) : ~(a < list[j] /\ (j = 1 \/ list[j - 1] < a))

\* Block a takes in the adjacent block b; what was b's header is no header
\* any more, and its contents no longer matter.
Absorb(h, a, b) ==
    [h EXCEPT !.size = [@ EXCEPT ![a] = h.size[a] + 1 + h.size[b], ![b] = 0],
              !.free = Wrap(@ + 1), !.meta = Wrap(@ - 1)]

\* Fault: a freed block is not merged with the one before it.
AddToFreeListForward(h, a) ==
    LET i == PlaceOf(h.list, a)
        next == i <= Len(h.list) /\ End(h, a) = h.list[i]
        grown == IF next THEN Absorb(h, a, h.list[i]) ELSE h
    IN  [grown EXCEPT !.list = SubSeq(@, 1, i - 1) \o <<a>>
                               \o SubSeq(@, IF next THEN i + 1 ELSE i, Len(@))]

\* Insert by address; merge with the block before, then with the one after.
AddToFreeList(h, a) ==
    LET i == PlaceOf(h.list, a)
        prev == i > 1 /\ End(h, h.list[i - 1]) = a
        merged == IF prev THEN Absorb(h, h.list[i - 1], a) ELSE h
        header == IF prev THEN h.list[i - 1] ELSE a
        next == i <= Len(h.list) /\ End(merged, header) = h.list[i]
        grown == IF next THEN Absorb(merged, header, h.list[i]) ELSE merged
    IN  [grown EXCEPT !.list = SubSeq(@, 1, IF prev THEN i - 2 ELSE i - 1)
                               \o <<header>>
                               \o SubSeq(@, IF next THEN i + 1 ELSE i, Len(@))]

\* The first free block that is large enough.
Fits(h, n) == {i \in 1..Len(h.list) : h.size[h.list[i]] >= n}

FirstFit(h, n) == CHOOSE i \in Fits(h, n) : \A j \in Fits(h, n) : i <= j

Splits(h, a, n) == h.size[a] > n + 1

\* Cut block a after n units; the remainder becomes a free block.
Split(h, a, n) ==
    AddToFreeList([h EXCEPT !.size = [@ EXCEPT ![a] = n,
                                               ![a + 1 + n] = h.size[a] - n - 1],
                            !.free = Wrap(@ - 1), !.meta = Wrap(@ + 1)],
                  a + 1 + n)

\* Fault: a block that fits exactly stays in the free list.
AllocateListed(h, n) ==
    LET i == FirstFit(h, n)
        a == h.list[i]
        taken == [h EXCEPT !.list = SubSeq(@, 1, i - 1) \o SubSeq(@, i + 1, Len(@))]
        cut == IF Splits(h, a, n) THEN Split(taken, a, n) ELSE h
    IN  [cut EXCEPT !.used = Wrap(@ + n), !.free = Wrap(@ - n)]

\* Allocate, given that some block fits; the block is that of FirstFit.
Allocate(h, n) ==
    LET i == FirstFit(h, n)
        a == h.list[i]
        taken == [h EXCEPT !.list = SubSeq(@, 1, i - 1) \o SubSeq(@, i + 1, Len(@))]
        cut == IF Splits(h, a, n) THEN Split(taken, a, n) ELSE taken
    IN  [cut EXCEPT !.used = Wrap(@ + n), !.free = Wrap(@ - n)]

Free(h, a) ==
    AddToFreeList([h EXCEPT !.used = Wrap(@ - h.size[a]),
                            !.free = Wrap(@ + h.size[a])], a)

Become(h) ==
    /\ size' = h.size /\ m_freeList' = h.list
    /\ m_freeMem' = h.free /\ m_usedMem' = h.used /\ m_MetadataMem' = h.meta

-----------------------------------------------------------------------------
Running == ~panicked /\ ~trampled

\* Out of memory: the kernel panics.
OutOfMemory(n) ==
    /\ Fits(Heap, n) = {}
    /\ panicked' = TRUE
    /\ UNCHANGED <<size, m_freeList, allocated, counters, trampled>>

\* kmalloc, which refuses size zero, and kcalloc, which does not.
Kmalloc(n) ==
    /\ Running
    /\ \/ OutOfMemory(n)
       \/ /\ Fits(Heap, n) # {}
          /\ Become(Allocate(Heap, n))
          /\ allocated' = allocated \cup {m_freeList[FirstFit(Heap, n)]}
          /\ UNCHANGED <<panicked, trampled>>

Kfree(a) ==
    /\ Running /\ a \in allocated
    /\ Become(Free(Heap, a))
    /\ allocated' = allocated \ {a}
    /\ UNCHANGED <<panicked, trampled>>

\* krealloc (of size zero it is kfree): allocate, copy the old block, free it.
\* The whole of the old block is copied.  It may be longer than the new one,
\* also when the caller asks for more than before: a block that was nearly
\* filled is not split.  The copy then runs over the header behind the new
\* block, or the end of the chunk; what the headers say from there on is the
\* caller's data, and the model goes no further.
Krealloc(a, n) ==
    LET new == m_freeList[FirstFit(Heap, n)]
        grown == Allocate(Heap, n)
    IN  /\ Running /\ a \in allocated /\ n > 0
        /\ \/ OutOfMemory(n)
           \/ /\ Fits(Heap, n) # {} /\ size[a] <= grown.size[new]
              /\ Become(Free(grown, a))
              /\ allocated' = (allocated \cup {new}) \ {a}
              /\ UNCHANGED <<panicked, trampled>>
           \/ /\ Fits(Heap, n) # {} /\ size[a] > grown.size[new]
              /\ Become(grown)
              /\ allocated' = allocated \cup {new}
              /\ trampled' = TRUE
              /\ UNCHANGED panicked

Next ==
    \/ \E n \in Requests : Kmalloc(n)
    \/ \E a \in Addresses : Kfree(a)
    \/ \E a \in Addresses, n \in Requests : Krealloc(a, n)

Spec == Init /\ [][Next]_vars

-----------------------------------------------------------------------------
(* Properties *)

Listed == {m_freeList[i] : i \in 1..Len(m_freeList)}

Blocks == allocated \cup Listed

\* Type correctness.
TypeOK ==
    /\ size \in [Addresses -> 0..Units]
    /\ m_freeList \in Seq(Addresses)
    /\ allocated \subseteq Addresses
    /\ {m_freeMem, m_usedMem, m_MetadataMem} \subseteq 0..(CounterW - 1)
    /\ {panicked, trampled} \subseteq BOOLEAN

\* Until krealloc has copied over a header, the blocks tile the chunk: whatever
\* is allocated, split, freed and merged, no two blocks overlap, none reaches
\* over the end, and no memory leaks between them.
Tiled ==
    ~trampled =>
        /\ 0 \in Blocks
        /\ allocated \cap Listed = {}
        /\ \A a \in Blocks :
              LET next == End(Heap, a)
              IN  /\ next = Units \/ next \in Blocks
                  /\ \A b \in Blocks : b <= a \/ b >= next

\* Until then the free list is sorted by address and fully coalesced:
\* AddToFreeList leaves no two adjacent free blocks, so a request fails only
\* when no run of free memory is large enough.
Coalesced ==
    ~trampled =>
        \A i \in 1..(Len(m_freeList) - 1) : End(Heap, m_freeList[i]) < m_freeList[i + 1]

\* Until then getTotalMem is constant, and getMetadataMem counts the headers.
HeapAccounted ==
    ~trampled =>
        /\ Wrap(m_usedMem + m_freeMem + m_MetadataMem) = Units
        /\ m_MetadataMem = Cardinality(Blocks)

\* A step leaves the blocks that callers keep where they are and as large as
\* they are: no split or merge changes the header of an allocated block, and
\* only the copy of krealloc can.
BlocksKept ==
    [][trampled' \/ \A a \in allocated \cap allocated' : size'[a] = size[a]]_vars
=============================================================================
