---------------------------- MODULE VirtualPages ----------------------------
(***************************************************************************)
(* The virtual page manager (Memory/VirtualPageManager.cpp): the free      *)
(* blocks of a region in a tree from size to the list of the blocks'       *)
(* addresses, and the blocks in use in a tree from address to size.        *)
(*                                                                         *)
(* A manager is a value [free, used] and an operation a function on it:    *)
(* its callers hold the page manager's lock throughout.  Addresses and     *)
(* sizes are in pages and 0 is nullptr.  The page counters are left out:   *)
(* nothing reads them.                                                     *)
(***************************************************************************)
EXTENDS AVLTree, Sequences, SequencesExt

CONSTANTS RegionStart, RegionSize

Region == RegionStart..(RegionStart + RegionSize - 1)

Block(addr, count) == addr..(addr + count - 1)

\* m_region.IsInside
IsInside(addr, count) ==
    addr >= RegionStart /\ addr + count <= RegionStart + RegionSize

\* A list whose nodes have been freed, when the tree still points to it.
Dangling == <<0>>

Blocks(node) == IF IsNull(node) THEN <<>> ELSE node.extraData

Holds(tree, size, addr) == addr \in ToSet(Blocks(findNode(tree, size)))

\* FreePages, past the checks: append the block to the list of its size.
AddFree(tree, size, addr) ==
    LET node == findNode(tree, size)
    IN  IF IsNull(node) THEN insert(tree, size, <<addr>>)
        ELSE setData(tree, size, Append(node.extraData, addr))

\* Take a block off the list of its size.  The size goes when its list is
\* empty; the node is not told that its list is gone, so a node that only
\* takes another key, in deleteNode, keeps the pointer.
TakeFree(tree, size, addr) ==
    LET rest == Remove(Blocks(findNode(tree, size)), addr)
    IN  IF rest = <<>> THEN deleteNode(setData(tree, size, Dangling), size)
        ELSE setData(tree, size, rest)

\* Internal_SplitFreeBlock
SplitFreeBlock(tree, addr, size, count) ==
    IF size <= count \/ ~Holds(tree, size, addr) THEN tree
    ELSE AddFree(AddFree(TakeFree(tree, size, addr), count, addr),
                 size - count, addr + count)

\* UnfreePages, exact.
UnfreeExact(tree, addr, count) ==
    IF Holds(tree, count, addr) THEN TakeFree(tree, count, addr) ELSE tree

\* The free blocks, as <<size, address>>, that contain the pages; the search
\* goes through the sizes in ascending order.
Around(tree, addr, count) ==
    UNION {{<<e[1], b>> : b \in {b \in ToSet(e[2]) : b <= addr /\ addr + count <= b + e[1]}} :
              e \in Entries(tree)}

\* UnfreePages, not exact: cut the pages out of the block around them.
CutBefore(tree, home, addr) ==
    IF addr > home[2] THEN SplitFreeBlock(tree, home[2], home[1], addr - home[2]) ELSE tree

CutAfter(tree, addr, rest, count) ==
    IF count < rest THEN SplitFreeBlock(tree, addr, rest, count) ELSE tree

CutOut(tree, home, addr, count) ==
    CutAfter(CutBefore(tree, home, addr), addr, home[1] - (addr - home[2]), count)

Unfree(tree, addr, count) ==
    [done |-> Holds(tree, count, addr), free |-> UnfreeExact(tree, addr, count)]

UnfreeAt(tree, addr, count) ==
    LET around == Around(tree, addr, count)
        home == CHOOSE h \in around : \A g \in around : h[1] <= g[1]
    IN  IF around = {} THEN [done |-> FALSE, free |-> tree]
        ELSE Unfree(CutOut(tree, home, addr, count), addr, count)

\* LockPages: a block whose address is known already stays as it is, and then
\* it is not taken from the free blocks either.
LockPages(v, addr, count, unfree) ==
    IF ~IsNull(findNode(v.used, addr)) THEN v
    ELSE [free |-> IF unfree THEN UnfreeExact(v.free, addr, count) ELSE v.free,
          used |-> insert(v.used, addr, count)]

\* InitVPageMgr
NewManager == [free |-> AddFree(NullNode, RegionSize, RegionStart), used |-> NullNode]

\* AllocatePages(count): the address, or 0, and the manager afterwards.
AllocatePages(v, count) ==
    LET node == findNodeOrHigher(v.free, count)
        mem == Head(node.extraData)
        cut == IF node.key > count THEN SplitFreeBlock(v.free, mem, node.key, count)
               ELSE v.free
    IN  IF count = 0 \/ IsNull(node) THEN [addr |-> 0, vpm |-> v]
        ELSE [addr |-> mem, vpm |-> LockPages([v EXCEPT !.free = cut], mem, count, TRUE)]

\* AllocatePages(addr, count)
LockUnfreed(v, unfree, addr, count) ==
    IF unfree.done
    THEN [addr |-> addr,
          vpm |-> LockPages([v EXCEPT !.free = unfree.free], addr, count, FALSE)]
    ELSE [addr |-> 0, vpm |-> [v EXCEPT !.free = unfree.free]]

AllocateAt(v, addr, count) ==
    IF count = 0 \/ ~IsInside(addr, count) THEN [addr |-> 0, vpm |-> v]
    ELSE LockUnfreed(v, UnfreeAt(v.free, addr, count), addr, count)

\* UnallocatePages: nothing happens unless the size is the one recorded.
UnallocatePages(v, addr, count) ==
    LET node == findNode(v.used, addr)
    IN  IF IsNull(node) \/ node.extraData # count THEN v
        ELSE [free |-> AddFree(v.free, count, addr), used |-> deleteNode(v.used, addr)]

\* The free tree points to freed list nodes: what an operation does next is
\* undefined, and is not modelled.
Corrupt(v) == \E e \in Entries(v.free) : 0 \in ToSet(e[2])

\* The pages of the free blocks, and of the blocks in use.
FreeBlocks(v) == {<<b, e[1]>> : <<e, b>> \in
                    {<<e, b>> \in Entries(v.free) \X Region : b \in ToSet(e[2])}}
=============================================================================
