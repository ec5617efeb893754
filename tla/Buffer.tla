------------------------------- MODULE Buffer -------------------------------
(***************************************************************************)
(* The growable buffer behind keyboard input (DataStructures/Buffer): a list *)
(* of blocks addressed by one running offset.  The state is m_blocks; a byte *)
(* is "?" when new[] left it unset, "0" when it was cleared.                   *)
(***************************************************************************)
EXTENDS Integers, Sequences, SequencesExt

CONSTANTS m_blockSize,  \* bytes a block is rounded up to (64 in the code)
          Bytes,        \* values written
          MaxSize       \* bound on the bytes the buffer grows to

VARIABLES m_blocks,     \* [data, empty] in list order
          call          \* the last call: its arguments and what it returned

buffer == <<m_blocks, call>>

Flat(bs) == FlattenSeq([i \in DOMAIN bs |-> bs[i].data])
m_size(bs) == Len(Flat(bs))
StartOf(bs, i) == m_size(SubSeq(bs, 1, i - 1))

(* The index of the block that holds offset, 0 when there is none.             *)
BlockAt(bs, offset) ==
    IF offset >= m_size(bs) THEN 0
    ELSE CHOOSE i \in DOMAIN bs : /\ StartOf(bs, i) <= offset
                                  /\ offset < StartOf(bs, i) + Len(bs[i].data)

\* A new block, rounded up to whole m_blockSizes.
AddBlock(bs, size) ==
    Append(bs, [data |-> [i \in 1 .. m_blockSize * ((size + m_blockSize - 1) \div m_blockSize) |-> "?"],
                empty |-> TRUE])

(* Every block's bytes from `from` on, up to `to`, become what v says.          *)
Set(bs, from, to, v(_)) ==
    [b \in DOMAIN bs |->
        [bs[b] EXCEPT !.data = [j \in DOMAIN @ |->
            LET at == StartOf(bs, b) + j - 1 IN IF from <= at /\ at < to THEN v(at) ELSE @[j]]]]

(* Write: an offset past the end is taken for the end.  A write that does not   *)
(* fit into its first block leaves that block marked empty.                    *)
WrittenAt(bs, offset) == IF offset < m_size(bs) THEN offset ELSE m_size(bs)
Put(bs, offset, data) ==
    LET start == WrittenAt(bs, offset)
        to == start + Len(data)
        grown == IF to > m_size(bs) THEN AddBlock(bs, to - m_size(bs)) ELSE bs
        first == BlockAt(grown, start)
        last == BlockAt(grown, to - 1)
        set == Set(grown, start, to, LAMBDA at : data[at - start + 1])
    IN [b \in DOMAIN set |->
          [set[b] EXCEPT !.empty = @ /\ ~ (b \in (IF first = last THEN {first} ELSE first + 1 .. last))]]

\* Read: nothing past the end.
Get(bs, offset, size) ==
    LET flat == Flat(bs) IN
    SubSeq(flat, offset + 1, IF offset + size <= Len(flat) THEN offset + size ELSE Len(flat))

RECURSIVE AutoShrink(_)
AutoShrink(bs) ==
    IF bs # <<>> /\ Last(bs).empty THEN AutoShrink(Front(bs)) ELSE bs

(* Clear: the comparison that tells whether the range ends in the first block   *)
(* is the wrong way round.  A range that goes on is cleared as if the block     *)
(* were longer: Overruns.  One that ends inside takes the rest of the buffer    *)
(* with it, as `size` wraps around.                                             *)
Cleared(bs, offset, size) ==
    LET i == BlockAt(bs, offset)
        end == StartOf(bs, i) + Len(bs[i].data)
        upto(to) == Set(bs, offset, to, LAMBDA at : "0")
    IN CASE i = 0 -> bs
         [] i # 0 /\ end - offset <= size ->
              IF StartOf(bs, i) = offset
              THEN AutoShrink([upto(end) EXCEPT ![i].empty = TRUE])
              ELSE upto(end)
         [] OTHER ->
              [b \in DOMAIN bs |-> [upto(m_size(bs))[b] EXCEPT !.empty = @ \/ b > i]]

\* memset goes on behind the block, over the heap's header of whatever is there.
Overruns(bs, offset, size) ==
    LET i == BlockAt(bs, offset) IN i # 0 /\ StartOf(bs, i) + Len(bs[i].data) < offset + size

(* ClearUntil: i counts up while the list gets shorter.  block->size is read    *)
(* after the block was deleted; its memory still holds it.                     *)
RECURSIVE Until(_, _, _)
Until(bs, offset, i) ==
    IF i >= Len(bs) \/ offset = 0 THEN [blocks |-> bs, deleted |-> i]
    ELSE IF offset >= Len(bs[1].data)
    THEN Until(Tail(bs), offset - Len(bs[1].data), i + 1)
    ELSE [blocks |-> [Set(bs, 0, offset, LAMBDA at : "0") EXCEPT ![1].empty = FALSE], deleted |-> i]

\* Fault: a block goes when its last byte is still left.
ClearedUntilEarly(bs, offset) == Until(bs, offset + 1, 0)

ClearedUntil(bs, offset) == Until(bs, offset, 0)

Init == m_blocks = AddBlock(<<>>, m_blockSize) /\ call = [op |-> "new"]

\* A buffer whose neighbour in the heap was overwritten is not followed further.
Sound == call.op = "Clear" => ~call.over

Write(offset, data) ==
    /\ Sound
    /\ WrittenAt(m_blocks, offset) + Len(data) <= MaxSize
    /\ m_blocks' = Put(m_blocks, offset, data)
    /\ call' = [op |-> "Write", at |-> WrittenAt(m_blocks, offset), data |-> data]

Clear(offset, size) ==
    /\ Sound
    /\ m_blocks' = Cleared(m_blocks, offset, size)
    /\ call' = [op |-> "Clear", at |-> offset, size |-> size,
                over |-> Overruns(m_blocks, offset, size)]

ClearUntil(offset) ==
    LET r == ClearedUntil(m_blocks, offset) IN
    /\ Sound
    /\ m_blocks' = r.blocks
    /\ call' = [op |-> "ClearUntil", at |-> offset, deleted |-> r.deleted]

Next ==
    \/ \E o \in 0 .. MaxSize, n \in 1 .. m_blockSize + 1, v \in Bytes : Write(o, [i \in 1 .. n |-> v])
    \/ \E o \in 0 .. MaxSize, n \in 1 .. MaxSize : Clear(o, n)
    \/ \E o \in 0 .. MaxSize : ClearUntil(o)

Spec == Init /\ [][Next]_buffer

---------------------------------------------------------------------------
\* Type correctness.
TypeOK ==
    \A b \in DOMAIN m_blocks :
        /\ m_blocks[b].empty \in BOOLEAN
        /\ Len(m_blocks[b].data) > 0 /\ Len(m_blocks[b].data) % m_blockSize = 0
        /\ \A j \in DOMAIN m_blocks[b].data : m_blocks[b].data[j] \in Bytes \cup {"0", "?"}

(* What was written is what Read returns, with the bytes on both sides of it as *)
(* they were.  A Clear that stays inside one block takes nothing in front of    *)
(* its offset with it, and leaves no byte of its range but zeros.  ClearUntil   *)
(* returns the number of blocks that went.                                      *)
ReadsBack ==
    [][ LET old == Flat(m_blocks)
            new == Flat(m_blocks')
        IN  /\ call'.op = "Write" =>
                   /\ Get(m_blocks', call'.at, Len(call'.data)) = call'.data
                   /\ \A i \in DOMAIN old \ (call'.at + 1 .. call'.at + Len(call'.data)) :
                          new[i] = old[i]
            /\ call'.op = "Clear" /\ ~call'.over =>
                   \A i \in DOMAIN new :
                       /\ i <= call'.at => new[i] = old[i]
                       /\ call'.at < i /\ i <= call'.at + call'.size => new[i] = "0"
            /\ call'.op = "ClearUntil" =>
                   Len(m_blocks') = Len(m_blocks) - call'.deleted ]_buffer

(* ClearUntil takes nothing from offset on with it, whatever the offset and     *)
(* however many blocks there are: the bytes that stay are the last ones, those  *)
(* from offset on as they were, those in front of it as they were or zero.      *)
KeepsRest ==
    [][ call'.op = "ClearUntil" =>
        LET old == Flat(m_blocks)
            new == Flat(m_blocks')
            gone == Len(old) - Len(new)
        IN  /\ gone <= call'.at
            /\ \A i \in DOMAIN new :
                   new[i] = old[i + gone] \/ (i + gone <= call'.at /\ new[i] = "0")
      ]_buffer

(* "Clear the buffer until offset.": no byte in front of offset stays but zeros. *)
ClearsUntil ==
    [][ call'.op = "ClearUntil" =>
        LET gone == m_size(m_blocks) - m_size(m_blocks')
        IN  \A i \in 1 .. call'.at - gone :
                i \in DOMAIN Flat(m_blocks') => Flat(m_blocks')[i] = "0" ]_buffer
=============================================================================
