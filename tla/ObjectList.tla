----------------------------- MODULE ObjectList -----------------------------
(***************************************************************************)
(* What a SimpleLinkedList promises: the objects in the order in which     *)
(* they were inserted, each one there as often as it was inserted and not  *)
(* taken out again.                                                        *)
(***************************************************************************)
EXTENDS Sequences, Naturals

CONSTANT Objects

VARIABLE list

Init == list = <<>>

Insert(x) == list' = Append(list, x)

\* The first entry for x leaves; the others keep their order.
Remove(x) ==
    \E i \in 1..Len(list) :
        /\ list[i] = x
        /\ \A j \in 1..(i - 1) : list[j] # x
        /\ list' = SubSeq(list, 1, i - 1) \o SubSeq(list, i + 1, Len(list))

Next == \E x \in Objects : Insert(x) \/ Remove(x)

Spec == Init /\ [][Next]_list

=============================================================================
