------------------------------ MODULE AVLTree ------------------------------
(***************************************************************************)
(* The AVL tree of Data-structures/AVLTree.cpp.  A tree is a value: a node *)
(* is a record, and the null pointer is a record of height 0.  No node is  *)
(* reachable along two paths, so a change through a pointer is a change of *)
(* the value.                                                              *)
(***************************************************************************)
EXTENDS Integers

NullNode == [height |-> 0]

IsNull(t) == t.height = 0

Taller(l, r) == IF l.height > r.height THEN l.height ELSE r.height

Node(key, data, left, right) ==
    [key |-> key, extraData |-> data, left |-> left, right |-> right,
     height |-> Taller(left, right) + 1]

newNode(key, data) == Node(key, data, NullNode, NullNode)

\* The same node with other subtrees, and the height that they give.
WithChildren(t, left, right) == Node(t.key, t.extraData, left, right)

rightRotate(t) ==
    WithChildren(t.left, t.left.left, WithChildren(t, t.left.right, t.right))

leftRotate(t) ==
    WithChildren(t.right, WithChildren(t, t.left, t.right.left), t.right.right)

getBalance(t) == IF IsNull(t) THEN 0 ELSE t.left.height - t.right.height

RECURSIVE insert(_, _, _)
RECURSIVE findNode(_, _)
RECURSIVE findNodeOrHigher(_, _)
RECURSIVE minValueNode(_)
RECURSIVE deleteNode(_, _)
RECURSIVE setData(_, _, _)
RECURSIVE Entries(_)

\* The rotations after an insertion.  The last case rotates once only: the
\* right subtree is not rotated first.
Rebalance(t, key) ==
    LET balance == getBalance(t)
    IN  CASE balance > 1 /\ key < t.left.key -> rightRotate(t)
          [] balance < -1 /\ key > t.right.key -> leftRotate(t)
          [] balance > 1 /\ key > t.left.key ->
                rightRotate(WithChildren(t, leftRotate(t.left), t.right))
          [] balance < -1 /\ key < t.right.key -> leftRotate(t)
          [] OTHER -> t

\* An equal key leaves the tree as it is.
insert(t, key, data) ==
    IF IsNull(t) THEN newNode(key, data)
    ELSE IF key = t.key THEN t
    ELSE Rebalance(IF key < t.key
                   THEN WithChildren(t, insert(t.left, key, data), t.right)
                   ELSE WithChildren(t, t.left, insert(t.right, key, data)), key)

\* The node with the key, or NullNode.
findNode(t, key) ==
    IF IsNull(t) \/ t.key = key THEN t
    ELSE findNode(IF t.key < key THEN t.right ELSE t.left, key)

findNodeOrHigher(t, key) ==
    IF IsNull(t) THEN t
    ELSE IF ~IsNull(findNode(t, key)) THEN findNode(t, key)
    ELSE IF t.key >= key
    THEN LET lower == findNodeOrHigher(t.left, key)
         IN  IF IsNull(lower) THEN t ELSE lower
    ELSE findNodeOrHigher(t.right, key)

minValueNode(t) == IF IsNull(t.left) THEN t ELSE minValueNode(t.left)

\* deleteNode calls the rotations and drops what they return, so the caller's
\* pointer stays at the node that went down: the node that went up, and its
\* other subtree, are no longer reachable.
LoseLeft(t) == WithChildren(t, t.left.right, t.right)

LoseRight(t) == WithChildren(t, t.left, t.right.left)

LeftLeft(t, balance) ==
    IF balance > 1 /\ getBalance(t.left) >= 0 THEN LoseLeft(t) ELSE t

LeftRight(t, balance) ==
    IF balance > 1 /\ getBalance(t.left) < 0
    THEN LoseLeft(WithChildren(t, LoseRight(t.left), t.right)) ELSE t

RightRight(t, balance) ==
    IF balance < -1 /\ getBalance(t.right) <= 0 THEN LoseRight(t) ELSE t

RightLeft(t, balance) ==
    IF balance < -1 /\ getBalance(t.right) > 0
    THEN LoseRight(WithChildren(t, t.left, LoseLeft(t.right))) ELSE t

\* The four cases are tested in turn, each on what the one before has left.
\* The balance is the one computed first.
Unbalanced(t) ==
    LET balance == getBalance(t)
    IN  RightLeft(RightRight(LeftRight(LeftLeft(t, balance), balance), balance), balance)

\* A node with two children takes its successor's key and keeps its own data.
\* A leaf becomes the null pointer, which has balance 0.
deleteNode(t, key) ==
    LET next == minValueNode(t.right).key
    IN  IF IsNull(t) THEN t
        ELSE Unbalanced(
            CASE key < t.key -> WithChildren(t, deleteNode(t.left, key), t.right)
              [] key > t.key -> WithChildren(t, t.left, deleteNode(t.right, key))
              [] key = t.key /\ IsNull(t.left) -> t.right
              [] key = t.key /\ ~IsNull(t.left) /\ IsNull(t.right) -> t.left
              [] OTHER -> Node(next, t.extraData, t.left, deleteNode(t.right, next)))

\* node->extraData = data, for the node that findNode returns.
setData(t, key, data) ==
    IF IsNull(t) THEN t
    ELSE IF t.key = key THEN [t EXCEPT !.extraData = data]
    ELSE IF t.key < key THEN [t EXCEPT !.right = setData(t.right, key, data)]
    ELSE [t EXCEPT !.left = setData(t.left, key, data)]

\* The entries of a tree: <<key, data>> pairs.
Entries(t) ==
    IF IsNull(t) THEN {}
    ELSE {<<t.key, t.extraData>>} \cup Entries(t.left) \cup Entries(t.right)
=============================================================================
