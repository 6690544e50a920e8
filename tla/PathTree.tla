------------------------------ MODULE PathTree ------------------------------
(***************************************************************************)
(* A binary tree as a function from paths to the elements of its nodes; the *)
(* root has the empty path, "L" leads to the left child, "R" to the right.  *)
(***************************************************************************)
EXTENDS SequencesExt, Integers

Leaf == <<>>   \* the tree without nodes

\* Where a tree has its nodes and its null pointers: the root, and the children of each node.
Places(tree) == {Append(p, turn) : p \in DOMAIN tree, turn \in {"L", "R"}} \cup {<<>>}

\* The path where an element is inserted: the first without a node on the way from the root, to the
\* left at the nodes that hold at least the element.
Place(tree, least) ==
  CHOOSE path \in Places(tree) :
    /\ path \notin DOMAIN tree
    /\ \A k \in 1 .. Len(path) :
         /\ SubSeq(path, 1, k - 1) \in DOMAIN tree
         /\ path[k] = IF SubSeq(path, 1, k - 1) \in least THEN "L" ELSE "R"

Grown(tree, path, e) == [p \in DOMAIN tree \cup {path} |-> IF p = path THEN e ELSE tree[p]]
=============================================================================
