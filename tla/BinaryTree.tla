----------------------------- MODULE BinaryTree -----------------------------
(***************************************************************************)
(* BinaryTree.c of a4, and BinaryTree.java, which it was translated from:   *)
(* the integers on the command line go into a tree, which is printed.       *)
(***************************************************************************)
EXTENDS PathTree, FiniteSets

VARIABLES
  argv,   \* the integers
  read,   \* how many of them are in the tree
  root    \* the tree

\* main, for an argument at least.
Init(args) == argv = args /\ read = 0 /\ root = Leaf

insert(value) == root' = Grown(root, Place(root, {p \in DOMAIN root : value =< root[p]}), value)

\* main: the first value is that of the root.
Next == read < Len(argv) /\ read' = read + 1 /\ insert(argv[read']) /\ UNCHANGED argv

\* printInOrder of a tree: its left child, the node itself, its right child.
InOrder(tree) ==
  LET walk[p \in Places(tree)] ==
        IF p \in DOMAIN tree THEN walk[Append(p, "L")] \o <<tree[p]>> \o walk[Append(p, "R")] ELSE <<>>
  IN walk[<<>>]

printInOrder == InOrder(root)
-----------------------------------------------------------------------------
\* What is printed ascends, and is what has been read: every value as often.
PrintedSorted ==
  LET Count(s, v) == Cardinality({k \in DOMAIN s : s[k] = v}) IN
    /\ \A j, k \in DOMAIN printInOrder : j < k => printInOrder[j] =< printInOrder[k]
    /\ \A k \in 1 .. read : Count(printInOrder, argv[k]) = Count(SubSeq(argv, 1, read), argv[k])
    /\ Len(printInOrder) = read
=============================================================================
