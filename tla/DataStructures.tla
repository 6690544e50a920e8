--------------------------- MODULE DataStructures ---------------------------
(***************************************************************************)
(* The libraries without threads: the allocator, the reference counted      *)
(* elements with their list and tree, the lists in arrays and the binary    *)
(* tree.  The first state chooses the subject, and the variables of the     *)
(* others stay as they are.                                                 *)
(***************************************************************************)
EXTENDS Integers

CONSTANTS
  subjects,                              \* what is looked at
  nbuckets, bucket_sizes, test_heap,     \* Heap
  MaxElements, MaxNodes, values,         \* ElementList
  INITIAL_SIZE, GROWTH_FACTOR, Element, Lists, MaxLen,   \* ArrayList
  MaxArgs                                \* BinaryTree: the length of argv

VARIABLES
  subject,
  head, top, node, size, ptrs, i,
  edition, elem, refs, strs, own, list, list_node, tree, deleted,
  lists,
  argv, read, root

heap == <<head, top, node, size, ptrs, i>>
elements == <<edition, elem, refs, strs, own, list, list_node, tree, deleted>>
binary == <<argv, read, root>>
data == <<subject, heap, elements, lists, binary>>

\* list.c of a8: an array has room for an element, and has more when it has grown.
ASSUME ArrayAssumption ==
  INITIAL_SIZE \in Nat \ {0} /\ GROWTH_FACTOR \in Nat \ {0, 1}

\* test.c of a8 adds and increments numbers.
ASSUME ElementAssumption == Element \subseteq Nat /\ \E last \in Element : Element = 0 .. last

\* The integers that are compared; a string stands for one by the order of strcmp.
ASSUME ValuesAssumption == values \subseteq Int

Hp == INSTANCE Heap
El == INSTANCE ElementList
Ar == INSTANCE ArrayList
Bt == INSTANCE BinaryTree

NoHeap ==
  /\ head = Hp!NULL /\ top = 0 /\ node = <<>>
  /\ size = <<>> /\ ptrs = <<>> /\ i = 0

DataInit ==
  /\ subject \in subjects
  /\ IF subject = "heap" THEN Hp!Init ELSE NoHeap
  /\ IF subject = "elements" THEN \E name \in {"a5", "a7"} : El!Init(name) ELSE El!Init("none")
  /\ Ar!Init
  /\ IF subject = "binary" THEN \E n \in 1 .. MaxArgs : \E args \in [1 .. n -> values] : Bt!Init(args)
     ELSE Bt!Init(<<>>)

\* A test of main.c calls the allocator.
CallHeap ==
  /\ subject = "heap" /\ Hp!Next
  /\ UNCHANGED <<subject, elements, lists, binary>>

\* A client has an element made, listed, inserted or freed.
UseElements ==
  /\ subject = "elements" /\ El!Next(values)
  /\ UNCHANGED <<subject, heap, lists, binary>>

\* A client calls list.c.
CallList ==
  /\ subject = "lists" /\ Ar!Next
  /\ UNCHANGED <<subject, heap, elements, binary>>

\* BinaryTree reads an argument.
ReadArgument ==
  /\ subject = "binary" /\ Bt!Next
  /\ UNCHANGED <<subject, heap, elements, lists>>

DataNext == CallHeap \/ UseElements \/ CallList \/ ReadArgument

DataSpec == DataInit /\ [][DataNext]_data
-----------------------------------------------------------------------------
\* mymalloc.c, in the tests that go through their buckets in turn: check_alloc has nothing to
\* say, and freed blocks are found again.
AllocationsLegal == subject = "heap" => Hp!NoOverlap /\ Hp!InBounds /\ Hp!Reused

\* Elements of a5 and a7: a count is the number of the references there are, and a string lives
\* exactly as long as its element.
CountsExact == El!CountsExact /\ El!StringsLive

\* The lists of a5 and a7 are linked in either direction, in the order of insertion.  Their trees
\* are search trees by their comparison (tree_ordered_print writes a node before its children, so
\* what it prints does not ascend).  The tree of a4 prints all that was read, in ascending order.
KeptInOrder == El!Linked /\ El!SearchTree /\ Bt!PrintedSorted

\* list.c of a8: the arrays act as the sequences of list.h.
ActsAsSequence == Ar!ActsAsSequence

\* list.c of a8: nothing is written behind the end of an array.
InsideArray == Ar!InsideArray
=============================================================================
