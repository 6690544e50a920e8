-------------------------------- MODULE Heap --------------------------------
(***************************************************************************)
(* mymalloc.c, the allocator of a5, under the loops of its test harness     *)
(* main.c, that allocate and free in buckets of fixed sizes.                *)
(*                                                                         *)
(* Addresses are offsets in bytes from the start of the heap, whose pages   *)
(* are fresh: what has not been written is 0, a null pointer.               *)
(***************************************************************************)
EXTENDS Integers, FiniteSets, Functions

CONSTANTS
  nbuckets,       \* of a test of main.c
  bucket_sizes,   \* the sizes that the blocks of a bucket may have
  test_heap       \* the size of the heap of a test

VARIABLES
  head,   \* of the list of free blocks: the address of its Node
  top,    \* the next location that is not allocated
  node,   \* the Nodes: what has been written to the headers
  size, ptrs,   \* main.c: of the buckets; NULL is NoBlock
  i             \* main.c: calls so far, modulo twice the number of buckets

heap == <<head, top, node, size, ptrs, i>>

Buckets == 1 .. nbuckets
heapsize == test_heap

NULL == -1
NoBlock == -2
sizeofNode == 16

\* mymalloc_init, by test
Init ==
  /\ head = NULL /\ top = 0 /\ node = <<>>
  /\ size \in [Buckets -> bucket_sizes]
  /\ ptrs = [b \in Buckets |-> NoBlock]
  /\ i = 0

Aligned(n) == ((n + 7) \div 8) * 8

\* The k-th block of the free list, NULL behind its end.
Free ==
  LET free[k \in 1 .. Cardinality(DOMAIN node) + 1] ==
        IF k = 1 THEN head ELSE IF free[k - 1] = NULL THEN NULL ELSE node[free[k - 1]].next
  IN free

Fits(k, n) == Free[k] # NULL /\ node[Free[k]].size = n

\* Mistake: the block at the head stays in the list.
TakeFree_Kept(b, n) ==
  \E k \in DOMAIN Free :
    /\ Fits(k, n) /\ \A j \in 1 .. k - 1 : ~Fits(j, n)
    /\ IF k = 1 THEN UNCHANGED <<head, node>>
       ELSE node' = [node EXCEPT ![Free[k - 1]].next = node[Free[k]].next] /\ head' = head
    /\ ptrs' = [ptrs EXCEPT ![b] = Free[k] + sizeofNode]
    /\ UNCHANGED top

\* The first block of the size is unlinked, and keeps its own link.
TakeFree(b, n) ==
  \E k \in DOMAIN Free :
    /\ Fits(k, n) /\ \A j \in 1 .. k - 1 : ~Fits(j, n)
    /\ IF k = 1 THEN head' = node[head].next /\ node' = node
       ELSE node' = [node EXCEPT ![Free[k - 1]].next = node[Free[k]].next] /\ head' = head
    /\ ptrs' = [ptrs EXCEPT ![b] = Free[k] + sizeofNode]
    /\ UNCHANGED top

NoneFits(n) == \A k \in DOMAIN Free : ~Fits(k, n)

TakeTop(b, n) ==
  /\ node' = [a \in DOMAIN node \cup {top} |-> IF a = top THEN [size |-> n, next |-> NULL] ELSE node[a]]
  /\ top' = top + n + sizeofNode
  /\ ptrs' = [ptrs EXCEPT ![b] = top + sizeofNode]
  /\ UNCHANGED head

ListEnds == Free[Cardinality(DOMAIN node) + 1] = NULL

\* The test for room does not count the header.  A test of main.c stops when it gets NULL; a search
\* that finds nothing in a list that has no end does not return.
mymalloc(b) ==
  LET n == Aligned(size[b]) IN
    /\ n =< heapsize
    /\ \/ TakeFree(b, n)
       \/ NoneFits(n) /\ ListEnds /\ heapsize - n >= top /\ TakeTop(b, n)

\* A block that is freed into an empty list keeps the link it has.
myfree(b) ==
  LET n == ptrs[b] - sizeofNode IN
    /\ node' = IF head # NULL THEN [node EXCEPT ![n].next = head] ELSE node
    /\ head' = n
    /\ ptrs' = [ptrs EXCEPT ![b] = NoBlock]
    /\ UNCHANGED top

\* One turn of the loop in the tests of main.c
Toggle(b) ==
  /\ IF ptrs[b] = NoBlock THEN mymalloc(b) ELSE myfree(b)
  /\ UNCHANGED size

\* test_simple and test_fixedsize: the buckets in turn.
Next ==
  /\ i' = (i + 1) % (2 * nbuckets)
  /\ Toggle((i % nbuckets) + 1)

\* test_random: any bucket.
RandomNext == i' = i /\ \E b \in Buckets : Toggle(b)

RandomSpec == Init /\ [][RandomNext]_heap
-----------------------------------------------------------------------------
InUse == {b \in Buckets : ptrs[b] # NoBlock}

\* check_alloc: "mymalloc returned an overlapping pointer" if it lies inside an allocation.
NoOverlap ==
  \A b, c \in InUse : b # c => ~(ptrs[b] \in ptrs[c] .. ptrs[c] + size[c] - 1)

\* check_alloc, but for the overlap: what is allocated is aligned and lies in the heap.
InBounds == \A b \in InUse : ptrs[b] % 8 = 0 /\ ptrs[b] >= 0 /\ ptrs[b] + size[b] =< heapsize

\* What is freed is found again when a block of its size is wanted, and the search always ends, so
\* that the blocks never take more of the heap than one for each bucket does.
Reused ==
  /\ LET b == (i % nbuckets) + 1 IN ptrs[b] = NoBlock /\ NoneFits(Aligned(size[b])) => ListEnds
  /\ top =< FoldFunction(LAMBDA n, sum : Aligned(n) + sizeofNode + sum, 0, size)
=============================================================================
