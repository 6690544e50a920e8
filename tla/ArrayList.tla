------------------------------ MODULE ArrayList ------------------------------
(***************************************************************************)
(* list.c of a8/q1: lists in arrays that grow, with functions that take     *)
(* functions.  The client is as test.c: the positions it names are in the   *)
(* list, and a list that it maps into is another one, and empty.            *)
(***************************************************************************)
EXTENDS SequencesExt, Integers

CONSTANTS
  INITIAL_SIZE, GROWTH_FACTOR,
  Element,   \* the elements of lists: 0 .. n
  Lists,     \* the names of the lists
  MaxLen     \* a bound on the length of lists

VARIABLE lists   \* the struct list of each

Junk == -1   \* what is in an array before anything is written there

list_create == [data |-> [k \in 0 .. INITIAL_SIZE - 1 |-> Junk], len |-> 0, size |-> INITIAL_SIZE]

Init == lists = [l \in Lists |-> list_create]

\* Mistake: the array is larger only in name.
expand_list_NameOnly(l) == [l EXCEPT !.size = @ * GROWTH_FACTOR]

expand_list(l) ==
  LET size == l.size * GROWTH_FACTOR
  IN [l EXCEPT !.size = size,
               !.data = [k \in 0 .. size - 1 |-> IF k < l.size THEN l.data[k] ELSE Junk]]

\* Whatever is written goes into the array, or out of it.
Written(l, k, e) ==
  [l EXCEPT !.data = [j \in DOMAIN l.data \cup {k} |-> IF j = k THEN e ELSE l.data[j]], !.len = @ + 1]

Room(l) == IF l.len = l.size THEN expand_list(l) ELSE l

list_append(l, e) == Written(Room(l), l.len, e)

list_append_array(l, elements) ==
  LET appended[n \in 0 .. Len(elements)] ==
        IF n = 0 THEN l ELSE list_append(appended[n - 1], elements[n])
  IN appended[Len(elements)]

\* Mistake: the elements are moved from the first to the last, so that the first fills them all.
list_insert_Upwards(l, pos, e) ==
  LET moved == [Room(l) EXCEPT !.data =
                  [k \in DOMAIN @ |-> IF k \in pos + 1 .. l.len THEN @[pos] ELSE @[k]]]
  IN Written(moved, pos, e)

\* From the last to the first, each is moved one on.
list_insert(l, pos, e) ==
  LET roomy == Room(l)
      moved == [roomy EXCEPT !.data =
                  [k \in DOMAIN @ \cup pos + 1 .. l.len |-> IF k \in pos + 1 .. l.len THEN @[k - 1] ELSE @[k]]]
  IN Written(moved, pos, e)

list_remove(l, pos) ==
  [l EXCEPT !.data = [k \in DOMAIN @ |-> IF k \in pos .. l.len - 2 THEN @[k + 1] ELSE @[k]],
            !.len = @ - 1]

In(l) == [k \in 1 .. l.len |-> l.data[k - 1]]

list_filter(f, out, in) ==
  LET filtered[n \in 0 .. in.len] ==
        IF n = 0 THEN out
        ELSE LET l == filtered[n - 1]  e == In(in)[n]
             IN IF f[e] THEN list_insert(l, l.len, e) ELSE l
  IN filtered[in.len]

\* The n-th result goes to the n-th place of out's array.
Mapped(out, results) ==
  LET mapped[n \in 0 .. Len(results)] ==
        IF n = 0 THEN out ELSE Written(Room(mapped[n - 1]), n - 1, results[n])
  IN mapped[Len(results)]

list_map1(f, out, in) == Mapped(out, [k \in 1 .. in.len |-> f[In(in)[k]]])

list_map2(f, out, in0, in1) ==
  Mapped(out, [k \in 1 .. (IF in0.len >= in1.len THEN in1.len ELSE in0.len) |-> f[In(in0)[k]][In(in1)[k]]])

\* test.c: the functions that it passes, on few elements.
Size == 1 + CHOOSE e \in Element : \A d \in Element : d =< e
isEven == [e \in Element |-> e % 2 = 0]
inc == [e \in Element |-> (e + 1) % Size]
add == [a \in Element |-> [b \in Element |-> (a + b) % Size]]

Becomes(l, list) == list.len =< MaxLen /\ lists' = [lists EXCEPT ![l] = list]

Next ==
  \E l \in Lists :
    LET list == lists[l] IN
      \/ \E e \in Element :
           \/ Becomes(l, list_append(list, e))
           \/ Becomes(l, list_append_array(list, <<e, e>>))
           \/ \E pos \in 0 .. list.len : Becomes(l, list_insert(list, pos, e))
      \/ \E pos \in 0 .. list.len - 1 : Becomes(l, list_remove(list, pos))
      \/ \E in \in Lists \ {l} :
           \/ Becomes(l, list_filter(isEven, list, lists[in]))
           \/ list.len = 0 /\ Becomes(l, list_map1(inc, list, lists[in]))
           \/ \E in1 \in Lists \ {l} :
                list.len = 0 /\ Becomes(l, list_map2(add, list, lists[in], lists[in1]))
-----------------------------------------------------------------------------
Abstract == INSTANCE SequenceList WITH lists <- [l \in Lists |-> In(lists[l])]

\* The arrays implement the sequences of list.h, and each call does what its comment says.
ActsAsSequence == [][Abstract!Next(isEven, inc, add)]_lists

\* All that is written lies in the array, which is as large as the list thinks.
InsideArray == \A l \in Lists : DOMAIN lists[l].data = 0 .. lists[l].size - 1 /\ lists[l].len =< lists[l].size
=============================================================================
