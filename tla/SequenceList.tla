---------------------------- MODULE SequenceList ----------------------------
(***************************************************************************)
(* What list.h promises: lists that are sequences.                          *)
(***************************************************************************)
EXTENDS SequencesExt, Integers

CONSTANT Element

VARIABLE lists   \* the sequence of each list

Becomes(l, s) == lists' = [lists EXCEPT ![l] = s]

\* The elements of s for which f holds, in their order.
Selected(f, s) ==
  LET kept[n \in 0 .. Len(s)] ==
        IF n = 0 THEN <<>> ELSE IF f[s[n]] THEN Append(kept[n - 1], s[n]) ELSE kept[n - 1]
  IN kept[Len(s)]

Append1(l, e) == Becomes(l, Append(lists[l], e))
Insert(l, pos, e) == Becomes(l, InsertAt(lists[l], pos + 1, e))
Take(l, pos) == Becomes(l, RemoveAt(lists[l], pos + 1))
Join(l, elements) == Becomes(l, lists[l] \o elements)
Filter(f, out, in) == Becomes(out, lists[out] \o Selected(f, lists[in]))
Map1(f, out, in) == Becomes(out, lists[out] \o [k \in DOMAIN lists[in] |-> f[lists[in][k]]])
Map2(f, out, in0, in1) ==
  Becomes(out, lists[out] \o
    [k \in DOMAIN lists[in0] \cap DOMAIN lists[in1] |-> f[lists[in0][k]][lists[in1][k]]])

Next(f, f1, f2) ==
  \E l \in DOMAIN lists, m, n \in DOMAIN lists :
    \/ \E e \in Element : Append1(l, e) \/ Join(l, <<e, e>>)
                            \/ \E pos \in 0 .. Len(lists[l]) : Insert(l, pos, e)
    \/ \E pos \in 0 .. Len(lists[l]) - 1 : Take(l, pos)
    \/ l # m /\ (Filter(f, l, m) \/ Map1(f1, l, m))
    \/ l \notin {m, n} /\ Map2(f2, l, m, n)
=============================================================================
