----------------------------- MODULE ElementList -----------------------------
(***************************************************************************)
(* The list and the tree of reference counted elements, of a5 and of a7,    *)
(* under any client that gives up a reference once.                         *)
(*                                                                         *)
(* In a5 (q3) an element has a string with a count of its own, and the list *)
(* takes the reference of its caller over.  In a7 (q3) an element is of one *)
(* of two classes, a finalizer frees the string, and the list keeps a       *)
(* reference of its own.                                                    *)
(***************************************************************************)
EXTENDS PathTree, FiniteSets

CONSTANTS
  MaxElements,   \* a bound on the elements that are created
  MaxNodes       \* a bound on the nodes of the list, and on those of the tree

VARIABLES
  edition,             \* "a5" or "a7"
  elem,                \* the elements that have been created: class and value of each
  refs, strs,          \* the counts of the elements and of their strings; 0 is freed
  own,                 \* the elements that the client has a reference to
  list, list_node,     \* head and tail, 0 is NULL; the nodes, by order of creation
  tree,
  deleted              \* of the list and the tree, what has been deleted

elements == <<edition, elem, refs, strs, own, list, list_node, tree, deleted>>

Init(name) ==
  /\ edition = name
  /\ elem = <<>> /\ refs = <<>> /\ strs = <<>>
  /\ own = {}
  /\ list = [head |-> 0, tail |-> 0] /\ list_node = <<>>
  /\ tree = Leaf
  /\ deleted = {}

Live(e) == refs[e] > 0
-----------------------------------------------------------------------------
\* rc_malloc, in int_element_new, str_element_new and the element_new of a5: only the elements
\* of class int have no string.
element_new(class, value) ==
  /\ Len(elem) < MaxElements
  /\ elem' = Append(elem, [class |-> class, value |-> value])
  /\ refs' = Append(refs, 1)
  /\ strs' = Append(strs, IF class = "int" THEN 0 ELSE 1)
  /\ own' = own \cup {Len(elem')}
  /\ UNCHANGED <<list, list_node, tree>>

\* rc_keep_ref, and in a5 that of the string.
rc_keep_ref(e) ==
  /\ refs' = [refs EXCEPT ![e] = @ + 1]
  /\ strs' = IF edition = "a5" THEN [strs EXCEPT ![e] = @ + 1] ELSE strs

\* rc_free_ref, count[e] times for each e: in a5 by element_delete, with the string; in a7 the
\* last one runs the finalizer, and str_finalizer frees the string.
rc_free_refs(count) ==
  /\ refs' = [e \in DOMAIN refs |-> refs[e] - count[e]]
  /\ strs' = [e \in DOMAIN strs |->
               IF edition = "a5" THEN strs[e] - count[e]
               ELSE IF count[e] > 0 /\ refs'[e] = 0 THEN 0 ELSE strs[e]]

\* The client frees a reference it has.
rc_free_ref(e) ==
  /\ e \in own /\ own' = own \ {e}
  /\ rc_free_refs([f \in DOMAIN elem |-> IF f = e THEN 1 ELSE 0])
  /\ UNCHANGED <<elem, list, list_node, tree>>

Valid(e) ==
  \/ e \in own
  \/ \E n \in DOMAIN list_node : list_node[n].elem = e
  \/ \E p \in DOMAIN tree : tree[p] = e

\* Mistake: the list of a7 does not count its reference.
Takes_NoKeep(e) ==
  IF edition = "a5" THEN e \in own /\ own' = own \ {e} /\ UNCHANGED <<refs, strs>>
  ELSE Valid(e) /\ UNCHANGED <<own, refs, strs>>

\* In a5 the reference of the caller becomes that of the list.
Takes(e) ==
  IF edition = "a5" THEN e \in own /\ own' = own \ {e} /\ UNCHANGED <<refs, strs>>
  ELSE Valid(e) /\ own' = own /\ rc_keep_ref(e)

\* The node is identified by a number higher than all before.
list_add_element(e) ==
  LET n == 1 + (IF list.tail = 0 THEN 0 ELSE list.tail) IN
    /\ "list" \notin deleted /\ n =< MaxNodes
    /\ Takes(e)
    /\ list' = [head |-> IF list.head = 0 THEN n ELSE list.head, tail |-> n]
    /\ list_node' = [m \in DOMAIN list_node \cup {n} |->
         IF m = n THEN [elem |-> e, prev |-> list.tail, next |-> 0]
         ELSE IF m = list.tail THEN [list_node[m] EXCEPT !.next = n] ELSE list_node[m]]
    /\ UNCHANGED <<elem, tree>>

Unlinked(n) ==
  LET prev == list_node[n].prev  next == list_node[n].next
  IN /\ list' = [head |-> IF n = list.head THEN next ELSE list.head,
                 tail |-> IF n = list.tail THEN prev ELSE list.tail]
     /\ list_node' = [m \in DOMAIN list_node \ {n} |->
          IF m = prev THEN [list_node[m] EXCEPT !.next = next]
          ELSE IF m = next THEN [list_node[m] EXCEPT !.prev = prev] ELSE list_node[m]]

list_delete_element(n) ==
  /\ n \in DOMAIN list_node /\ Unlinked(n)
  /\ rc_free_refs([e \in DOMAIN elem |-> IF e = list_node[n].elem THEN 1 ELSE 0])
  /\ UNCHANGED <<elem, own, tree>>

list_delete ==
  /\ "list" \notin deleted /\ deleted' = deleted \cup {"list"}
  /\ rc_free_refs([e \in DOMAIN elem |-> Cardinality({n \in DOMAIN list_node : list_node[n].elem = e})])
  /\ list' = [head |-> 0, tail |-> 0] /\ list_node' = <<>>
  /\ UNCHANGED <<elem, own, tree>>
-----------------------------------------------------------------------------
\* Mistake: a string leaves the order to the integer, which holds itself the lesser one too.
compare_IntOnly(d, e) ==
  IF d.class # e.class THEN -1 ELSE d.value - e.value

\* The compare of the two classes, and strcmp in a5, where all values are strings: the sign of
\* the result.
compare(d, e) ==
  CASE d.class = e.class -> d.value - e.value
    [] d.class = "int" /\ e.class = "str" -> -1
    [] d.class = "str" /\ e.class = "int" -> 1

AtMost(d, e) == compare(elem[d], elem[e]) =< 0

tree_insert_node(e) ==
  /\ "tree" \notin deleted /\ Valid(e) /\ Cardinality(DOMAIN tree) < MaxNodes
  /\ tree' = Grown(tree, Place(tree, {p \in DOMAIN tree : AtMost(e, tree[p])}), e)
  /\ rc_keep_ref(e)
  /\ UNCHANGED <<elem, own, list, list_node>>

tree_delete ==
  /\ "tree" \notin deleted /\ deleted' = deleted \cup {"tree"}
  /\ rc_free_refs([e \in DOMAIN elem |-> Cardinality({p \in DOMAIN tree : tree[p] = e})])
  /\ tree' = Leaf
  /\ UNCHANGED <<elem, own, list, list_node>>

Client(values) ==
  \/ \E class \in {"int", "str"}, value \in values :
       (edition = "a5" => class = "str") /\ element_new(class, value)
  \/ \E e \in DOMAIN elem : rc_free_ref(e) \/ list_add_element(e) \/ tree_insert_node(e)
  \/ \E n \in DOMAIN list_node : list_delete_element(n)

Next(values) ==
  /\ UNCHANGED edition
  /\ \/ Client(values) /\ UNCHANGED deleted
     \/ list_delete \/ tree_delete
-----------------------------------------------------------------------------
\* A count is the number of the references there are; so an element is freed with the last of
\* them, neither the list nor the tree nor the client has one to an element that is freed, and
\* when they are gone nothing is left.
CountsExact ==
  \A e \in DOMAIN elem :
    refs[e] = Cardinality({n \in DOMAIN list_node : list_node[n].elem = e})
              + Cardinality({p \in DOMAIN tree : tree[p] = e}) + (IF e \in own THEN 1 ELSE 0)

\* A string lives as long as its element.
StringsLive ==
  \A e \in DOMAIN elem : elem[e].class = "str" => (Live(e) <=> strs[e] > 0)

\* head and tail are the node that was added first and the one that was added last, and each is
\* linked to those added before it and after it, of all that have not been deleted.
FirstOf(nodes) == IF nodes = {} THEN 0 ELSE Min(nodes)
LastOf(nodes) == IF nodes = {} THEN 0 ELSE Max(nodes)

Linked ==
  LET nodes == DOMAIN list_node IN
    /\ list = [head |-> FirstOf(nodes), tail |-> LastOf(nodes)]
    /\ \A n \in nodes : /\ list_node[n].prev = LastOf({m \in nodes : m < n})
                        /\ list_node[n].next = FirstOf({m \in nodes : m > n})

\* The tree is a search tree: the elements to the left of a node are at most its own, those to its
\* right are above it; integers come before strings, and either class by its values.
SearchTree ==
  LET Rank(e) == <<IF elem[e].class = "int" THEN 0 ELSE 1, elem[e].value>>
      Above(d, e) == \/ Rank(d)[1] > Rank(e)[1]
                     \/ Rank(d)[1] = Rank(e)[1] /\ Rank(d)[2] > Rank(e)[2]
  IN \A p, q \in DOMAIN tree :
       /\ IsPrefix(Append(p, "L"), q) => ~Above(tree[q], tree[p])
       /\ IsPrefix(Append(p, "R"), q) => Above(tree[q], tree[p])
=============================================================================
