-------------------------- MODULE SequentialProofs --------------------------
(***************************************************************************)
(* Theorems about the programs without threads: the counts of references,   *)
(* the elements in order, the lists in arrays and, at the end, the simple   *)
(* machines.                                                                *)
(***************************************************************************)
EXTENDS Sequential, ProofLemmas, SequenceTheorems

\* A finite set has a greatest element, by any measure.
LEMMA Greatest ==
  ASSUME NEW S, IsFiniteSet(S), S # {}, NEW f \in [S -> Nat]
  PROVE  \E m \in S : \A n \in S : f[n] =< f[m]
<1> DEFINE A == {c \in Nat : \A T \in SUBSET S :
                   IsFiniteSet(T) /\ Cardinality(T) = c + 1 => \E m \in T : \A n \in T : f[n] =< f[m]}
<1>1. 0 \in A
  <2> SUFFICES ASSUME NEW T \in SUBSET S, IsFiniteSet(T), Cardinality(T) = 1
               PROVE  \E m \in T : \A n \in T : f[n] =< f[m]
    OBVIOUS
  <2>1. PICK m : T = {m}
    BY FS_Singleton
  <2>2. f[m] \in Nat
    BY <2>1
  <2> QED
    BY <2>1, <2>2
<1>2. ASSUME NEW c \in A PROVE c + 1 \in A
  <2>0. c \in Nat /\ c + 1 + 1 = c + 2
    OBVIOUS
  <2> SUFFICES ASSUME NEW T \in SUBSET S, IsFiniteSet(T), Cardinality(T) = c + 2
               PROVE  \E m \in T : \A n \in T : f[n] =< f[m]
    BY <2>0
  <2>1. PICK x \in T : TRUE
    <3>1. Cardinality(T) # 0
      BY <2>0
    <3> QED
      BY <3>1, FS_EmptySet
  <2>2. IsFiniteSet(T \ {x}) /\ Cardinality(T \ {x}) = c + 1
    BY <2>0, FS_RemoveElement
  <2>3. PICK m \in T \ {x} : \A n \in T \ {x} : f[n] =< f[m]
    BY <2>2
  <2>4. \A n \in T : f[n] \in Nat
    OBVIOUS
  <2>5. CASE f[x] =< f[m]
    BY <2>3, <2>5
  <2>6. CASE ~(f[x] =< f[m])
    <3>1. \A n \in T : f[n] =< f[x]
      BY <2>1, <2>3, <2>4, <2>6
    <3> QED
      BY <2>1, <3>1
  <2> QED
    BY <2>5, <2>6
<1> HIDE DEF A
<1>3. A = Nat
  <2>1. A \subseteq Nat
    BY DEF A
  <2> QED
    BY <1>1, <1>2, <2>1, Induction
<1>4. Cardinality(S) \in Nat /\ Cardinality(S) # 0
  BY FS_CardinalityType, FS_EmptySet
<1>5. Cardinality(S) - 1 \in A
  BY <1>3, <1>4
<1> QED
  BY <1>4, <1>5 DEF A

(***************************************************************************)
(* The place of an element in a tree                                       *)
(***************************************************************************)
Paths == Seq({"L", "R"})

\* On the way to path all nodes are there, and it turns as the set tells it.
Follows(path, nodes, least) ==
  \A k \in 1 .. Len(path) :
    /\ SubSeq(path, 1, k - 1) \in nodes
    /\ path[k] = IF SubSeq(path, 1, k - 1) \in least THEN "L" ELSE "R"

\* A path that goes on from one that follows, at a node, follows too.
LEMMA FollowsOn ==
  ASSUME NEW path \in Paths, NEW nodes, NEW least, path \in nodes, Follows(path, nodes, least)
  PROVE  Follows(Append(path, IF path \in least THEN "L" ELSE "R"), nodes, least)
<1> DEFINE turn == IF path \in least THEN "L" ELSE "R"
           on == Append(path, turn)
<1>1. on \in Paths /\ Len(on) = Len(path) + 1 /\ Len(path) \in Nat
  BY DEF Paths
<1>2. on[Len(path) + 1] = turn /\ \A k \in 1 .. Len(path) : on[k] = path[k]
  BY DEF Paths
<1>3. \A k \in 1 .. Len(path) + 1 : SubSeq(on, 1, k - 1) = SubSeq(path, 1, k - 1)
  BY <1>1, <1>2 DEF Paths
<1>4. SubSeq(path, 1, Len(path)) = path
  BY DEF Paths
<1> HIDE DEF on
<1> SUFFICES ASSUME NEW k \in 1 .. Len(path) + 1
             PROVE  /\ SubSeq(path, 1, k - 1) \in nodes
                    /\ on[k] = IF SubSeq(path, 1, k - 1) \in least THEN "L" ELSE "R"
  <2>1. Follows(on, nodes, least)
    <3> SUFFICES ASSUME NEW k \in 1 .. Len(on)
                 PROVE  /\ SubSeq(on, 1, k - 1) \in nodes
                        /\ on[k] = IF SubSeq(on, 1, k - 1) \in least THEN "L" ELSE "R"
      BY DEF Follows
    <3>1. k \in 1 .. Len(path) + 1
      BY <1>1
    <3>2. SubSeq(on, 1, k - 1) = SubSeq(path, 1, k - 1)
      BY <1>3, <3>1
    <3> QED
      BY <3>1, <3>2
  <2> QED
    BY <2>1 DEF on
<1>5. CASE k = Len(path) + 1
  <2>1. k - 1 = Len(path)
    BY <1>1, <1>5
  <2> QED
    BY <1>2, <1>4, <1>5, <2>1
<1>6. CASE k # Len(path) + 1
  <2>1. k \in 1 .. Len(path)
    BY <1>1, <1>6
  <2> QED
    BY <1>2, <2>1 DEF Follows
<1> QED
  BY <1>5, <1>6

\* In a finite tree every element has a place, where there is no node yet.
LEMMA PlaceFound ==
  ASSUME NEW nodes, nodes \subseteq Paths, IsFiniteSet(nodes), NEW least
  PROVE  \E path \in {Append(p, turn) : p \in nodes, turn \in {"L", "R"}} \cup {<<>>} :
           path \notin nodes /\ Follows(path, nodes, least)
<1>0. <<>> \in Paths /\ Len(<<>>) = 0
  BY DEF Paths
<1>1. CASE <<>> \notin nodes
  <2>1. Follows(<<>>, nodes, least)
    BY DEF Follows
  <2> QED
    BY <1>1, <2>1
<1>2. CASE <<>> \in nodes
  <2> DEFINE F == {p \in nodes : Follows(p, nodes, least)}
             f == [p \in F |-> Len(p)]
  <2>1. <<>> \in F
    BY <1>2 DEF Follows
  <2>2. IsFiniteSet(F)
    BY FS_Subset
  <2>3. \A p \in F : Len(p) \in Nat
    BY DEF Paths
  <2>4. PICK p \in F : \A q \in F : Len(q) =< Len(p)
    <3> HIDE DEF F
    <3>1. f \in [F -> Nat]
      BY <2>3
    <3> HIDE DEF f
    <3>2. \E m \in F : \A n \in F : f[n] =< f[m]
      BY <2>1, <2>2, <3>1, Greatest
    <3> QED
      BY <3>2 DEF f
  <2> DEFINE on == Append(p, IF p \in least THEN "L" ELSE "R")
  <2>5. Follows(on, nodes, least)
    BY FollowsOn
  <2>6. on \in Paths /\ Len(on) = Len(p) + 1 /\ Len(p) \in Nat
    BY DEF Paths
  <2>7. on \notin nodes
    <3>1. on \in nodes => on \in F
      BY <2>5
    <3> HIDE DEF on, F
    <3> QED
      BY <2>4, <2>6, <3>1
  <2>8. on \in {Append(q, turn) : q \in nodes, turn \in {"L", "R"}}
    OBVIOUS
  <2> HIDE DEF on
  <2> QED
    BY <2>5, <2>7, <2>8
<1> QED
  BY <1>1, <1>2

(***************************************************************************)
(* Loops                                                                   *)
(***************************************************************************)
\* The values of a variable after each of the steps of a loop.
Loops(S, base, step, N) == {g \in [0 .. N -> S] : g[0] = base /\ \A n \in 1 .. N : g[n] = step[n - 1][g[n - 1]]}

\* A loop whose steps stay in a set has a value after each of them.
LEMMA LoopRuns ==
  ASSUME NEW S, NEW base \in S, NEW step \in [Nat -> [S -> S]], NEW N \in Nat
  PROVE  Loops(S, base, step, N) # {}
<1>1. PICK F \in [Nat -> S] : F[0] = base /\ \A n \in Nat : F[n + 1] = step[n][F[n]]
  <2>1. Recursive(S, base, step) # {}
    BY Recursion
  <2> QED
    BY <2>1 DEF Recursive
<1> DEFINE g == [n \in 0 .. N |-> F[n]]
<1>2. g \in [0 .. N -> S] /\ g[0] = base
  BY <1>1
<1>3. ASSUME NEW n \in 1 .. N PROVE g[n] = step[n - 1][g[n - 1]]
  <2>1. n - 1 \in Nat /\ (n - 1) + 1 = n /\ n - 1 \in 0 .. N /\ n \in 0 .. N
    OBVIOUS
  <2>2. F[(n - 1) + 1] = step[n - 1][F[n - 1]]
    BY <1>1, <2>1
  <2> QED
    BY <2>1, <2>2
<1> HIDE DEF g
<1>4. g \in Loops(S, base, step, N)
  BY <1>2, <1>3 DEF Loops
<1> QED
  BY <1>4


(***************************************************************************)
(* Trees and their traversal                                               *)
(***************************************************************************)
\* With a node, all above it are there.
Closed(nodes) == \A p \in nodes : \A k \in 1 .. Len(p) : SubSeq(p, 1, k - 1) \in nodes

\* q is p or below it; q is in its left or in its right subtree.
Under(p, q) == Len(p) =< Len(q) /\ \A k \in 1 .. Len(p) : q[k] = p[k]
Turns(p, turn, q) == Len(p) < Len(q) /\ q[Len(p) + 1] = turn /\ \A k \in 1 .. Len(p) : q[k] = p[k]

\* What is in the left subtree of a node is in a relation to what is in it, what is in the right one is not.
Searchable(t, R) ==
  \A p \in DOMAIN t : \A q \in DOMAIN t :
    (Turns(p, "L", q) => <<t[q], t[p]>> \in R) /\ (Turns(p, "R", q) => <<t[q], t[p]>> \notin R)

\* What is below a node is on one of its two sides.
LEMMA Sides ==
  ASSUME NEW p \in Paths, NEW turn \in {"L", "R"}, NEW q \in Paths
  PROVE  /\ Append(p, turn) \in Paths /\ Len(Append(p, turn)) = Len(p) + 1 /\ Len(p) \in Nat
         /\ Under(Append(p, turn), q) <=> Turns(p, turn, q)
         /\ Under(p, q) <=> q = p \/ Turns(p, "L", q) \/ Turns(p, "R", q)
<1> DEFINE on == Append(p, turn)
<1>1. /\ on \in Paths /\ Len(on) = Len(p) + 1 /\ Len(p) \in Nat /\ Len(q) \in Nat
      /\ on[Len(p) + 1] = turn /\ \A k \in 1 .. Len(p) : on[k] = p[k]
  BY DEF Paths
<1> HIDE DEF on
<1>2. Under(on, q) => Turns(p, turn, q)
  <2> SUFFICES ASSUME Under(on, q) PROVE Turns(p, turn, q)
    OBVIOUS
  <2>1. Len(p) + 1 =< Len(q) /\ \A k \in 1 .. Len(p) + 1 : q[k] = on[k]
    BY <1>1 DEF Under
  <2>2. q[Len(p) + 1] = turn
    BY <1>1, <2>1
  <2>3. \A k \in 1 .. Len(p) : q[k] = p[k]
    BY <1>1, <2>1
  <2> QED
    BY <1>1, <2>1, <2>2, <2>3 DEF Turns
<1>3. Turns(p, turn, q) => Under(on, q)
  <2> SUFFICES ASSUME Turns(p, turn, q) PROVE Under(on, q)
    OBVIOUS
  <2>1. Len(p) < Len(q) /\ q[Len(p) + 1] = turn /\ \A k \in 1 .. Len(p) : q[k] = p[k]
    BY DEF Turns
  <2>2. ASSUME NEW k \in 1 .. Len(on) PROVE q[k] = on[k]
    <3>1. k \in 1 .. Len(p) \/ k = Len(p) + 1
      BY <1>1
    <3> QED
      BY <1>1, <2>1, <3>1
  <2>3. Len(on) =< Len(q)
    BY <1>1, <2>1
  <2> QED
    BY <2>2, <2>3 DEF Under
<1>4. Under(p, q) => q = p \/ Turns(p, "L", q) \/ Turns(p, "R", q)
  <2> SUFFICES ASSUME Under(p, q) PROVE q = p \/ Turns(p, "L", q) \/ Turns(p, "R", q)
    OBVIOUS
  <2>1. CASE Len(p) = Len(q)
    <3>1. \A k \in 1 .. Len(q) : q[k] = p[k]
      BY <2>1 DEF Under
    <3>2. q = p
      BY <2>1, <3>1 DEF Paths
    <3> QED
      BY <3>2
  <2>2. CASE Len(p) # Len(q)
    <3>1. Len(p) < Len(q) /\ Len(p) + 1 \in 1 .. Len(q)
      BY <1>1, <2>2 DEF Under
    <3>2. q[Len(p) + 1] \in {"L", "R"}
      BY <3>1 DEF Paths
    <3> QED
      BY <3>1, <3>2 DEF Under, Turns
  <2> QED
    BY <2>1, <2>2
<1>5. q = p \/ Turns(p, "L", q) \/ Turns(p, "R", q) => Under(p, q)
  BY <1>1 DEF Under, Turns
<1> QED
  BY <1>1, <1>2, <1>3, <1>4, <1>5 DEF on

\* A node above q is at a beginning of its path.
LEMMA Beginning ==
  ASSUME NEW p \in Paths, NEW q \in Paths, Under(p, q)
  PROVE  Len(p) \in Nat /\ Len(q) \in Nat /\ SubSeq(q, 1, Len(p)) = p /\ (Len(p) = Len(q) => q = p)
<1>1. Len(p) \in Nat /\ Len(q) \in Nat /\ Len(p) =< Len(q) /\ \A k \in 1 .. Len(p) : q[k] = p[k]
  BY DEF Under, Paths
<1>2. SubSeq(q, 1, Len(p)) = p
  BY <1>1 DEF Paths
<1>3. ASSUME Len(p) = Len(q) PROVE q = p
  BY <1>1, <1>3 DEF Paths
<1> QED
  BY <1>1, <1>2, <1>3

\* e is inserted into a tree that is in order where the way leads to.
Inserted(g, t, path, e, R) ==
  /\ DOMAIN t \subseteq Paths /\ Closed(DOMAIN t) /\ Searchable(t, R)
  /\ path \in Paths /\ path \notin DOMAIN t
  /\ Follows(path, DOMAIN t, {p \in DOMAIN t : <<e, t[p]>> \in R})
  /\ g = [p \in DOMAIN t \cup {path} |-> IF p = path THEN e ELSE t[p]]

\* This keeps the order.
LEMMA PlacedInOrder ==
  ASSUME NEW g, NEW t, NEW path, NEW e, NEW R, Inserted(g, t, path, e, R)
  PROVE  Closed(DOMAIN g) /\ Searchable(g, R)
<1> USE DEF Inserted
<1> DEFINE least == {p \in DOMAIN t : <<e, t[p]>> \in R}
<1>0. \A q \in Paths : Len(q) \in Nat
  BY DEF Paths
<1>1. DOMAIN g = DOMAIN t \cup {path} /\ g[path] = e /\ \A p \in DOMAIN t : g[p] = t[p]
  OBVIOUS
<1>2. Closed(DOMAIN g)
  <2>1. \A k \in 1 .. Len(path) : SubSeq(path, 1, k - 1) \in DOMAIN t
    BY DEF Follows
  <2> QED
    BY <1>1, <2>1 DEF Closed
<1>3. ASSUME NEW p \in DOMAIN t, NEW turn \in {"L", "R"}, Turns(p, turn, path)
      PROVE  turn = IF <<e, t[p]>> \in R THEN "L" ELSE "R"
  <2>1. /\ Len(p) \in Nat /\ Len(path) \in Nat /\ Len(p) < Len(path) /\ path[Len(p) + 1] = turn
        /\ \A k \in 1 .. Len(p) : path[k] = p[k]
    BY <1>0, <1>3 DEF Turns
  <2>2. SubSeq(path, 1, Len(p)) = p
    BY <2>1 DEF Paths
  <2>3. Len(p) + 1 \in 1 .. Len(path) /\ (Len(p) + 1) - 1 = Len(p)
    BY <2>1
  <2> HIDE DEF least
  <2>4. path[Len(p) + 1] = IF SubSeq(path, 1, (Len(p) + 1) - 1) \in least THEN "L" ELSE "R"
    BY <2>3 DEF Follows, least
  <2>5. turn = IF p \in least THEN "L" ELSE "R"
    BY <2>1, <2>2, <2>3, <2>4
  <2> QED
    BY <2>5 DEF least
<1>4. ASSUME NEW q \in DOMAIN t, NEW turn, Turns(path, turn, q) PROVE FALSE
  <2>1. /\ Len(q) \in Nat /\ Len(path) \in Nat /\ Len(path) < Len(q) /\ \A k \in 1 .. Len(path) : q[k] = path[k]
    BY <1>0, <1>4 DEF Turns
  <2>2. SubSeq(q, 1, Len(path)) = path
    BY <2>1 DEF Paths
  <2>3. Len(path) + 1 \in 1 .. Len(q) /\ (Len(path) + 1) - 1 = Len(path)
    BY <2>1
  <2>4. SubSeq(q, 1, (Len(path) + 1) - 1) \in DOMAIN t
    BY <2>3 DEF Closed
  <2> QED
    BY <2>2, <2>3, <2>4
<1>5. ASSUME NEW turn PROVE ~Turns(path, turn, path)
  BY <1>0 DEF Turns
<1>6. ASSUME NEW p \in DOMAIN g, NEW q \in DOMAIN g
      PROVE  (Turns(p, "L", q) => <<g[q], g[p]>> \in R) /\ (Turns(p, "R", q) => <<g[q], g[p]>> \notin R)
  <2>1. CASE p \in DOMAIN t /\ q \in DOMAIN t
    BY <1>1, <2>1 DEF Searchable
  <2>2. CASE p \in DOMAIN t /\ q = path
    BY <1>1, <1>3, <2>2
  <2>3. CASE p = path
    BY <1>1, <1>4, <1>5, <2>3
  <2> QED
    BY <1>1, <2>1, <2>2, <2>3
<1> QED
  BY <1>2, <1>6 DEF Searchable

\* What a traversal in order returns for each path, and for paths without a node nothing.
IsWalk(w, D, t) ==
  w = [p \in D |-> IF p \in DOMAIN t THEN w[Append(p, "L")] \o <<t[p]>> \o w[Append(p, "R")] ELSE <<>>]

\* The left, the node, the right.
LEMMA JoinedAt ==
  ASSUME NEW s \in Seq(Int), NEW x \in Int, NEW u \in Seq(Int)
  PROVE  /\ s \o <<x>> \o u \in Seq(Int) /\ Len(s \o <<x>> \o u) = Len(s) + 1 + Len(u)
         /\ Len(s) \in Nat /\ Len(u) \in Nat
         /\ \A k \in 1 .. Len(s) + 1 + Len(u) :
              (s \o <<x>> \o u)[k]
                = IF k =< Len(s) THEN s[k] ELSE IF k = Len(s) + 1 THEN x ELSE u[k - (Len(s) + 1)]
<1> DEFINE a == s \o <<x>>
           c == a \o u
<1>1. Len(s) \in Nat /\ Len(u) \in Nat /\ <<x>> \in Seq(Int) /\ Len(<<x>>) = 1 /\ <<x>>[1] = x
  OBVIOUS
<1>2. /\ a \in Seq(Int) /\ Len(a) = Len(s) + 1
      /\ \A k \in 1 .. Len(s) + 1 : a[k] = IF k =< Len(s) THEN s[k] ELSE <<x>>[k - Len(s)]
  BY <1>1, ConcatProperties
<1> HIDE DEF a
<1>3. /\ c \in Seq(Int) /\ Len(c) = Len(a) + Len(u)
      /\ \A k \in 1 .. Len(a) + Len(u) : c[k] = IF k =< Len(a) THEN a[k] ELSE u[k - Len(a)]
  <2>1. a \in Seq(Int) /\ u \in Seq(Int)
    BY <1>2
  <2> QED
    BY <2>1, ConcatProperties
<1> HIDE DEF c
<1>4. ASSUME NEW k \in 1 .. Len(s) + 1 + Len(u)
      PROVE  c[k] = IF k =< Len(s) THEN s[k] ELSE IF k = Len(s) + 1 THEN x ELSE u[k - (Len(s) + 1)]
  <2>1. k \in 1 .. Len(a) + Len(u)
    BY <1>1, <1>2
  <2>2. c[k] = IF k =< Len(s) + 1 THEN a[k] ELSE u[k - (Len(s) + 1)]
    BY <1>2, <1>3, <2>1
  <2>3. CASE k =< Len(s)
    <3>1. k \in 1 .. Len(s) + 1 /\ k =< Len(s) + 1
      BY <1>1, <2>3
    <3> QED
      BY <1>2, <2>2, <2>3, <3>1
  <2>4. CASE k = Len(s) + 1
    <3>1. k \in 1 .. Len(s) + 1 /\ ~(k =< Len(s)) /\ k - Len(s) = 1
      BY <1>1, <2>4
    <3> QED
      BY <1>1, <1>2, <2>2, <2>4, <3>1
  <2>5. CASE k > Len(s) + 1
    BY <1>1, <2>2, <2>5
  <2> QED
    BY <1>1, <2>3, <2>4, <2>5
<1> QED
  BY <1>1, <1>2, <1>3, <1>4 DEF a, c

\* A finite tree has a depth.
LEMMA Depth ==
  ASSUME NEW nodes, nodes \subseteq Paths, IsFiniteSet(nodes)
  PROVE  \E N \in Nat : \A p \in nodes : Len(p) < N
<1>1. CASE nodes = {}
  BY <1>1
<1>2. CASE nodes # {}
  <2> DEFINE f == [p \in nodes |-> Len(p)]
  <2>1. \A p \in nodes : Len(p) \in Nat
    BY DEF Paths
  <2>2. f \in [nodes -> Nat]
    BY <2>1
  <2> HIDE DEF f
  <2>3. PICK m \in nodes : \A p \in nodes : f[p] =< f[m]
    BY <1>2, <2>2, Greatest
  <2>4. \A p \in nodes : Len(p) < Len(m) + 1
    BY <2>1, <2>3 DEF f
  <2> QED
    BY <2>1, <2>4
<1> QED
  BY <1>1, <1>2

\* What holds of paths without a node, and of each node of whose children it holds, holds of all.
LEMMA TreeInduction ==
  ASSUME NEW nodes, nodes \subseteq Paths, IsFiniteSet(nodes), NEW D, D \subseteq Paths, NEW G,
         \A p \in D : p \notin nodes => p \in G,
         \A p \in nodes, turn \in {"L", "R"} : Append(p, turn) \in D,
         \A p \in nodes : p \in D /\ Append(p, "L") \in G /\ Append(p, "R") \in G => p \in G
  PROVE  D \subseteq G
<1>1. PICK N \in Nat : \A p \in nodes : Len(p) < N
  BY Depth
<1>2. \A p \in D : Len(p) \in Nat
  BY DEF Paths
<1>3. \A p \in nodes, turn \in {"L", "R"} : Len(Append(p, turn)) = Len(p) + 1
  BY DEF Paths
<1> DEFINE A == {n \in Nat : \A p \in D : Len(p) + n >= N => p \in G}
<1>4. 0 \in A
  <2>1. ASSUME NEW p \in D, Len(p) >= N PROVE p \in G
    BY <1>1, <1>2, <2>1
  <2> QED
    BY <1>2, <2>1
<1>5. ASSUME NEW n \in A PROVE n + 1 \in A
  <2>1. n \in Nat /\ \A p \in D : Len(p) + n >= N => p \in G
    OBVIOUS
  <2>2. ASSUME NEW p \in D, Len(p) + (n + 1) >= N PROVE p \in G
    <3>1. CASE p \in nodes
      <4>1. \A turn \in {"L", "R"} : Append(p, turn) \in D /\ Len(Append(p, turn)) + n >= N
        BY <1>1, <1>2, <1>3, <2>1, <2>2, <3>1
      <4> QED
        BY <2>1, <3>1, <4>1
    <3>2. CASE p \notin nodes
      BY <3>2
    <3> QED
      BY <3>1, <3>2
  <2> QED
    BY <2>1, <2>2
<1>6. A \subseteq Nat
  OBVIOUS
<1> HIDE DEF A
<1>7. N \in A
  BY <1>1, <1>4, <1>5, <1>6, Induction
<1> QED
  BY <1>1, <1>2, <1>7 DEF A

\* The recursion of a traversal ends: as deep as there are nodes.
LEMMA WalkExists ==
  ASSUME NEW t, t \in [DOMAIN t -> Int], DOMAIN t \subseteq Paths, IsFiniteSet(DOMAIN t),
         NEW D, D \subseteq Paths, \A p \in DOMAIN t, turn \in {"L", "R"} : Append(p, turn) \in D
  PROVE  \E w : IsWalk(w, D, t)
<1> DEFINE S == [D -> Seq(Int)]
           next(h) == [p \in D |-> IF p \in DOMAIN t THEN h[Append(p, "L")] \o <<t[p]>> \o h[Append(p, "R")] ELSE <<>>]
           step == [n \in Nat |-> [h \in S |-> next(h)]]
           base == [p \in D |-> <<>>]
<1>1. PICK N \in Nat : \A p \in DOMAIN t : Len(p) < N
  BY Depth
<1>2. ASSUME NEW h \in S PROVE next(h) \in S
  <2> SUFFICES ASSUME NEW p \in D, p \in DOMAIN t
               PROVE  h[Append(p, "L")] \o <<t[p]>> \o h[Append(p, "R")] \in Seq(Int)
    BY <1>2
  <2>1. h[Append(p, "L")] \in Seq(Int) /\ h[Append(p, "R")] \in Seq(Int) /\ t[p] \in Int
    BY <1>2
  <2> QED
    BY <2>1, JoinedAt
<1>3. base \in S
  OBVIOUS
<1> HIDE DEF S, base
<1>4. step \in [Nat -> [S -> S]]
  BY <1>2
<1>5. \A n \in Nat, h \in S : step[n][h] = next(h)
  OBVIOUS
<1> HIDE DEF step
<1>6. PICK g \in [0 .. N + 1 -> S] : g[0] = base /\ \A n \in 1 .. N + 1 : g[n] = step[n - 1][g[n - 1]]
  <2>1. N + 1 \in Nat
    BY <1>1
  <2>2. Loops(S, base, step, N + 1) # {}
    BY <1>3, <1>4, <2>1, LoopRuns
  <2> QED
    BY <2>2 DEF Loops
<1>7. \A n \in 0 .. N : g[n + 1] = next(g[n])
  <2> TAKE n \in 0 .. N
  <2>1. n + 1 \in 1 .. N + 1 /\ (n + 1) - 1 = n /\ n \in Nat /\ n \in 0 .. N + 1
    BY <1>1
  <2>2. g[n + 1] = step[n][g[n]] /\ g[n] \in S
    BY <1>6, <2>1
  <2> QED
    BY <1>5, <2>1, <2>2
<1> DEFINE Settled(n) == \A p \in D : Len(p) + n >= N => g[n + 1][p] = g[n][p]
<1>8. \A p \in D : Len(p) \in Nat
  BY DEF Paths
<1>9. \A p \in DOMAIN t, turn \in {"L", "R"} : Len(Append(p, turn)) = Len(p) + 1 /\ Len(p) \in Nat /\ Append(p, turn) \in D
  BY DEF Paths
<1>10. Settled(0)
  <2> SUFFICES ASSUME NEW p \in D, Len(p) >= N PROVE g[1][p] = g[0][p]
    BY <1>1, <1>8
  <2>1. p \notin DOMAIN t
    BY <1>1, <1>8
  <2>2. g[1] = next(g[0])
    <3>1. 0 \in 0 .. N /\ 0 + 1 = 1
      BY <1>1
    <3> HIDE DEF next
    <3> QED
      BY <1>7, <3>1
  <2> QED
    BY <1>6, <2>1, <2>2 DEF base
<1>11. ASSUME NEW n \in 0 .. N - 1, Settled(n) PROVE Settled(n + 1)
  <2> SUFFICES ASSUME NEW p \in D, Len(p) + (n + 1) >= N PROVE g[(n + 1) + 1][p] = g[n + 1][p]
    OBVIOUS
  <2>1. n \in 0 .. N /\ n + 1 \in 0 .. N
    BY <1>1
  <2>2. g[(n + 1) + 1] = next(g[n + 1]) /\ g[n + 1] = next(g[n])
    BY <1>7, <2>1
  <2>3. CASE p \notin DOMAIN t
    BY <2>2, <2>3
  <2>4. CASE p \in DOMAIN t
    <3>1. g[n + 1][Append(p, "L")] = g[n][Append(p, "L")] /\ g[n + 1][Append(p, "R")] = g[n][Append(p, "R")]
      <4>1. \A turn \in {"L", "R"} : Append(p, turn) \in D /\ Len(Append(p, turn)) + n >= N
        BY <1>1, <1>9, <2>4
      <4> QED
        BY <1>11, <4>1
    <3> QED
      BY <2>2, <2>4, <3>1
  <2> QED
    BY <2>3, <2>4
<1>12. Settled(N)
  <2> HIDE DEF Settled
  <2> DEFINE A == {n \in Nat : n =< N => Settled(n)}
  <2>1. 0 \in A
    BY <1>10
  <2>2. ASSUME NEW n \in A PROVE n + 1 \in A
    <3>1. n \in Nat /\ (n =< N => Settled(n))
      OBVIOUS
    <3>2. ASSUME n + 1 =< N PROVE Settled(n + 1)
      <4>1. n \in 0 .. N - 1 /\ n =< N
        BY <1>1, <3>1, <3>2
      <4> QED
        BY <1>11, <3>1, <4>1
    <3> QED
      BY <3>1, <3>2
  <2>3. A \subseteq Nat
    OBVIOUS
  <2> HIDE DEF A
  <2>4. A = Nat
    BY <2>1, <2>2, <2>3, Induction
  <2> QED
    BY <1>1, <2>4 DEF A
<1> DEFINE w == g[N]
<1>13. w \in S /\ g[N + 1] = next(w) /\ g[N + 1] \in S
  <2>1. N \in 0 .. N + 1 /\ N + 1 \in 0 .. N + 1 /\ N \in 0 .. N
    BY <1>1
  <2> HIDE DEF next
  <2> QED
    BY <1>6, <1>7, <2>1
<1>14. \A p \in D : next(w)[p] = w[p]
  BY <1>1, <1>8, <1>12, <1>13
<1> HIDE DEF w
<1>15. w = next(w)
  <2>1. next(w) \in S
    BY <1>13
  <2> HIDE DEF next
  <2> QED
    BY <1>13, <1>14, <2>1 DEF S
<1> QED
  BY <1>15 DEF IsWalk

\* The relation orders the elements of a tree.
Orders(R, t) ==
  /\ \A p, q \in DOMAIN t : <<t[p], t[q]>> \in R \/ <<t[q], t[p]>> \in R
  /\ \A p, q, r \in DOMAIN t : <<t[p], t[q]>> \in R /\ <<t[q], t[r]>> \in R => <<t[p], t[r]>> \in R

\* The elements of s are at and below p, and ascend.
Sorted(s, p, t, R) ==
  /\ s \in Seq(Int)
  /\ \A k \in 1 .. Len(s) : \E q \in DOMAIN t : Under(p, q) /\ s[k] = t[q]
  /\ \A j, k \in 1 .. Len(s) : j < k => <<s[j], s[k]>> \in R

\* If what is to the left and to the right of a node ascends, the whole does.
LEMMA JoinedSorted ==
  ASSUME NEW t, t \in [DOMAIN t -> Int], DOMAIN t \subseteq Paths, NEW R, Searchable(t, R), Orders(R, t),
         NEW p \in DOMAIN t, NEW s, Sorted(s, Append(p, "L"), t, R), NEW u, Sorted(u, Append(p, "R"), t, R)
  PROVE  Sorted(s \o <<t[p]>> \o u, p, t, R)
<1> DEFINE x == t[p]
           c == s \o <<x>> \o u
<1>1. p \in Paths /\ x \in Int /\ s \in Seq(Int) /\ u \in Seq(Int)
  BY DEF Sorted
<1>2. /\ c \in Seq(Int) /\ Len(c) = Len(s) + 1 + Len(u) /\ Len(s) \in Nat /\ Len(u) \in Nat
      /\ \A k \in 1 .. Len(s) + 1 + Len(u) :
           c[k] = IF k =< Len(s) THEN s[k] ELSE IF k = Len(s) + 1 THEN x ELSE u[k - (Len(s) + 1)]
  BY <1>1, JoinedAt
<1> HIDE DEF x, c
<1>3. /\ \A k \in 1 .. Len(s) : c[k] = s[k]
      /\ c[Len(s) + 1] = x
      /\ \A k \in Len(s) + 2 .. Len(c) : k - (Len(s) + 1) \in 1 .. Len(u) /\ c[k] = u[k - (Len(s) + 1)]
  <2>1. \A k \in 1 .. Len(s) : k \in 1 .. Len(s) + 1 + Len(u) /\ k =< Len(s)
    BY <1>2
  <2>2. Len(s) + 1 \in 1 .. Len(s) + 1 + Len(u) /\ ~(Len(s) + 1 =< Len(s))
    BY <1>2
  <2>3. \A k \in Len(s) + 2 .. Len(c) :
          /\ k \in 1 .. Len(s) + 1 + Len(u) /\ ~(k =< Len(s)) /\ k # Len(s) + 1
          /\ k - (Len(s) + 1) \in 1 .. Len(u)
    BY <1>2
  <2> QED
    BY <1>2, <2>1, <2>2, <2>3
<1>4. /\ \A k \in 1 .. Len(s) : \E q \in DOMAIN t : Turns(p, "L", q) /\ s[k] = t[q]
      /\ \A k \in 1 .. Len(u) : \E q \in DOMAIN t : Turns(p, "R", q) /\ u[k] = t[q]
  <2>1. \A q \in DOMAIN t, turn \in {"L", "R"} : Under(Append(p, turn), q) <=> Turns(p, turn, q)
    BY <1>1, Sides
  <2> QED
    BY <2>1 DEF Sorted
<1>5. \A q \in DOMAIN t : q = p \/ Turns(p, "L", q) \/ Turns(p, "R", q) => Under(p, q)
  BY <1>1, Sides
<1>6. \A k \in 1 .. Len(c) : k \in 1 .. Len(s) \/ k = Len(s) + 1 \/ k \in Len(s) + 2 .. Len(c)
  <2>1. Len(c) \in Nat /\ Len(s) \in Nat
    BY <1>2
  <2> QED
    BY <2>1
<1>7. ASSUME NEW k \in 1 .. Len(c) PROVE \E q \in DOMAIN t : Under(p, q) /\ c[k] = t[q]
  BY <1>3, <1>4, <1>5, <1>6 DEF x
<1>8. ASSUME NEW j \in 1 .. Len(c), NEW k \in 1 .. Len(c), j < k PROVE <<c[j], c[k]>> \in R
  <2>1. CASE k \in 1 .. Len(s)
    <3>1. j \in 1 .. Len(s)
      BY <1>2, <1>8, <2>1
    <3> QED
      BY <1>3, <1>8, <2>1, <3>1 DEF Sorted
  <2>2. CASE k = Len(s) + 1
    <3>1. j \in 1 .. Len(s)
      BY <1>2, <1>8, <2>2
    <3>2. PICK q \in DOMAIN t : Turns(p, "L", q) /\ s[j] = t[q]
      BY <1>4, <3>1
    <3>3. <<t[q], t[p]>> \in R
      BY <3>2 DEF Searchable
    <3> QED
      BY <1>3, <2>2, <3>1, <3>2, <3>3 DEF x
  <2>3. CASE k \in Len(s) + 2 .. Len(c)
    <3>1. PICK r \in DOMAIN t : Turns(p, "R", r) /\ u[k - (Len(s) + 1)] = t[r]
      BY <1>3, <1>4, <2>3
    <3>2. c[k] = t[r] /\ <<t[p], t[r]>> \in R
      BY <1>3, <2>3, <3>1 DEF Searchable, Orders
    <3>3. CASE j \in 1 .. Len(s)
      <4>1. PICK q \in DOMAIN t : Turns(p, "L", q) /\ s[j] = t[q]
        BY <1>4, <3>3
      <4>2. <<t[q], t[p]>> \in R
        BY <4>1 DEF Searchable
      <4>3. <<t[q], t[r]>> \in R
        BY <3>2, <4>2 DEF Orders
      <4> QED
        BY <1>3, <3>2, <3>3, <4>1, <4>3
    <3>4. CASE j = Len(s) + 1
      BY <1>3, <3>2, <3>4 DEF x
    <3>5. CASE j \in Len(s) + 2 .. Len(c)
      <4>1. /\ j - (Len(s) + 1) \in 1 .. Len(u) /\ k - (Len(s) + 1) \in 1 .. Len(u)
            /\ j - (Len(s) + 1) < k - (Len(s) + 1)
        BY <1>2, <1>3, <1>8, <2>3, <3>5
      <4>2. <<u[j - (Len(s) + 1)], u[k - (Len(s) + 1)]>> \in R
        BY <4>1 DEF Sorted
      <4> QED
        BY <1>3, <2>3, <3>5, <4>2
    <3> QED
      BY <1>6, <3>3, <3>4, <3>5
  <2> QED
    BY <1>6, <2>1, <2>2, <2>3
<1>9. Sorted(c, p, t, R)
  BY <1>2, <1>7, <1>8 DEF Sorted
<1> QED
  BY <1>9 DEF c, x

\* The traversal of a tree that is in order ascends.
LEMMA WalkSorted ==
  ASSUME NEW t, t \in [DOMAIN t -> Int], DOMAIN t \subseteq Paths, IsFiniteSet(DOMAIN t),
         NEW D, D \subseteq Paths, \A p \in DOMAIN t, turn \in {"L", "R"} : Append(p, turn) \in D,
         NEW w, IsWalk(w, D, t), NEW R, Searchable(t, R), Orders(R, t)
  PROVE  \A p \in D : Sorted(w[p], p, t, R)
<1> DEFINE G == {p \in D : Sorted(w[p], p, t, R)}
<1>1. \A p \in D : w[p] = IF p \in DOMAIN t THEN w[Append(p, "L")] \o <<t[p]>> \o w[Append(p, "R")] ELSE <<>>
  BY DEF IsWalk
<1>2. ASSUME NEW p \in D, p \notin DOMAIN t PROVE p \in G
  <2>1. Sorted(<<>>, p, t, R)
    BY DEF Sorted
  <2> QED
    BY <1>1, <1>2, <2>1
<1>3. ASSUME NEW p \in DOMAIN t, p \in D, Append(p, "L") \in G, Append(p, "R") \in G PROVE p \in G
  <2>1. Sorted(w[Append(p, "L")], Append(p, "L"), t, R) /\ Sorted(w[Append(p, "R")], Append(p, "R"), t, R)
    BY <1>3
  <2>2. Sorted(w[Append(p, "L")] \o <<t[p]>> \o w[Append(p, "R")], p, t, R)
    BY <2>1, JoinedSorted
  <2> QED
    BY <1>1, <1>3, <2>2
<1> HIDE DEF G
<1>4. D \subseteq G
  BY <1>2, <1>3, TreeInduction
<1> QED
  BY <1>4 DEF G

\* The places of a sequence where an element is in a set; the nodes at and below p that have one.
Picked(s, W) == {k \in DOMAIN s : s[k] \in W}
BelowIn(p, t, W) == {q \in DOMAIN t : Under(p, q) /\ t[q] \in W}

\* Sets that have nothing in common.
LEMMA UnionOfDisjoint ==
  ASSUME NEW S, IsFiniteSet(S), NEW T, IsFiniteSet(T), S \cap T = {}
  PROVE  IsFiniteSet(S \cup T) /\ Cardinality(S \cup T) = Cardinality(S) + Cardinality(T)
<1>1. Cardinality({}) = 0 /\ Cardinality(S) \in Nat /\ Cardinality(T) \in Nat
  BY FS_EmptySet, FS_CardinalityType
<1>2. /\ IsFiniteSet(S \cup T)
      /\ Cardinality(S \cup T) = Cardinality(S) + Cardinality(T) - Cardinality(S \cap T)
  BY FS_Union
<1>3. Cardinality(S \cap T) = 0
  <2>1. S \cap T = {}
    OBVIOUS
  <2> QED
    BY <1>1, <2>1
<1> QED
  BY <1>1, <1>2, <1>3

\* What is picked from the whole is picked from the left, the node and the right.
LEMMA JoinedPicked ==
  ASSUME NEW s \in Seq(Int), NEW x \in Int, NEW u \in Seq(Int), NEW W
  PROVE  /\ IsFiniteSet(Picked(s \o <<x>> \o u, W))
         /\ Cardinality(Picked(s \o <<x>> \o u, W))
              = Cardinality(Picked(s, W)) + (IF x \in W THEN 1 ELSE 0) + Cardinality(Picked(u, W))
<1> DEFINE c == s \o <<x>> \o u
           m == Len(s) + 1
           X == IF x \in W THEN {m} ELSE {}
           back == {k \in m + 1 .. Len(c) : c[k] \in W}
<1>1. /\ c \in Seq(Int) /\ Len(c) = m + Len(u) /\ Len(s) \in Nat /\ Len(u) \in Nat /\ m \in Nat
      /\ \A k \in 1 .. m + Len(u) : c[k] = IF k =< Len(s) THEN s[k] ELSE IF k = m THEN x ELSE u[k - m]
  BY JoinedAt
<1> HIDE DEF c
<1>2. /\ DOMAIN c = 1 .. m + Len(u) /\ DOMAIN s = 1 .. Len(s) /\ DOMAIN u = 1 .. Len(u)
  BY <1>1
<1>3. Picked(c, W) = Picked(s, W) \cup X \cup back
  <2>1. \A k \in 1 .. Len(s) : k \in 1 .. m + Len(u) /\ c[k] = s[k]
    BY <1>1
  <2>2. m \in 1 .. m + Len(u) /\ c[m] = x
    BY <1>1
  <2>3. \A k \in 1 .. m + Len(u) : k \in 1 .. Len(s) \/ k = m \/ k \in m + 1 .. Len(c)
    <3>1. Len(s) \in Nat /\ m + Len(u) = Len(c)
      BY <1>1
    <3> QED
      BY <3>1
  <2>4. \A k \in m + 1 .. Len(c) : k \in 1 .. m + Len(u)
    BY <1>1
  <2> HIDE DEF m
  <2> QED
    BY <1>2, <2>1, <2>2, <2>3, <2>4 DEF Picked
<1>4. IsFiniteSet(Picked(s, W)) /\ IsFiniteSet(Picked(u, W)) /\ IsFiniteSet(X)
  <2>1. IsFiniteSet(1 .. Len(s)) /\ IsFiniteSet(1 .. Len(u))
    BY <1>1, FS_Interval
  <2>2. Picked(s, W) \in SUBSET (1 .. Len(s)) /\ Picked(u, W) \in SUBSET (1 .. Len(u))
    BY <1>2 DEF Picked
  <2>3. IsFiniteSet({m}) /\ IsFiniteSet({})
    BY FS_Singleton, FS_EmptySet
  <2> QED
    BY <2>1, <2>2, <2>3, FS_Subset
<1>5. IsFiniteSet(back) /\ Cardinality(back) = Cardinality(Picked(u, W))
  <2> DEFINE shift == [k \in Picked(u, W) |-> k + m]
  <2>1. \A k \in Picked(u, W) : k \in 1 .. Len(u) /\ u[k] \in W
    BY <1>2 DEF Picked
  <2>2. \A k \in 1 .. Len(u) : k + m \in m + 1 .. Len(c) /\ c[k + m] = u[k]
    <3> TAKE k \in 1 .. Len(u)
    <3>1. k + m \in 1 .. m + Len(u) /\ ~(k + m =< Len(s)) /\ k + m # m /\ (k + m) - m = k
      BY <1>1
    <3> QED
      BY <1>1, <3>1
  <2>3. shift \in [Picked(u, W) -> back]
    BY <2>1, <2>2
  <2>4. \A j, k \in Picked(u, W) : shift[j] = shift[k] => j = k
    BY <1>1, <2>1
  <2>5. \A n \in back : \E k \in Picked(u, W) : shift[k] = n
    <3> TAKE n \in back
    <3>1. n - m \in 1 .. Len(u) /\ (n - m) + m = n /\ c[n] \in W
      BY <1>1
    <3>2. n - m \in Picked(u, W)
      BY <1>2, <2>2, <3>1 DEF Picked
    <3> QED
      BY <3>1, <3>2
  <2> HIDE DEF shift, back
  <2>6. shift \in Bijection(Picked(u, W), back)
    BY <2>3, <2>4, <2>5 DEF Bijection, Injection, Surjection, IsInjective
  <2>7. ExistsBijection(Picked(u, W), back)
    BY <2>6 DEF ExistsBijection
  <2> QED
    BY <1>4, <2>7, FS_Bijection
<1>6. /\ Picked(s, W) \cap X = {} /\ (Picked(s, W) \cup X) \cap back = {}
  <2>1. \A k \in Picked(s, W) : k \in 1 .. Len(s)
    BY <1>2 DEF Picked
  <2> QED
    BY <1>1, <2>1
<1>7. Cardinality(X) = IF x \in W THEN 1 ELSE 0
  <2>1. Cardinality({m}) = 1 /\ Cardinality({}) = 0
    BY FS_Singleton, FS_EmptySet
  <2> QED
    BY <2>1
<1> HIDE DEF X, back, m
<1>9. IsFiniteSet(Picked(s, W) \cup X) /\ Cardinality(Picked(s, W) \cup X) = Cardinality(Picked(s, W)) + Cardinality(X)
  BY <1>4, <1>6, UnionOfDisjoint
<1>10. /\ IsFiniteSet(Picked(s, W) \cup X \cup back)
       /\ Cardinality(Picked(s, W) \cup X \cup back) = Cardinality(Picked(s, W)) + Cardinality(X) + Cardinality(back)
  BY <1>5, <1>6, <1>9, UnionOfDisjoint
<1>11. /\ IsFiniteSet(Picked(c, W))
       /\ Cardinality(Picked(c, W)) = Cardinality(Picked(s, W)) + (IF x \in W THEN 1 ELSE 0) + Cardinality(Picked(u, W))
  BY <1>3, <1>5, <1>7, <1>10
<1> QED
  BY <1>11 DEF c

\* The nodes at and below a node are it and those on its two sides.
LEMMA JoinedBelow ==
  ASSUME NEW t, DOMAIN t \subseteq Paths, IsFiniteSet(DOMAIN t), NEW p \in DOMAIN t, NEW W
  PROVE  Cardinality(BelowIn(p, t, W))
           = Cardinality(BelowIn(Append(p, "L"), t, W)) + (IF t[p] \in W THEN 1 ELSE 0)
             + Cardinality(BelowIn(Append(p, "R"), t, W))
<1> DEFINE left == BelowIn(Append(p, "L"), t, W)
           right == BelowIn(Append(p, "R"), t, W)
           here == IF t[p] \in W THEN {p} ELSE {}
<1>0. p \in Paths
  OBVIOUS
<1>1. left = {q \in DOMAIN t : Turns(p, "L", q) /\ t[q] \in W} /\ right = {q \in DOMAIN t : Turns(p, "R", q) /\ t[q] \in W}
  BY <1>0, Sides DEF BelowIn
<1>2. BelowIn(p, t, W) = left \cup here \cup right
  <2>1. \A q \in DOMAIN t : Under(p, q) <=> q = p \/ Turns(p, "L", q) \/ Turns(p, "R", q)
    BY <1>0, Sides
  <2> HIDE DEF left, right
  <2> QED
    BY <1>1, <2>1 DEF BelowIn
<1>3. left \cap here = {} /\ (left \cup here) \cap right = {}
  <2>1. ~Turns(p, "L", p) /\ ~Turns(p, "R", p)
    <3>1. Len(p) \in Nat
      BY <1>0 DEF Paths
    <3> QED
      BY <3>1 DEF Turns
  <2>2. \A q : ~(Turns(p, "L", q) /\ Turns(p, "R", q))
    BY DEF Turns
  <2> HIDE DEF left, right
  <2> QED
    BY <1>1, <2>1, <2>2
<1>4. IsFiniteSet(left) /\ IsFiniteSet(right) /\ IsFiniteSet(here)
  <2>1. left \in SUBSET DOMAIN t /\ right \in SUBSET DOMAIN t /\ here \in SUBSET DOMAIN t
    BY DEF BelowIn
  <2> QED
    BY <2>1, FS_Subset
<1>5. Cardinality(here) = IF t[p] \in W THEN 1 ELSE 0
  <2>1. Cardinality({p}) = 1 /\ Cardinality({}) = 0
    BY FS_Singleton, FS_EmptySet
  <2> QED
    BY <2>1
<1> HIDE DEF left, right, here
<1>8. IsFiniteSet(left \cup here) /\ Cardinality(left \cup here) = Cardinality(left) + Cardinality(here)
  BY <1>3, <1>4, UnionOfDisjoint
<1>9. Cardinality(left \cup here \cup right) = Cardinality(left) + Cardinality(here) + Cardinality(right)
  BY <1>3, <1>4, <1>8, UnionOfDisjoint
<1> QED
  BY <1>2, <1>5, <1>9 DEF left, right

\* A traversal returns the element of each node once.
LEMMA WalkCounts ==
  ASSUME NEW t, t \in [DOMAIN t -> Int], DOMAIN t \subseteq Paths, IsFiniteSet(DOMAIN t), Closed(DOMAIN t),
         NEW D, D \subseteq Paths, \A p \in DOMAIN t, turn \in {"L", "R"} : Append(p, turn) \in D,
         NEW w, IsWalk(w, D, t), NEW W
  PROVE  \A p \in D : w[p] \in Seq(Int) /\ Cardinality(Picked(w[p], W)) = Cardinality(BelowIn(p, t, W))
<1> DEFINE G == {p \in D : w[p] \in Seq(Int) /\ Cardinality(Picked(w[p], W)) = Cardinality(BelowIn(p, t, W))}
<1>1. \A p \in D : w[p] = IF p \in DOMAIN t THEN w[Append(p, "L")] \o <<t[p]>> \o w[Append(p, "R")] ELSE <<>>
  BY DEF IsWalk
<1>2. ASSUME NEW p \in D, p \notin DOMAIN t PROVE p \in G
  <2>1. BelowIn(p, t, W) = {}
    <3> SUFFICES ASSUME NEW q \in DOMAIN t, Under(p, q) PROVE FALSE
      BY DEF BelowIn
    <3>1. /\ p \in Paths /\ q \in Paths /\ Len(p) \in Nat /\ Len(q) \in Nat
          /\ Len(p) =< Len(q) /\ \A k \in 1 .. Len(p) : q[k] = p[k]
      BY DEF Under, Paths
    <3>2. SubSeq(q, 1, Len(p)) = p /\ (Len(p) = Len(q) => q = p)
      BY <3>1, Beginning
    <3>3. CASE Len(p) = Len(q)
      <4>1. q = p
        BY <3>2, <3>3
      <4> QED
        BY <1>2, <4>1
    <3>4. CASE Len(p) # Len(q)
      <4>1. Len(p) + 1 \in 1 .. Len(q) /\ (Len(p) + 1) - 1 = Len(p)
        BY <3>1, <3>4
      <4>2. SubSeq(q, 1, (Len(p) + 1) - 1) \in DOMAIN t
        BY <4>1 DEF Closed
      <4> QED
        BY <1>2, <3>2, <4>1, <4>2
    <3> QED
      BY <3>3, <3>4
  <2>2. Picked(<<>>, W) = {} /\ <<>> \in Seq(Int)
    BY DEF Picked
  <2> QED
    BY <1>1, <1>2, <2>1, <2>2
<1>3. ASSUME NEW p \in DOMAIN t, p \in D, Append(p, "L") \in G, Append(p, "R") \in G PROVE p \in G
  <2> DEFINE s == w[Append(p, "L")]
             u == w[Append(p, "R")]
             c == s \o <<t[p]>> \o u
  <2>1. /\ s \in Seq(Int) /\ Cardinality(Picked(s, W)) = Cardinality(BelowIn(Append(p, "L"), t, W))
        /\ u \in Seq(Int) /\ Cardinality(Picked(u, W)) = Cardinality(BelowIn(Append(p, "R"), t, W))
        /\ t[p] \in Int /\ w[p] = c
    BY <1>1, <1>3
  <2> HIDE DEF s, u
  <2>2. c \in Seq(Int) /\ Cardinality(Picked(c, W)) = Cardinality(Picked(s, W)) + (IF t[p] \in W THEN 1 ELSE 0) + Cardinality(Picked(u, W))
    BY <2>1, JoinedAt, JoinedPicked
  <2>3. Cardinality(BelowIn(p, t, W))
          = Cardinality(BelowIn(Append(p, "L"), t, W)) + (IF t[p] \in W THEN 1 ELSE 0)
            + Cardinality(BelowIn(Append(p, "R"), t, W))
    BY JoinedBelow
  <2>4. Cardinality(Picked(c, W)) = Cardinality(BelowIn(p, t, W))
    BY <2>1, <2>2, <2>3
  <2> QED
    BY <1>3, <2>1, <2>2, <2>4
<1> HIDE DEF G
<1>4. D \subseteq G
  BY <1>2, <1>3, TreeInduction
<1> QED
  BY <1>4 DEF G

(***************************************************************************)
(* The operators of PathTree, in the trees of elements and of arguments     *)
(***************************************************************************)
PlacesOf(t) == {Append(p, turn) : p \in DOMAIN t, turn \in {"L", "R"}} \cup {<<>>}

\* They are paths, and the children of nodes are among them.
LEMMA PlacesPaths ==
  ASSUME NEW t, DOMAIN t \subseteq Paths
  PROVE  /\ PlacesOf(t) \subseteq Paths /\ <<>> \in PlacesOf(t)
         /\ \A p \in DOMAIN t, turn \in {"L", "R"} : Append(p, turn) \in PlacesOf(t)
<1>1. \A p \in Paths, turn \in {"L", "R"} : Append(p, turn) \in Paths
  BY DEF Paths
<1>2. <<>> \in Paths
  BY DEF Paths
<1>3. \A p \in DOMAIN t, turn \in {"L", "R"} : Append(p, turn) \in Paths
  BY <1>1
<1>4. \A path \in {Append(p, turn) : p \in DOMAIN t, turn \in {"L", "R"}} : path \in Paths
  <2> TAKE path \in {Append(p, turn) : p \in DOMAIN t, turn \in {"L", "R"}}
  <2>1. PICK p \in DOMAIN t, turn \in {"L", "R"} : path = Append(p, turn)
    OBVIOUS
  <2> QED
    BY <1>3, <2>1
<1> QED
  BY <1>2, <1>4 DEF PlacesOf

\* Both take the place that PlaceFound finds.
LEMMA PlaceTaken ==
  ASSUME NEW t, DOMAIN t \subseteq Paths, IsFiniteSet(DOMAIN t), NEW least,
         NEW path, path = El!Place(t, least) \/ path = Bt!Place(t, least)
  PROVE  path \in Paths /\ path \notin DOMAIN t /\ Follows(path, DOMAIN t, least)
<1>1. \E p \in PlacesOf(t) : p \notin DOMAIN t /\ Follows(p, DOMAIN t, least)
  <2> DEFINE nodes == DOMAIN t
  <2>1. nodes \subseteq Paths /\ IsFiniteSet(nodes)
    OBVIOUS
  <2> HIDE DEF nodes
  <2>2. \E p \in {Append(q, turn) : q \in nodes, turn \in {"L", "R"}} \cup {<<>>} : p \notin nodes /\ Follows(p, nodes, least)
    BY <2>1, PlaceFound
  <2> QED
    BY <2>2 DEF nodes, PlacesOf
<1>2. path = CHOOSE p \in PlacesOf(t) : p \notin DOMAIN t /\ Follows(p, DOMAIN t, least)
  BY DEF El!Place, Bt!Place, El!Places, Bt!Places, PlacesOf, Follows
<1>3. path \in PlacesOf(t) /\ path \notin DOMAIN t /\ Follows(path, DOMAIN t, least)
  BY <1>1, <1>2
<1> QED
  BY <1>3, PlacesPaths

\* printInOrder of a4 returns what a walk from the root returns.
LEMMA InOrderWalks ==
  ASSUME NEW t, t \in [DOMAIN t -> Int], DOMAIN t \subseteq Paths, IsFiniteSet(DOMAIN t),
         NEW order, order = Bt!InOrder(t)
  PROVE  \E w : IsWalk(w, PlacesOf(t), t) /\ order = w[<<>>]
<1> DEFINE w == CHOOSE walk : walk =
              [p \in PlacesOf(t) |-> IF p \in DOMAIN t THEN walk[Append(p, "L")] \o <<t[p]>> \o walk[Append(p, "R")] ELSE <<>>]
<1>1. \E walk : IsWalk(walk, PlacesOf(t), t)
  BY PlacesPaths, WalkExists
<1>2. IsWalk(w, PlacesOf(t), t)
  BY <1>1 DEF IsWalk
<1>3. Bt!InOrder(t) = w[<<>>]
  BY DEF Bt!InOrder, Bt!Places, PlacesOf
<1> QED
  BY <1>2, <1>3

\* Under and Sorted for the whole tree: all that is printed ascends, and each element is printed
\* as often as a node has it.
LEMMA InOrderSorted ==
  ASSUME NEW t, t \in [DOMAIN t -> Int], DOMAIN t \subseteq Paths, IsFiniteSet(DOMAIN t),
         NEW R, Searchable(t, R), Orders(R, t), NEW order, order = Bt!InOrder(t)
  PROVE  /\ order \in Seq(Int)
         /\ \A k \in 1 .. Len(order) : \E q \in DOMAIN t : order[k] = t[q]
         /\ \A j, k \in 1 .. Len(order) : j < k => <<order[j], order[k]>> \in R
<1>1. PICK w : IsWalk(w, PlacesOf(t), t) /\ order = w[<<>>]
  BY InOrderWalks
<1>2. Sorted(w[<<>>], <<>>, t, R)
  BY <1>1, PlacesPaths, WalkSorted
<1> QED
  BY <1>1, <1>2 DEF Sorted

LEMMA InOrderCounts ==
  ASSUME NEW t, t \in [DOMAIN t -> Int], DOMAIN t \subseteq Paths, IsFiniteSet(DOMAIN t), Closed(DOMAIN t),
         NEW order, order = Bt!InOrder(t), NEW W
  PROVE  Cardinality(Picked(order, W)) = Cardinality({q \in DOMAIN t : t[q] \in W})
<1>1. PICK w : IsWalk(w, PlacesOf(t), t) /\ order = w[<<>>]
  BY InOrderWalks
<1>2. Cardinality(Picked(w[<<>>], W)) = Cardinality(BelowIn(<<>>, t, W))
  BY <1>1, PlacesPaths, WalkCounts
<1>3. BelowIn(<<>>, t, W) = {q \in DOMAIN t : t[q] \in W}
  <2>1. \A q \in DOMAIN t : Under(<<>>, q)
    <3>1. \A q \in DOMAIN t : Len(q) \in Nat
      BY DEF Paths
    <3> QED
      BY <3>1 DEF Under
  <2> QED
    BY <2>1 DEF BelowIn
<1> QED
  BY <1>1, <1>2, <1>3

(***************************************************************************)
(* Elements with counts                                                    *)
(***************************************************************************)
Elements == 1 .. Len(elem)
Nodes == DOMAIN list_node

ElemType ==
  /\ edition \in {"a5", "a7", "none"}
  /\ elem \in Seq([class : {"int", "str"}, value : values])
  /\ edition = "a5" => \A e \in Elements : elem[e].class = "str"
  /\ refs \in [Elements -> Nat] /\ strs \in [Elements -> Nat]
  /\ own \subseteq Elements
  /\ list \in [head : Nat, tail : Nat]
  /\ list_node \in [Nodes -> [elem : Elements, prev : Nat, next : Nat]]
  /\ Nodes \subseteq Nat \ {0} /\ IsFiniteSet(Nodes)
  /\ tree \in [DOMAIN tree -> Elements]
  /\ DOMAIN tree \subseteq Paths /\ IsFiniteSet(DOMAIN tree)

\* The node before n, and the one behind it; 0 if there is none.
IsPrev(p, n, nodes) ==
  \/ p = 0 /\ \A m \in nodes : n =< m
  \/ p \in nodes /\ p < n /\ \A m \in nodes : m < n => m =< p
IsNext(p, n, nodes) ==
  \/ p = 0 /\ \A m \in nodes : m =< n
  \/ p \in nodes /\ n < p /\ \A m \in nodes : n < m => p =< m

\* The list has its first and its last node, and a node the one before it and the one behind it.
LinkInv ==
  /\ IsNext(list.head, 0, Nodes)
  /\ IF Nodes = {} THEN list.tail = 0 ELSE list.tail \in Nodes /\ IsNext(0, list.tail, Nodes)
  /\ \A n \in Nodes : IsPrev(list_node[n].prev, n, Nodes) /\ IsNext(list_node[n].next, n, Nodes)

\* Who has a reference to e: nodes of the list, nodes of the tree, and the client.
InList(e) == {n \in Nodes : list_node[n].elem = e}
InTree(e) == {p \in DOMAIN tree : tree[p] = e}
Held(e) == IF e \in own THEN 1 ELSE 0
References(e) == Cardinality(InList(e)) + Cardinality(InTree(e)) + Held(e)

CountInv == \A e \in Elements : refs[e] = References(e)

\* In a5 the count of a string is that of its element; in a7 it has one while its element lives.
StringInv ==
  \A e \in Elements : elem[e].class = "str" =>
    strs[e] = IF edition = "a5" THEN refs[e] ELSE IF refs[e] > 0 THEN 1 ELSE 0

ElemInv == ElemType /\ LinkInv /\ CountInv /\ StringInv

\* The operators of ElementList on finite sets are those of the library.
LEMMA ElCardinality == \A S : El!Cardinality(S) = Cardinality(S)
BY DEF El!Cardinality, Cardinality

\* Who has references to an element can be counted.
LEMMA RefsCounted ==
  ASSUME ElemType, NEW e
  PROVE  /\ IsFiniteSet(InList(e)) /\ Cardinality(InList(e)) \in Nat
         /\ Cardinality(InList(e)) = 0 <=> InList(e) = {}
         /\ IsFiniteSet(InTree(e)) /\ Cardinality(InTree(e)) \in Nat
         /\ Cardinality(InTree(e)) = 0 <=> InTree(e) = {}
         /\ Held(e) \in {0, 1} /\ (Held(e) = 1 <=> e \in own)
<1>1. InList(e) \subseteq Nodes /\ InTree(e) \subseteq DOMAIN tree
  BY DEF InList, InTree
<1>2. IsFiniteSet(Nodes) /\ IsFiniteSet(DOMAIN tree)
  BY DEF ElemType
<1>3. IsFiniteSet(InList(e)) /\ IsFiniteSet(InTree(e))
  BY <1>1, <1>2, FS_Subset
<1> QED
  BY <1>3, FS_CardinalityType, FS_EmptySet DEF Held

\* The counts are of the elements that have been made.
LEMMA ElemDomains ==
  ASSUME ElemType
  PROVE  /\ DOMAIN elem = Elements /\ DOMAIN refs = Elements /\ DOMAIN strs = Elements
         /\ Len(elem) \in Nat
         /\ \A e \in Elements : refs[e] \in Nat /\ strs[e] \in Nat
         /\ \A e \in Elements : elem[e].class \in {"int", "str"}
<1> DEFINE R == [class : {"int", "str"}, value : values]
<1>1. elem \in Seq(R)
  BY DEF ElemType
<1> HIDE DEF R
<1>2. Len(elem) \in Nat /\ DOMAIN elem = 1 .. Len(elem) /\ \A e \in 1 .. Len(elem) : elem[e] \in R
  BY <1>1
<1>3. \A r \in R : r.class \in {"int", "str"}
  BY DEF R
<1> QED
  BY <1>2, <1>3 DEF ElemType, Elements

\* Somebody has a reference to an element that the client can get at.
LEMMA ValidCounts ==
  ASSUME ElemType, CountInv, NEW e \in Elements, El!Valid(e)
  PROVE  refs[e] > 0
<1>1. e \in own \/ InList(e) # {} \/ InTree(e) # {}
  <2>1. CASE \E n \in Nodes : list_node[n].elem = e
    BY <2>1 DEF InList
  <2>2. CASE \E p \in DOMAIN tree : tree[p] = e
    BY <2>2 DEF InTree
  <2> QED
    BY <2>1, <2>2 DEF El!Valid, Nodes
<1>2. Cardinality(InList(e)) \in Nat /\ Cardinality(InTree(e)) \in Nat /\ Held(e) \in {0, 1}
  BY RefsCounted
<1>3. Cardinality(InList(e)) > 0 \/ Cardinality(InTree(e)) > 0 \/ Held(e) > 0
  BY <1>1, <1>2, RefsCounted
<1>4. refs[e] = Cardinality(InList(e)) + Cardinality(InTree(e)) + Held(e)
  BY DEF CountInv, References
<1> QED
  BY <1>2, <1>3, <1>4

\* rc_keep_ref counts one reference more, and the string stays.
LEMMA KeepRef ==
  ASSUME ElemType, StringInv, NEW e \in Elements, refs[e] > 0, El!rc_keep_ref(e), UNCHANGED <<edition, elem>>
  PROVE  /\ refs' \in [Elements -> Nat] /\ strs' \in [Elements -> Nat]
         /\ \A f \in Elements : refs'[f] = IF f = e THEN refs[f] + 1 ELSE refs[f]
         /\ StringInv'
<1>1. /\ refs' = [refs EXCEPT ![e] = @ + 1]
      /\ strs' = IF edition = "a5" THEN [strs EXCEPT ![e] = @ + 1] ELSE strs
  BY DEF El!rc_keep_ref
<1>2. refs \in [Elements -> Nat] /\ strs \in [Elements -> Nat]
  BY DEF ElemType
<1>3. /\ refs' \in [Elements -> Nat] /\ strs' \in [Elements -> Nat]
      /\ \A f \in Elements : refs'[f] = IF f = e THEN refs[f] + 1 ELSE refs[f]
      /\ \A f \in Elements : strs'[f] = IF f = e /\ edition = "a5" THEN strs[f] + 1 ELSE strs[f]
  BY <1>1, <1>2
<1>4. StringInv'
  <2> SUFFICES ASSUME NEW f \in Elements, elem[f].class = "str"
               PROVE  strs'[f] = IF edition = "a5" THEN refs'[f] ELSE IF refs'[f] > 0 THEN 1 ELSE 0
    BY DEF StringInv, Elements
  <2>1. strs[f] = IF edition = "a5" THEN refs[f] ELSE IF refs[f] > 0 THEN 1 ELSE 0
    BY DEF StringInv
  <2>2. refs[f] \in Nat
    BY <1>2
  <2> QED
    BY <1>3, <2>1, <2>2
<1> QED
  BY <1>3, <1>4

\* rc_free_ref counts references off that there are, and the string goes with the last.
LEMMA FreeRefs ==
  ASSUME ElemType, StringInv, NEW count \in [Elements -> Nat], \A e \in Elements : count[e] =< refs[e],
         El!rc_free_refs(count), UNCHANGED <<edition, elem>>
  PROVE  /\ refs' \in [Elements -> Nat] /\ strs' \in [Elements -> Nat]
         /\ \A e \in Elements : refs'[e] = refs[e] - count[e]
         /\ StringInv'
<1>1. /\ refs' = [e \in Elements |-> refs[e] - count[e]]
      /\ strs' = [e \in Elements |->
                   IF edition = "a5" THEN strs[e] - count[e]
                   ELSE IF count[e] > 0 /\ refs'[e] = 0 THEN 0 ELSE strs[e]]
  BY ElemDomains DEF El!rc_free_refs
<1>2. ASSUME NEW e \in Elements
      PROVE  /\ refs'[e] = refs[e] - count[e] /\ refs'[e] \in Nat /\ strs'[e] \in Nat
             /\ elem[e].class = "str" =>
                  strs'[e] = IF edition = "a5" THEN refs'[e] ELSE IF refs'[e] > 0 THEN 1 ELSE 0
  <2>1. refs[e] \in Nat /\ count[e] \in Nat /\ count[e] =< refs[e] /\ strs[e] \in Nat
    BY ElemDomains
  <2>2. /\ refs'[e] = refs[e] - count[e]
        /\ strs'[e] = IF edition = "a5" THEN strs[e] - count[e]
                      ELSE IF count[e] > 0 /\ refs'[e] = 0 THEN 0 ELSE strs[e]
    BY <1>1
  <2>3. edition = "a5" => elem[e].class = "str"
    BY DEF ElemType
  <2>4. elem[e].class = "str" => strs[e] = IF edition = "a5" THEN refs[e] ELSE IF refs[e] > 0 THEN 1 ELSE 0
    BY DEF StringInv
  <2> QED
    BY <2>1, <2>2, <2>3, <2>4
<1>3. refs' \in [Elements -> Nat] /\ strs' \in [Elements -> Nat]
  BY <1>1, <1>2
<1>4. StringInv'
  BY <1>2 DEF StringInv, Elements
<1> QED
  BY <1>2, <1>3, <1>4

\* list_add_element links node n for e behind the last one.
AddsNode(n, e) ==
  /\ n = 1 + (IF list.tail = 0 THEN 0 ELSE list.tail)
  /\ list' = [head |-> IF list.head = 0 THEN n ELSE list.head, tail |-> n]
  /\ list_node' = [m \in Nodes \cup {n} |->
       IF m = n THEN [elem |-> e, prev |-> list.tail, next |-> 0]
       ELSE IF m = list.tail THEN [list_node[m] EXCEPT !.next = n] ELSE list_node[m]]

\* A number above the others becomes the previous one of none of them.
LEMMA PrevKept ==
  ASSUME NEW nodes, \A k \in nodes : k \in Nat, NEW n \in Nat, NEW m \in Nat, m < n, NEW p, IsPrev(p, m, nodes)
  PROVE  IsPrev(p, m, nodes \cup {n})
<1>1. CASE p = 0 /\ \A k \in nodes : m =< k
  BY <1>1 DEF IsPrev
<1>2. CASE p \in nodes /\ p < m /\ \A k \in nodes : k < m => k =< p
  <2>1. \A k \in nodes \cup {n} : k < m => k =< p
    BY <1>2
  <2> QED
    BY <1>2, <2>1 DEF IsPrev
<1> QED
  BY <1>1, <1>2 DEF IsPrev

\* It becomes the next one of the last of them only.
LEMMA NextKept ==
  ASSUME NEW nodes, \A k \in nodes : k \in Nat \ {0}, NEW n \in Nat, NEW m \in Nat, m < n,
         NEW p \in nodes, p < n, IsNext(p, m, nodes)
  PROVE  IsNext(p, m, nodes \cup {n})
<1>1. p # 0
  OBVIOUS
<1>2. m < p /\ \A k \in nodes : m < k => p =< k
  BY <1>1 DEF IsNext
<1>3. \A k \in nodes \cup {n} : m < k => p =< k
  BY <1>2
<1> QED
  BY <1>2, <1>3 DEF IsNext

\* And it is the next one of that.
LEMMA NextNew ==
  ASSUME NEW nodes, \A k \in nodes : k \in Nat, NEW n \in Nat, NEW m \in Nat, m < n, \A k \in nodes : k =< m
  PROVE  IsNext(n, m, nodes \cup {n})
<1>1. \A k \in nodes \cup {n} : m < k => n =< k
  OBVIOUS
<1> QED
  BY <1>1 DEF IsNext

\* A new node has a new number, and the links stay right.
LEMMA LinksAdded ==
  ASSUME ElemType, LinkInv, NEW n, NEW e, AddsNode(n, e)
  PROVE  /\ n \in Nat \ {0} /\ n \notin Nodes /\ Nodes' = Nodes \cup {n}
         /\ \A m \in Nodes' : list_node'[m].elem = IF m = n THEN e ELSE list_node[m].elem
         /\ \A m \in Nodes' : list_node'[m].prev \in Nat /\ list_node'[m].next \in Nat
         /\ list'.head \in Nat /\ list'.tail \in Nat
         /\ LinkInv'
<1>0. AddsNode(n, e)
  OBVIOUS
<1>1. /\ list.head \in Nat /\ list.tail \in Nat
      /\ \A m \in Nodes : /\ list_node[m].prev \in Nat /\ list_node[m].next \in Nat
                          /\ list_node[m] \in [elem : Elements, prev : Nat, next : Nat]
      /\ Nodes \subseteq Nat \ {0}
  BY DEF ElemType
<1>2. \A m \in Nodes : m =< list.tail
  <2>1. CASE Nodes = {}
    BY <2>1
  <2>2. CASE Nodes # {}
    <3>1. list.tail \in Nodes /\ IsNext(0, list.tail, Nodes)
      BY <2>2 DEF LinkInv
    <3> QED
      BY <1>1, <3>1 DEF IsNext
  <2> QED
    BY <2>1, <2>2
<1>3. n = list.tail + 1 /\ n \in Nat \ {0}
  BY <1>0, <1>1 DEF AddsNode
<1>4. n \notin Nodes /\ \A m \in Nodes : m < n
  BY <1>1, <1>2, <1>3
<1>5. Nodes' = Nodes \cup {n}
  BY <1>0 DEF AddsNode, Nodes
<1>6. /\ list_node'[n] = [elem |-> e, prev |-> list.tail, next |-> 0]
      /\ \A m \in Nodes : /\ list_node'[m].elem = list_node[m].elem /\ list_node'[m].prev = list_node[m].prev
                          /\ list_node'[m].next = IF m = list.tail THEN n ELSE list_node[m].next
  BY <1>0, <1>1, <1>4 DEF AddsNode
<1>7. list'.head = (IF list.head = 0 THEN n ELSE list.head) /\ list'.tail = n
  BY <1>0 DEF AddsNode
<1>8. ASSUME NEW m \in Nodes' PROVE IsPrev(list_node'[m].prev, m, Nodes') /\ IsNext(list_node'[m].next, m, Nodes')
  <2>1. CASE m = n
    <3>1. list_node'[m].prev = list.tail /\ list_node'[m].next = 0
      BY <1>6, <2>1
    <3>2. IsNext(0, n, Nodes')
      BY <1>1, <1>4, <1>5, <1>3 DEF IsNext
    <3>3. IsPrev(list.tail, n, Nodes')
      <4>1. CASE Nodes = {}
        <5>1. list.tail = 0
          BY <4>1 DEF LinkInv
        <5> QED
          BY <1>3, <1>5, <4>1, <5>1 DEF IsPrev
      <4>2. CASE Nodes # {}
        <5>1. list.tail \in Nodes
          BY <4>2 DEF LinkInv
        <5> QED
          BY <1>2, <1>3, <1>4, <1>5, <5>1 DEF IsPrev
      <4> QED
        BY <4>1, <4>2
    <3> QED
      BY <2>1, <3>1, <3>2, <3>3
  <2>2. CASE m # n
    <3>1. m \in Nodes
      BY <1>5, <2>2
    <3>2. IsPrev(list_node[m].prev, m, Nodes) /\ IsNext(list_node[m].next, m, Nodes)
      BY <3>1 DEF LinkInv
    <3>3. m \in Nat /\ m < n /\ \A k \in Nodes : k \in Nat /\ k \in Nat \ {0}
      BY <1>1, <1>4, <3>1
    <3>4. IsPrev(list_node'[m].prev, m, Nodes')
      <4>1. list_node'[m].prev = list_node[m].prev
        BY <1>6, <3>1
      <4> QED
        BY <1>3, <1>5, <3>2, <3>3, <4>1, PrevKept
    <3>5. IsNext(list_node'[m].next, m, Nodes')
      <4>1. CASE m = list.tail
        <5>1. list_node'[m].next = n
          BY <1>6, <3>1, <4>1
        <5>2. \A k \in Nodes : k =< m
          BY <1>2, <4>1
        <5> QED
          BY <1>3, <1>5, <3>3, <5>1, <5>2, NextNew
      <4>2. CASE m # list.tail
        <5>1. list.tail \in Nodes /\ m < list.tail /\ list.tail \in Nat
          BY <1>1, <1>2, <3>1, <3>3, <4>2 DEF LinkInv
        <5>2. list_node[m].next \in Nodes
          BY <3>2, <3>3, <5>1 DEF IsNext
        <5>3. list_node[m].next < n
          BY <1>4, <5>2
        <5>4. list_node'[m].next = list_node[m].next
          BY <1>6, <3>1, <4>2
        <5> QED
          BY <1>3, <1>5, <3>2, <3>3, <5>2, <5>3, <5>4, NextKept
      <4> QED
        BY <4>1, <4>2
    <3> QED
      BY <3>4, <3>5
  <2> QED
    BY <2>1, <2>2
<1>9. IsNext(list'.head, 0, Nodes')
  <2>1. CASE list.head = 0
    <3>1. Nodes = {}
      BY <1>1, <2>1 DEF LinkInv, IsNext
    <3> QED
      BY <1>3, <1>5, <1>7, <2>1, <3>1 DEF IsNext
  <2>2. CASE list.head # 0
    <3>1. list.head \in Nodes /\ \A m \in Nodes : list.head =< m
      BY <1>1, <2>2 DEF LinkInv, IsNext
    <3> QED
      BY <1>1, <1>3, <1>4, <1>5, <1>7, <2>2, <3>1 DEF IsNext
  <2> QED
    BY <2>1, <2>2
<1>10. Nodes' # {} /\ list'.tail \in Nodes' /\ IsNext(0, list'.tail, Nodes')
  BY <1>1, <1>3, <1>4, <1>5, <1>7 DEF IsNext
<1> QED
  BY <1>1, <1>3, <1>4, <1>5, <1>6, <1>7, <1>8, <1>9, <1>10 DEF LinkInv

\* A node is taken out between its neighbours.
LEMMA LinksRemoved ==
  ASSUME ElemType, LinkInv, NEW n \in Nodes, El!Unlinked(n)
  PROVE  /\ Nodes' = Nodes \ {n}
         /\ \A m \in Nodes' : list_node'[m].elem = list_node[m].elem
         /\ \A m \in Nodes' : list_node'[m].prev \in Nat /\ list_node'[m].next \in Nat
         /\ list'.head \in Nat /\ list'.tail \in Nat
         /\ list' = [head |-> list'.head, tail |-> list'.tail]
         /\ list_node' \in [Nodes' -> [elem : Elements, prev : Nat, next : Nat]]
         /\ LinkInv'
<1> DEFINE p == list_node[n].prev
           q == list_node[n].next
<1>1. /\ list.head \in Nat /\ list.tail \in Nat
      /\ \A m \in Nodes : /\ list_node[m].prev \in Nat /\ list_node[m].next \in Nat
                          /\ list_node[m] \in [elem : Elements, prev : Nat, next : Nat]
      /\ Nodes \subseteq Nat \ {0}
  BY DEF ElemType
<1>2. /\ list' = [head |-> IF n = list.head THEN q ELSE list.head,
                  tail |-> IF n = list.tail THEN p ELSE list.tail]
      /\ list_node' = [m \in Nodes \ {n} |->
           IF m = p THEN [list_node[m] EXCEPT !.next = q]
           ELSE IF m = q THEN [list_node[m] EXCEPT !.prev = p] ELSE list_node[m]]
  BY DEF El!Unlinked, Nodes
<1>3. p \in Nat /\ q \in Nat /\ n \in Nat \ {0}
  BY <1>1
<1>4. IsPrev(p, n, Nodes) /\ IsNext(q, n, Nodes)
  BY DEF LinkInv
<1> HIDE DEF p, q
<1>5. Nodes' = Nodes \ {n}
  BY <1>2 DEF Nodes
<1>6. p # q \/ p = 0
  BY <1>1, <1>3, <1>4 DEF IsPrev, IsNext
<1>7. \A m \in Nodes' :
        /\ list_node'[m] \in [elem : Elements, prev : Nat, next : Nat]
        /\ list_node'[m].elem = list_node[m].elem
        /\ list_node'[m].prev = IF m = q THEN p ELSE list_node[m].prev
        /\ list_node'[m].next = IF m = p THEN q ELSE list_node[m].next
  <2> TAKE m \in Nodes'
  <2>1. m \in Nodes /\ m # n /\ m # 0
    BY <1>1, <1>5
  <2>2. list_node'[m] = IF m = p THEN [list_node[m] EXCEPT !.next = q]
           ELSE IF m = q THEN [list_node[m] EXCEPT !.prev = p] ELSE list_node[m]
    BY <1>2, <1>5
  <2> QED
    BY <1>1, <1>3, <1>6, <2>1, <2>2
<1>8. ASSUME NEW m \in Nodes'
      PROVE  IsPrev(list_node'[m].prev, m, Nodes') /\ IsNext(list_node'[m].next, m, Nodes')
  <2>1. m \in Nodes /\ m # n /\ m \in Nat \ {0}
    BY <1>1, <1>5
  <2>2. IsPrev(list_node[m].prev, m, Nodes) /\ IsNext(list_node[m].next, m, Nodes)
    BY <2>1 DEF LinkInv
  <2>3. IsPrev(list_node'[m].prev, m, Nodes')
    <3>1. CASE m = q
      <4>1. IsPrev(p, m, Nodes')
        BY <1>1, <1>3, <1>4, <1>5, <2>1, <3>1 DEF IsPrev, IsNext
      <4> QED
        BY <1>7, <3>1, <4>1
    <3>2. CASE m # q
      <4>1. list_node[m].prev # n
        BY <1>1, <1>3, <1>4, <2>1, <2>2, <3>2 DEF IsPrev, IsNext
      <4>2. IsPrev(list_node[m].prev, m, Nodes')
        BY <1>1, <1>5, <2>1, <2>2, <4>1 DEF IsPrev
      <4> QED
        BY <1>7, <3>2, <4>2
    <3> QED
      BY <3>1, <3>2
  <2>4. IsNext(list_node'[m].next, m, Nodes')
    <3>1. CASE m = p
      <4>1. IsNext(q, m, Nodes')
        BY <1>1, <1>3, <1>4, <1>5, <2>1, <3>1 DEF IsPrev, IsNext
      <4> QED
        BY <1>7, <3>1, <4>1
    <3>2. CASE m # p
      <4>1. list_node[m].next # n
        BY <1>1, <1>3, <1>4, <2>1, <2>2, <3>2 DEF IsPrev, IsNext
      <4>2. IsNext(list_node[m].next, m, Nodes')
        BY <1>1, <1>5, <2>1, <2>2, <4>1 DEF IsNext
      <4> QED
        BY <1>7, <3>2, <4>2
    <3> QED
      BY <3>1, <3>2
  <2> QED
    BY <2>3, <2>4
<1>9. IsNext(list'.head, 0, Nodes')
  <2>1. IsNext(list.head, 0, Nodes)
    BY DEF LinkInv
  <2>2. CASE n = list.head
    <3>1. IsNext(q, 0, Nodes')
      BY <1>1, <1>3, <1>4, <1>5, <2>1, <2>2 DEF IsNext
    <3> QED
      BY <1>2, <2>2, <3>1
  <2>3. CASE n # list.head
    <3>1. IsNext(list.head, 0, Nodes')
      BY <1>1, <1>5, <2>1, <2>3 DEF IsNext
    <3> QED
      BY <1>2, <2>3, <3>1
  <2> QED
    BY <2>2, <2>3
<1>10. IF Nodes' = {} THEN list'.tail = 0 ELSE list'.tail \in Nodes' /\ IsNext(0, list'.tail, Nodes')
  <2>1. list.tail \in Nodes /\ \A m \in Nodes : m =< list.tail
    BY <1>1 DEF LinkInv, IsNext
  <2>2. CASE n = list.tail
    <3>1. list'.tail = p
      BY <1>2, <2>2
    <3>2. \A m \in Nodes' : m < n
      BY <1>1, <1>5, <2>1, <2>2
    <3>3. CASE Nodes' = {}
      <4>1. p = 0
        BY <1>3, <1>4, <1>5, <3>3 DEF IsPrev
      <4> QED
        BY <3>1, <3>3, <4>1
    <3>4. CASE Nodes' # {}
      <4>1. p \in Nodes' /\ \A m \in Nodes' : m =< p
        <5>1. PICK m \in Nodes' : m \in Nodes /\ m < n /\ m \in Nat
          BY <1>1, <1>5, <3>2, <3>4
        <5>2. p \in Nodes /\ p < n /\ \A k \in Nodes : k < n => k =< p
          BY <1>1, <1>3, <1>4, <5>1 DEF IsPrev
        <5> QED
          BY <1>3, <1>5, <3>2, <5>2
      <4> QED
        BY <3>1, <3>4, <4>1 DEF IsNext
    <3> QED
      BY <3>3, <3>4
  <2>3. CASE n # list.tail
    BY <1>2, <1>5, <2>1, <2>3 DEF IsNext
  <2> QED
    BY <2>2, <2>3
<1>11. list'.head \in Nat /\ list'.tail \in Nat /\ list' = [head |-> list'.head, tail |-> list'.tail]
  BY <1>1, <1>2, <1>3
<1>12. list_node' \in [Nodes' -> [elem : Elements, prev : Nat, next : Nat]]
  BY <1>2, <1>5, <1>7
<1> QED
  BY <1>5, <1>7, <1>8, <1>9, <1>10, <1>11, <1>12 DEF LinkInv

\* An element is made: the client has the only reference.
LEMMA ElementNew ==
  ASSUME ElemInv, NEW class \in {"int", "str"}, NEW value \in values, edition = "a5" => class = "str",
         El!element_new(class, value), UNCHANGED edition
  PROVE  ElemInv'
<1>0. PICK n : n = Len(elem) + 1
  OBVIOUS
<1>1. /\ elem' = Append(elem, [class |-> class, value |-> value])
      /\ refs' = Append(refs, 1) /\ strs' = Append(strs, IF class = "int" THEN 0 ELSE 1)
      /\ own' = own \cup {Len(elem')}
      /\ UNCHANGED <<list, list_node, tree>>
  BY DEF El!element_new
<1>2. elem \in Seq([class : {"int", "str"}, value : values]) /\ Len(elem) \in Nat
  BY DEF ElemInv, ElemType
<1>3. /\ elem' \in Seq([class : {"int", "str"}, value : values]) /\ Len(elem') = n
      /\ elem'[n] = [class |-> class, value |-> value] /\ \A e \in Elements : elem'[e] = elem[e]
  BY <1>0, <1>1, <1>2 DEF Elements
<1>4. /\ Elements' = Elements \cup {n} /\ n \notin Elements /\ n \in Nat
  BY <1>0, <1>2, <1>3 DEF Elements
<1>5. \A f \in [Elements -> Nat], c \in Nat :
        /\ Append(f, c) \in [Elements' -> Nat]
        /\ \A e \in Elements' : Append(f, c)[e] = IF e = n THEN c ELSE f[e]
  <2> TAKE f \in [Elements -> Nat], c \in Nat
  <2>1. f \in Seq(Nat) /\ Len(f) = Len(elem)
    BY <1>2 DEF Elements
  <2>2. Append(f, c) \in Seq(Nat) /\ Len(Append(f, c)) = n
    BY <1>0, <2>1
  <2>3. DOMAIN Append(f, c) = Elements'
    BY <1>3, <2>2 DEF Elements
  <2>4. \A e \in 1 .. Len(elem) : Append(f, c)[e] = f[e]
    BY <2>1
  <2>5. Append(f, c)[n] = c
    BY <1>0, <2>1
  <2>6. Append(f, c) \in [Elements' -> Nat]
    <3> DEFINE a == Append(f, c)
    <3>1. a \in Seq(Nat) /\ DOMAIN a = Elements'
      BY <2>2, <2>3
    <3> HIDE DEF a
    <3>2. a \in [DOMAIN a -> Nat]
      BY <3>1
    <3> QED
      BY <3>1, <3>2 DEF a
  <2> QED
    BY <1>4, <2>4, <2>5, <2>6 DEF Elements
<1>6. /\ refs' \in [Elements' -> Nat] /\ strs' \in [Elements' -> Nat]
      /\ refs'[n] = 1 /\ \A e \in Elements : refs'[e] = refs[e]
      /\ strs'[n] = (IF class = "int" THEN 0 ELSE 1) /\ \A e \in Elements : strs'[e] = strs[e]
  <2> DEFINE one == IF class = "int" THEN 0 ELSE 1
  <2>1. refs \in [Elements -> Nat] /\ strs \in [Elements -> Nat] /\ one \in Nat
    BY DEF ElemInv, ElemType
  <2>2. refs' = Append(refs, 1) /\ strs' = Append(strs, one)
    BY <1>1
  <2> HIDE DEF one
  <2>3. /\ refs' \in [Elements' -> Nat]
        /\ \A e \in Elements' : refs'[e] = IF e = n THEN 1 ELSE refs[e]
    BY <1>5, <2>1, <2>2
  <2>4. /\ strs' \in [Elements' -> Nat]
        /\ \A e \in Elements' : strs'[e] = IF e = n THEN one ELSE strs[e]
    BY <1>5, <2>1, <2>2
  <2> QED
    BY <1>4, <2>3, <2>4 DEF one
<1>7. ElemType'
  <2>1. /\ own' \subseteq Elements'
        /\ list_node' \in [Nodes' -> [elem : Elements', prev : Nat, next : Nat]]
        /\ tree' \in [DOMAIN tree' -> Elements']
    <3>1. list_node \in [Nodes -> [elem : Elements, prev : Nat, next : Nat]] /\ own \subseteq Elements
          /\ tree \in [DOMAIN tree -> Elements] /\ Nodes' = Nodes
      BY <1>1 DEF ElemInv, ElemType, Nodes
    <3>2. Len(elem') = n
      BY <1>3
    <3> QED
      BY <1>1, <1>4, <3>1, <3>2
  <2>2. edition' \in {"a5", "a7", "none"} /\ (edition' = "a5" => \A e \in Elements' : elem'[e].class = "str")
    <3>1. edition \in {"a5", "a7", "none"} /\ (edition = "a5" => \A e \in Elements : elem[e].class = "str")
      BY DEF ElemInv, ElemType
    <3> QED
      BY <1>3, <1>4, <3>1
  <2>3. /\ list' \in [head : Nat, tail : Nat]
        /\ Nodes' \subseteq Nat \ {0} /\ IsFiniteSet(Nodes')
        /\ DOMAIN tree' \subseteq Paths /\ IsFiniteSet(DOMAIN tree')
    BY <1>1 DEF ElemInv, ElemType, Nodes
  <2> QED
    BY <1>3, <1>6, <2>1, <2>2, <2>3 DEF ElemType
<1>8. LinkInv'
  BY <1>1 DEF ElemInv, LinkInv, Nodes
<1>9. \A e : InList(e)' = InList(e) /\ InTree(e)' = InTree(e)
  BY <1>1 DEF InList, InTree, Nodes
<1>10. ASSUME NEW e \in Elements' PROVE refs'[e] = References(e)'
  <2>1. own \subseteq Elements
    BY DEF ElemInv, ElemType
  <2>2. CASE e \in Elements
    <3>1. Held(e)' = Held(e)
      BY <1>1, <1>3, <1>4, <2>2 DEF Held
    <3>2. refs[e] = References(e)
      BY <2>2 DEF ElemInv, CountInv
    <3> QED
      BY <1>6, <1>9, <2>2, <3>1, <3>2 DEF References
  <2>3. CASE e = n
    <3>1. InList(n) = {} /\ InTree(n) = {}
      BY <1>4 DEF InList, InTree, ElemInv, ElemType
    <3>2. Held(n)' = 1
      BY <1>1, <1>3 DEF Held
    <3>3. Cardinality({}) = 0
      BY FS_EmptySet
    <3> QED
      BY <1>6, <1>9, <2>3, <3>1, <3>2, <3>3 DEF References
  <2> QED
    BY <1>4, <2>2, <2>3
<1>11. StringInv'
  <2> SUFFICES ASSUME NEW e \in Elements', elem'[e].class = "str"
               PROVE  strs'[e] = IF edition = "a5" THEN refs'[e] ELSE IF refs'[e] > 0 THEN 1 ELSE 0
    BY DEF StringInv
  <2>1. CASE e = n
    BY <1>3, <1>6, <2>1
  <2>2. CASE e \in Elements
    <3>1. elem[e].class = "str" => strs[e] = IF edition = "a5" THEN refs[e] ELSE IF refs[e] > 0 THEN 1 ELSE 0
      BY <2>2 DEF ElemInv, StringInv
    <3> QED
      BY <1>3, <1>6, <2>2, <3>1
  <2> QED
    BY <1>4, <2>1, <2>2
<1> QED
  BY <1>7, <1>8, <1>10, <1>11 DEF ElemInv, CountInv

\* A reference less of e: the client frees one it has.
LEMMA ElementFreed ==
  ASSUME ElemInv, NEW e \in Elements, El!rc_free_ref(e), UNCHANGED edition
  PROVE  ElemInv'
<1> DEFINE count == [f \in Elements |-> IF f = e THEN 1 ELSE 0]
<1>1. /\ e \in own /\ own' = own \ {e}
      /\ El!rc_free_refs(count) /\ UNCHANGED <<elem, list, list_node, tree>>
  BY ElemDomains DEF El!rc_free_ref, ElemInv
<1>2. ElemType /\ StringInv /\ CountInv /\ LinkInv
  BY DEF ElemInv
<1>3. refs[e] > 0
  BY <1>1, <1>2, ValidCounts DEF El!Valid
<1>4. count \in [Elements -> Nat] /\ \A f \in Elements : count[f] =< refs[f]
  BY <1>2, <1>3, ElemDomains
<1> HIDE DEF count
<1>5. /\ refs' \in [Elements -> Nat] /\ strs' \in [Elements -> Nat]
      /\ \A f \in Elements : refs'[f] = refs[f] - count[f]
      /\ StringInv'
  BY <1>1, <1>2, <1>4, FreeRefs
<1>6. Elements' = Elements /\ Nodes' = Nodes /\ \A f : InList(f)' = InList(f) /\ InTree(f)' = InTree(f)
  BY <1>1 DEF Elements, Nodes, InList, InTree
<1>7. ElemType'
  BY <1>1, <1>2, <1>5, <1>6 DEF ElemType
<1>8. LinkInv'
  BY <1>1, <1>2 DEF LinkInv, Nodes
<1>9. ASSUME NEW f \in Elements PROVE refs'[f] = References(f)'
  <2>1. refs[f] = References(f)
    BY <1>2 DEF CountInv
  <2>2. Held(f)' = Held(f) - count[f]
    BY <1>1 DEF Held, count
  <2>3. Cardinality(InList(f)) \in Nat /\ Cardinality(InTree(f)) \in Nat /\ Held(f) \in {0, 1} /\ count[f] \in Nat
    BY <1>2, <1>4, RefsCounted
  <2> QED
    BY <1>5, <1>6, <2>1, <2>2, <2>3 DEF References
<1> QED
  BY <1>5, <1>6, <1>7, <1>8, <1>9 DEF ElemInv, CountInv

\* The list takes a reference: that of its caller in a5, one of its own in a7.
LEMMA ElementListed ==
  ASSUME ElemInv, NEW e \in Elements, El!list_add_element(e), UNCHANGED edition
  PROVE  ElemInv'
<1>0. PICK n : n = 1 + (IF list.tail = 0 THEN 0 ELSE list.tail)
  OBVIOUS
<1>1. /\ El!Takes(e) /\ UNCHANGED <<elem, tree>>
      /\ AddsNode(n, e)
  BY <1>0 DEF El!list_add_element, AddsNode, Nodes
<1>2. ElemType /\ StringInv /\ CountInv /\ LinkInv
  BY DEF ElemInv
<1>3. /\ n \in Nat \ {0} /\ n \notin Nodes /\ Nodes' = Nodes \cup {n}
      /\ \A m \in Nodes' : list_node'[m].elem = IF m = n THEN e ELSE list_node[m].elem
      /\ \A m \in Nodes' : list_node'[m].prev \in Nat /\ list_node'[m].next \in Nat
      /\ list'.head \in Nat /\ list'.tail \in Nat
      /\ LinkInv'
  BY <1>1, <1>2, LinksAdded
<1>4. /\ refs' \in [Elements -> Nat] /\ strs' \in [Elements -> Nat] /\ own' \subseteq own
      /\ \A f \in Elements : refs'[f] - Held(f)' = refs[f] - Held(f) + (IF f = e THEN 1 ELSE 0)
      /\ StringInv'
  <2>1. /\ own \subseteq Elements /\ refs \in [Elements -> Nat] /\ strs \in [Elements -> Nat]
        /\ \A f \in Elements : refs[f] \in Nat
    BY <1>2 DEF ElemType
  <2>2. CASE edition = "a5"
    <3>1. e \in own /\ own' = own \ {e} /\ UNCHANGED <<refs, strs>>
      BY <1>1, <2>2 DEF El!Takes
    <3>2. StringInv'
      BY <1>1, <1>2, <3>1 DEF StringInv, Elements
    <3> QED
      BY <2>1, <3>1, <3>2 DEF Held
  <2>3. CASE edition # "a5"
    <3>1. El!Valid(e) /\ own' = own /\ El!rc_keep_ref(e)
      BY <1>1, <2>3 DEF El!Takes
    <3>2. refs[e] > 0
      BY <1>2, <3>1, ValidCounts
    <3>3. /\ refs' \in [Elements -> Nat] /\ strs' \in [Elements -> Nat]
          /\ \A f \in Elements : refs'[f] = IF f = e THEN refs[f] + 1 ELSE refs[f]
          /\ StringInv'
      BY <1>1, <1>2, <3>1, <3>2, KeepRef
    <3> QED
      BY <2>1, <3>1, <3>3 DEF Held
  <2> QED
    BY <2>2, <2>3
<1>5. Elements' = Elements
  BY <1>1 DEF Elements
<1>6. ElemType'
  <2>1. list_node' \in [Nodes' -> [elem : Elements, prev : Nat, next : Nat]]
    <3>1. ASSUME NEW m \in Nodes' PROVE list_node'[m] \in [elem : Elements, prev : Nat, next : Nat]
      <4>1. CASE m = n
        BY <1>1, <1>2, <1>3, <4>1 DEF ElemType, AddsNode
      <4>2. CASE m # n
        <5>1. m \in Nodes /\ list_node[m] \in [elem : Elements, prev : Nat, next : Nat]
          BY <1>2, <1>3, <4>2 DEF ElemType
        <5> QED
          BY <1>1, <1>3, <4>2, <5>1 DEF AddsNode
      <4> QED
        BY <4>1, <4>2
    <3> QED
      BY <1>1, <1>3, <3>1 DEF AddsNode
  <2>2. IsFiniteSet(Nodes') /\ Nodes' \subseteq Nat \ {0}
    BY <1>2, <1>3, FS_AddElement DEF ElemType
  <2>3. list' \in [head : Nat, tail : Nat]
    BY <1>1, <1>3 DEF AddsNode
  <2> QED
    BY <1>1, <1>2, <1>4, <1>5, <2>1, <2>2, <2>3 DEF ElemType
<1>7. ASSUME NEW f \in Elements PROVE refs'[f] = References(f)'
  <2>1. refs[f] = References(f)
    BY <1>2 DEF CountInv
  <2>2. InList(f)' = IF f = e THEN InList(f) \cup {n} ELSE InList(f)
    BY <1>3 DEF InList
  <2>3. n \notin InList(f)
    BY <1>3 DEF InList
  <2>4. /\ IsFiniteSet(InList(f)) /\ Cardinality(InList(f)) \in Nat
        /\ Cardinality(InTree(f)) \in Nat /\ Held(f) \in {0, 1}
    BY <1>2, RefsCounted
  <2>5. Cardinality(InList(f)') = Cardinality(InList(f)) + (IF f = e THEN 1 ELSE 0)
    BY <2>2, <2>3, <2>4, FS_AddElement
  <2>6. InTree(f)' = InTree(f)
    BY <1>1 DEF InTree
  <2>7. Held(f)' \in {0, 1} /\ refs'[f] \in Nat
    BY <1>4 DEF Held
  <2> QED
    BY <1>4, <2>1, <2>4, <2>5, <2>6, <2>7 DEF References
<1> QED
  BY <1>3, <1>4, <1>5, <1>6, <1>7 DEF ElemInv, CountInv

\* A node is deleted, and the list gives its reference up.
LEMMA NodeDeleted ==
  ASSUME ElemInv, NEW n \in Nodes, El!list_delete_element(n), UNCHANGED edition
  PROVE  ElemInv'
<1> DEFINE count == [e \in Elements |-> IF e = list_node[n].elem THEN 1 ELSE 0]
<1>1. El!Unlinked(n) /\ El!rc_free_refs(count) /\ UNCHANGED <<elem, own, tree>>
  BY ElemDomains DEF El!list_delete_element, ElemInv
<1>2. ElemType /\ StringInv /\ CountInv /\ LinkInv
  BY DEF ElemInv
<1>3. /\ Nodes' = Nodes \ {n}
      /\ \A m \in Nodes' : list_node'[m].elem = list_node[m].elem
      /\ list'.head \in Nat /\ list'.tail \in Nat
      /\ list' = [head |-> list'.head, tail |-> list'.tail]
      /\ list_node' \in [Nodes' -> [elem : Elements, prev : Nat, next : Nat]]
      /\ LinkInv'
  BY <1>1, <1>2, LinksRemoved
<1>4. list_node[n].elem \in Elements /\ refs[list_node[n].elem] > 0
  <2>1. list_node[n].elem \in Elements
    BY <1>2 DEF ElemType
  <2> QED
    BY <1>2, <2>1, ValidCounts DEF El!Valid, Nodes
<1>5. count \in [Elements -> Nat] /\ \A e \in Elements : count[e] =< refs[e]
  BY <1>2, <1>4, ElemDomains
<1> HIDE DEF count
<1>6. /\ refs' \in [Elements -> Nat] /\ strs' \in [Elements -> Nat]
      /\ \A e \in Elements : refs'[e] = refs[e] - count[e]
      /\ StringInv'
  BY <1>1, <1>2, <1>5, FreeRefs
<1>7. Elements' = Elements
  BY <1>1 DEF Elements
<1>8. ElemType'
  <2>1. IsFiniteSet(Nodes') /\ Nodes' \subseteq Nat \ {0}
    BY <1>2, <1>3, FS_RemoveElement DEF ElemType
  <2>2. list' \in [head : Nat, tail : Nat]
    BY <1>3
  <2> QED
    BY <1>1, <1>2, <1>3, <1>6, <1>7, <2>1, <2>2 DEF ElemType
<1>9. ASSUME NEW e \in Elements PROVE refs'[e] = References(e)'
  <2>1. refs[e] = References(e)
    BY <1>2 DEF CountInv
  <2>2. InList(e)' = InList(e) \ {n} /\ (n \in InList(e) <=> count[e] = 1) /\ count[e] \in {0, 1}
    BY <1>3 DEF InList, count
  <2>3. /\ IsFiniteSet(InList(e)) /\ Cardinality(InList(e)) \in Nat
        /\ Cardinality(InTree(e)) \in Nat /\ Held(e) \in {0, 1}
    BY <1>2, RefsCounted
  <2>4. Cardinality(InList(e)') = Cardinality(InList(e)) - count[e]
    <3>1. CASE n \in InList(e)
      BY <2>2, <2>3, <3>1, FS_RemoveElement
    <3>2. CASE n \notin InList(e)
      <4>1. InList(e) \ {n} = InList(e) /\ count[e] = 0
        BY <2>2, <3>2
      <4> QED
        BY <2>2, <2>3, <4>1
    <3> QED
      BY <3>1, <3>2
  <2>5. InTree(e)' = InTree(e) /\ Held(e)' = Held(e)
    BY <1>1 DEF InTree, Held
  <2> QED
    BY <1>6, <2>1, <2>2, <2>3, <2>4, <2>5 DEF References
<1> QED
  BY <1>3, <1>6, <1>7, <1>8, <1>9 DEF ElemInv, CountInv

\* The list is deleted with all its nodes and their references.
LEMMA ListDeleted ==
  ASSUME ElemInv, El!list_delete, UNCHANGED edition
  PROVE  ElemInv'
<1> DEFINE count == [e \in Elements |-> Cardinality(InList(e))]
<1>1. /\ El!rc_free_refs(count)
      /\ list' = [head |-> 0, tail |-> 0] /\ list_node' = <<>>
      /\ UNCHANGED <<elem, own, tree>>
  BY ElemDomains, ElCardinality DEF El!list_delete, ElemInv, InList, Nodes
<1>2. ElemType /\ StringInv /\ CountInv
  BY DEF ElemInv
<1>3. \A e \in Elements :
        /\ Cardinality(InList(e)) \in Nat /\ Cardinality(InTree(e)) \in Nat /\ Held(e) \in {0, 1}
        /\ refs[e] = Cardinality(InList(e)) + Cardinality(InTree(e)) + Held(e)
  BY <1>2, RefsCounted DEF CountInv, References
<1>4. count \in [Elements -> Nat] /\ \A e \in Elements : count[e] =< refs[e]
  BY <1>3
<1>5. \A e \in Elements : count[e] = Cardinality(InList(e))
  OBVIOUS
<1> HIDE DEF count
<1>6. /\ refs' \in [Elements -> Nat] /\ strs' \in [Elements -> Nat]
      /\ \A e \in Elements : refs'[e] = refs[e] - count[e]
      /\ StringInv'
  BY <1>1, <1>2, <1>4, FreeRefs
<1>7. Elements' = Elements /\ Nodes' = {} /\ list_node' \in [{} -> [elem : Elements, prev : Nat, next : Nat]]
  BY <1>1 DEF Elements, Nodes
<1>8. ElemType'
  <2>1. IsFiniteSet({}) /\ list' \in [head : Nat, tail : Nat]
    BY <1>1, FS_EmptySet
  <2> QED
    BY <1>1, <1>2, <1>6, <1>7, <2>1 DEF ElemType
<1>9. LinkInv'
  BY <1>1, <1>7 DEF LinkInv, IsNext
<1>10. ASSUME NEW e \in Elements PROVE refs'[e] = References(e)'
  <2>1. InList(e)' = {} /\ InTree(e)' = InTree(e) /\ Held(e)' = Held(e)
    BY <1>1, <1>7 DEF InList, InTree, Held
  <2>2. Cardinality({}) = 0
    BY FS_EmptySet
  <2> QED
    BY <1>3, <1>5, <1>6, <2>1, <2>2 DEF References
<1> QED
  BY <1>6, <1>7, <1>8, <1>9, <1>10 DEF ElemInv, CountInv

\* The node for an element is where the way through the tree leads to.
LEMMA NodePlaced ==
  ASSUME DOMAIN tree \subseteq Paths, IsFiniteSet(DOMAIN tree), NEW e, El!tree_insert_node(e)
  PROVE  \E path \in Paths :
           /\ path \notin DOMAIN tree
           /\ Follows(path, DOMAIN tree, {p \in DOMAIN tree : El!AtMost(e, tree[p])})
           /\ tree' = [p \in DOMAIN tree \cup {path} |-> IF p = path THEN e ELSE tree[p]]
<1> DEFINE least == {p \in DOMAIN tree : El!AtMost(e, tree[p])}
           path == El!Place(tree, least)
<1>1. tree' = El!Grown(tree, path, e)
  BY DEF El!tree_insert_node
<1>2. tree' = [p \in DOMAIN tree \cup {path} |-> IF p = path THEN e ELSE tree[p]]
  BY <1>1 DEF El!Grown
<1> HIDE DEF least
<1>3. path \in Paths /\ path \notin DOMAIN tree /\ Follows(path, DOMAIN tree, least)
  BY PlaceTaken
<1> QED
  BY <1>2, <1>3 DEF least


\* The tree takes a reference of its own, at a place that had no node.
LEMMA ElementPlaced ==
  ASSUME ElemInv, NEW e \in Elements, El!tree_insert_node(e), UNCHANGED edition
  PROVE  ElemInv'
<1>0. ElemType /\ StringInv /\ CountInv /\ LinkInv
  BY DEF ElemInv
<1>1. PICK path \in Paths : path \notin DOMAIN tree /\ tree' = [p \in DOMAIN tree \cup {path} |-> IF p = path THEN e ELSE tree[p]]
  BY <1>0, NodePlaced DEF ElemType
<1>2. UNCHANGED <<elem, own, list, list_node>> /\ El!rc_keep_ref(e) /\ El!Valid(e)
  BY DEF El!tree_insert_node
<1>3. refs[e] > 0
  BY <1>0, <1>2, ValidCounts
<1>4. /\ refs' \in [Elements -> Nat] /\ strs' \in [Elements -> Nat]
      /\ \A f \in Elements : refs'[f] = IF f = e THEN refs[f] + 1 ELSE refs[f]
      /\ StringInv'
  BY <1>0, <1>2, <1>3, KeepRef
<1>5. Elements' = Elements /\ Nodes' = Nodes
  BY <1>2 DEF Elements, Nodes
<1>6. ElemType'
  <2>1. DOMAIN tree' = DOMAIN tree \cup {path} /\ \A p \in DOMAIN tree' : tree'[p] \in Elements
    BY <1>0, <1>1 DEF ElemType
  <2>2. IsFiniteSet(DOMAIN tree')
    <3>1. IsFiniteSet(DOMAIN tree)
      BY <1>0 DEF ElemType
    <3>2. IsFiniteSet(DOMAIN tree \cup {path})
      BY <3>1, FS_AddElement
    <3> QED
      BY <2>1, <3>2
  <2>3. tree' \in [DOMAIN tree' -> Elements]
    BY <1>1, <2>1
  <2> QED
    BY <1>0, <1>2, <1>4, <1>5, <2>1, <2>2, <2>3 DEF ElemType
<1>7. LinkInv'
  BY <1>0, <1>2, <1>5 DEF LinkInv
<1>8. ASSUME NEW f \in Elements PROVE refs'[f] = References(f)'
  <2>1. refs[f] = References(f)
    BY <1>0 DEF CountInv
  <2>2. InTree(f)' = IF f = e THEN InTree(f) \cup {path} ELSE InTree(f)
    BY <1>1 DEF InTree
  <2>3. path \notin InTree(f)
    BY <1>1 DEF InTree
  <2>4. /\ IsFiniteSet(InTree(f)) /\ Cardinality(InTree(f)) \in Nat
        /\ Cardinality(InList(f)) \in Nat /\ Held(f) \in {0, 1}
    BY <1>0, RefsCounted
  <2>5. Cardinality(InTree(f)') = Cardinality(InTree(f)) + (IF f = e THEN 1 ELSE 0)
    <3>1. Cardinality(InTree(f) \cup {path}) = Cardinality(InTree(f)) + 1
      BY <2>3, <2>4, FS_AddElement
    <3> QED
      BY <2>2, <2>4, <3>1
  <2>6. InList(f)' = InList(f) /\ Held(f)' = Held(f)
    BY <1>2, <1>5 DEF InList, Held
  <2>7. refs[f] \in Nat
    BY <1>0 DEF ElemType
  <2> QED
    BY <1>4, <2>1, <2>4, <2>5, <2>6, <2>7 DEF References
<1> QED
  BY <1>4, <1>5, <1>6, <1>7, <1>8 DEF ElemInv, CountInv

\* The tree is deleted with all its nodes and their references.
LEMMA TreeDeleted ==
  ASSUME ElemInv, El!tree_delete, UNCHANGED edition
  PROVE  ElemInv'
<1> DEFINE count == [e \in Elements |-> Cardinality(InTree(e))]
<1>1. /\ El!rc_free_refs(count) /\ tree' = <<>>
      /\ UNCHANGED <<elem, own, list, list_node>>
  BY ElemDomains, ElCardinality DEF El!tree_delete, El!Leaf, ElemInv, InTree
<1>2. ElemType /\ StringInv /\ CountInv /\ LinkInv
  BY DEF ElemInv
<1>3. \A e \in Elements :
        /\ Cardinality(InList(e)) \in Nat /\ Cardinality(InTree(e)) \in Nat /\ Held(e) \in {0, 1}
        /\ refs[e] = Cardinality(InList(e)) + Cardinality(InTree(e)) + Held(e)
  BY <1>2, RefsCounted DEF CountInv, References
<1>4. count \in [Elements -> Nat] /\ \A e \in Elements : count[e] =< refs[e]
  BY <1>3
<1>5. \A e \in Elements : count[e] = Cardinality(InTree(e))
  OBVIOUS
<1> HIDE DEF count
<1>6. /\ refs' \in [Elements -> Nat] /\ strs' \in [Elements -> Nat]
      /\ \A e \in Elements : refs'[e] = refs[e] - count[e]
      /\ StringInv'
  BY <1>1, <1>2, <1>4, FreeRefs
<1>7. Elements' = Elements /\ Nodes' = Nodes /\ DOMAIN tree' = {} /\ tree' \in [{} -> Elements]
  BY <1>1 DEF Elements, Nodes
<1>8. ElemType'
  <2>1. IsFiniteSet({})
    BY FS_EmptySet
  <2> QED
    BY <1>1, <1>2, <1>6, <1>7, <2>1 DEF ElemType
<1>9. LinkInv'
  BY <1>1, <1>2, <1>7 DEF LinkInv
<1>10. ASSUME NEW e \in Elements PROVE refs'[e] = References(e)'
  <2>1. InList(e)' = InList(e) /\ InTree(e)' = {} /\ Held(e)' = Held(e)
    BY <1>1, <1>7 DEF InList, InTree, Held
  <2>2. Cardinality({}) = 0
    BY FS_EmptySet
  <2> QED
    BY <1>3, <1>5, <1>6, <2>1, <2>2 DEF References
<1> QED
  BY <1>6, <1>7, <1>8, <1>9, <1>10 DEF ElemInv, CountInv

\* At first there is nothing.
LEMMA ElemInit == DataInit => ElemInv
<1> SUFFICES ASSUME DataInit PROVE ElemInv
  OBVIOUS
<1>1. PICK name \in {"a5", "a7", "none"} : El!Init(name)
  BY DEF DataInit
<1>2. /\ edition \in {"a5", "a7", "none"} /\ elem = <<>> /\ refs = <<>> /\ strs = <<>> /\ own = {}
      /\ list = [head |-> 0, tail |-> 0] /\ list_node = <<>> /\ tree = <<>>
  BY <1>1 DEF El!Init, El!Leaf
<1>3. Elements = {} /\ Nodes = {} /\ DOMAIN tree = {} /\ IsFiniteSet({})
  BY <1>2, FS_EmptySet DEF Elements, Nodes
<1>4. ElemType
  <2>1. elem \in Seq([class : {"int", "str"}, value : values])
    BY <1>2
  <2>2. refs \in [{} -> Nat] /\ strs \in [{} -> Nat] /\ tree \in [{} -> Elements]
        /\ list_node \in [{} -> [elem : Elements, prev : Nat, next : Nat]]
    BY <1>2
  <2> QED
    BY <1>2, <1>3, <2>1, <2>2 DEF ElemType
<1>5. LinkInv
  BY <1>2, <1>3 DEF LinkInv, IsNext
<1> QED
  BY <1>3, <1>4, <1>5 DEF ElemInv, CountInv, StringInv

\* Every call of a client keeps the invariant.
LEMMA ElemStep == ElemInv /\ [DataNext]_data => ElemInv'
<1>1. ASSUME ElemInv, UNCHANGED elements PROVE ElemInv'
  <2>1. UNCHANGED <<edition, elem, refs, strs, own, list, list_node, tree>>
    BY <1>1 DEF elements
  <2>2. /\ Elements' = Elements /\ Nodes' = Nodes
        /\ \A e : InList(e)' = InList(e) /\ InTree(e)' = InTree(e) /\ Held(e)' = Held(e)
    BY <2>1 DEF Elements, Nodes, InList, InTree, Held
  <2>3. ElemType' /\ LinkInv'
    BY <1>1, <2>1, <2>2 DEF ElemInv, ElemType, LinkInv
  <2>4. CountInv' /\ StringInv'
    BY <1>1, <2>1, <2>2 DEF ElemInv, CountInv, StringInv, References
  <2> QED
    BY <2>3, <2>4 DEF ElemInv
<1>2. ASSUME ElemInv, UseElements PROVE ElemInv'
  <2>1. DOMAIN elem = Elements
    BY <1>2, ElemDomains DEF ElemInv
  <2>2. UNCHANGED edition
    BY <1>2 DEF UseElements, El!Next
  <2>3. CASE El!Client(values)
    <3>1. ASSUME NEW class \in {"int", "str"}, NEW value \in values,
                 edition = "a5" => class = "str", El!element_new(class, value)
          PROVE  ElemInv'
      BY <1>2, <2>2, <3>1, ElementNew
    <3>2. ASSUME NEW e \in Elements, El!rc_free_ref(e) \/ El!list_add_element(e) \/ El!tree_insert_node(e)
          PROVE  ElemInv'
      BY <1>2, <2>2, <3>2, ElementFreed, ElementListed, ElementPlaced
    <3>3. ASSUME NEW n \in Nodes, El!list_delete_element(n) PROVE ElemInv'
      BY <1>2, <2>2, <3>3, NodeDeleted
    <3> QED
      BY <2>1, <2>3, <3>1, <3>2, <3>3 DEF El!Client, Nodes
  <2>4. CASE El!list_delete
    BY <1>2, <2>2, <2>4, ListDeleted
  <2>5. CASE El!tree_delete
    BY <1>2, <2>2, <2>5, TreeDeleted
  <2> QED
    BY <1>2, <2>3, <2>4, <2>5 DEF UseElements, El!Next
<1>3. [DataNext]_data => UseElements \/ UNCHANGED elements
  BY DEF DataNext, data, CallHeap, CallList, ReadArgument
<1> QED
  BY <1>1, <1>2, <1>3

\* list.c, tree.c and refcount.c of a5 and a7, for any number of elements and nodes: counts, links
\* and places stay right, whatever the client calls in which order.
THEOREM ElementsKeepInvariant == DataSpec => []ElemInv
<1> QED
  BY ElemInit, ElemStep, PTL DEF DataSpec

\* The same: a count is the number of the references, and a string lives as long as its element.
THEOREM CountsAreExact == DataSpec => []CountsExact
<1>1. ElemInv => CountsExact
  <2> SUFFICES ASSUME ElemInv PROVE CountsExact
    OBVIOUS
  <2>1. DOMAIN elem = Elements /\ \A e \in Elements : refs[e] \in Nat
    BY ElemDomains DEF ElemInv
  <2>2. El!CountsExact
    BY <2>1, ElCardinality DEF El!CountsExact, ElemInv, CountInv, References, InList, InTree, Held, Nodes
  <2>3. El!StringsLive
    BY <2>1 DEF El!StringsLive, El!Live, ElemInv, StringInv
  <2> QED
    BY <2>2, <2>3 DEF CountsExact
<1> QED
  BY <1>1, ElementsKeepInvariant, PTL

(***************************************************************************)
(* The order of lists and trees                                            *)
(***************************************************************************)
\* The elements that are at most others, by the classes and the values that they have.
Ascent == {c \in Elements \X Elements : El!AtMost(c[1], c[2])}

TreeInv == Closed(DOMAIN tree) /\ Searchable(tree, Ascent)

\* compare orders integers before strings, and each class by its values.
LEMMA Comparison ==
  ASSUME ElemType, NEW d \in Elements, NEW e \in Elements
  PROVE  /\ elem[d].class \in {"int", "str"} /\ elem[d].value \in Int
         /\ <<d, e>> \in Ascent <=>
              \/ elem[d].class = "int" /\ elem[e].class = "str"
              \/ elem[d].class = elem[e].class /\ elem[d].value =< elem[e].value
<1>1. /\ elem[d] \in [class : {"int", "str"}, value : values]
      /\ elem[e] \in [class : {"int", "str"}, value : values]
  <2> DEFINE S == [class : {"int", "str"}, value : values]
  <2>1. elem \in Seq(S)
    BY DEF ElemType
  <2> HIDE DEF S
  <2>2. elem[d] \in S /\ elem[e] \in S
    BY <2>1 DEF Elements
  <2> QED
    BY <2>2 DEF S
<1>2. /\ elem[d].class \in {"int", "str"} /\ elem[d].value \in Int
      /\ elem[e].class \in {"int", "str"} /\ elem[e].value \in Int
  BY <1>1, ValuesAssumption
<1>3. <<d, e>> \in Ascent <=> El!compare(elem[d], elem[e]) =< 0
  BY DEF Ascent, El!AtMost
<1>4. CASE elem[d].class = elem[e].class
  <2>1. El!compare(elem[d], elem[e]) = elem[d].value - elem[e].value
    BY <1>4 DEF El!compare
  <2>2. elem[d].value - elem[e].value =< 0 <=> elem[d].value =< elem[e].value
    BY <1>2
  <2> QED
    BY <1>2, <1>3, <1>4, <2>1, <2>2
<1>5. CASE elem[d].class = "int" /\ elem[e].class = "str"
  <2>1. El!compare(elem[d], elem[e]) = -1
    BY <1>5 DEF El!compare
  <2> QED
    BY <1>2, <1>3, <1>5, <2>1
<1>6. CASE elem[d].class = "str" /\ elem[e].class = "int"
  <2>1. El!compare(elem[d], elem[e]) = 1
    BY <1>6 DEF El!compare
  <2> QED
    BY <1>2, <1>3, <1>6, <2>1
<1> QED
  BY <1>2, <1>4, <1>5, <1>6

\* What an element is compared to does not change.
LEMMA AscentKept ==
  ASSUME ElemType, \A e \in Elements : e \in Elements' /\ elem'[e] = elem[e],
         Closed(DOMAIN tree), Searchable(tree, Ascent), tree' = tree
  PROVE  TreeInv'
<1>1. \A d, e \in Elements : <<d, e>> \in Ascent' <=> <<d, e>> \in Ascent
  <2> TAKE d, e \in Elements
  <2>1. elem'[d] = elem[d] /\ elem'[e] = elem[e] /\ <<d, e>> \in Elements' \X Elements' /\ <<d, e>> \in Elements \X Elements
    OBVIOUS
  <2>2. El!AtMost(d, e)' <=> El!AtMost(d, e)
    BY <2>1 DEF El!AtMost, El!compare
  <2> QED
    BY <2>1, <2>2 DEF Ascent
<1>2. \A p \in DOMAIN tree : tree[p] \in Elements
  BY DEF ElemType
<1>3. Searchable(tree, Ascent')
  BY <1>1, <1>2 DEF Searchable
<1> QED
  BY <1>3 DEF TreeInv

\* Every call of a client keeps the tree in order.
LEMMA TreeStep == ElemInv /\ TreeInv /\ [DataNext]_data => TreeInv'
<1> SUFFICES ASSUME ElemInv, TreeInv, [DataNext]_data PROVE TreeInv'
  OBVIOUS
<1>1. ElemType /\ Closed(DOMAIN tree) /\ Searchable(tree, Ascent)
  BY DEF ElemInv, TreeInv
<1>2. ASSUME elem' = elem, tree' = tree PROVE TreeInv'
  <2>1. \A e \in Elements : e \in Elements' /\ elem'[e] = elem[e]
    BY <1>2 DEF Elements
  <2> QED
    BY <1>1, <1>2, <2>1, AscentKept
<1>3. ASSUME NEW class, NEW value, El!element_new(class, value) PROVE TreeInv'
  <2>1. elem' = Append(elem, [class |-> class, value |-> value]) /\ tree' = tree
    BY <1>3 DEF El!element_new
  <2>2. elem \in Seq([class : {"int", "str"}, value : values])
    BY <1>1 DEF ElemType
  <2>3. \A e \in Elements : e \in Elements' /\ elem'[e] = elem[e]
    BY <2>1, <2>2 DEF Elements
  <2> QED
    BY <1>1, <2>1, <2>3, AscentKept
<1>4. ASSUME NEW e \in Elements, El!tree_insert_node(e) PROVE TreeInv'
  <2>1. PICK path \in Paths :
          /\ path \notin DOMAIN tree
          /\ Follows(path, DOMAIN tree, {p \in DOMAIN tree : El!AtMost(e, tree[p])})
          /\ tree' = [p \in DOMAIN tree \cup {path} |-> IF p = path THEN e ELSE tree[p]]
    BY <1>1, <1>4, NodePlaced DEF ElemType
  <2>2. elem' = elem /\ Ascent' = Ascent
    BY <1>4 DEF El!tree_insert_node, Ascent, El!AtMost, Elements
  <2>3. {p \in DOMAIN tree : El!AtMost(e, tree[p])} = {p \in DOMAIN tree : <<e, tree[p]>> \in Ascent}
    BY <1>1 DEF ElemType, Ascent
  <2>4. Closed(DOMAIN tree') /\ Searchable(tree', Ascent)
    <3> DEFINE t == tree
               g == tree'
               R == Ascent
    <3>1. /\ DOMAIN t \subseteq Paths /\ Closed(DOMAIN t) /\ Searchable(t, R) /\ path \in Paths /\ path \notin DOMAIN t
          /\ Follows(path, DOMAIN t, {p \in DOMAIN t : <<e, t[p]>> \in R})
      BY <1>1, <2>1, <2>3 DEF ElemType
    <3>2. g = [p \in DOMAIN t \cup {path} |-> IF p = path THEN e ELSE t[p]]
      BY <2>1
    <3> HIDE DEF t, g, R
    <3>3. Inserted(g, t, path, e, R)
      BY <2>1, <3>1, <3>2 DEF Inserted
    <3>4. Closed(DOMAIN g) /\ Searchable(g, R)
      BY <3>3, PlacedInOrder
    <3> QED
      BY <3>4 DEF g, R
  <2> QED
    BY <2>2, <2>4 DEF TreeInv
<1>5. ASSUME El!tree_delete PROVE TreeInv'
  <2>1. DOMAIN tree' = {}
    BY <1>5 DEF El!tree_delete, El!Leaf
  <2> QED
    BY <2>1 DEF TreeInv, Closed, Searchable
<1>6. CASE UseElements
  <2>1. DOMAIN elem = Elements
    BY <1>1, ElemDomains
  <2>2. CASE El!Client(values)
    <3>1. ASSUME NEW class \in {"int", "str"}, NEW value \in values, El!element_new(class, value) PROVE TreeInv'
      BY <1>3, <3>1
    <3>2. ASSUME NEW e \in Elements, El!rc_free_ref(e) \/ El!list_add_element(e) \/ El!tree_insert_node(e) PROVE TreeInv'
      <4>1. CASE El!rc_free_ref(e) \/ El!list_add_element(e)
        BY <1>2, <4>1 DEF El!rc_free_ref, El!list_add_element
      <4> QED
        BY <1>4, <3>2, <4>1
    <3>3. ASSUME NEW n \in Nodes, El!list_delete_element(n) PROVE TreeInv'
      BY <1>2, <3>3 DEF El!list_delete_element
    <3> QED
      BY <2>1, <2>2, <3>1, <3>2, <3>3 DEF El!Client, Nodes
  <2>3. CASE El!list_delete
    BY <1>2, <2>3 DEF El!list_delete
  <2>4. CASE El!tree_delete
    BY <1>5, <2>4
  <2> QED
    BY <1>6, <2>2, <2>3, <2>4 DEF UseElements, El!Next
<1>7. CASE ~UseElements
  <2>1. elem' = elem /\ tree' = tree
    BY <1>7 DEF DataNext, data, elements, CallHeap, CallList, ReadArgument
  <2> QED
    BY <1>2, <2>1
<1> QED
  BY <1>6, <1>7

(***************************************************************************)
(* Sequences                                                               *)
(***************************************************************************)
\* What is appended to the second of two sequences comes behind both.
LEMMA AppendedToBoth ==
  ASSUME NEW s \in Seq(Element), NEW t \in Seq(Element), NEW e \in Element
  PROVE  Append(s \o t, e) = s \o Append(t, e)
<1>1. Append(t, e) = t \o <<e>> /\ <<e>> \in Seq(Element)
  BY AppendIsConcat
<1>2. s \o t \in Seq(Element)
  BY ConcatProperties
<1>3. Append(s \o t, e) = (s \o t) \o <<e>>
  BY <1>2, AppendIsConcat
<1> QED
  BY <1>1, <1>3, ConcatAssociative

\* A sequence with an element inserted.
LEMMA InsertedAt ==
  ASSUME NEW s \in Seq(Element), NEW pos \in 0 .. Len(s), NEW e \in Element
  PROVE  /\ Ar!Abstract!InsertAt(s, pos + 1, e) \in Seq(Element)
         /\ Len(Ar!Abstract!InsertAt(s, pos + 1, e)) = Len(s) + 1
         /\ \A k \in 1 .. Len(s) + 1 :
              Ar!Abstract!InsertAt(s, pos + 1, e)[k]
                = IF k =< pos THEN s[k] ELSE IF k = pos + 1 THEN e ELSE s[k - 1]
<1> DEFINE front == SubSeq(s, 1, pos)
           back == SubSeq(s, pos + 1, Len(s))
<1>1. Len(s) \in Nat /\ pos \in Nat /\ pos =< Len(s) /\ (pos + 1) - 1 = pos
  OBVIOUS
<1>2. Ar!Abstract!InsertAt(s, pos + 1, e) = front \o <<e>> \o back
  BY <1>1 DEF Ar!Abstract!InsertAt
<1>3. front \in Seq(Element) /\ Len(front) = pos /\ \A k \in 1 .. pos : front[k] = s[k]
  BY <1>1
<1>4. /\ back \in Seq(Element) /\ Len(back) = Len(s) - pos
      /\ \A k \in 1 .. Len(s) - pos : back[k] = s[pos + k]
  BY <1>1
<1> HIDE DEF front, back
<1> DEFINE t == front \o <<e>>
           u == t \o back
<1>5. /\ t \in Seq(Element) /\ Len(t) = pos + 1
      /\ \A k \in 1 .. pos + 1 : t[k] = IF k =< pos THEN s[k] ELSE e
  BY <1>1, <1>3
<1> HIDE DEF t
<1>6. t \in Seq(Element) /\ Len(t) = pos + 1 /\ \A k \in 1 .. pos + 1 : t[k] = IF k =< pos THEN s[k] ELSE e
  BY <1>5
<1>7. u \in Seq(Element) /\ Len(u) = Len(s) + 1
  BY <1>1, <1>4, <1>6, ConcatProperties
<1>8. \A k \in 1 .. Len(s) + 1 : u[k] = IF k =< pos + 1 THEN t[k] ELSE back[k - (pos + 1)]
  BY <1>1, <1>4, <1>6
<1> HIDE DEF u
<1>9. \A k \in 1 .. Len(s) + 1 : u[k] = IF k =< pos THEN s[k] ELSE IF k = pos + 1 THEN e ELSE s[k - 1]
  <2> TAKE k \in 1 .. Len(s) + 1
  <2>1. CASE k =< pos + 1
    <3>1. k \in 1 .. pos + 1 /\ (k =< pos \/ k = pos + 1)
      BY <1>1, <2>1
    <3> QED
      BY <1>6, <1>8, <2>1, <3>1
  <2>2. CASE k > pos + 1
    <3>1. k - (pos + 1) \in 1 .. Len(s) - pos /\ pos + (k - (pos + 1)) = k - 1 /\ ~(k =< pos + 1) /\ ~(k =< pos) /\ k # pos + 1
      BY <1>1, <2>2
    <3> QED
      BY <1>4, <1>8, <3>1
  <2> QED
    BY <1>1, <2>1, <2>2
<1>10. Ar!Abstract!InsertAt(s, pos + 1, e) = u
  BY <1>2 DEF t, u
<1> QED
  BY <1>7, <1>9, <1>10

\* A sequence with an element removed.
LEMMA RemovedAt ==
  ASSUME NEW s \in Seq(Element), NEW pos \in 0 .. Len(s) - 1
  PROVE  /\ Ar!Abstract!RemoveAt(s, pos + 1) \in Seq(Element)
         /\ Len(Ar!Abstract!RemoveAt(s, pos + 1)) = Len(s) - 1
         /\ \A k \in 1 .. Len(s) - 1 :
              Ar!Abstract!RemoveAt(s, pos + 1)[k] = IF k =< pos THEN s[k] ELSE s[k + 1]
<1> DEFINE front == SubSeq(s, 1, pos)
           back == SubSeq(s, pos + 2, Len(s))
           u == front \o back
<1>1. Len(s) \in Nat /\ pos \in Nat /\ pos < Len(s) /\ (pos + 1) - 1 = pos /\ (pos + 1) + 1 = pos + 2
  OBVIOUS
<1>2. Ar!Abstract!RemoveAt(s, pos + 1) = u
  BY <1>1 DEF Ar!Abstract!RemoveAt
<1>3. front \in Seq(Element) /\ Len(front) = pos /\ \A k \in 1 .. pos : front[k] = s[k]
  BY <1>1
<1>4. /\ back \in Seq(Element) /\ Len(back) = (Len(s) - 1) - pos
      /\ \A k \in 1 .. (Len(s) - 1) - pos : back[k] = s[pos + 1 + k]
  BY <1>1
<1> HIDE DEF front, back
<1>5. u \in Seq(Element) /\ Len(u) = Len(s) - 1
  BY <1>1, <1>3, <1>4, ConcatProperties
<1>6. \A k \in 1 .. Len(s) - 1 : u[k] = IF k =< pos THEN front[k] ELSE back[k - pos]
  BY <1>1, <1>3, <1>4
<1> HIDE DEF u
<1>7. \A k \in 1 .. Len(s) - 1 : u[k] = IF k =< pos THEN s[k] ELSE s[k + 1]
  <2> TAKE k \in 1 .. Len(s) - 1
  <2>1. CASE k =< pos
    BY <1>1, <1>3, <1>6, <2>1
  <2>2. CASE k > pos
    <3>1. k - pos \in 1 .. (Len(s) - 1) - pos /\ pos + 1 + (k - pos) = k + 1 /\ ~(k =< pos)
      BY <1>1, <2>2
    <3> QED
      BY <1>4, <1>6, <3>1
  <2> QED
    BY <1>1, <2>1, <2>2
<1> QED
  BY <1>2, <1>5, <1>7

(***************************************************************************)
(* Lists in arrays                                                         *)
(***************************************************************************)
Value == Element \cup {Ar!Junk}

\* A list lies in its array, and holds elements.
IsArray(l) ==
  /\ l = [data |-> l.data, len |-> l.len, size |-> l.size]
  /\ l.size \in Nat \ {0} /\ l.len \in Nat /\ l.len =< l.size
  /\ l.data \in [0 .. l.size - 1 -> Value]
  /\ \A k \in 0 .. l.len - 1 : l.data[k] \in Element

\* m is l with e at position pos, and what was there and behind it one further on.
HasInserted(m, l, pos, e) ==
  /\ IsArray(m) /\ m.len = l.len + 1
  /\ \A k \in 0 .. l.len : m.data[k] = IF k < pos THEN l.data[k] ELSE IF k = pos THEN e ELSE l.data[k - 1]

\* An array that is expanded has become larger.
LEMMA Larger == ASSUME NEW n \in Nat \ {0} PROVE n * GROWTH_FACTOR \in Nat /\ n < n * GROWTH_FACTOR
<1>1. GROWTH_FACTOR \in Nat /\ GROWTH_FACTOR >= 2
  BY ArrayAssumption
<1> QED
  BY <1>1

\* expand_list keeps what is in the list, and a list has room for one more.
LEMMA RoomMade ==
  ASSUME NEW l, IsArray(l)
  PROVE  /\ IsArray(Ar!Room(l)) /\ Ar!Room(l).len = l.len /\ l.len < Ar!Room(l).size
         /\ \A k \in 0 .. l.len - 1 : Ar!Room(l).data[k] = l.data[k]
<1>1. CASE l.len # l.size
  BY <1>1 DEF IsArray, Ar!Room
<1>2. CASE l.len = l.size
  <2> DEFINE n == l.size * GROWTH_FACTOR
             d == [k \in 0 .. n - 1 |-> IF k < l.size THEN l.data[k] ELSE Ar!Junk]
  <2>0. l.size \in Nat \ {0} /\ l.data \in [0 .. l.size - 1 -> Value] /\ \A k \in 0 .. l.len - 1 : l.data[k] \in Element
    BY DEF IsArray
  <2>1. n \in Nat \ {0} /\ l.size < n
    BY <2>0, Larger
  <2>2. l = [data |-> l.data, len |-> l.len, size |-> l.size]
    BY DEF IsArray
  <2>3. Ar!Room(l) = [data |-> d, len |-> l.len, size |-> n]
    <3>1. Ar!Room(l) = [l EXCEPT !.size = n, !.data = d]
      BY <1>2 DEF Ar!Room, Ar!expand_list
    <3> HIDE DEF n, d
    <3> QED
      BY <2>2, <3>1
  <2> HIDE DEF n
  <2>4. d \in [0 .. n - 1 -> Value] /\ \A k \in 0 .. l.len - 1 : d[k] = l.data[k]
    BY <1>2, <2>0, <2>1 DEF Value
  <2> HIDE DEF d
  <2> QED
    BY <1>2, <2>0, <2>1, <2>3, <2>4 DEF IsArray
<1> QED
  BY <1>1, <1>2

\* list_append puts an element at the end.
LEMMA ElementAppended ==
  ASSUME NEW l, IsArray(l), NEW e \in Element
  PROVE  HasInserted(Ar!Written(Ar!Room(l), l.len, e), l, l.len, e)
<1> DEFINE r == Ar!Room(l)
<1>1. /\ IsArray(r) /\ r.len = l.len /\ l.len < r.size
      /\ \A k \in 0 .. l.len - 1 : r.data[k] = l.data[k]
  BY RoomMade
<1> HIDE DEF r
<1>2. l.len \in Nat /\ \A k \in 0 .. l.len - 1 : l.data[k] \in Element
  BY DEF IsArray
<1> DEFINE d == [j \in DOMAIN r.data \cup {l.len} |-> IF j = l.len THEN e ELSE r.data[j]]
<1>3. r = [data |-> r.data, len |-> r.len, size |-> r.size] /\ r.data \in [0 .. r.size - 1 -> Value] /\ r.size \in Nat
  BY <1>1 DEF IsArray
<1>4. Ar!Written(r, l.len, e) = [data |-> d, len |-> l.len + 1, size |-> r.size]
  <2>1. Ar!Written(r, l.len, e) = [r EXCEPT !.data = d, !.len = l.len + 1]
    BY <1>1 DEF Ar!Written
  <2> HIDE DEF d
  <2> QED
    BY <1>3, <2>1
<1>5. d \in [0 .. r.size - 1 -> Value] /\ d[l.len] = e /\ \A k \in 0 .. l.len - 1 : d[k] = l.data[k]
  BY <1>1, <1>2, <1>3 DEF Value
<1> HIDE DEF d
<1>6. IsArray([data |-> d, len |-> l.len + 1, size |-> r.size])
  <2>1. \A k \in 0 .. l.len : d[k] \in Element
    BY <1>2, <1>5
  <2>2. r.size \in Nat \ {0} /\ l.len + 1 =< r.size
    BY <1>1, <1>2, <1>3
  <2> QED
    BY <1>2, <1>5, <2>1, <2>2 DEF IsArray
<1> QED
  BY <1>2, <1>4, <1>5, <1>6 DEF HasInserted, r

\* list_insert puts it anywhere.
LEMMA ElementInserted ==
  ASSUME NEW l, IsArray(l), NEW e \in Element, NEW pos \in 0 .. l.len
  PROVE  HasInserted(Ar!list_insert(l, pos, e), l, pos, e)
<1> DEFINE r == Ar!Room(l)
           d == [k \in DOMAIN r.data \cup pos + 1 .. l.len |->
                  IF k \in pos + 1 .. l.len THEN r.data[k - 1] ELSE r.data[k]]
           moved == [r EXCEPT !.data = d]
           w == [j \in DOMAIN d \cup {pos} |-> IF j = pos THEN e ELSE d[j]]
<1>1. /\ IsArray(r) /\ r.len = l.len /\ l.len < r.size
      /\ \A k \in 0 .. l.len - 1 : r.data[k] = l.data[k]
  BY RoomMade
<1>a. Ar!list_insert(l, pos, e) = Ar!Written(moved, pos, e)
  BY DEF Ar!list_insert
<1> HIDE DEF r
<1>2. l.len \in Nat /\ pos \in Nat /\ pos =< l.len /\ \A k \in 0 .. l.len - 1 : l.data[k] \in Element
  BY DEF IsArray
<1>3. r = [data |-> r.data, len |-> r.len, size |-> r.size] /\ r.data \in [0 .. r.size - 1 -> Value] /\ r.size \in Nat
  BY <1>1 DEF IsArray
<1>4. DOMAIN d = 0 .. r.size - 1
  BY <1>1, <1>2, <1>3
<1>5. \A k \in 0 .. r.size - 1 : d[k] = IF k \in pos + 1 .. l.len THEN r.data[k - 1] ELSE r.data[k]
  BY <1>3
<1> HIDE DEF d
<1>6. moved = [data |-> d, len |-> l.len, size |-> r.size]
  BY <1>1, <1>3
<1>7. Ar!Written(moved, pos, e) = [data |-> w, len |-> l.len + 1, size |-> r.size]
  <2> HIDE DEF w
  <2>1. moved.data = d /\ moved.len = l.len
    BY <1>6
  <2>2. Ar!Written(moved, pos, e) = [moved EXCEPT !.data = w, !.len = l.len + 1]
    BY <2>1 DEF Ar!Written, w
  <2> HIDE DEF moved
  <2> QED
    BY <1>6, <2>2
<1>8. /\ DOMAIN w = 0 .. r.size - 1
      /\ \A k \in 0 .. r.size - 1 : w[k] = IF k = pos THEN e ELSE d[k]
  BY <1>1, <1>2, <1>3, <1>4
<1>9. w = [k \in 0 .. r.size - 1 |-> w[k]]
  BY <1>8
<1> HIDE DEF w
<1>10. \A k \in 0 .. l.len : w[k] = IF k < pos THEN l.data[k] ELSE IF k = pos THEN e ELSE l.data[k - 1]
  <2> TAKE k \in 0 .. l.len
  <2>1. k \in 0 .. r.size - 1
    BY <1>1, <1>2, <1>3
  <2>2. CASE k < pos
    BY <1>1, <1>2, <1>5, <1>8, <2>1, <2>2
  <2>3. CASE k = pos
    BY <1>8, <2>1, <2>3
  <2>4. CASE k > pos
    <3>1. k \in pos + 1 .. l.len /\ k - 1 \in 0 .. l.len - 1 /\ k # pos /\ ~(k < pos)
      BY <1>2, <2>4
    <3>2. w[k] = r.data[k - 1]
      BY <1>5, <1>8, <2>1, <3>1
    <3> QED
      BY <1>1, <3>1, <3>2
  <2> QED
    BY <1>2, <2>2, <2>3, <2>4
<1>11. \A k \in 0 .. l.len : w[k] \in Element
  BY <1>2, <1>10
<1>12. w \in [0 .. r.size - 1 -> Value]
  <2>1. ASSUME NEW k \in 0 .. r.size - 1 PROVE w[k] \in Value
    <3>1. CASE k =< l.len
      BY <1>2, <1>11, <3>1 DEF Value
    <3>2. CASE k > l.len
      <4>1. k # pos /\ k \notin pos + 1 .. l.len
        BY <1>2, <3>2
      <4> QED
        BY <1>3, <1>5, <1>8, <4>1
    <3> QED
      BY <1>2, <3>1, <3>2
  <2> QED
    BY <1>9, <2>1
<1>13. IsArray([data |-> w, len |-> l.len + 1, size |-> r.size])
  <2>1. r.size \in Nat \ {0} /\ l.len + 1 =< r.size
    BY <1>1, <1>2, <1>3
  <2> QED
    BY <1>2, <1>11, <1>12, <2>1 DEF IsArray
<1> QED
  BY <1>2, <1>a, <1>7, <1>10, <1>13 DEF HasInserted

\* list_remove moves what is behind the element.
LEMMA ElementRemoved ==
  ASSUME NEW l, IsArray(l), NEW pos \in 0 .. l.len - 1
  PROVE  /\ IsArray(Ar!list_remove(l, pos)) /\ Ar!list_remove(l, pos).len = l.len - 1
         /\ \A k \in 0 .. l.len - 2 :
              Ar!list_remove(l, pos).data[k] = IF k < pos THEN l.data[k] ELSE l.data[k + 1]
<1> DEFINE d == [k \in DOMAIN l.data |-> IF k \in pos .. l.len - 2 THEN l.data[k + 1] ELSE l.data[k]]
<1>1. /\ l = [data |-> l.data, len |-> l.len, size |-> l.size]
      /\ l.size \in Nat \ {0} /\ l.len \in Nat /\ l.len =< l.size
      /\ l.data \in [0 .. l.size - 1 -> Value]
      /\ \A k \in 0 .. l.len - 1 : l.data[k] \in Element
  BY DEF IsArray
<1>2. Ar!list_remove(l, pos) = [data |-> d, len |-> l.len - 1, size |-> l.size]
  <2>1. Ar!list_remove(l, pos) = [l EXCEPT !.data = d, !.len = l.len - 1]
    BY DEF Ar!list_remove
  <2> HIDE DEF d
  <2> QED
    BY <1>1, <2>1
<1>3. /\ d \in [0 .. l.size - 1 -> Value]
      /\ \A k \in 0 .. l.len - 2 : d[k] = IF k < pos THEN l.data[k] ELSE l.data[k + 1]
  <2>1. \A k \in 0 .. l.size - 1 : d[k] = IF k \in pos .. l.len - 2 THEN l.data[k + 1] ELSE l.data[k]
    BY <1>1
  <2>2. d = [k \in 0 .. l.size - 1 |-> d[k]]
    BY <1>1
  <2> HIDE DEF d
  <2>3. \A k \in pos .. l.len - 2 : k + 1 \in 0 .. l.size - 1 /\ k \in 0 .. l.size - 1
    BY <1>1
  <2>4. \A k \in 0 .. l.size - 1 : d[k] \in Value
    BY <1>1, <2>1, <2>3
  <2>5. \A k \in 0 .. l.len - 2 : d[k] = IF k < pos THEN l.data[k] ELSE l.data[k + 1]
    BY <1>1, <2>1
  <2> QED
    BY <2>2, <2>4, <2>5
<1> HIDE DEF d
<1>4. \A k \in 0 .. l.len - 2 : d[k] \in Element
  BY <1>1, <1>3
<1>5. IsArray([data |-> d, len |-> l.len - 1, size |-> l.size])
  <2>1. l.len - 1 \in Nat /\ l.len - 1 =< l.size /\ (l.len - 1) - 1 = l.len - 2
    BY <1>1
  <2> QED
    BY <1>1, <1>3, <1>4, <2>1 DEF IsArray
<1> QED
  BY <1>2, <1>3, <1>5

(***************************************************************************)
(* Loops over lists                                                        *)
(***************************************************************************)
\* The lists in arrays are a set.
Arrays == {l \in [data : UNION {[0 .. n - 1 -> Value] : n \in Nat}, len : Nat, size : Nat] : IsArray(l)}

\* Each list is in it.
LEMMA ArraysAll == \A l : IsArray(l) <=> l \in Arrays
<1> SUFFICES ASSUME NEW l, IsArray(l) PROVE l \in Arrays
  BY DEF Arrays
<1>1. /\ l = [data |-> l.data, len |-> l.len, size |-> l.size]
      /\ l.size \in Nat /\ l.len \in Nat /\ l.data \in [0 .. l.size - 1 -> Value]
  BY DEF IsArray
<1>2. l.data \in UNION {[0 .. n - 1 -> Value] : n \in Nat}
  BY <1>1
<1> DEFINE D == UNION {[0 .. n - 1 -> Value] : n \in Nat}
<1> HIDE DEF D
<1>3. l \in [data : D, len : Nat, size : Nat]
  BY <1>1, <1>2 DEF D
<1> QED
  BY <1>3 DEF Arrays, D

\* The sequence of a list.
LEMMA ListSequence ==
  ASSUME NEW l, IsArray(l)
  PROVE  /\ Ar!In(l) \in Seq(Element) /\ Len(Ar!In(l)) = l.len /\ DOMAIN Ar!In(l) = 1 .. l.len
         /\ \A k \in 1 .. l.len : Ar!In(l)[k] = l.data[k - 1]
<1>1. l.len \in Nat /\ \A k \in 1 .. l.len : l.data[k - 1] \in Element
  <2>1. l.len \in Nat /\ \A k \in 0 .. l.len - 1 : l.data[k] \in Element
    BY DEF IsArray
  <2>2. \A k \in 1 .. l.len : k - 1 \in 0 .. l.len - 1
    BY <2>1
  <2> QED
    BY <2>1, <2>2
<1> QED
  BY <1>1 DEF Ar!In

\* Two lists have the same sequence when they have the same elements.
LEMMA SameSequence ==
  ASSUME NEW l, IsArray(l), NEW S, NEW s \in Seq(S), Len(s) = l.len, \A k \in 1 .. l.len : s[k] = l.data[k - 1]
  PROVE  Ar!In(l) = s
BY ListSequence

\* An element at the end of a list is at the end of its sequence.
LEMMA SequenceAppended ==
  ASSUME NEW l, IsArray(l), NEW e \in Element, NEW m, HasInserted(m, l, l.len, e)
  PROVE  IsArray(m) /\ Ar!In(m) = Append(Ar!In(l), e)
<1> DEFINE s == Append(Ar!In(l), e)
<1>1. /\ Ar!In(l) \in Seq(Element) /\ Len(Ar!In(l)) = l.len
      /\ \A k \in 1 .. l.len : Ar!In(l)[k] = l.data[k - 1]
  BY ListSequence
<1>2. l.len \in Nat /\ IsArray(m) /\ m.len = l.len + 1
  BY DEF IsArray, HasInserted
<1>3. /\ s \in Seq(Element) /\ Len(s) = l.len + 1 /\ s[l.len + 1] = e
      /\ \A k \in 1 .. l.len : s[k] = Ar!In(l)[k]
  BY <1>1, <1>2
<1>4. ASSUME NEW k \in 1 .. m.len PROVE s[k] = m.data[k - 1]
  <2>1. k - 1 \in 0 .. l.len
    BY <1>2
  <2>2. m.data[k - 1] = IF k - 1 < l.len THEN l.data[k - 1] ELSE e
    BY <1>2, <2>1 DEF HasInserted
  <2>3. CASE k - 1 < l.len
    BY <1>1, <1>2, <1>3, <2>2, <2>3
  <2>4. CASE k - 1 = l.len
    <3>1. k = l.len + 1
      BY <1>2, <2>4
    <3> QED
      BY <1>2, <1>3, <2>2, <2>4, <3>1
  <2>5. k - 1 < l.len \/ k - 1 = l.len
    BY <1>2, <2>1
  <2> QED
    BY <2>3, <2>4, <2>5
<1> HIDE DEF s
<1>5. Ar!In(m) = s
  BY <1>2, <1>3, <1>4, SameSequence
<1> QED
  BY <1>2, <1>5 DEF s

\* list_append_array appends one after the other.
LEMMA TwoAppended ==
  ASSUME NEW l, IsArray(l), NEW e \in Element
  PROVE  /\ IsArray(Ar!list_append_array(l, <<e, e>>))
         /\ Ar!In(Ar!list_append_array(l, <<e, e>>)) = Ar!In(l) \o <<e, e>>
<1> DEFINE one == Ar!list_append(l, e)
           two == Ar!list_append(one, e)
           s == <<e, e>>
           appended == CHOOSE g : g = [n \in 0 .. Len(s) |-> IF n = 0 THEN l ELSE Ar!list_append(g[n - 1], s[n])]
           h == [n \in 0 .. 2 |-> IF n = 0 THEN l ELSE IF n = 1 THEN one ELSE two]
<1>1. Len(s) = 2 /\ s[1] = e /\ s[2] = e
  OBVIOUS
<1>2. h = [n \in 0 .. Len(s) |-> IF n = 0 THEN l ELSE Ar!list_append(h[n - 1], s[n])]
  <2>1. h[0] = l /\ h[1] = one /\ h[2] = two
    OBVIOUS
  <2> HIDE DEF s
  <2>2. ASSUME NEW n \in 0 .. 2 PROVE h[n] = IF n = 0 THEN l ELSE Ar!list_append(h[n - 1], s[n])
    <3>1. n = 0 \/ n = 1 \/ n = 2
      OBVIOUS
    <3> HIDE DEF h
    <3> QED
      BY <1>1, <2>1, <3>1
  <2> QED
    BY <1>1, <2>2
<1> HIDE DEF h
<1>3. appended = [n \in 0 .. Len(s) |-> IF n = 0 THEN l ELSE Ar!list_append(appended[n - 1], s[n])]
  BY <1>2
<1>4. Ar!list_append_array(l, s) = appended[2]
  BY <1>1 DEF Ar!list_append_array
<1> HIDE DEF appended, s
<1>5. appended[0] = l /\ appended[1] = one /\ appended[2] = two
  <2>1. 0 \in 0 .. Len(s) /\ 1 \in 0 .. Len(s) /\ 2 \in 0 .. Len(s)
    BY <1>1
  <2>2. appended[0] = l
    BY <1>3, <2>1
  <2>3. appended[1] = Ar!list_append(appended[1 - 1], s[1])
    BY <1>3, <2>1
  <2>4. appended[2] = Ar!list_append(appended[2 - 1], s[2])
    BY <1>3, <2>1
  <2>5. 1 - 1 = 0 /\ 2 - 1 = 1
    OBVIOUS
  <2> QED
    BY <1>1, <2>2, <2>3, <2>4, <2>5
<1>6. IsArray(one) /\ Ar!In(one) = Append(Ar!In(l), e)
  <2>1. HasInserted(one, l, l.len, e)
    BY ElementAppended DEF Ar!list_append
  <2> QED
    BY <2>1, SequenceAppended
<1>7. IsArray(two) /\ Ar!In(two) = Append(Ar!In(one), e)
  <2> HIDE DEF one
  <2>1. HasInserted(two, one, one.len, e)
    BY <1>6, ElementAppended DEF Ar!list_append
  <2> QED
    BY <1>6, <2>1, SequenceAppended
<1> HIDE DEF one, two
<1>8. Append(Append(Ar!In(l), e), e) = Ar!In(l) \o <<e, e>>
  <2>1. Ar!In(l) \in Seq(Element)
    BY ListSequence
  <2> QED
    BY <2>1
<1> QED
  BY <1>4, <1>5, <1>6, <1>7, <1>8 DEF s

\* The loop of list_map1 and list_map2 fills an empty list with the results.
LEMMA ResultsMapped ==
  ASSUME NEW out, IsArray(out), out.len = 0, NEW results \in Seq(Element)
  PROVE  IsArray(Ar!Mapped(out, results)) /\ Ar!In(Ar!Mapped(out, results)) = results
<1> DEFINE N == Len(results)
           next(l, n) == Ar!Written(Ar!Room(l), n, results[n + 1])
           step == [n \in Nat |-> [l \in Arrays |-> IF n < N /\ l.len = n THEN next(l, n) ELSE l]]
           mapped == CHOOSE g : g = [n \in 0 .. N |-> IF n = 0 THEN out
                                                     ELSE Ar!Written(Ar!Room(g[n - 1]), n - 1, results[n])]
<1>1. N \in Nat /\ \A n \in 0 .. N - 1 : results[n + 1] \in Element
  OBVIOUS
<1> HIDE DEF N
<1>2. ASSUME NEW l, IsArray(l), l.len < N
      PROVE  HasInserted(next(l, l.len), l, l.len, results[l.len + 1])
  <2>1. l.len \in 0 .. N - 1
    BY <1>1, <1>2 DEF IsArray
  <2>2. results[l.len + 1] \in Element
    BY <1>1, <2>1
  <2> QED
    BY <1>2, <2>2, ElementAppended
<1> HIDE DEF next
<1>3. step \in [Nat -> [Arrays -> Arrays]]
  <2>1. ASSUME NEW n \in Nat, NEW l \in Arrays, n < N, l.len = n PROVE next(l, n) \in Arrays
    <3>1. IsArray(l)
      BY ArraysAll
    <3>2. IsArray(next(l, l.len))
      BY <1>2, <2>1, <3>1 DEF HasInserted
    <3> QED
      BY <2>1, <3>2, ArraysAll
  <2> QED
    BY <2>1
<1>4. \A n \in Nat, l \in Arrays : step[n][l] = IF n < N /\ l.len = n THEN next(l, n) ELSE l
  OBVIOUS
<1> HIDE DEF step
<1>5. PICK g \in [0 .. N -> Arrays] : g[0] = out /\ \A n \in 1 .. N : g[n] = step[n - 1][g[n - 1]]
  <2>1. out \in Arrays
    BY ArraysAll
  <2>2. N \in Nat
    BY <1>1
  <2>3. Loops(Arrays, out, step, N) # {}
    BY <1>3, <2>1, <2>2, LoopRuns
  <2> QED
    BY <2>3 DEF Loops
<1> DEFINE Good(n) == /\ IsArray(g[n]) /\ g[n].len = n
                      /\ \A k \in 0 .. n - 1 : g[n].data[k] = results[k + 1]
<1>6. ASSUME NEW n \in 0 .. N - 1, Good(n) PROVE Good(n + 1) /\ g[n + 1] = next(g[n], n)
  <2>1. n + 1 \in 1 .. N /\ (n + 1) - 1 = n /\ n \in Nat /\ n < N /\ n \in 0 .. N
    BY <1>1
  <2>2. g[n + 1] = step[n][g[n]]
    BY <1>5, <2>1
  <2>3. g[n + 1] = next(g[n], n)
    BY <1>4, <1>5, <1>6, <2>1, <2>2
  <2>4. HasInserted(g[n + 1], g[n], n, results[n + 1])
    BY <1>2, <1>6, <2>1, <2>3
  <2>5. IsArray(g[n + 1]) /\ g[n + 1].len = n + 1
    BY <1>6, <2>4 DEF HasInserted
  <2>6. \A k \in 0 .. n : g[n + 1].data[k] = results[k + 1]
    BY <1>6, <2>1, <2>4 DEF HasInserted
  <2> QED
    BY <2>1, <2>3, <2>5, <2>6
<1>7. Good(0)
  BY <1>5
<1>8. \A n \in 0 .. N : Good(n)
  <2> DEFINE A == {n \in Nat : n =< N => Good(n)}
  <2>1. 0 \in A
    BY <1>7
  <2>2. ASSUME NEW n \in A PROVE n + 1 \in A
    <3>1. n \in Nat /\ (n =< N => Good(n))
      OBVIOUS
    <3>2. ASSUME n + 1 =< N PROVE Good(n + 1)
      <4>1. n \in 0 .. N - 1 /\ n =< N
        BY <1>1, <3>1, <3>2
      <4> HIDE DEF Good
      <4> QED
        BY <1>6, <3>1, <4>1
    <3> HIDE DEF Good
    <3> QED
      BY <3>1, <3>2
  <2>3. A \subseteq Nat
    OBVIOUS
  <2> HIDE DEF A
  <2>4. A = Nat
    BY <2>1, <2>2, <2>3, Induction
  <2> HIDE DEF Good
  <2> QED
    BY <1>1, <2>4 DEF A
<1>9. g = [n \in 0 .. N |-> IF n = 0 THEN out ELSE Ar!Written(Ar!Room(g[n - 1]), n - 1, results[n])]
  <2>1. ASSUME NEW n \in 0 .. N, n # 0 PROVE g[n] = Ar!Written(Ar!Room(g[n - 1]), n - 1, results[n])
    <3>1. n - 1 \in 0 .. N - 1 /\ n - 1 \in 0 .. N /\ (n - 1) + 1 = n
      BY <1>1, <2>1
    <3>2. g[(n - 1) + 1] = next(g[n - 1], n - 1)
      <4> HIDE DEF Good
      <4> QED
        BY <1>6, <1>8, <3>1
    <3> QED
      BY <3>1, <3>2 DEF next
  <2>2. g[0] = out
    BY <1>5
  <2> QED
    BY <1>5, <2>1, <2>2
<1>10. mapped = [n \in 0 .. N |-> IF n = 0 THEN out ELSE Ar!Written(Ar!Room(mapped[n - 1]), n - 1, results[n])]
  BY <1>9
<1>11. Ar!Mapped(out, results) = mapped[N]
  BY DEF Ar!Mapped, N
<1> HIDE DEF mapped
<1>12. \A n \in 0 .. N : mapped[n] = g[n]
  <2> DEFINE A == {n \in Nat : n =< N => mapped[n] = g[n]}
  <2>1. 0 \in A
    BY <1>1, <1>5, <1>10
  <2>2. ASSUME NEW n \in A PROVE n + 1 \in A
    <3>1. n \in Nat /\ (n =< N => mapped[n] = g[n])
      OBVIOUS
    <3>2. ASSUME n + 1 =< N PROVE mapped[n + 1] = g[n + 1]
      <4>1. n + 1 \in 0 .. N /\ n + 1 # 0 /\ (n + 1) - 1 = n /\ n =< N
        BY <1>1, <3>1, <3>2
      <4> DEFINE body(h, m) == IF m = 0 THEN out ELSE Ar!Written(Ar!Room(h[m - 1]), m - 1, results[m])
      <4>2. mapped[n + 1] = Ar!Written(Ar!Room(mapped[n]), n, results[n + 1])
        BY <1>10, <4>1
      <4>3. g[n + 1] = Ar!Written(Ar!Room(g[n]), n, results[n + 1])
        BY <1>9, <4>1
      <4> QED
        BY <3>1, <4>1, <4>2, <4>3
    <3> QED
      BY <3>1, <3>2
  <2>3. A \subseteq Nat
    OBVIOUS
  <2> HIDE DEF A
  <2>4. A = Nat
    BY <2>1, <2>2, <2>3, Induction
  <2> QED
    BY <1>1, <2>4 DEF A
<1>13. Good(N) /\ Ar!Mapped(out, results) = g[N]
  <2>1. N \in 0 .. N
    BY <1>1
  <2> HIDE DEF Good
  <2> QED
    BY <1>8, <1>11, <1>12, <2>1
<1>14. IsArray(g[N]) /\ g[N].len = N /\ \A k \in 1 .. N : results[k] = g[N].data[k - 1]
  <2>1. \A k \in 1 .. N : k - 1 \in 0 .. N - 1 /\ (k - 1) + 1 = k
    BY <1>1
  <2> QED
    BY <1>13, <2>1
<1>15. Ar!In(g[N]) = results
  BY <1>14, SameSequence DEF N
<1> QED
  BY <1>13, <1>14, <1>15

\* list_filter appends what is selected.
LEMMA ListFiltered ==
  ASSUME NEW f, NEW out, IsArray(out), NEW in, IsArray(in)
  PROVE  /\ IsArray(Ar!list_filter(f, out, in))
         /\ Ar!In(Ar!list_filter(f, out, in)) = Ar!In(out) \o Ar!Abstract!Selected(f, Ar!In(in))
<1> DEFINE s == Ar!In(in)
           N == in.len
           put(l, e) == IF f[e] THEN Ar!list_insert(l, l.len, e) ELSE l
           keep(t, e) == IF f[e] THEN Append(t, e) ELSE t
           putting == [n \in Nat |-> [l \in Arrays |-> IF n < N THEN put(l, s[n + 1]) ELSE l]]
           keeping == [n \in Nat |-> [t \in Seq(Element) |-> IF n < N THEN keep(t, s[n + 1]) ELSE t]]
           filtered == CHOOSE g : g = [n \in 0 .. N |-> IF n = 0 THEN out ELSE put(g[n - 1], s[n])]
           kept == CHOOSE g : g = [n \in 0 .. Len(s) |-> IF n = 0 THEN <<>> ELSE keep(g[n - 1], s[n])]
<1>1. /\ s \in Seq(Element) /\ Len(s) = N /\ N \in Nat
      /\ \A n \in 0 .. N - 1 : s[n + 1] \in Element
  <2>1. N \in Nat
    BY DEF IsArray
  <2>2. s \in Seq(Element) /\ Len(s) = N
    BY ListSequence
  <2> HIDE DEF s, N
  <2> QED
    BY <2>1, <2>2
<1>a. Ar!list_filter(f, out, in) = filtered[N]
  BY DEF Ar!list_filter
<1>b. Ar!Abstract!Selected(f, Ar!In(in)) = kept[Len(s)]
  BY DEF Ar!Abstract!Selected
<1> HIDE DEF s, N
<1>2. ASSUME NEW l, IsArray(l), NEW n \in 0 .. N - 1
      PROVE  /\ IsArray(put(l, s[n + 1])) /\ Ar!In(put(l, s[n + 1])) = keep(Ar!In(l), s[n + 1])
  <2>1. s[n + 1] \in Element
    BY <1>1
  <2>2. l.len \in 0 .. l.len
    BY <1>2 DEF IsArray
  <2>3. HasInserted(Ar!list_insert(l, l.len, s[n + 1]), l, l.len, s[n + 1])
    BY <1>2, <2>1, <2>2, ElementInserted
  <2>4. /\ IsArray(Ar!list_insert(l, l.len, s[n + 1]))
        /\ Ar!In(Ar!list_insert(l, l.len, s[n + 1])) = Append(Ar!In(l), s[n + 1])
    BY <1>2, <2>1, <2>3, SequenceAppended
  <2>5. CASE f[s[n + 1]]
    BY <2>4, <2>5
  <2>6. CASE ~f[s[n + 1]]
    BY <1>2, <2>6
  <2> QED
    BY <2>5, <2>6
<1>3. ASSUME NEW t \in Seq(Element), NEW n \in 0 .. N - 1 PROVE keep(t, s[n + 1]) \in Seq(Element)
  BY <1>1
<1> HIDE DEF put, keep
<1>4. putting \in [Nat -> [Arrays -> Arrays]] /\ keeping \in [Nat -> [Seq(Element) -> Seq(Element)]]
  <2>1. ASSUME NEW n \in Nat, n < N, NEW l \in Arrays PROVE put(l, s[n + 1]) \in Arrays
    <3>1. n \in 0 .. N - 1 /\ IsArray(l)
      BY <1>1, <2>1, ArraysAll
    <3> QED
      BY <1>2, <3>1, ArraysAll
  <2>2. ASSUME NEW n \in Nat, n < N, NEW t \in Seq(Element) PROVE keep(t, s[n + 1]) \in Seq(Element)
    <3>1. n \in 0 .. N - 1
      BY <1>1, <2>2
    <3> QED
      BY <1>3, <3>1
  <2> QED
    BY <2>1, <2>2
<1>5. /\ \A n \in Nat, l \in Arrays : n < N => putting[n][l] = put(l, s[n + 1])
      /\ \A n \in Nat, t \in Seq(Element) : n < N => keeping[n][t] = keep(t, s[n + 1])
  OBVIOUS
<1> HIDE DEF putting, keeping
<1>6. filtered = [n \in 0 .. N |-> IF n = 0 THEN out ELSE put(filtered[n - 1], s[n])]
  <2>1. out \in Arrays
    BY ArraysAll
  <2>2. Loops(Arrays, out, putting, N) # {}
    BY <1>1, <1>4, <2>1, LoopRuns
  <2>3. PICK g \in [0 .. N -> Arrays] : g[0] = out /\ \A n \in 1 .. N : g[n] = putting[n - 1][g[n - 1]]
    BY <2>2 DEF Loops
  <2>4. ASSUME NEW n \in 0 .. N, n # 0 PROVE g[n] = put(g[n - 1], s[n])
    <3>1. n \in 1 .. N /\ n - 1 \in Nat /\ n - 1 < N /\ n - 1 \in 0 .. N /\ (n - 1) + 1 = n
      BY <1>1, <2>4
    <3>2. g[n - 1] \in Arrays
      BY <2>3, <3>1
    <3>3. putting[n - 1][g[n - 1]] = put(g[n - 1], s[(n - 1) + 1])
      BY <1>5, <3>1, <3>2
    <3> QED
      BY <2>3, <3>1, <3>3
  <2>5. g = [n \in 0 .. N |-> IF n = 0 THEN out ELSE put(g[n - 1], s[n])]
    BY <2>3, <2>4
  <2> QED
    BY <2>5
<1>7. kept = [n \in 0 .. N |-> IF n = 0 THEN <<>> ELSE keep(kept[n - 1], s[n])]
  <2>1. <<>> \in Seq(Element)
    OBVIOUS
  <2>2. Loops(Seq(Element), <<>>, keeping, N) # {}
    BY <1>1, <1>4, <2>1, LoopRuns
  <2>3. PICK g \in [0 .. N -> Seq(Element)] : g[0] = <<>> /\ \A n \in 1 .. N : g[n] = keeping[n - 1][g[n - 1]]
    BY <2>2 DEF Loops
  <2>4. ASSUME NEW n \in 0 .. N, n # 0 PROVE g[n] = keep(g[n - 1], s[n])
    <3>1. n \in 1 .. N /\ n - 1 \in Nat /\ n - 1 < N /\ n - 1 \in 0 .. N /\ (n - 1) + 1 = n
      BY <1>1, <2>4
    <3>2. g[n - 1] \in Seq(Element)
      BY <2>3, <3>1
    <3>3. keeping[n - 1][g[n - 1]] = keep(g[n - 1], s[(n - 1) + 1])
      BY <1>5, <3>1, <3>2
    <3> QED
      BY <2>3, <3>1, <3>3
  <2>5. g = [n \in 0 .. Len(s) |-> IF n = 0 THEN <<>> ELSE keep(g[n - 1], s[n])]
    BY <1>1, <2>3, <2>4
  <2>6. kept = [n \in 0 .. Len(s) |-> IF n = 0 THEN <<>> ELSE keep(kept[n - 1], s[n])]
    BY <2>5
  <2> HIDE DEF kept
  <2> QED
    BY <1>1, <2>6
<1> HIDE DEF filtered, kept
<1> DEFINE Good(n) == /\ IsArray(filtered[n]) /\ kept[n] \in Seq(Element)
                      /\ Ar!In(filtered[n]) = Ar!In(out) \o kept[n]
<1>8. Ar!In(out) \in Seq(Element)
  BY ListSequence
<1>9. Good(0)
  <2>1. filtered[0] = out /\ kept[0] = <<>>
    BY <1>1, <1>6, <1>7
  <2> QED
    BY <1>8, <2>1
<1>10. ASSUME NEW n \in 0 .. N - 1, Good(n) PROVE Good(n + 1)
  <2>1. n + 1 \in 0 .. N /\ n + 1 # 0 /\ (n + 1) - 1 = n
    BY <1>1
  <2>2. filtered[n + 1] = put(filtered[n], s[n + 1]) /\ kept[n + 1] = keep(kept[n], s[n + 1])
    BY <1>6, <1>7, <2>1
  <2>3. IsArray(filtered[n + 1]) /\ Ar!In(filtered[n + 1]) = keep(Ar!In(out) \o kept[n], s[n + 1])
    BY <1>2, <1>10, <2>2
  <2>4. kept[n + 1] \in Seq(Element)
    BY <1>3, <1>10, <2>2
  <2>5. keep(Ar!In(out) \o kept[n], s[n + 1]) = Ar!In(out) \o keep(kept[n], s[n + 1])
    <3>1. s[n + 1] \in Element /\ kept[n] \in Seq(Element)
      BY <1>1, <1>10
    <3>2. Append(Ar!In(out) \o kept[n], s[n + 1]) = Ar!In(out) \o Append(kept[n], s[n + 1])
      BY <1>8, <3>1, AppendedToBoth
    <3> QED
      BY <3>2 DEF keep
  <2> QED
    BY <2>2, <2>3, <2>4, <2>5
<1> HIDE DEF Good
<1>11. \A n \in 0 .. N : Good(n)
  <2> DEFINE A == {n \in Nat : n =< N => Good(n)}
  <2>1. 0 \in A
    BY <1>9
  <2>2. ASSUME NEW n \in A PROVE n + 1 \in A
    <3>1. n \in Nat /\ (n =< N => Good(n))
      OBVIOUS
    <3>2. ASSUME n + 1 =< N PROVE Good(n + 1)
      <4>1. n \in 0 .. N - 1 /\ n =< N
        BY <1>1, <3>1, <3>2
      <4> QED
        BY <1>10, <3>1, <4>1
    <3> QED
      BY <3>1, <3>2
  <2>3. A \subseteq Nat
    OBVIOUS
  <2> HIDE DEF A
  <2>4. A = Nat
    BY <2>1, <2>2, <2>3, Induction
  <2> QED
    BY <1>1, <2>4 DEF A
<1>12. Good(N)
  BY <1>1, <1>11
<1> QED
  BY <1>1, <1>a, <1>b, <1>12 DEF Good

\* list_insert and list_remove are InsertAt and RemoveAt.
LEMMA InsertedInSequence ==
  ASSUME NEW l, IsArray(l), NEW e \in Element, NEW pos \in 0 .. l.len
  PROVE  /\ IsArray(Ar!list_insert(l, pos, e))
         /\ Ar!In(Ar!list_insert(l, pos, e)) = Ar!Abstract!InsertAt(Ar!In(l), pos + 1, e)
<1> DEFINE m == Ar!list_insert(l, pos, e)
           s == Ar!In(l)
           t == Ar!Abstract!InsertAt(s, pos + 1, e)
<1>1. HasInserted(m, l, pos, e)
  BY ElementInserted
<1>2. s \in Seq(Element) /\ Len(s) = l.len /\ \A k \in 1 .. l.len : s[k] = l.data[k - 1]
  BY ListSequence
<1>3. pos \in 0 .. Len(s)
  BY <1>2
<1> HIDE DEF m, s
<1>4. /\ t \in Seq(Element) /\ Len(t) = Len(s) + 1
      /\ \A k \in 1 .. Len(s) + 1 : t[k] = IF k =< pos THEN s[k] ELSE IF k = pos + 1 THEN e ELSE s[k - 1]
  BY <1>2, <1>3, InsertedAt
<1> HIDE DEF t
<1>5. IsArray(m) /\ m.len = l.len + 1 /\ l.len \in Nat /\ pos \in Nat
  BY <1>1 DEF HasInserted, IsArray
<1>6. ASSUME NEW k \in 1 .. m.len PROVE t[k] = m.data[k - 1]
  <2>1. k - 1 \in 0 .. l.len /\ k \in 1 .. l.len + 1 /\ (k - 1 < pos <=> k =< pos) /\ (k - 1 = pos <=> k = pos + 1)
    BY <1>5
  <2>2. m.data[k - 1] = IF k - 1 < pos THEN l.data[k - 1] ELSE IF k - 1 = pos THEN e ELSE l.data[(k - 1) - 1]
    BY <1>1, <2>1 DEF HasInserted
  <2>3. t[k] = IF k =< pos THEN s[k] ELSE IF k = pos + 1 THEN e ELSE s[k - 1]
    BY <1>2, <1>4, <2>1
  <2>4. CASE k =< pos
    <3>1. k \in 1 .. l.len
      BY <1>5, <2>4
    <3> QED
      BY <1>2, <2>1, <2>2, <2>3, <2>4, <3>1
  <2>5. CASE k = pos + 1
    BY <1>5, <2>1, <2>2, <2>3, <2>5
  <2>6. CASE k > pos + 1
    <3>1. k - 1 \in 1 .. l.len /\ ~(k =< pos) /\ k # pos + 1
      BY <1>5, <2>6
    <3> QED
      BY <1>2, <2>1, <2>2, <2>3, <3>1
  <2> QED
    BY <1>5, <2>4, <2>5, <2>6
<1>7. Ar!In(m) = t
  BY <1>2, <1>4, <1>5, <1>6, SameSequence
<1> QED
  BY <1>5, <1>7 DEF m, s, t

LEMMA RemovedFromSequence ==
  ASSUME NEW l, IsArray(l), NEW pos \in 0 .. l.len - 1
  PROVE  /\ IsArray(Ar!list_remove(l, pos))
         /\ Ar!In(Ar!list_remove(l, pos)) = Ar!Abstract!RemoveAt(Ar!In(l), pos + 1)
<1> DEFINE m == Ar!list_remove(l, pos)
           s == Ar!In(l)
           t == Ar!Abstract!RemoveAt(s, pos + 1)
<1>1. /\ IsArray(m) /\ m.len = l.len - 1
      /\ \A k \in 0 .. l.len - 2 : m.data[k] = IF k < pos THEN l.data[k] ELSE l.data[k + 1]
  BY ElementRemoved
<1>2. s \in Seq(Element) /\ Len(s) = l.len /\ \A k \in 1 .. l.len : s[k] = l.data[k - 1]
  BY ListSequence
<1>3. pos \in 0 .. Len(s) - 1
  BY <1>2
<1> HIDE DEF m, s
<1>4. /\ t \in Seq(Element) /\ Len(t) = Len(s) - 1
      /\ \A k \in 1 .. Len(s) - 1 : t[k] = IF k =< pos THEN s[k] ELSE s[k + 1]
  BY <1>2, <1>3, RemovedAt
<1> HIDE DEF t
<1>5. l.len \in Nat /\ pos \in Nat
  BY DEF IsArray
<1>6. ASSUME NEW k \in 1 .. m.len PROVE t[k] = m.data[k - 1]
  <2>1. k - 1 \in 0 .. l.len - 2 /\ k \in 1 .. l.len - 1 /\ k \in 1 .. l.len /\ k + 1 \in 1 .. l.len
        /\ (k - 1 < pos <=> k =< pos) /\ (k - 1) + 1 = k /\ (k + 1) - 1 = k
    BY <1>1, <1>5
  <2>2. m.data[k - 1] = IF k =< pos THEN l.data[k - 1] ELSE l.data[k]
    BY <1>1, <2>1
  <2>3. t[k] = IF k =< pos THEN s[k] ELSE s[k + 1]
    BY <1>2, <1>4, <2>1
  <2> QED
    BY <1>2, <2>1, <2>2, <2>3
<1>7. Ar!In(m) = t
  BY <1>1, <1>2, <1>4, <1>6, SameSequence
<1> QED
  BY <1>1, <1>7 DEF m, s, t

\* list_map1 has the results in an empty list.
LEMMA ListMapped1 ==
  ASSUME NEW f \in [Element -> Element], NEW out, IsArray(out), out.len = 0, NEW in, IsArray(in)
  PROVE  /\ IsArray(Ar!list_map1(f, out, in))
         /\ Ar!In(Ar!list_map1(f, out, in)) = Ar!In(out) \o [k \in DOMAIN Ar!In(in) |-> f[Ar!In(in)[k]]]
<1> DEFINE s == Ar!In(in)
           results == [k \in 1 .. in.len |-> f[s[k]]]
<1>1. s \in Seq(Element) /\ Len(s) = in.len /\ DOMAIN s = 1 .. in.len /\ in.len \in Nat
  BY ListSequence DEF IsArray
<1> HIDE DEF s
<1>2. results \in Seq(Element)
  <2>1. \A k \in 1 .. in.len : f[s[k]] \in Element
    BY <1>1
  <2>2. results \in [1 .. in.len -> Element]
    BY <2>1
  <2> QED
    BY <1>1, <2>2
<1>3. results = [k \in DOMAIN s |-> f[s[k]]]
  BY <1>1
<1>4. Ar!list_map1(f, out, in) = Ar!Mapped(out, results)
  BY DEF Ar!list_map1, s
<1> HIDE DEF results
<1>5. IsArray(Ar!Mapped(out, results)) /\ Ar!In(Ar!Mapped(out, results)) = results
  BY <1>2, ResultsMapped
<1>6. Ar!In(out) \o results = results
  <2>1. Ar!In(out) = <<>>
    <3>1. Ar!In(out) \in Seq(Element) /\ Len(Ar!In(out)) = 0
      BY ListSequence
    <3> QED
      BY <3>1
  <2> QED
    BY <1>2, <2>1, ConcatEmptySeq
<1> QED
  BY <1>3, <1>4, <1>5, <1>6 DEF s

\* Two sequences are mapped as far as both go.
Both(f, s, t) == [k \in DOMAIN s \cap DOMAIN t |-> f[s[k]][t[k]]]

\* list_map2 has the results in an empty list.
LEMMA ListMapped2 ==
  ASSUME NEW f \in [Element -> [Element -> Element]], NEW out, IsArray(out), out.len = 0,
         NEW in0, IsArray(in0), NEW in1, IsArray(in1)
  PROVE  /\ IsArray(Ar!list_map2(f, out, in0, in1))
         /\ Ar!In(Ar!list_map2(f, out, in0, in1))
              = Ar!In(out) \o Both(f, Ar!In(in0), Ar!In(in1))
<1> DEFINE s == Ar!In(in0)
           t == Ar!In(in1)
           N == IF in0.len >= in1.len THEN in1.len ELSE in0.len
           results == [k \in 1 .. N |-> f[s[k]][t[k]]]
<1>1. /\ s \in Seq(Element) /\ DOMAIN s = 1 .. in0.len /\ in0.len \in Nat
      /\ t \in Seq(Element) /\ DOMAIN t = 1 .. in1.len /\ in1.len \in Nat
  BY ListSequence DEF IsArray
<1>2. Ar!list_map2(f, out, in0, in1) = Ar!Mapped(out, results)
  BY DEF Ar!list_map2
<1> HIDE DEF s, t
<1>3. N \in Nat /\ 1 .. N = DOMAIN s \cap DOMAIN t
  BY <1>1
<1> HIDE DEF N
<1>4. results \in Seq(Element)
  <2>1. \A k \in 1 .. N : k \in DOMAIN s /\ k \in DOMAIN t
    BY <1>3
  <2>2. \A k \in 1 .. N : s[k] \in Element /\ t[k] \in Element
    BY <1>1, <2>1
  <2>3. \A k \in 1 .. N : f[s[k]][t[k]] \in Element
    BY <2>2
  <2>4. results \in [1 .. N -> Element]
    BY <2>3
  <2> QED
    BY <1>3, <2>4
<1>5. results = Both(f, s, t)
  BY <1>3 DEF Both
<1> HIDE DEF results
<1>6. IsArray(Ar!Mapped(out, results)) /\ Ar!In(Ar!Mapped(out, results)) = results
  BY <1>4, ResultsMapped
<1>7. Ar!In(out) \o results = results
  <2>1. Ar!In(out) = <<>>
    <3>1. Ar!In(out) \in Seq(Element) /\ Len(Ar!In(out)) = 0
      BY ListSequence
    <3> QED
      BY <3>1
  <2> QED
    BY <1>4, <2>1, ConcatEmptySeq
<1> QED
  BY <1>2, <1>5, <1>6, <1>7 DEF s, t

\* The functions of test.c go from elements to elements.
LEMMA FunctionsOfElements ==
  Ar!inc \in [Element -> Element] /\ Ar!add \in [Element -> [Element -> Element]]
<1>1. PICK last \in Element : Element = 0 .. last
  BY ElementAssumption
<1>2. last \in Nat /\ \A e \in Element : e \in Nat
  BY ElementAssumption
<1>3. Ar!Size = last + 1
  <2> DEFINE greatest == CHOOSE e \in Element : \A d \in Element : d =< e
  <2>1. last \in Element /\ \A d \in Element : d =< last
    BY <1>1, <1>2
  <2>2. greatest \in Element /\ \A d \in Element : d =< greatest
    BY <2>1
  <2>3. Ar!Size = 1 + greatest
    BY DEF Ar!Size
  <2> HIDE DEF greatest
  <2>4. greatest = last
    BY <1>1, <1>2, <2>1, <2>2
  <2> QED
    BY <1>2, <2>3, <2>4
<1>4. \A n \in Nat : n % Ar!Size \in Element
  BY <1>1, <1>2, <1>3
<1>5. \A e \in Element : (e + 1) % Ar!Size \in Element
  BY <1>2, <1>4
<1>6. \A a, b \in Element : (a + b) % Ar!Size \in Element
  BY <1>2, <1>4
<1>7. Ar!inc \in [Element -> Element]
  BY <1>5 DEF Ar!inc
<1>8. Ar!add \in [Element -> [Element -> Element]]
  BY <1>6 DEF Ar!add
<1> QED
  BY <1>7, <1>8

\* Each list lies in its array.
ListsInv == lists = [l \in Lists |-> lists[l]] /\ \A l \in Lists : IsArray(lists[l])

\* A list is created in an array, and empty.
LEMMA ListsInit == Ar!Init => ListsInv
<1> SUFFICES ASSUME Ar!Init PROVE ListsInv
  OBVIOUS
<1>1. IsArray(Ar!list_create)
  <2>1. INITIAL_SIZE \in Nat \ {0}
    BY ArrayAssumption
  <2>2. [k \in 0 .. INITIAL_SIZE - 1 |-> Ar!Junk] \in [0 .. INITIAL_SIZE - 1 -> Value]
    BY DEF Value
  <2> QED
    BY <2>1, <2>2 DEF IsArray, Ar!list_create
<1> QED
  BY <1>1 DEF Ar!Init, ListsInv

\* The call of an operation gives a list another array and, in list.h, another sequence.
LEMMA ListBecomes ==
  ASSUME ListsInv, NEW l \in Lists, NEW m, IsArray(m), NEW s, Ar!In(m) = s, Ar!Becomes(l, m)
  PROVE  ListsInv' /\ Ar!Abstract!Becomes(l, s)
<1>1. lists' = [lists EXCEPT ![l] = m] /\ lists = [k \in Lists |-> lists[k]]
  BY DEF Ar!Becomes, ListsInv
<1>2. lists' = [k \in Lists |-> IF k = l THEN m ELSE lists[k]]
  BY <1>1
<1>3. ListsInv'
  BY <1>2 DEF ListsInv
<1>4. [k \in Lists |-> Ar!In(lists'[k])] = [[k \in Lists |-> Ar!In(lists[k])] EXCEPT ![l] = s]
  BY <1>2
<1> QED
  BY <1>3, <1>4 DEF Ar!Abstract!Becomes

\* Each call keeps its list in its array, and is what list.h says.
LEMMA ListsStep == ListsInv /\ Ar!Next => ListsInv' /\ Ar!Abstract!Next(Ar!isEven, Ar!inc, Ar!add)
<1> SUFFICES ASSUME ListsInv, Ar!Next PROVE ListsInv' /\ Ar!Abstract!Next(Ar!isEven, Ar!inc, Ar!add)
  OBVIOUS
<1> DEFINE at == [l \in Lists |-> Ar!In(lists[l])]
<1>1. \A l \in Lists : IsArray(lists[l]) /\ at[l] = Ar!In(lists[l]) /\ Len(Ar!In(lists[l])) = lists[l].len
  BY ListSequence DEF ListsInv
<1>2. DOMAIN at = Lists
  OBVIOUS
<1> HIDE DEF at
<1>3. ASSUME NEW l \in Lists, NEW e \in Element, Ar!Becomes(l, Ar!list_append(lists[l], e))
      PROVE  ListsInv' /\ Ar!Abstract!Append1(l, e)
  <2>1. HasInserted(Ar!list_append(lists[l], e), lists[l], lists[l].len, e)
    BY <1>1, ElementAppended DEF Ar!list_append
  <2>2. /\ IsArray(Ar!list_append(lists[l], e))
        /\ Ar!In(Ar!list_append(lists[l], e)) = Append(at[l], e)
    BY <1>1, <2>1, SequenceAppended
  <2> QED
    BY <1>3, <2>2, ListBecomes DEF Ar!Abstract!Append1, at
<1>4. ASSUME NEW l \in Lists, NEW e \in Element, Ar!Becomes(l, Ar!list_append_array(lists[l], <<e, e>>))
      PROVE  ListsInv' /\ Ar!Abstract!Join(l, <<e, e>>)
  <2>1. /\ IsArray(Ar!list_append_array(lists[l], <<e, e>>))
        /\ Ar!In(Ar!list_append_array(lists[l], <<e, e>>)) = at[l] \o <<e, e>>
    BY <1>1, TwoAppended
  <2> QED
    BY <1>4, <2>1, ListBecomes DEF Ar!Abstract!Join, at
<1>5. ASSUME NEW l \in Lists, NEW e \in Element, NEW pos \in 0 .. lists[l].len,
             Ar!Becomes(l, Ar!list_insert(lists[l], pos, e))
      PROVE  ListsInv' /\ Ar!Abstract!Insert(l, pos, e)
  <2>1. /\ IsArray(Ar!list_insert(lists[l], pos, e))
        /\ Ar!In(Ar!list_insert(lists[l], pos, e)) = Ar!Abstract!InsertAt(at[l], pos + 1, e)
    BY <1>1, InsertedInSequence
  <2> QED
    BY <1>5, <2>1, ListBecomes DEF Ar!Abstract!Insert, at
<1>6. ASSUME NEW l \in Lists, NEW pos \in 0 .. lists[l].len - 1, Ar!Becomes(l, Ar!list_remove(lists[l], pos))
      PROVE  ListsInv' /\ Ar!Abstract!Take(l, pos)
  <2>1. /\ IsArray(Ar!list_remove(lists[l], pos))
        /\ Ar!In(Ar!list_remove(lists[l], pos)) = Ar!Abstract!RemoveAt(at[l], pos + 1)
    BY <1>1, RemovedFromSequence
  <2> QED
    BY <1>6, <2>1, ListBecomes DEF Ar!Abstract!Take, at
<1>7. ASSUME NEW l \in Lists, NEW in \in Lists, Ar!Becomes(l, Ar!list_filter(Ar!isEven, lists[l], lists[in]))
      PROVE  ListsInv' /\ Ar!Abstract!Filter(Ar!isEven, l, in)
  <2> DEFINE out == lists[l]
             from == lists[in]
  <2>0. IsArray(out) /\ IsArray(from)
    BY <1>1
  <2> HIDE DEF out, from
  <2>1. /\ IsArray(Ar!list_filter(Ar!isEven, out, from))
        /\ Ar!In(Ar!list_filter(Ar!isEven, out, from)) = Ar!In(out) \o Ar!Abstract!Selected(Ar!isEven, Ar!In(from))
    BY <2>0, ListFiltered
  <2> USE DEF out, from
  <2> QED
    BY <1>7, <2>1, ListBecomes DEF Ar!Abstract!Filter
<1>8. ASSUME NEW l \in Lists, NEW in \in Lists, lists[l].len = 0,
             Ar!Becomes(l, Ar!list_map1(Ar!inc, lists[l], lists[in]))
      PROVE  ListsInv' /\ Ar!Abstract!Map1(Ar!inc, l, in)
  <2> DEFINE out == lists[l]
             from == lists[in]
  <2>0. IsArray(out) /\ out.len = 0 /\ IsArray(from)
    BY <1>1, <1>8
  <2> HIDE DEF out, from
  <2>1. /\ IsArray(Ar!list_map1(Ar!inc, out, from))
        /\ Ar!In(Ar!list_map1(Ar!inc, out, from))
             = Ar!In(out) \o [k \in DOMAIN Ar!In(from) |-> Ar!inc[Ar!In(from)[k]]]
    BY <2>0, ListMapped1, FunctionsOfElements
  <2> USE DEF out, from
  <2> QED
    BY <1>8, <2>1, ListBecomes DEF Ar!Abstract!Map1
<1>9. ASSUME NEW l \in Lists, NEW in0 \in Lists, NEW in1 \in Lists, lists[l].len = 0,
             Ar!Becomes(l, Ar!list_map2(Ar!add, lists[l], lists[in0], lists[in1]))
      PROVE  ListsInv' /\ Ar!Abstract!Map2(Ar!add, l, in0, in1)
  <2> DEFINE out == lists[l]
             from0 == lists[in0]
             from1 == lists[in1]
  <2>0. IsArray(out) /\ out.len = 0 /\ IsArray(from0) /\ IsArray(from1)
    BY <1>1, <1>9
  <2> HIDE DEF out, from0, from1
  <2>1. /\ IsArray(Ar!list_map2(Ar!add, out, from0, from1))
        /\ Ar!In(Ar!list_map2(Ar!add, out, from0, from1))
             = Ar!In(out) \o Both(Ar!add, Ar!In(from0), Ar!In(from1))
    BY <2>0, ListMapped2, FunctionsOfElements
  <2> USE DEF out, from0, from1
  <2> QED
    BY <1>9, <2>1, ListBecomes DEF Ar!Abstract!Map2, Both
<1>10. PICK l \in Lists :
         \/ \E e \in Element :
              \/ Ar!Becomes(l, Ar!list_append(lists[l], e))
              \/ Ar!Becomes(l, Ar!list_append_array(lists[l], <<e, e>>))
              \/ \E pos \in 0 .. lists[l].len : Ar!Becomes(l, Ar!list_insert(lists[l], pos, e))
         \/ \E pos \in 0 .. lists[l].len - 1 : Ar!Becomes(l, Ar!list_remove(lists[l], pos))
         \/ \E in \in Lists \ {l} :
              \/ Ar!Becomes(l, Ar!list_filter(Ar!isEven, lists[l], lists[in]))
              \/ lists[l].len = 0 /\ Ar!Becomes(l, Ar!list_map1(Ar!inc, lists[l], lists[in]))
              \/ \E in1 \in Lists \ {l} :
                   lists[l].len = 0 /\ Ar!Becomes(l, Ar!list_map2(Ar!add, lists[l], lists[in], lists[in1]))
  BY DEF Ar!Next
<1>11. ListsInv' /\ \E m, n \in Lists :
         \/ \E e \in Element : \/ Ar!Abstract!Append1(l, e) \/ Ar!Abstract!Join(l, <<e, e>>)
                               \/ \E pos \in 0 .. Len(at[l]) : Ar!Abstract!Insert(l, pos, e)
         \/ \E pos \in 0 .. Len(at[l]) - 1 : Ar!Abstract!Take(l, pos)
         \/ l # m /\ (Ar!Abstract!Filter(Ar!isEven, l, m) \/ Ar!Abstract!Map1(Ar!inc, l, m))
         \/ l \notin {m, n} /\ Ar!Abstract!Map2(Ar!add, l, m, n)
  <2>0. Len(at[l]) = lists[l].len
    BY <1>1
  <2>1. CASE \E e \in Element : Ar!Becomes(l, Ar!list_append(lists[l], e))
    BY <1>3, <2>1
  <2>2. CASE \E e \in Element : Ar!Becomes(l, Ar!list_append_array(lists[l], <<e, e>>))
    BY <1>4, <2>2
  <2>3. CASE \E e \in Element : \E pos \in 0 .. lists[l].len : Ar!Becomes(l, Ar!list_insert(lists[l], pos, e))
    BY <1>5, <2>0, <2>3
  <2>4. CASE \E pos \in 0 .. lists[l].len - 1 : Ar!Becomes(l, Ar!list_remove(lists[l], pos))
    BY <1>6, <2>0, <2>4
  <2>5. CASE \E in \in Lists \ {l} : Ar!Becomes(l, Ar!list_filter(Ar!isEven, lists[l], lists[in]))
    BY <1>7, <2>5
  <2>6. CASE \E in \in Lists \ {l} : lists[l].len = 0 /\ Ar!Becomes(l, Ar!list_map1(Ar!inc, lists[l], lists[in]))
    BY <1>8, <2>6
  <2>7. CASE \E in, in1 \in Lists \ {l} :
               lists[l].len = 0 /\ Ar!Becomes(l, Ar!list_map2(Ar!add, lists[l], lists[in], lists[in1]))
    BY <1>9, <2>7
  <2> QED
    BY <1>10, <2>1, <2>2, <2>3, <2>4, <2>5, <2>6, <2>7
<1> QED
  BY <1>2, <1>11 DEF Ar!Abstract!Next, at

\* The lists stay in their arrays, whoever is called; and what changes them is a call of list.h.
LEMMA ListsNext ==
  ListsInv /\ [DataNext]_data => ListsInv' /\ (Ar!Abstract!Next(Ar!isEven, Ar!inc, Ar!add) \/ UNCHANGED lists)
<1> SUFFICES ASSUME ListsInv, [DataNext]_data
             PROVE  ListsInv' /\ (Ar!Abstract!Next(Ar!isEven, Ar!inc, Ar!add) \/ UNCHANGED lists)
  OBVIOUS
<1>1. CASE CallList
  BY <1>1, ListsStep DEF CallList
<1>2. CASE UNCHANGED lists
  BY <1>2 DEF ListsInv, IsArray
<1>3. CallList \/ UNCHANGED lists
  BY DEF DataNext, CallHeap, UseElements, ReadArgument, data
<1> QED
  BY <1>1, <1>2, <1>3

\* Nothing is written behind the end of an array, and a list has no more elements than its array
\* has places.
THEOREM ListsInsideArrays == DataSpec => []InsideArray
<1>1. DataInit => ListsInv
  BY ListsInit DEF DataInit
<1>2. ListsInv => InsideArray
  BY DEF ListsInv, IsArray, InsideArray, Ar!InsideArray
<1> QED
  BY <1>1, <1>2, ListsNext, PTL DEF DataSpec

\* The arrays implement the sequences of list.h, each call as its comment says.
THEOREM ListsActAsSequences == DataSpec => ActsAsSequence
<1>1. DataInit => ListsInv
  BY ListsInit DEF DataInit
<1>2. ListsInv /\ [DataNext]_data => ListsInv' /\ [Ar!Abstract!Next(Ar!isEven, Ar!inc, Ar!add)]_lists
  BY ListsNext
<1> QED
  BY <1>1, <1>2, PTL DEF DataSpec, ActsAsSequence, Ar!ActsAsSequence

\* The least and the greatest of a set of nodes.
LEMMA Ends ==
  ASSUME NEW S, S \subseteq Nat \ {0}, NEW x
  PROVE  /\ (x = 0 /\ S = {}) \/ (x \in S /\ \A y \in S : x =< y) => El!FirstOf(S) = x
         /\ (x = 0 /\ S = {}) \/ (x \in S /\ \A y \in S : y =< x) => El!LastOf(S) = x
<1>1. ASSUME x \in S, \A y \in S : x =< y PROVE El!FirstOf(S) = x
  <2>1. \A z \in S : (\A y \in S : z =< y) => z = x
    BY <1>1
  <2>2. El!Min(S) = x
    BY <1>1, <2>1 DEF El!Min
  <2> QED
    BY <1>1, <2>2 DEF El!FirstOf
<1>2. ASSUME x \in S, \A y \in S : y =< x PROVE El!LastOf(S) = x
  <2>1. \A z \in S : (\A y \in S : z >= y) => z = x
    BY <1>2
  <2>2. \A y \in S : x >= y
    BY <1>2
  <2>3. El!Max(S) = x
    BY <1>2, <2>1, <2>2 DEF El!Max
  <2> QED
    BY <1>2, <2>3 DEF El!LastOf
<1>3. S = {} => El!FirstOf(S) = 0 /\ El!LastOf(S) = 0
  BY DEF El!FirstOf, El!LastOf
<1> QED
  BY <1>1, <1>2, <1>3

\* The links of the invariant are those to the nodes added before and after.
LEMMA ListLinked == ElemInv => El!Linked
<1> SUFFICES ASSUME ElemInv PROVE El!Linked
  OBVIOUS
<1>1. /\ list \in [head : Nat, tail : Nat] /\ Nodes \subseteq Nat \ {0}
      /\ list_node \in [Nodes -> [elem : Elements, prev : Nat, next : Nat]]
  BY DEF ElemInv, ElemType
<1>2. /\ IsNext(list.head, 0, Nodes)
      /\ IF Nodes = {} THEN list.tail = 0 ELSE list.tail \in Nodes /\ IsNext(0, list.tail, Nodes)
      /\ \A n \in Nodes : IsPrev(list_node[n].prev, n, Nodes) /\ IsNext(list_node[n].next, n, Nodes)
  BY DEF ElemInv, LinkInv
<1>3. \A n \in Nodes : n \in Nat /\ 0 < n
  BY <1>1
<1>4. El!FirstOf(Nodes) = list.head
  <2>1. (list.head = 0 /\ Nodes = {}) \/ (list.head \in Nodes /\ \A y \in Nodes : list.head =< y)
    BY <1>2, <1>3 DEF IsNext
  <2> HIDE DEF Nodes
  <2> QED
    BY <1>1, <2>1, Ends
<1>5. El!LastOf(Nodes) = list.tail
  <2>1. (list.tail = 0 /\ Nodes = {}) \/ (list.tail \in Nodes /\ \A y \in Nodes : y =< list.tail)
    BY <1>2, <1>3 DEF IsNext
  <2> QED
    BY <1>1, <2>1, Ends
<1>6. ASSUME NEW n \in Nodes
      PROVE  /\ list_node[n].prev = El!LastOf({m \in Nodes : m < n})
             /\ list_node[n].next = El!FirstOf({m \in Nodes : m > n})
  <2> DEFINE before == {m \in Nodes : m < n}
             after == {m \in Nodes : m > n}
             p == list_node[n].prev
             q == list_node[n].next
  <2>1. before \subseteq Nat \ {0} /\ after \subseteq Nat \ {0}
    BY <1>1
  <2>2. IsPrev(p, n, Nodes) /\ IsNext(q, n, Nodes)
    BY <1>2
  <2> HIDE DEF p, q
  <2>3. (p = 0 /\ before = {}) \/ (p \in before /\ \A y \in before : y =< p)
    BY <1>3, <2>2 DEF IsPrev
  <2>4. (q = 0 /\ after = {}) \/ (q \in after /\ \A y \in after : q =< y)
    BY <1>3, <2>2 DEF IsNext
  <2> HIDE DEF before, after
  <2>5. p = El!LastOf(before) /\ q = El!FirstOf(after)
    BY <2>1, <2>3, <2>4, Ends
  <2> QED
    BY <2>5 DEF p, q, before, after
<1>7. list = [head |-> list.head, tail |-> list.tail]
  BY <1>1
<1> QED
  BY <1>4, <1>5, <1>6, <1>7 DEF El!Linked, Nodes

\* What is below a node on one side has a path that begins with that of its child.
LEMMA BelowTurns ==
  ASSUME NEW p \in Paths, NEW turn \in {"L", "R"}, NEW q \in Paths
  PROVE  El!IsPrefix(Append(p, turn), q) <=> Turns(p, turn, q)
<1> DEFINE on == Append(p, turn)
<1>1. on \in Paths /\ on \in Seq({"L", "R"}) /\ q \in Seq({"L", "R"}) /\ Len(on) \in Nat /\ Len(q) \in Nat
  BY Sides DEF Paths
<1>2. Under(on, q) <=> Turns(p, turn, q)
  BY Sides
<1> HIDE DEF on
<1>3. Under(on, q) => El!IsPrefix(on, q)
  <2> SUFFICES ASSUME Under(on, q) PROVE El!IsPrefix(on, q)
    OBVIOUS
  <2>1. SubSeq(q, 1, Len(on)) = on /\ Len(on) =< Len(q)
    BY <1>1, Beginning DEF Under
  <2>2. SubSeq(on, 1, Len(on)) = on
    BY <1>1
  <2> QED
    BY <2>1, <2>2 DEF El!IsPrefix
<1>4. El!IsPrefix(on, q) => Under(on, q)
  <2> SUFFICES ASSUME El!IsPrefix(on, q) PROVE Under(on, q)
    OBVIOUS
  <2>1. Len(on) =< Len(q) /\ SubSeq(on, 1, Len(on)) = SubSeq(q, 1, Len(on))
    BY DEF El!IsPrefix
  <2>2. ASSUME NEW k \in 1 .. Len(on) PROVE q[k] = on[k]
    <3>1. SubSeq(on, 1, Len(on))[k] = on[k] /\ SubSeq(q, 1, Len(on))[k] = q[k]
      BY <1>1, <2>1
    <3> QED
      BY <2>1, <3>1
  <2> QED
    BY <2>1, <2>2 DEF Under
<1> QED
  BY <1>2, <1>3, <1>4 DEF on

\* The tree of elements is a search tree by their ranks.
LEMMA TreeSearched == ElemInv /\ TreeInv => El!SearchTree
<1> SUFFICES ASSUME ElemInv, TreeInv PROVE El!SearchTree
  OBVIOUS
<1> DEFINE Rank(e) == <<IF elem[e].class = "int" THEN 0 ELSE 1, elem[e].value>>
           Above(d, e) == \/ Rank(d)[1] > Rank(e)[1]
                          \/ Rank(d)[1] = Rank(e)[1] /\ Rank(d)[2] > Rank(e)[2]
<1>1. /\ ElemType /\ tree \in [DOMAIN tree -> Elements] /\ DOMAIN tree \subseteq Paths
      /\ Searchable(tree, Ascent)
  BY DEF ElemInv, ElemType, TreeInv
<1>2. ASSUME NEW d \in Elements, NEW e \in Elements
      PROVE  <<d, e>> \in Ascent <=> ~Above(d, e)
  <2>1. /\ elem[d].class \in {"int", "str"} /\ elem[d].value \in Int
        /\ elem[e].class \in {"int", "str"} /\ elem[e].value \in Int
        /\ <<d, e>> \in Ascent <=>
              \/ elem[d].class = "int" /\ elem[e].class = "str"
              \/ elem[d].class = elem[e].class /\ elem[d].value =< elem[e].value
    BY <1>1, Comparison
  <2>2. /\ Rank(d)[1] = (IF elem[d].class = "int" THEN 0 ELSE 1) /\ Rank(d)[2] = elem[d].value
        /\ Rank(e)[1] = (IF elem[e].class = "int" THEN 0 ELSE 1) /\ Rank(e)[2] = elem[e].value
    OBVIOUS
  <2> QED
    BY <2>1, <2>2
<1>3. ASSUME NEW p \in DOMAIN tree, NEW q \in DOMAIN tree
      PROVE  /\ El!IsPrefix(Append(p, "L"), q) => ~Above(tree[q], tree[p])
             /\ El!IsPrefix(Append(p, "R"), q) => Above(tree[q], tree[p])
  <2>1. /\ Turns(p, "L", q) => <<tree[q], tree[p]>> \in Ascent
        /\ Turns(p, "R", q) => <<tree[q], tree[p]>> \notin Ascent
    BY <1>1 DEF Searchable
  <2>2. p \in Paths /\ q \in Paths /\ tree[p] \in Elements /\ tree[q] \in Elements
    BY <1>1
  <2>3. \A turn \in {"L", "R"} : El!IsPrefix(Append(p, turn), q) <=> Turns(p, turn, q)
    BY <2>2, BelowTurns
  <2>4. <<tree[q], tree[p]>> \in Ascent <=> ~Above(tree[q], tree[p])
    BY <1>2, <2>2
  <2> HIDE DEF Above
  <2> QED
    BY <2>1, <2>3, <2>4
<1> QED
  BY <1>3 DEF El!SearchTree

(***************************************************************************)
(* The tree of the arguments                                               *)
(***************************************************************************)
Upwards == {c \in values \X values : c[1] =< c[2]}

ReadIn(W) == {k \in 1 .. read : argv[k] \in W}
RootIn(W) == {p \in DOMAIN root : root[p] \in W}

\* The tree is in order and has each value as often as it has been read.
RootInv ==
  /\ argv \in Seq(values) /\ read \in 0 .. Len(argv)
  /\ root \in [DOMAIN root -> values] /\ DOMAIN root \subseteq Paths /\ IsFiniteSet(DOMAIN root)
  /\ Closed(DOMAIN root) /\ Searchable(root, Upwards)
  /\ \A W \in SUBSET values : Cardinality(RootIn(W)) = Cardinality(ReadIn(W))

\* Integers are ordered.
LEMMA UpwardsOrders ==
  ASSUME NEW t, t \in [DOMAIN t -> values]
  PROVE  Orders(Upwards, t)
<1>1. \A x, y \in values : <<x, y>> \in Upwards <=> x =< y
  BY DEF Upwards
<1>2. \A x \in values : x \in Int
  BY ValuesAssumption
<1>3. \A p \in DOMAIN t : t[p] \in values
  OBVIOUS
<1> QED
  BY <1>1, <1>2, <1>3 DEF Orders

LEMMA RootInit == DataInit => RootInv
<1> SUFFICES ASSUME DataInit PROVE RootInv
  OBVIOUS
<1>1. argv \in Seq(values) /\ read = 0 /\ root = <<>>
  <2>1. CASE subject = "binary"
    <3>1. PICK n \in 1 .. MaxArgs : \E args \in [1 .. n -> values] : Bt!Init(args)
      BY <2>1 DEF DataInit
    <3>2. PICK args \in [1 .. n -> values] : Bt!Init(args)
      BY <3>1
    <3>3. n \in Nat
      OBVIOUS
    <3>4. args \in Seq(values)
      BY <3>3
    <3> QED
      BY <3>2, <3>4 DEF Bt!Init, Bt!Leaf
  <2>2. CASE subject # "binary"
    BY <2>2 DEF DataInit, Bt!Init, Bt!Leaf
  <2> QED
    BY <2>1, <2>2
<1>2. DOMAIN root = {} /\ IsFiniteSet({}) /\ Len(argv) \in Nat
  BY <1>1, FS_EmptySet
<1>3. \A W : RootIn(W) = {} /\ ReadIn(W) = {}
  BY <1>1, <1>2 DEF RootIn, ReadIn
<1>4. Closed(DOMAIN root) /\ Searchable(root, Upwards)
  BY <1>2 DEF Closed, Searchable
<1>5. root \in [DOMAIN root -> values] /\ DOMAIN root \subseteq Paths /\ IsFiniteSet(DOMAIN root)
  BY <1>1, <1>2
<1>6. argv \in Seq(values) /\ read \in 0 .. Len(argv)
  BY <1>1, <1>2
<1>7. \A W \in SUBSET values : Cardinality(RootIn(W)) = Cardinality(ReadIn(W))
  BY <1>3
<1> QED
  BY <1>4, <1>5, <1>6, <1>7 DEF RootInv

\* An argument is read and is inserted.
LEMMA ArgumentRead ==
  ASSUME RootInv, Bt!Next
  PROVE  RootInv'
<1> DEFINE v == argv[read']
           least == {p \in DOMAIN root : v =< root[p]}
           path == Bt!Place(root, least)
<1>1. read < Len(argv) /\ read' = read + 1 /\ argv' = argv /\ root' = Bt!Grown(root, path, v)
  BY DEF Bt!Next, Bt!insert
<1>2. /\ argv \in Seq(values) /\ read \in 0 .. Len(argv) /\ root \in [DOMAIN root -> values]
      /\ DOMAIN root \subseteq Paths /\ IsFiniteSet(DOMAIN root) /\ Closed(DOMAIN root) /\ Searchable(root, Upwards)
  BY DEF RootInv
<1>3. Len(argv) \in Nat /\ read' \in 1 .. Len(argv) /\ read \in Nat /\ v \in values
  BY <1>1, <1>2
<1>4. path \in Paths /\ path \notin DOMAIN root /\ Follows(path, DOMAIN root, least)
  <2> HIDE DEF least
  <2> QED
    BY <1>2, PlaceTaken
<1>5. least = {p \in DOMAIN root : <<v, root[p]>> \in Upwards}
  <2>1. \A p \in DOMAIN root : root[p] \in values
    BY <1>2
  <2> HIDE DEF v
  <2> QED
    BY <1>3, <2>1 DEF Upwards
<1> HIDE DEF v, path, least
<1>6. root' = [p \in DOMAIN root \cup {path} |-> IF p = path THEN v ELSE root[p]]
  BY <1>1 DEF Bt!Grown
<1>7. DOMAIN root' = DOMAIN root \cup {path} /\ root' \in [DOMAIN root' -> values]
  BY <1>2, <1>3, <1>6
<1>8. IsFiniteSet(DOMAIN root')
  BY <1>2, <1>7, FS_AddElement
<1>9. Closed(DOMAIN root') /\ Searchable(root', Upwards)
  <2> DEFINE t == root
             g == root'
             R == Upwards
  <2>1. /\ DOMAIN t \subseteq Paths /\ Closed(DOMAIN t) /\ Searchable(t, R)
        /\ path \in Paths /\ path \notin DOMAIN t
        /\ Follows(path, DOMAIN t, {p \in DOMAIN t : <<v, t[p]>> \in R})
    BY <1>2, <1>4, <1>5
  <2>2. g = [p \in DOMAIN t \cup {path} |-> IF p = path THEN v ELSE t[p]]
    BY <1>6
  <2> HIDE DEF t, g, R
  <2>3. Inserted(g, t, path, v, R)
    BY <2>1, <2>2 DEF Inserted
  <2>4. Closed(DOMAIN g) /\ Searchable(g, R)
    BY <2>3, PlacedInOrder
  <2> QED
    BY <2>4 DEF g, R
<1>10. Upwards' = Upwards
  BY DEF Upwards
<1>11. ASSUME NEW W \in SUBSET values PROVE Cardinality(RootIn(W))' = Cardinality(ReadIn(W))'
  <2>1. Cardinality(RootIn(W)) = Cardinality(ReadIn(W))
    BY DEF RootInv
  <2>2. IsFiniteSet(RootIn(W)) /\ IsFiniteSet(ReadIn(W))
    <3>1. RootIn(W) \in SUBSET DOMAIN root /\ ReadIn(W) \in SUBSET (1 .. read)
      BY DEF RootIn, ReadIn
    <3>2. IsFiniteSet(1 .. read)
      BY <1>3, FS_Interval
    <3> QED
      BY <1>2, <3>1, <3>2, FS_Subset
  <2>3. CASE v \in W
    <3>1. RootIn(W)' = RootIn(W) \cup {path} /\ path \notin RootIn(W)
      BY <1>4, <1>6, <1>7, <2>3 DEF RootIn
    <3>2. ReadIn(W)' = ReadIn(W) \cup {read + 1} /\ read + 1 \notin ReadIn(W)
      <4>1. \A k : k \in 1 .. read + 1 <=> k \in 1 .. read \/ k = read + 1
        BY <1>3
      <4>2. read + 1 \notin 1 .. read
        BY <1>3
      <4>3. argv[read + 1] \in W
        BY <1>1, <2>3 DEF v
      <4> QED
        BY <1>1, <4>1, <4>2, <4>3 DEF ReadIn
    <3> DEFINE a == RootIn(W)
               b == ReadIn(W)
               m == read + 1
    <3>3. Cardinality(a) = Cardinality(b) /\ IsFiniteSet(a) /\ IsFiniteSet(b) /\ path \notin a /\ m \notin b
      BY <2>1, <2>2, <3>1, <3>2
    <3> HIDE DEF a, b, m
    <3>4. Cardinality(a \cup {path}) = Cardinality(a) + 1 /\ Cardinality(b \cup {m}) = Cardinality(b) + 1
      BY <3>3, FS_AddElement
    <3>5. Cardinality(a \cup {path}) = Cardinality(b \cup {m})
      BY <3>3, <3>4
    <3> QED
      BY <3>1, <3>2, <3>5 DEF a, b, m
  <2>4. CASE v \notin W
    <3>1. RootIn(W)' = RootIn(W)
      BY <1>4, <1>6, <1>7, <2>4 DEF RootIn
    <3>2. ReadIn(W)' = ReadIn(W)
      <4>1. \A k : k \in 1 .. read + 1 <=> k \in 1 .. read \/ k = read + 1
        BY <1>3
      <4>2. argv[read + 1] \notin W
        BY <1>1, <2>4 DEF v
      <4> QED
        BY <1>1, <4>1, <4>2 DEF ReadIn
    <3> QED
      BY <2>1, <3>1, <3>2
  <2> QED
    BY <2>3, <2>4
<1>12. argv' \in Seq(values) /\ read' \in 0 .. Len(argv')
  BY <1>1, <1>2, <1>3
<1>13. DOMAIN root' \subseteq Paths
  BY <1>2, <1>4, <1>7
<1> QED
  BY <1>7, <1>8, <1>9, <1>10, <1>11, <1>12, <1>13 DEF RootInv

LEMMA RootStep == RootInv /\ [DataNext]_data => RootInv'
<1>1. ASSUME RootInv, UNCHANGED binary PROVE RootInv'
  <2>1. argv' = argv /\ read' = read /\ root' = root
    BY <1>1 DEF binary
  <2>2. \A W : RootIn(W)' = RootIn(W) /\ ReadIn(W)' = ReadIn(W)
    BY <2>1 DEF RootIn, ReadIn
  <2> QED
    BY <1>1, <2>1, <2>2 DEF RootInv, Upwards
<1>2. [DataNext]_data => Bt!Next \/ UNCHANGED binary
  BY DEF DataNext, data, CallHeap, CallList, UseElements, ReadArgument
<1> QED
  BY <1>1, <1>2, ArgumentRead

\* What is printed ascends, and is what has been read.
LEMMA ArgumentsPrinted == RootInv => Bt!PrintedSorted
<1> SUFFICES ASSUME RootInv PROVE Bt!PrintedSorted
  OBVIOUS
<1> DEFINE order == Bt!InOrder(root)
           Count(s, v) == Cardinality({k \in DOMAIN s : s[k] = v})
<1>0. /\ argv \in Seq(values) /\ read \in 0 .. Len(argv) /\ root \in [DOMAIN root -> values]
      /\ DOMAIN root \subseteq Paths /\ IsFiniteSet(DOMAIN root) /\ Closed(DOMAIN root) /\ Searchable(root, Upwards)
  BY DEF RootInv
<1>1. /\ order \in Seq(Int)
      /\ \A k \in 1 .. Len(order) : \E q \in DOMAIN root : order[k] = root[q]
      /\ \A j, k \in 1 .. Len(order) : j < k => <<order[j], order[k]>> \in Upwards
      /\ \A W : Cardinality(Picked(order, W)) = Cardinality({q \in DOMAIN root : root[q] \in W})
  <2> DEFINE t == root
             R == Upwards
  <2>1. /\ t \in [DOMAIN t -> Int] /\ DOMAIN t \subseteq Paths /\ IsFiniteSet(DOMAIN t) /\ Closed(DOMAIN t)
        /\ Searchable(t, R) /\ Orders(R, t) /\ order = Bt!InOrder(t)
    BY <1>0, UpwardsOrders, ValuesAssumption
  <2> HIDE DEF t, R, order
  <2>2. /\ order \in Seq(Int)
        /\ \A k \in 1 .. Len(order) : \E q \in DOMAIN t : order[k] = t[q]
        /\ \A j, k \in 1 .. Len(order) : j < k => <<order[j], order[k]>> \in R
    BY <2>1, InOrderSorted
  <2>3. ASSUME NEW W PROVE Cardinality(Picked(order, W)) = Cardinality({q \in DOMAIN t : t[q] \in W})
    BY <2>1, InOrderCounts
  <2> QED
    BY <2>2, <2>3 DEF t, R
<1> HIDE DEF order
<1>2. /\ DOMAIN order = 1 .. Len(order) /\ Len(order) \in Nat
      /\ \A k \in DOMAIN order : order[k] \in values
  BY <1>0, <1>1
<1>3. \A j, k \in DOMAIN order : j < k => order[j] =< order[k]
  BY <1>1, <1>2 DEF Upwards
<1>4. \A W \in SUBSET values : Cardinality(Picked(order, W)) = Cardinality(ReadIn(W))
  BY <1>1 DEF RootInv, RootIn
<1>5. Len(argv) \in Nat /\ read \in Nat /\ read =< Len(argv) /\ \A k \in 1 .. read : argv[k] \in values
  BY <1>0
<1>6. ASSUME NEW k \in 1 .. read PROVE Count(order, argv[k]) = Count(SubSeq(argv, 1, read), argv[k])
  <2> DEFINE v == argv[k]
             s == SubSeq(argv, 1, read)
  <2>1. v \in values
    BY <1>5
  <2>2. Len(s) = read /\ DOMAIN s = 1 .. read /\ \A j \in 1 .. read : s[j] = argv[j]
    BY <1>0, <1>5
  <2> HIDE DEF v, s
  <2>3. {j \in DOMAIN s : s[j] = v} = ReadIn({v})
    BY <2>2 DEF ReadIn
  <2>4. {j \in DOMAIN order : order[j] = v} = Picked(order, {v})
    BY DEF Picked
  <2>5. Cardinality(Picked(order, {v})) = Cardinality(ReadIn({v}))
    BY <1>4, <2>1
  <2> QED
    BY <2>3, <2>4, <2>5 DEF v, s
<1>7. Len(order) = read
  <2>1. Picked(order, values) = 1 .. Len(order)
    BY <1>2 DEF Picked
  <2>2. ReadIn(values) = 1 .. read
    BY <1>5 DEF ReadIn
  <2>3. \A n \in Nat : Cardinality(1 .. n) = n
    <3> TAKE n \in Nat
    <3>1. Cardinality(1 .. n) = IF 1 > n THEN 0 ELSE n - 1 + 1
      BY FS_Interval
    <3> QED
      BY <3>1
  <2>4. Cardinality(Picked(order, values)) = Cardinality(ReadIn(values))
    <3>1. values \in SUBSET values
      OBVIOUS
    <3> QED
      BY <1>4, <3>1
  <2>5. Cardinality(1 .. Len(order)) = Len(order) /\ Cardinality(1 .. read) = read
    BY <1>2, <1>5, <2>3
  <2> QED
    BY <2>1, <2>2, <2>4, <2>5
<1>8. \A S : Bt!Cardinality(S) = Cardinality(S)
  BY DEF Bt!Cardinality, Cardinality
<1>9. ASSUME NEW k \in 1 .. read
      PROVE  Bt!Cardinality({j \in DOMAIN order : order[j] = argv[k]})
               = Bt!Cardinality({j \in DOMAIN SubSeq(argv, 1, read) : SubSeq(argv, 1, read)[j] = argv[k]})
  BY <1>6, <1>8
<1> QED
  BY <1>3, <1>7, <1>9 DEF Bt!PrintedSorted, Bt!printInOrder, order

\* For any elements, nodes, values and arguments: lists are linked in either direction, in the
\* order of insertion, trees of elements are search trees by their comparison, and the tree of
\* arguments prints all that was read in ascending order.
THEOREM ListsAndTreesInOrder == DataSpec => []KeptInOrder
<1>1. DataInit => ElemInv /\ TreeInv /\ RootInv
  <2>1. DataInit => TreeInv
    <3> SUFFICES ASSUME DataInit PROVE TreeInv
      OBVIOUS
    <3>1. DOMAIN tree = {}
      BY DEF DataInit, El!Init, El!Leaf
    <3> QED
      BY <3>1 DEF TreeInv, Closed, Searchable
  <2> QED
    BY <2>1, ElemInit, RootInit
<1>2. ElemInv /\ TreeInv /\ RootInv /\ [DataNext]_data => ElemInv' /\ TreeInv' /\ RootInv'
  BY ElemStep, TreeStep, RootStep
<1>3. ElemInv /\ TreeInv /\ RootInv => KeptInOrder
  BY ListLinked, TreeSearched, ArgumentsPrinted DEF KeptInOrder
<1> QED
  BY <1>1, <1>2, <1>3, PTL DEF DataSpec
(***************************************************************************)
(* Words                                                                   *)
(***************************************************************************)
Halves == {n \in Nat : n < Half}
Words == Halves \X Halves
Byte == {n \in Nat : n < 256}

LEMMA WordParts ==
  ASSUME NEW w \in Words
  PROVE  w[1] \in Halves /\ w[2] \in Halves /\ w[1] \in Int /\ w[2] \in Int /\ w = <<w[1], w[2]>>
BY DEF Words, Halves, Half

LEMMA MakeWord ==
  ASSUME NEW x \in Halves, NEW y \in Halves
  PROVE  <<x, y>> \in Words
BY DEF Words

LEMMA HalfOfAnInteger ==
  ASSUME NEW n \in Int
  PROVE  n % Half \in Halves
BY DEF Halves, Half

LEMMA WordOfIsAWord ==
  ASSUME NEW n \in Int
  PROVE  WordOf(n) \in Words
<1>1. n \div Half \in Int
  BY DEF Half
<1>2. QED
  BY <1>1, HalfOfAnInteger, MakeWord DEF WordOf

LEMMA AddIsAWord ==
  ASSUME NEW v \in Words, NEW w \in Words
  PROVE  Add(v, w) \in Words /\ Add(v, w) = Add(w, v)
<1>1. v[1] \in Int /\ v[2] \in Int /\ w[1] \in Int /\ w[2] \in Int
  BY WordParts
<1>2. v[2] + w[2] \in Int /\ (v[2] + w[2]) \div Half \in Int
  BY <1>1 DEF Half
<1>3. v[1] + w[1] + ((v[2] + w[2]) \div Half) \in Int
  BY <1>1, <1>2
<1>4. Add(v, w) \in Words
  BY <1>2, <1>3, HalfOfAnInteger, MakeWord DEF Add
<1>5. v[1] + w[1] = w[1] + v[1] /\ v[2] + w[2] = w[2] + v[2]
  BY <1>1
<1>6. QED
  BY <1>4, <1>5 DEF Add

LEMMA ComplementIsAWord ==
  ASSUME NEW w \in Words
  PROVE  Complement(w) \in Words
<1>1. Half - 1 - w[1] \in Halves /\ Half - 1 - w[2] \in Halves
  BY WordParts DEF Halves, Half
<1>2. QED
  BY <1>1, MakeWord DEF Complement

LEMMA BitsOfBothHalves ==
  ASSUME NEW x \in Halves, NEW y \in Halves
  PROVE  AndHalf(x, y) \in Halves
<1> DEFINE Shared(bit) == IF (x \div bit) % 2 = 1 /\ (y \div bit) % 2 = 1 THEN bit ELSE 0
<1>1. \A bit \in Nat : Shared(bit) \in Nat /\ Shared(bit) =< bit
  OBVIOUS
<1>2. AndHalf(x, y) =
        Shared(1) + Shared(2) + Shared(4) + Shared(8) + Shared(16) + Shared(32) + Shared(64) + Shared(128)
        + Shared(256) + Shared(512) + Shared(1024) + Shared(2048) + Shared(4096) + Shared(8192) + Shared(16384) + Shared(32768)
  BY DEF AndHalf
<1> HIDE DEF Shared
<1>3. /\ Shared(1) =< 1 /\ Shared(2) =< 2 /\ Shared(4) =< 4 /\ Shared(8) =< 8 /\ Shared(16) =< 16
      /\ Shared(32) =< 32 /\ Shared(64) =< 64 /\ Shared(128) =< 128 /\ Shared(256) =< 256 /\ Shared(512) =< 512
      /\ Shared(1024) =< 1024 /\ Shared(2048) =< 2048 /\ Shared(4096) =< 4096 /\ Shared(8192) =< 8192 /\ Shared(16384) =< 16384
      /\ Shared(32768) =< 32768
      /\ Shared(1) \in Nat /\ Shared(2) \in Nat /\ Shared(4) \in Nat /\ Shared(8) \in Nat /\ Shared(16) \in Nat
      /\ Shared(32) \in Nat /\ Shared(64) \in Nat /\ Shared(128) \in Nat /\ Shared(256) \in Nat /\ Shared(512) \in Nat
      /\ Shared(1024) \in Nat /\ Shared(2048) \in Nat /\ Shared(4096) \in Nat /\ Shared(8192) \in Nat /\ Shared(16384) \in Nat
      /\ Shared(32768) \in Nat
  BY <1>1
<1> DEFINE low == Shared(1) + Shared(2) + Shared(4) + Shared(8) + Shared(16) + Shared(32) + Shared(64) + Shared(128)
           high == Shared(256) + Shared(512) + Shared(1024) + Shared(2048) + Shared(4096) + Shared(8192) + Shared(16384) + Shared(32768)
<1>4. low \in Nat /\ low =< 255
  BY <1>3
<1>5. high \in Nat /\ high =< 65280
  BY <1>3
<1>6. AndHalf(x, y) = low + high
  BY <1>2, <1>3
<1> HIDE DEF low, high
<1>7. QED
  BY <1>4, <1>5, <1>6 DEF Halves, Half

LEMMA AndIsAWord ==
  ASSUME NEW v \in Words, NEW w \in Words
  PROVE  AndWord(v, w) \in Words
BY WordParts, BitsOfBothHalves, MakeWord DEF AndWord

LEMMA PowersOfTwo ==
  ASSUME NEW n \in 0 .. 16
  PROVE  /\ TwoTo(n) \in Nat /\ 1 =< TwoTo(n) /\ TwoTo(n) =< Half
         /\ n # 16 => 2 * TwoTo(n) =< Half
         /\ TwoTo(n) * TwoTo(16 - n) = Half
<1>1. \A k \in 0 .. 16 :
        TwoTo(k) = CASE k = 0 -> 1 [] k = 1 -> 2 [] k = 2 -> 4 [] k = 3 -> 8 [] k = 4 -> 16
                     [] k = 5 -> 32 [] k = 6 -> 64 [] k = 7 -> 128 [] k = 8 -> 256 [] k = 9 -> 512
                     [] k = 10 -> 1024 [] k = 11 -> 2048 [] k = 12 -> 4096 [] k = 13 -> 8192
                     [] k = 14 -> 16384 [] k = 15 -> 32768 [] k = 16 -> 65536
  BY DEF TwoTo
<1>2. n = 0 \/ n = 1 \/ n = 2 \/ n = 3 \/ n = 4 \/ n = 5 \/ n = 6 \/ n = 7 \/ n = 8 \/ n = 9
      \/ n = 10 \/ n = 11 \/ n = 12 \/ n = 13 \/ n = 14 \/ n = 15 \/ n = 16
  OBVIOUS
<1>3. QED
  BY <1>1, <1>2 DEF Half

LEMMA ShiftedLeft ==
  ASSUME NEW w \in Words, NEW n \in Int
  PROVE  ShiftLeft(w, n) \in Words
<1> DEFINE k == n % 32
<1>1. k \in 0 .. 31
  OBVIOUS
<1>2. w[1] \in Int /\ w[2] \in Int
  BY WordParts
<1>3. CASE k < 16
  <2>1. k \in 0 .. 16 /\ 16 - k \in 0 .. 16
    BY <1>1, <1>3
  <2> HIDE DEF k
  <2>2. w[1] * TwoTo(k) + w[2] \div TwoTo(16 - k) \in Int /\ w[2] * TwoTo(k) \in Int
    BY <1>2, <2>1, PowersOfTwo
  <2>3. <<(w[1] * TwoTo(k) + w[2] \div TwoTo(16 - k)) % Half, (w[2] * TwoTo(k)) % Half>> \in Words
    BY <2>2, HalfOfAnInteger, MakeWord
  <2>4. QED
    BY <1>3, <2>3 DEF ShiftLeft, k
<1>4. CASE ~(k < 16)
  <2>1. k - 16 \in 0 .. 16
    BY <1>1, <1>4
  <2> HIDE DEF k
  <2>2. w[2] * TwoTo(k - 16) \in Int
    BY <1>2, <2>1, PowersOfTwo
  <2>3. 0 \in Halves
    BY DEF Halves, Half
  <2>4. <<(w[2] * TwoTo(k - 16)) % Half, 0>> \in Words
    BY <2>2, <2>3, HalfOfAnInteger, MakeWord
  <2>5. QED
    BY <1>4, <2>4 DEF ShiftLeft, k
<1>5. QED
  BY <1>3, <1>4

LEMMA Product ==
  ASSUME NEW p \in Nat, NEW q \in Nat, NEW x \in Nat, 1 =< q, x < p * q
  PROVE  x \div q \in Nat /\ x \div q < p
<1>1. x = q * (x \div q) + (x % q) /\ x % q \in Nat /\ x \div q \in Int
  BY Z3
<1>2. QED
  BY <1>1, Z3
LEMMA ARestOfMultiples ==
  ASSUME NEW p \in Nat, NEW q \in Nat, NEW x \in Nat, 1 =< p, 1 =< q
  PROVE  (x * p) % (p * q) =< p * q - p /\ (x * p) % (p * q) \in Nat
<1> DEFINE t == (x * p) \div (p * q)
           r == (x * p) % (p * q)
<1>1. p * q \in Nat /\ 1 =< p * q /\ x * p \in Nat
  BY Z3
<1>2. x * p = (p * q) * t + r /\ r \in Nat /\ r < p * q /\ t \in Int
  <2>1. \A a \in Nat, b \in Nat : 1 =< b =>
          a = b * (a \div b) + (a % b) /\ a % b \in Nat /\ a % b < b /\ a \div b \in Int
    BY Z3
  <2> DEFINE all == x * p
             unit == p * q
  <2>2. all \in Nat /\ unit \in Nat /\ 1 =< unit
    BY <1>1
  <2> HIDE DEF all, unit
  <2>3. all = unit * (all \div unit) + (all % unit) /\ all % unit \in Nat /\ all % unit < unit
        /\ all \div unit \in Int
    BY <2>1, <2>2
  <2>4. QED
    BY <2>3 DEF all, unit
<1> HIDE DEF t, r
<1> DEFINE rows == x - q * t
<1>3. rows \in Int /\ r = p * rows
  BY <1>2, Z3
<1>4. rows =< q - 1
  <2>1. SUFFICES ASSUME rows >= q PROVE FALSE
    BY <1>3
  <2> HIDE DEF rows
  <2>2. p * rows >= p * q
    BY <1>3, <2>1, Z3
  <2>3. QED
    BY <1>1, <1>2, <1>3, <2>2
<1> HIDE DEF rows
<1>5. p * rows =< p * (q - 1)
  BY <1>3, <1>4, Z3
<1>6. p * (q - 1) = p * q - p
  BY Z3
<1>7. QED
  BY <1>2, <1>3, <1>5, <1>6 DEF r

LEMMA ShiftedRight ==
  ASSUME NEW w \in Words, NEW n \in Int
  PROVE  ShiftRight(w, n) \in Words
<1> DEFINE k == n % 32
           High(j) == w[1] \div TwoTo(j) + (IF Negative(w) THEN Half - TwoTo(16 - j) ELSE 0)
<1>1. k \in 0 .. 31
  OBVIOUS
<1>2. w[1] \in Nat /\ w[2] \in Nat /\ w[1] < Half /\ w[2] < Half
  BY WordParts DEF Halves
<1>3. ASSUME NEW j \in 0 .. 16 PROVE High(j) \in Halves
  <2>1. TwoTo(j) \in Nat /\ 1 =< TwoTo(j) /\ TwoTo(16 - j) \in Nat /\ TwoTo(16 - j) =< Half
        /\ TwoTo(16 - j) * TwoTo(j) = Half /\ 1 =< TwoTo(16 - j)
    <3>1. 16 - j \in 0 .. 16 /\ 16 - (16 - j) = j
      OBVIOUS
    <3>2. QED
      BY <3>1, PowersOfTwo
  <2>2. w[1] \div TwoTo(j) \in Nat /\ w[1] \div TwoTo(j) < TwoTo(16 - j)
    BY <1>2, <2>1, Product
  <2>3. Half \in Nat
    BY DEF Half
  <2>4. QED
    BY <2>1, <2>2, <2>3 DEF Halves
<1>4. ShiftRight(w, n) = CASE k = 0 -> w
        [] k \in 1 .. 15 -> <<High(k), ((w[1] * TwoTo(16 - k)) % Half) + (w[2] \div TwoTo(k))>>
        [] k >= 16 -> <<IF Negative(w) THEN Half - 1 ELSE 0, High(k - 16)>>
  BY DEF ShiftRight
<1> HIDE DEF k, High
<1>5. CASE k = 0
  BY <1>4, <1>5
<1>6. CASE k \in 1 .. 15
  <2>1. /\ TwoTo(k) \in Nat /\ 1 =< TwoTo(k) /\ TwoTo(16 - k) \in Nat /\ 1 =< TwoTo(16 - k)
        /\ TwoTo(16 - k) * TwoTo(k) = Half
    <3>1. 16 - k \in 0 .. 16 /\ k \in 0 .. 16 /\ 16 - (16 - k) = k
      BY <1>6
    <3>2. QED
      BY <3>1, PowersOfTwo
  <2>2. w[2] \div TwoTo(k) \in Nat /\ w[2] \div TwoTo(k) < TwoTo(16 - k)
    BY <1>2, <2>1, Product
  <2>3. /\ (w[1] * TwoTo(16 - k)) % Half =< Half - TwoTo(16 - k)
        /\ (w[1] * TwoTo(16 - k)) % Half \in Nat
    BY <1>2, <2>1, ARestOfMultiples
  <2>4. Half \in Nat
    BY DEF Half
  <2>5. ((w[1] * TwoTo(16 - k)) % Half) + (w[2] \div TwoTo(k)) \in Halves
    <3> DEFINE left == (w[1] * TwoTo(16 - k)) % Half
               right == w[2] \div TwoTo(k)
    <3>1. left \in Nat /\ right \in Nat /\ left =< Half - TwoTo(16 - k) /\ right < TwoTo(16 - k)
      BY <2>2, <2>3
    <3> HIDE DEF left, right
    <3>2. left + right \in Nat /\ left + right < Half
      BY <2>1, <2>4, <3>1
    <3>3. QED
      BY <3>2 DEF left, right, Halves
  <2>6. High(k) \in Halves
    BY <1>3, <1>6
  <2>7. ShiftRight(w, n) = <<High(k), ((w[1] * TwoTo(16 - k)) % Half) + (w[2] \div TwoTo(k))>>
    BY <1>4, <1>6
  <2>8. QED
    BY <2>5, <2>6, <2>7, MakeWord
<1>7. CASE k >= 16
  <2>1. High(k - 16) \in Halves
    BY <1>1, <1>3, <1>7
  <2>2. (IF Negative(w) THEN Half - 1 ELSE 0) \in Halves
    BY DEF Halves, Half
  <2>3. ShiftRight(w, n) = <<IF Negative(w) THEN Half - 1 ELSE 0, High(k - 16)>>
    BY <1>1, <1>4, <1>7
  <2>4. QED
    BY <2>1, <2>2, <2>3, MakeWord
<1>8. QED
  BY <1>1, <1>5, <1>6, <1>7

LEMMA WordOfBytes ==
  ASSUME NEW b, b[1] \in Byte, b[2] \in Byte, b[3] \in Byte, b[4] \in Byte
  PROVE  bytesToInteger(b) \in Words
<1>1. 256 * b[1] + b[2] \in Halves /\ 256 * b[3] + b[4] \in Halves
  BY DEF Byte, Halves, Half
<1>2. QED
  BY <1>1, MakeWord DEF bytesToInteger

LEMMA BytesOfWord ==
  ASSUME NEW w \in Words
  PROVE  /\ integerToBytes(w) = <<w[1] \div 256, w[1] % 256, w[2] \div 256, w[2] % 256>>
         /\ w[1] \div 256 \in Byte /\ w[1] % 256 \in Byte /\ w[2] \div 256 \in Byte /\ w[2] % 256 \in Byte
         /\ \A k \in 1 .. 4 : integerToBytes(w)[k] \in Byte
<1>1. w[1] \in Nat /\ w[1] < 65536 /\ w[2] \in Nat /\ w[2] < 65536
  BY WordParts DEF Halves, Half
<1>2. \A x \in Nat : x < 65536 => x \div 256 \in Byte /\ x % 256 \in Byte
  BY DEF Byte
<1>3. w[1] \div 256 \in Byte /\ w[1] % 256 \in Byte /\ w[2] \div 256 \in Byte /\ w[2] % 256 \in Byte
  BY <1>1, <1>2
<1>4. QED
  BY <1>3 DEF integerToBytes

\* The bytes of a word make the word again.
LEMMA BytesKeepWord ==
  ASSUME NEW w \in Words
  PROVE  bytesToInteger(integerToBytes(w)) = w
<1>1. w[1] \in Nat /\ w[2] \in Nat /\ w = <<w[1], w[2]>>
  BY WordParts DEF Halves
<1>2. \A x \in Nat : 256 * (x \div 256) + (x % 256) = x
  OBVIOUS
<1>3. 256 * (w[1] \div 256) + (w[1] % 256) = w[1] /\ 256 * (w[2] \div 256) + (w[2] % 256) = w[2]
  BY <1>1, <1>2
<1>4. bytesToInteger(integerToBytes(w))
        = <<256 * (w[1] \div 256) + (w[1] % 256), 256 * (w[2] \div 256) + (w[2] % 256)>>
  BY DEF bytesToInteger, integerToBytes
<1>5. QED
  BY <1>1, <1>3, <1>4

(***************************************************************************)
(* The machines: their registers hold words, their memory bytes            *)
(***************************************************************************)
Memories == UNION {[addresses -> Byte] : addresses \in SUBSET Int}
TypedMachines ==
  [reg : [Register -> Words], mem : Memories, pc : Words,
   run : {"running", "halted", "undefined", "thrown"}, own : BOOLEAN]

Nibble == 0 .. 15
Instructions ==
  [op : Nibble, op0 : Nibble, op1 : Nibble, op2 : Nibble,
   imm : {n \in Int : -128 =< n /\ n < 128}, ext : Words]

LEMMA AMemory ==
  ASSUME NEW f, NEW addresses \in SUBSET Int, f \in [addresses -> Byte]
  PROVE  f \in Memories
BY DEF Memories

LEMMA TheMemory ==
  ASSUME NEW m \in TypedMachines
  PROVE  DOMAIN m.mem \in SUBSET Int /\ m.mem \in [DOMAIN m.mem -> Byte]
<1>1. m.mem \in Memories
  BY DEF TypedMachines
<1>2. PICK addresses \in SUBSET Int : m.mem \in [addresses -> Byte]
  BY <1>1 DEF Memories
<1>3. QED
  BY <1>2

LEMMA BytesRead ==
  ASSUME NEW m \in TypedMachines, NEW a \in Words, NEW length \in Nat
  PROVE  /\ Bytes(m, a, length) \in [1 .. length -> Byte]
<1>1. \A x \in DOMAIN m.mem : m.mem[x] \in Byte
  BY TheMemory
<1>2. 0 \in Byte
  BY DEF Byte
<1>3. QED
  BY <1>1, <1>2 DEF Bytes

LEMMA DecodedRight ==
  ASSUME NEW m \in TypedMachines
  PROVE  Decode(m) \in Instructions
<1> DEFINE b == Bytes(m, m.pc, 6)
<1>1. b \in [1 .. 6 -> Byte]
  BY BytesRead DEF TypedMachines
<1> HIDE DEF b
<1>2. /\ b[1] \in Byte /\ b[2] \in Byte /\ b[3] \in Byte
      /\ b[4] \in Byte /\ b[5] \in Byte /\ b[6] \in Byte
  BY <1>1
<1>3. \A x \in Byte : x \div 16 \in Nibble /\ x % 16 \in Nibble
  BY DEF Byte, Nibble
<1>4. (IF b[2] > 127 THEN b[2] - 256 ELSE b[2]) \in {n \in Int : -128 =< n /\ n < 128}
  BY <1>2 DEF Byte
<1>5. /\ SubSeq(b, 3, 6)[1] = b[3] /\ SubSeq(b, 3, 6)[2] = b[4]
      /\ SubSeq(b, 3, 6)[3] = b[5] /\ SubSeq(b, 3, 6)[4] = b[6]
  <2>1. SubSeq(b, 3, 6) = [k \in 1 .. 4 |-> b[3 + k - 1]]
    BY <1>1
  <2>2. QED
    BY <2>1
<1>6. bytesToInteger(SubSeq(b, 3, 6)) \in Words
  BY <1>2, <1>5, WordOfBytes
<1>7. Decode(m) = [op |-> b[1] \div 16, op0 |-> b[1] % 16, op1 |-> b[2] \div 16, op2 |-> b[2] % 16,
                   imm |-> IF b[2] > 127 THEN b[2] - 256 ELSE b[2],
                   ext |-> bytesToInteger(SubSeq(b, 3, 6))]
  BY DEF Decode, b
<1>8. QED
  BY <1>2, <1>3, <1>4, <1>6, <1>7 DEF Instructions

LEMMA Advanced ==
  ASSUME NEW m \in TypedMachines
  PROVE  /\ Advance(m) \in TypedMachines
         /\ Advance(m).own = m.own /\ Advance(m).run = m.run
<1>1. Length(m) \in Int
  BY DEF Length
<1>2. Add(m.pc, WordOf(Length(m))) \in Words
  BY <1>1, WordOfIsAWord, AddIsAWord DEF TypedMachines
<1>3. QED
  BY <1>2 DEF Advance, TypedMachines

LEMMA RegisterSet ==
  ASSUME NEW m \in TypedMachines, NEW r \in Register, NEW w \in Words
  PROVE  SetReg(m, r, w) \in TypedMachines /\ SetReg(m, r, w).own = m.own
<1>1. m.reg \in [Register -> Words]
  BY DEF TypedMachines
<1>2. [m.reg EXCEPT ![r] = w] \in [Register -> Words]
  BY <1>1
<1>3. SetReg(m, r, w) = [m EXCEPT !.reg = [m.reg EXCEPT ![r] = w]]
  BY DEF SetReg, TypedMachines
<1>4. QED
  BY <1>2, <1>3 DEF TypedMachines

LEMMA PcSet ==
  ASSUME NEW m \in TypedMachines, NEW w \in Words
  PROVE  [m EXCEPT !.pc = w] \in TypedMachines /\ [m EXCEPT !.pc = w].own = m.own
BY DEF TypedMachines

LEMMA Branched ==
  ASSUME NEW m \in TypedMachines, NEW instr \in Instructions
  PROVE  Branch(m, instr) \in TypedMachines /\ Branch(m, instr).own = m.own
<1>1. 2 * instr.imm \in Int
  BY DEF Instructions
<1>2. Add(m.pc, WordOf(2 * instr.imm)) \in Words
  BY <1>1, WordOfIsAWord, AddIsAWord DEF TypedMachines
<1>3. Branch(m, instr) = [m EXCEPT !.pc = Add(m.pc, WordOf(2 * instr.imm))]
  BY DEF Branch
<1>4. QED
  BY <1>2, <1>3, PcSet

LEMMA Stopped ==
  ASSUME NEW m \in TypedMachines, NEW why \in {"running", "halted", "undefined", "thrown"}
  PROVE  Stop(m, why) \in TypedMachines /\ Stop(m, why).own = m.own /\ Stop(m, why).run = why
BY DEF Stop, TypedMachines

(***************************************************************************)
(* The switches, the tables, and what the instructions do                  *)
(***************************************************************************)
Branches == {"L7", "L8", "L9", "La", "Lb"}
Transfers == {"L0", "L1", "L2", "L3", "L4"}
Arithmetic == {"A0", "A1", "A2", "A3", "A4", "A5", "A6", "A7", "Af"}
Labels == Transfers \cup Arithmetic \cup Branches \cup {"Lc", "Lf", "default"}

LEMMA CasesAre ==
  /\ DOMAIN Cases = {0, 1, 2, 3, 4, 6, 7, 8, 9, 10, 11, 12, 15}
  /\ Cases[0] = "L0" /\ Cases[1] = "L1" /\ Cases[2] = "L2" /\ Cases[3] = "L3" /\ Cases[4] = "L4"
  /\ Cases[7] = "L7" /\ Cases[8] = "L8" /\ Cases[9] = "L9" /\ Cases[10] = "La" /\ Cases[11] = "Lb"
  /\ Cases[12] = "Lc" /\ Cases[15] = "Lf"
BY DEF Cases

LEMMA AluCasesAre ==
  /\ DOMAIN AluCases = {0, 1, 2, 3, 4, 5, 6, 7, 15}
  /\ AluCases[0] = "A0" /\ AluCases[1] = "A1" /\ AluCases[2] = "A2" /\ AluCases[3] = "A3"
  /\ AluCases[4] = "A4" /\ AluCases[5] = "A5" /\ AluCases[6] = "A6" /\ AluCases[7] = "A7"
  /\ AluCases[15] = "Af"
BY DEF AluCases

LEMMA SwitchLabels ==
  ASSUME NEW instr \in Instructions
  PROVE  Switch(instr, Cases, AluCases) \in Labels
<1>1. \A op \in DOMAIN Cases : op # 6 => Cases[op] \in Labels
  BY CasesAre DEF Labels, Transfers, Branches
<1>2. \A fun \in DOMAIN AluCases : AluCases[fun] \in Labels
  BY AluCasesAre DEF Labels, Arithmetic
<1>3. QED
  BY <1>1, <1>2 DEF Switch, Labels

\* The tables hold what the cases of the switches are.
LEMMA TablesAreSwitches ==
  ASSUME NEW instr \in Instructions
  PROVE  JumpTable(instr) = Switch(instr, Cases, AluCases)
<1> DEFINE jt1 == <<"L0", "L1", "L2", "L3", "L4", "null", "L6", "L7", "L8", "L9", "La", "Lb", "Lc",
                    "null", "null", "Lf">>
           jt2 == [fun \in 0 .. 15 |-> IF fun \in DOMAIN AluCases THEN AluCases[fun] ELSE "null"]
<1>1. instr.op \in 0 .. 15 /\ instr.op0 \in 0 .. 15
  BY DEF Instructions, Nibble
<1>2. JumpTable(instr) =
        IF instr.op = 6
          THEN IF instr.op0 < 8 \/ instr.op0 = 15 THEN jt2[instr.op0] ELSE "default"
          ELSE IF instr.op \in {5, 13, 14} THEN "default" ELSE jt1[instr.op + 1]
  BY DEF JumpTable
<1>3. CASE instr.op = 6
  <2>1. instr.op0 \in DOMAIN AluCases <=> instr.op0 < 8 \/ instr.op0 = 15
    BY <1>1, AluCasesAre
  <2>2. jt2[instr.op0] = IF instr.op0 \in DOMAIN AluCases THEN AluCases[instr.op0] ELSE "null"
    BY <1>1
  <2> HIDE DEF jt1, jt2
  <2>3. QED
    BY <1>2, <1>3, <2>1, <2>2 DEF Switch
<1>4. CASE instr.op # 6
  <2>1. instr.op \in DOMAIN Cases <=> instr.op \notin {5, 13, 14}
    BY <1>1, <1>4, CasesAre
  <2>2. ASSUME instr.op \in DOMAIN Cases PROVE jt1[instr.op + 1] = Cases[instr.op]
    BY <1>1, <1>4, <2>2, CasesAre
  <2> HIDE DEF jt1, jt2
  <2>3. QED
    BY <1>2, <1>4, <2>1, <2>2 DEF Switch
<1>5. QED
  BY <1>3, <1>4

\* Where the switch of the CPU of a2 has a case, that of a6 has the same.
LEMMA EarlierSwitch ==
  ASSUME NEW instr \in Instructions, Switch(instr, Cases2, AluCases2) # "default"
  PROVE  Switch(instr, Cases2, AluCases2) = Switch(instr, Cases, AluCases)
<1>1. DOMAIN Cases2 \subseteq DOMAIN Cases /\ \A op \in DOMAIN Cases2 : Cases2[op] = Cases[op]
  BY CasesAre DEF Cases2
<1>2. DOMAIN AluCases2 \subseteq DOMAIN AluCases /\ \A fun \in DOMAIN AluCases2 : AluCases2[fun] = AluCases[fun]
  BY AluCasesAre DEF AluCases2
<1>3. QED
  BY <1>1, <1>2 DEF Switch

LEMMA AddressIsAWord ==
  ASSUME NEW m \in TypedMachines, NEW instr \in Instructions, NEW label,
         Accesses(label), Named(label, instr) \subseteq Register
  PROVE  Address(label, instr, m) \in Words
<1>1. \A r \in Register : m.reg[r] \in Words
  BY DEF TypedMachines
<1>2. \A n \in Nibble : WordOf(4 * n) \in Words
  BY WordOfIsAWord DEF Nibble
<1>3. \A r \in Register : ShiftLeft(m.reg[r], 2) \in Words
  BY <1>1, ShiftedLeft
<1>4. instr.op0 \in Nibble /\ instr.op1 \in Nibble /\ instr.op2 \in Nibble
  BY DEF Instructions
<1>5. CASE label = "L1"
  <2>1. instr.op1 \in Register
    BY <1>5 DEF Named
  <2>2. Address(label, instr, m) = Add(WordOf(4 * instr.op0), m.reg[instr.op1])
    BY <1>5 DEF Address
  <2>3. QED
    BY <1>1, <1>2, <1>4, <2>1, <2>2, AddIsAWord
<1>6. CASE label = "L2"
  <2>1. instr.op0 \in Register /\ instr.op1 \in Register
    BY <1>6 DEF Named
  <2>2. Address(label, instr, m) = Add(m.reg[instr.op0], ShiftLeft(m.reg[instr.op1], 2))
    BY <1>6 DEF Address
  <2>3. QED
    BY <1>1, <1>3, <2>1, <2>2, AddIsAWord
<1>7. CASE label = "L3"
  <2>1. instr.op2 \in Register
    BY <1>7 DEF Named
  <2>2. Address(label, instr, m) = Add(WordOf(4 * instr.op1), m.reg[instr.op2])
    BY <1>7 DEF Address
  <2>3. QED
    BY <1>1, <1>2, <1>4, <2>1, <2>2, AddIsAWord
<1>8. CASE label = "L4"
  <2>1. instr.op1 \in Register /\ instr.op2 \in Register
    BY <1>8 DEF Named
  <2>2. Address(label, instr, m) = Add(m.reg[instr.op1], ShiftLeft(m.reg[instr.op2], 2))
    BY <1>8 DEF Address
  <2>3. QED
    BY <1>1, <1>3, <2>1, <2>2, AddIsAWord
<1>9. QED
  BY <1>5, <1>6, <1>7, <1>8 DEF Accesses

LEMMA Stored ==
  ASSUME NEW m \in TypedMachines, NEW w \in Words, NEW a \in Int, NEW n,
         n = [m EXCEPT !.mem = [b \in DOMAIN m.mem \cup a .. a + 3 |->
                                  IF b \in a .. a + 3 THEN integerToBytes(w)[b - a + 1] ELSE m.mem[b]]]
  PROVE  n \in TypedMachines /\ n.own = m.own
<1> DEFINE addresses == DOMAIN m.mem \cup a .. a + 3
           f == [b \in addresses |-> IF b \in a .. a + 3 THEN integerToBytes(w)[b - a + 1] ELSE m.mem[b]]
<1>1. addresses \in SUBSET Int
  BY TheMemory
<1>2. ASSUME NEW b \in addresses PROVE f[b] \in Byte
  <2>1. CASE b \in a .. a + 3
    <3>1. b - a + 1 \in 1 .. 4
      BY <2>1
    <3>2. QED
      BY <2>1, <3>1, BytesOfWord
  <2>2. CASE b \notin a .. a + 3
    BY <2>2, TheMemory
  <2>3. QED
    BY <2>1, <2>2
<1>3. f \in [addresses -> Byte]
  BY <1>2
<1>4. n = [m EXCEPT !.mem = f]
  OBVIOUS
<1> HIDE DEF f, addresses
<1>5. f \in Memories
  BY <1>1, <1>3, AMemory
<1>6. QED
  BY <1>4, <1>5 DEF TypedMachines

LEMMA Transferred ==
  ASSUME NEW m \in TypedMachines, NEW instr \in Instructions, NEW label \in Transfers,
         Named(label, instr) \subseteq Register
  PROVE  Effect(label, instr, m) \in TypedMachines /\ Effect(label, instr, m).own = m.own
<1>1. CASE label = "L0"
  <2>1. instr.op0 \in Register /\ instr.ext \in Words
    BY <1>1 DEF Named, Instructions
  <2>2. Effect(label, instr, m) = SetReg(m, instr.op0, instr.ext)
    BY <1>1 DEF Effect
  <2>3. QED
    BY <2>1, <2>2, RegisterSet
<1>2. CASE label \in {"L1", "L2"}
  <2> DEFINE a == Address(label, instr, m)
             b == Bytes(m, a, 4)
  <2>1. a \in Words
    BY <1>2, AddressIsAWord DEF Accesses
  <2>2. b \in [1 .. 4 -> Byte]
    BY <2>1, BytesRead
  <2>3. Effect(label, instr, m) = SetReg(m, instr.op2, bytesToInteger(b))
    BY <1>2 DEF Effect
  <2> HIDE DEF a, b
  <2>4. bytesToInteger(b) \in Words
    BY <2>2, WordOfBytes
  <2>5. instr.op2 \in Register
    BY <1>2 DEF Named
  <2>6. QED
    BY <2>3, <2>4, <2>5, RegisterSet
<1>3. CASE label \in {"L3", "L4"}
  <2> DEFINE a == Address(label, instr, m)[2]
             w == m.reg[instr.op0]
  <2>1. a \in Int
    BY <1>3, AddressIsAWord, WordParts DEF Accesses
  <2>2. w \in Words
    BY <1>3 DEF Named, TypedMachines
  <2>3. Effect(label, instr, m) =
          [m EXCEPT !.mem = [b \in DOMAIN m.mem \cup a .. a + 3 |->
                               IF b \in a .. a + 3 THEN integerToBytes(w)[b - a + 1] ELSE m.mem[b]]]
    <3>1. Effect(label, instr, m) =
            [m EXCEPT !.mem = [b \in DOMAIN @ \cup a .. a + 3 |->
                                 IF b \in a .. a + 3 THEN integerToBytes(w)[b - a + 1] ELSE @[b]]]
      BY <1>3 DEF Effect
    <3>2. QED
      BY <3>1 DEF TypedMachines
  <2> HIDE DEF a, w
  <2>4. QED
    BY <2>1, <2>2, <2>3, Stored
<1>4. QED
  BY <1>1, <1>2, <1>3 DEF Transfers

LEMMA Computed ==
  ASSUME NEW m \in TypedMachines, NEW instr \in Instructions, NEW label \in Arithmetic,
         Named(label, instr) \subseteq Register
  PROVE  Effect(label, instr, m) \in TypedMachines /\ Effect(label, instr, m).own = m.own
<1> DEFINE S == m.reg[instr.op1]
           D == m.reg[instr.op2]
<1>1. instr.op2 \in Register
  BY DEF Named, Arithmetic
<1>2. D \in Words /\ m.pc \in Words
  BY <1>1 DEF TypedMachines
<1>3. CASE label \in {"A0", "A1", "A2"}
  <2>1. instr.op1 \in Register
    BY <1>3 DEF Named
  <2>2. S \in Words
    BY <2>1 DEF TypedMachines
  <2>3. /\ label = "A0" => Effect(label, instr, m) = SetReg(m, instr.op2, S)
        /\ label = "A1" => Effect(label, instr, m) = SetReg(m, instr.op2, Add(S, D))
        /\ label = "A2" => Effect(label, instr, m) = SetReg(m, instr.op2, AndWord(S, D))
    BY <1>3 DEF Effect
  <2> HIDE DEF S, D
  <2>4. Add(S, D) \in Words /\ AndWord(S, D) \in Words
    BY <1>2, <2>2, AddIsAWord, AndIsAWord
  <2>5. QED
    BY <1>1, <1>3, <2>2, <2>3, <2>4, RegisterSet
<1>4. CASE label \in {"A3", "A4", "A5", "A6", "A7", "Af"}
  <2>1. /\ label = "A3" => Effect(label, instr, m) = SetReg(m, instr.op2, Add(D, WordOf(1)))
        /\ label = "A4" => Effect(label, instr, m) = SetReg(m, instr.op2, Add(D, WordOf(4)))
        /\ label = "A5" => Effect(label, instr, m) = SetReg(m, instr.op2, Add(D, WordOf(-1)))
        /\ label = "A6" => Effect(label, instr, m) = SetReg(m, instr.op2, Add(D, WordOf(-4)))
        /\ label = "A7" => Effect(label, instr, m) = SetReg(m, instr.op2, Complement(D))
        /\ label = "Af" => Effect(label, instr, m) = SetReg(m, instr.op2, Add(m.pc, WordOf(2 * instr.op1)))
    BY <1>4 DEF Effect
  <2> HIDE DEF S, D
  <2>2. 2 * instr.op1 \in Int
    BY DEF Instructions, Nibble
  <2>3. \A n \in Int : Add(D, WordOf(n)) \in Words /\ Add(m.pc, WordOf(n)) \in Words
    BY <1>2, WordOfIsAWord, AddIsAWord
  <2>4. /\ Add(D, WordOf(1)) \in Words /\ Add(D, WordOf(4)) \in Words
        /\ Add(D, WordOf(-1)) \in Words /\ Add(D, WordOf(-4)) \in Words
        /\ Add(m.pc, WordOf(2 * instr.op1)) \in Words /\ Complement(D) \in Words
    BY <1>2, <2>2, <2>3, ComplementIsAWord
  <2>5. PICK w \in Words : Effect(label, instr, m) = SetReg(m, instr.op2, w)
    BY <1>4, <2>1, <2>4
  <2>6. QED
    BY <1>1, <2>5, RegisterSet
<1>5. QED
  BY <1>3, <1>4 DEF Arithmetic

LEMMA ShiftedOrBranched ==
  ASSUME NEW m \in TypedMachines, NEW instr \in Instructions, NEW label \in Branches,
         Named(label, instr) \subseteq Register
  PROVE  Effect(label, instr, m) \in TypedMachines /\ Effect(label, instr, m).own = m.own
<1>1. CASE label = "L7"
  <2> DEFINE w == m.reg[instr.op0]
  <2>1. instr.op0 \in Register /\ instr.imm \in Int /\ -instr.imm \in Int
    BY <1>1 DEF Named, Instructions
  <2>2. w \in Words
    BY <2>1 DEF TypedMachines
  <2>3. Effect(label, instr, m) =
          SetReg(m, instr.op0, IF instr.imm > 0 THEN ShiftLeft(w, instr.imm) ELSE ShiftRight(w, -instr.imm))
    BY <1>1 DEF Effect
  <2> HIDE DEF w
  <2>4. ShiftLeft(w, instr.imm) \in Words /\ ShiftRight(w, -instr.imm) \in Words
    BY <2>1, <2>2, ShiftedLeft, ShiftedRight
  <2>5. QED
    BY <2>1, <2>3, <2>4, RegisterSet
<1>2. CASE label \in {"L8", "L9", "La"}
  <2>1. Effect(label, instr, m) \in {m, Branch(m, instr)}
    BY <1>2 DEF Effect
  <2>2. QED
    BY <2>1, Branched
<1>3. CASE label = "Lb"
  <2>1. Effect(label, instr, m) = [m EXCEPT !.pc = instr.ext]
    BY <1>3 DEF Effect
  <2>2. instr.ext \in Words
    BY DEF Instructions
  <2>3. QED
    BY <2>1, <2>2, PcSet
<1>4. QED
  BY <1>1, <1>2, <1>3 DEF Branches

LEMMA EffectKeeps ==
  ASSUME NEW m \in TypedMachines, NEW instr \in Instructions,
         NEW label \in Labels \ {"Lc", "Lf", "default"},
         Named(label, instr) \subseteq Register
  PROVE  Effect(label, instr, m) \in TypedMachines /\ Effect(label, instr, m).own = m.own
BY Transferred, Computed, ShiftedOrBranched DEF Labels

\* What a jump through a register adds to it: for an offset below 128 the machines agree.
LEMMA JumpsAgree ==
  ASSUME NEW m \in TypedMachines, NEW instr \in Instructions, instr.op0 \in Register
  PROVE  /\ JumpTo(instr, m) \in TypedMachines
         /\ JavaJumpTo(instr, m) \in TypedMachines
         /\ m.own => JumpTo(instr, m).own
         /\ ~JumpTo(instr, m).own => JavaJumpTo(instr, m) = JumpTo(instr, m)
<1> DEFINE w == m.reg[instr.op0]
           inC == WordOf(2 * (instr.imm % Half))
           inJava == WordOf(2 * (instr.imm % 256))
<1>1. w \in Words
  BY DEF TypedMachines
<1>2. 2 * (instr.imm % Half) \in Int /\ 2 * (instr.imm % 256) \in Int
  BY DEF Instructions, Half
<1>3. inC \in Words /\ inJava \in Words
  BY <1>2, WordOfIsAWord
<1>4. instr.imm >= 0 => inC = inJava
  <2>1. instr.imm \in Int /\ instr.imm < 128
    BY DEF Instructions
  <2>2. instr.imm >= 0 => instr.imm % Half = instr.imm /\ instr.imm % 256 = instr.imm
    BY <2>1 DEF Half
  <2>3. QED
    BY <2>2
<1>5. /\ JumpTo(instr, m) = [m EXCEPT !.pc = Add(inC, w), !.own = m.own \/ instr.imm < 0]
      /\ JavaJumpTo(instr, m) = [m EXCEPT !.pc = Add(w, inJava)]
  BY DEF JumpTo, JavaJumpTo, TypedMachines
<1> HIDE DEF w, inC, inJava
<1>6. Add(inC, w) \in Words /\ Add(w, inJava) \in Words /\ Add(inC, w) = Add(w, inC)
  BY <1>1, <1>3, AddIsAWord
<1> DEFINE there == [m EXCEPT !.pc = Add(inC, w)]
<1>7. there \in TypedMachines /\ there.own = m.own /\ m.own \in BOOLEAN
  BY <1>6, PcSet DEF TypedMachines
<1>8. CASE instr.imm < 0
  <2>1. (m.own \/ instr.imm < 0) = TRUE
    BY <1>8
  <2>2. JumpTo(instr, m) = [there EXCEPT !.own = TRUE]
    BY <1>5, <2>1
  <2> HIDE DEF there
  <2>3. JumpTo(instr, m) \in TypedMachines /\ JumpTo(instr, m).own = TRUE
    BY <1>7, <2>2 DEF TypedMachines
  <2>4. JavaJumpTo(instr, m) \in TypedMachines
    BY <1>5, <1>6, PcSet
  <2>5. QED
    BY <2>3, <2>4
<1>9. CASE ~(instr.imm < 0)
  <2>1. (m.own \/ instr.imm < 0) = m.own
    BY <1>7, <1>9
  <2>2. JumpTo(instr, m) = [there EXCEPT !.own = m.own]
    BY <1>5, <2>1
  <2>3. instr.imm >= 0
    BY <1>9 DEF Instructions
  <2>4. JavaJumpTo(instr, m) = there
    BY <1>4, <1>5, <1>6, <2>3
  <2> HIDE DEF there
  <2>5. JumpTo(instr, m) = there
    BY <1>7, <2>2 DEF TypedMachines
  <2>6. QED
    BY <1>7, <2>4, <2>5
<1>10. QED
  BY <1>8, <1>9

LEMMA SystemCalls ==
  ASSUME NEW m \in TypedMachines, NEW instr \in Instructions
  PROVE  Sys(instr, m) \in TypedMachines /\ Sys(instr, m).own = TRUE
<1> DEFINE call == [m EXCEPT !.own = TRUE]
<1>1. call \in TypedMachines /\ call.own = TRUE
  BY DEF TypedMachines
<1>2. 0 \in Register /\ 2 \in Register
  BY DEF Register
<1>3. m.reg[2] \in Words
  BY <1>2 DEF TypedMachines
<1>4. WordOf(-1) \in Words /\ Zero \in Words
  <2>1. 0 \in Halves
    BY DEF Halves, Half
  <2>2. QED
    BY <2>1, WordOfIsAWord, MakeWord DEF Zero
<1>5. \E w \in Words : Sys(instr, m) \in {call, SetReg(call, 0, w)}
  <2>1. CASE instr.imm = 0
    BY <1>4, <2>1 DEF Sys
  <2>2. CASE instr.imm = 1
    BY <1>3, <1>4, <2>2 DEF Sys
  <2>3. CASE instr.imm # 0 /\ instr.imm # 1
    BY <1>4, <2>3 DEF Sys
  <2>4. QED
    BY <2>1, <2>2, <2>3
<1> HIDE DEF call
<1>6. QED
  BY <1>1, <1>2, <1>5, RegisterSet

LEMMA ExecKeeps ==
  ASSUME NEW m \in TypedMachines, NEW instr \in Instructions, NEW label \in Labels
  PROVE  exec(label, instr, m) \in TypedMachines /\ (m.own => exec(label, instr, m).own)
<1>1. CASE label = "default"
  BY <1>1 DEF exec
<1>2. CASE label = "Lf"
  <2>1. exec(label, instr, m) \in {Stop(m, "halted"), Sys(instr, m), m}
    BY <1>2 DEF exec
  <2>2. Stop(m, "halted") \in TypedMachines /\ (m.own => Stop(m, "halted").own)
    BY Stopped
  <2>3. Sys(instr, m) \in TypedMachines /\ Sys(instr, m).own
    BY SystemCalls
  <2>4. QED
    BY <2>1, <2>2, <2>3
<1>3. CASE label \notin {"default", "Lf"}
  <2>1. exec(label, instr, m) =
          IF ~(Named(label, instr) \subseteq Register) THEN Stop(m, "undefined")
          ELSE IF Accesses(label) /\ ~Inside(Address(label, instr, m), 4) THEN Stop(m, "undefined")
          ELSE IF label = "Lc" THEN JumpTo(instr, m) ELSE Effect(label, instr, m)
    BY <1>3 DEF exec, Labels, Transfers, Arithmetic, Branches
  <2>2. CASE exec(label, instr, m) = Stop(m, "undefined")
    BY <2>2, Stopped
  <2>3. CASE exec(label, instr, m) # Stop(m, "undefined")
    <3>1. Named(label, instr) \subseteq Register
      BY <2>1, <2>3
    <3>2. exec(label, instr, m) = IF label = "Lc" THEN JumpTo(instr, m) ELSE Effect(label, instr, m)
      BY <2>1, <2>3
    <3>3. label = "Lc" => instr.op0 \in Register
      BY <3>1 DEF Named
    <3>4. QED
      BY <1>3, <3>1, <3>2, <3>3, JumpsAgree, EffectKeeps
  <2>4. QED
    BY <2>2, <2>3
<1>4. QED
  BY <1>1, <1>2, <1>3

LEMMA ExecuteKeeps ==
  ASSUME NEW m \in TypedMachines, NEW instr \in Instructions, NEW label \in Labels
  PROVE  execute(label, instr, m) \in TypedMachines
<1>1. CASE label = "default"
  BY <1>1, Stopped DEF execute
<1>2. CASE label = "Lf"
  <2>1. execute(label, instr, m) \in {Stop(m, "halted"), m}
    BY <1>2 DEF execute
  <2>2. QED
    BY <2>1, Stopped
<1>3. CASE label \notin {"default", "Lf"}
  <2>1. execute(label, instr, m) =
          IF ~(Named(label, instr) \subseteq Register) THEN Stop(m, "thrown")
          ELSE IF Accesses(label) /\ (~Inside(Address(label, instr, m), 4) \/ Address(label, instr, m)[2] % 4 # 0)
            THEN Stop(m, "thrown")
          ELSE IF label = "Lc" THEN JavaJumpTo(instr, m) ELSE Effect(label, instr, m)
    BY <1>3 DEF execute, Labels, Transfers, Arithmetic, Branches
  <2>2. CASE execute(label, instr, m) = Stop(m, "thrown")
    BY <2>2, Stopped
  <2>3. CASE execute(label, instr, m) # Stop(m, "thrown")
    <3>1. Named(label, instr) \subseteq Register
      BY <2>1, <2>3
    <3>2. execute(label, instr, m) = IF label = "Lc" THEN JavaJumpTo(instr, m) ELSE Effect(label, instr, m)
      BY <2>1, <2>3
    <3>3. label = "Lc" => instr.op0 \in Register
      BY <3>1 DEF Named
    <3>4. QED
      BY <1>3, <3>1, <3>2, <3>3, JumpsAgree, EffectKeeps
  <2>4. QED
    BY <2>2, <2>3
<1>4. QED
  BY <1>1, <1>2, <1>3

\* An instruction that Java executes without an exception and C inside its arrays, and that is no
\* call of sys nor a jump of 128 or more, does the same in both.
LEMMA ExecutedAlike ==
  ASSUME NEW m \in TypedMachines, NEW instr \in Instructions, NEW label \in Labels,
         execute(label, instr, m).run # "thrown",
         exec(label, instr, m).run # "undefined", ~exec(label, instr, m).own
  PROVE  execute(label, instr, m) = exec(label, instr, m)
<1>1. CASE label = "default"
  BY <1>1, Stopped DEF execute
<1>2. CASE label = "Lf"
  <2>1. /\ execute(label, instr, m) = IF instr.op0 = 0 THEN Stop(m, "halted") ELSE m
        /\ exec(label, instr, m) = IF instr.op0 = 0 THEN Stop(m, "halted")
                                   ELSE IF instr.op0 = 1 THEN Sys(instr, m) ELSE m
    BY <1>2 DEF execute, exec
  <2>2. Sys(instr, m).own
    BY SystemCalls
  <2>3. exec(label, instr, m) # Sys(instr, m)
    BY <2>2
  <2>4. QED
    BY <2>1, <2>3
<1>3. CASE label \notin {"default", "Lf"}
  <2>1. execute(label, instr, m) =
          IF ~(Named(label, instr) \subseteq Register) THEN Stop(m, "thrown")
          ELSE IF Accesses(label) /\ (~Inside(Address(label, instr, m), 4) \/ Address(label, instr, m)[2] % 4 # 0)
            THEN Stop(m, "thrown")
          ELSE IF label = "Lc" THEN JavaJumpTo(instr, m) ELSE Effect(label, instr, m)
    BY <1>3 DEF execute, Labels, Transfers, Arithmetic, Branches
  <2>2. exec(label, instr, m) =
          IF ~(Named(label, instr) \subseteq Register) THEN Stop(m, "undefined")
          ELSE IF Accesses(label) /\ ~Inside(Address(label, instr, m), 4) THEN Stop(m, "undefined")
          ELSE IF label = "Lc" THEN JumpTo(instr, m) ELSE Effect(label, instr, m)
    BY <1>3 DEF exec, Labels, Transfers, Arithmetic, Branches
  <2>3. Stop(m, "thrown").run = "thrown" /\ Stop(m, "undefined").run = "undefined"
    BY Stopped
  <2>4. Named(label, instr) \subseteq Register
    BY <2>2, <2>3
  <2>5. /\ execute(label, instr, m) = IF label = "Lc" THEN JavaJumpTo(instr, m) ELSE Effect(label, instr, m)
        /\ exec(label, instr, m) = IF label = "Lc" THEN JumpTo(instr, m) ELSE Effect(label, instr, m)
    BY <2>1, <2>2, <2>3
  <2>6. label = "Lc" => instr.op0 \in Register
    BY <2>4 DEF Named
  <2>7. QED
    BY <2>5, <2>6, JumpsAgree
<1>4. QED
  BY <1>1, <1>2, <1>3

(***************************************************************************)
(* What is loaded                                                          *)
(***************************************************************************)
ALine == Int \X Seq(Byte)

LEMMA Loaded ==
  ASSUME NEW lines \in Seq(ALine), lines # <<>>, NEW start \in Int, NEW reg \in [Register -> Words]
  PROVE  loadFile(lines, start, reg) \in TypedMachines
<1> DEFINE Covered(n) == lines[n][1] .. lines[n][1] + Len(lines[n][2]) - 1
           last(a) == CHOOSE n \in DOMAIN lines :
                        a \in Covered(n) /\ \A m \in DOMAIN lines : m > n => a \notin Covered(m)
           addresses == UNION {Covered(n) : n \in DOMAIN lines}
           memory == [a \in addresses |-> lines[last(a)][2][a - lines[last(a)][1] + 1]]
           first == WordOf(IF start < 0 THEN lines[1][1] ELSE start)
<1>1. \A n \in DOMAIN lines : lines[n][1] \in Int /\ lines[n][2] \in Seq(Byte)
  BY DEF ALine
<1>2. DOMAIN lines = 1 .. Len(lines) /\ Len(lines) \in Nat /\ 1 \in DOMAIN lines
  OBVIOUS
<1>3. ASSUME NEW a \in addresses
      PROVE  last(a) \in DOMAIN lines /\ a \in Covered(last(a))
  <2> DEFINE S == {n \in DOMAIN lines : a \in Covered(n)}
  <2>1. S # {} /\ S \in SUBSET (1 .. Len(lines))
    BY <1>2
  <2>2. \E k \in S : \A m \in S : m =< k
    <3> DEFINE itself == [n \in S |-> n]
    <3>1. IsFiniteSet(S)
      <4>1. IsFiniteSet(1 .. Len(lines))
        BY <1>2, FS_Interval
      <4>2. QED
        BY <2>1, <4>1, FS_Subset
    <3>2. itself \in [S -> Nat]
      BY <1>2
    <3>3. \E k \in S : \A m \in S : itself[m] =< itself[k]
      BY <2>1, <3>1, <3>2, Greatest
    <3>4. QED
      BY <3>3
  <2>3. \E n \in DOMAIN lines : a \in Covered(n) /\ \A m \in DOMAIN lines : m > n => a \notin Covered(m)
    BY <1>2, <2>2
  <2> HIDE DEF S, Covered
  <2>4. QED
    BY <2>3
<1>4. ASSUME NEW n \in DOMAIN lines, NEW a \in Covered(n)
      PROVE  a \in Int /\ lines[n][2][a - lines[n][1] + 1] \in Byte
  <2>1. lines[n][1] \in Int /\ lines[n][2] \in Seq(Byte) /\ Len(lines[n][2]) \in Nat
    BY <1>1
  <2>2. a \in Int /\ a - lines[n][1] + 1 \in 1 .. Len(lines[n][2])
    BY <2>1
  <2>3. QED
    BY <2>1, <2>2
<1>5. addresses \in SUBSET Int
  BY <1>4
<1>6. loadFile(lines, start, reg) =
        [reg |-> reg, mem |-> memory, pc |-> first, run |-> "running", own |-> FALSE]
  BY DEF loadFile
<1>7. first \in Words
  <2>1. (IF start < 0 THEN lines[1][1] ELSE start) \in Int
    BY <1>1, <1>2
  <2>2. QED
    BY <2>1, WordOfIsAWord
<1> HIDE DEF first, last, Covered, addresses
<1>8. \A a \in addresses : memory[a] \in Byte
  BY <1>3, <1>4
<1>9. memory \in [addresses -> Byte]
  BY <1>8
<1> HIDE DEF memory
<1>10. memory \in Memories
  BY <1>5, <1>9, AMemory
<1>11. QED
  BY <1>6, <1>7, <1>10 DEF TypedMachines

LEMMA LineOfNumbers ==
  ASSUME NEW addr \in Int, NEW numbers \in Seq(Halves)
  PROVE  Line(addr, numbers) \in ALine
<1> DEFINE bytes == [k \in 1 .. 2 * Len(numbers) |->
                       IF k % 2 = 1 THEN numbers[(k + 1) \div 2] \div 256 ELSE numbers[k \div 2] % 256]
<1>1. \A x \in Halves : x \div 256 \in Byte /\ x % 256 \in Byte
  BY DEF Halves, Half, Byte
<1>2. ASSUME NEW k \in 1 .. 2 * Len(numbers) PROVE bytes[k] \in Byte
  <2>1. CASE k % 2 = 1
    <3>1. (k + 1) \div 2 \in 1 .. Len(numbers)
      BY <2>1
    <3>2. numbers[(k + 1) \div 2] \in Halves
      BY <3>1
    <3>3. bytes[k] = numbers[(k + 1) \div 2] \div 256
      BY <2>1
    <3>4. QED
      BY <1>1, <3>2, <3>3
  <2>2. CASE k % 2 # 1
    <3>1. k \div 2 \in 1 .. Len(numbers)
      BY <2>2
    <3>2. numbers[k \div 2] \in Halves
      BY <3>1
    <3>3. bytes[k] = numbers[k \div 2] % 256
      BY <2>2
    <3>4. QED
      BY <1>1, <3>2, <3>3
  <2>3. QED
    BY <2>1, <2>2
<1>3. Line(addr, numbers) = <<addr, bytes>>
  BY DEF Line
<1>4. 2 * Len(numbers) \in Nat
  OBVIOUS
<1>5. bytes \in [1 .. 2 * Len(numbers) -> Byte]
  BY <1>2
<1> HIDE DEF bytes
<1>6. bytes \in Seq(Byte)
  BY <1>4, <1>5
<1>7. QED
  BY <1>3, <1>6 DEF ALine

LEMMA SomeRegisters ==
  NoReg \in [Register -> Words] /\ SomeReg \subseteq [Register -> Words]
<1>1. /\ <<0, 0>> \in Words /\ <<0, 1>> \in Words /\ <<0, \h2000>> \in Words /\ <<0, 4>> \in Words
      /\ <<\hffff, \hfffc>> \in Words /\ <<0, \h1006>> \in Words /\ <<\h7fff, \hffff>> \in Words
      /\ <<\h8000, 0>> \in Words /\ <<\hffff, \hffff>> \in Words /\ <<0, \h2001>> \in Words
      /\ <<0, \h0800>> \in Words /\ <<\h4000, 0>> \in Words /\ <<0, \h9c3c>> \in Words
      /\ <<0, \h9c40>> \in Words /\ <<0, 2>> \in Words /\ <<0, \h3c>> \in Words
  BY DEF Words, Halves, Half
<1>2. NoReg \in [Register -> Words]
  BY <1>1 DEF NoReg, Zero
<1>3. Register = {0, 1, 2, 3, 4, 5, 6, 7}
  BY DEF Register
<1> DEFINE small == <<<<0, 0>>, <<0, 1>>, <<0, \h2000>>, <<0, 4>>, <<\hffff, \hfffc>>,
                      <<0, \h1006>>, <<\h7fff, \hffff>>, <<\h8000, 0>>>>
           edges == <<<<\hffff, \hffff>>, <<0, \h2001>>, <<0, \h0800>>, <<\h4000, 0>>,
                      <<0, \h9c3c>>, <<0, \h9c40>>, <<0, 2>>, <<0, \h3c>>>>
<1>4. \A r \in Register : small[r + 1] \in Words
  BY <1>1, <1>3
<1>5. \A r \in Register : edges[r + 1] \in Words
  BY <1>1, <1>3
<1>6. SomeReg = {[r \in Register |-> small[r + 1]], [r \in Register |-> edges[r + 1]]}
  BY DEF SomeReg
<1> HIDE DEF small, edges
<1>7. QED
  BY <1>2, <1>4, <1>5, <1>6

LEMMA MaxLines ==
  max_s \in Seq(ALine) /\ max_s # <<>>
<1> DEFINE at1000 == <<0, 0, 0, \h0100, \hffff, \hfff6, \h0200, 0, \h2000, \h1023, \h0400, 0, \h2008, \h6005,
                      \h6115, \h9509, \h2405, \h6057, \h6707, \h6307, \h6137, \ha701,
                      \h6053, \h6300, \h80f4, \h3302, \h0100, 0, \h2004, \h3001, \hf000>>
           at2000 == <<\hffff, \hffff, 0, 0, 0, 2, 0, \h28, 0, 6, 0, \h50, 0, \ha, 0, \h78, 0, \he, 0, \h10, 0,
                      \h12, 0, \h14>>
<1>1. max_s = <<Line(\h1000, at1000), Line(\h2000, at2000)>>
  BY DEF max_s
<1>2. at1000 \in Seq(Halves)
  BY DEF Halves, Half
<1>3. at2000 \in Seq(Halves)
  BY DEF Halves, Half
<1> HIDE DEF at1000, at2000
<1>4. /\ Line(\h1000, at1000) \in ALine /\ Line(\h2000, at2000) \in ALine
  BY <1>2, <1>3, LineOfNumbers
<1>5. QED
  BY <1>1, <1>4

LEMMA TestLines ==
  a2_test_s \in Seq(ALine) /\ a2_test_s # <<>>
<1> DEFINE at1000 == <<\h0100, 0, \h2000, \h0200, 0, 0, \h0300, 0, 1, \h2124, \h2135, \hf000>>
           at1100 == <<\h0100, 0, \h2000, \h0200, 0, 0, \h0300, 0, 3, \h0400, 0, 1, \h4312, \h4414, \hf000>>
           at1200 == <<\h0100, 0, 1, \h6012, \hf000>>
           at1300 == <<\h0100, 0, 1, \h0200, 0, 2, \h6112, \hf000>>
           at1400 == <<\h0100, 0, 10, \h0200, 0, 6, \h6212, \hf000>>
           at1500 == <<\h0100, 0, 1, \h6301, \hf000>>
           at1600 == <<\h0100, 0, 1, \h6401, \hf000>>
           at1700 == <<\h0100, 0, 2, \h6501, \hf000>>
           at1800 == <<\h0100, 0, 5, \h6601, \hf000>>
           at1900 == <<\h0100, \hffff, 0, \h6701, \hf000>>
           at1a00 == <<\h0100, \h1234, \h5678, \h7111, \hf000>>
           at2000 == <<0, 1, 0, 2>>
<1>1. a2_test_s = <<Line(\h1000, at1000), Line(\h1100, at1100), Line(\h1200, at1200), Line(\h1300, at1300),
              Line(\h1400, at1400), Line(\h1500, at1500), Line(\h1600, at1600),
              Line(\h1700, at1700), Line(\h1800, at1800), Line(\h1900, at1900),
              Line(\h1a00, at1a00), Line(\h2000, at2000)>>
  BY DEF a2_test_s
<1>2. at1000 \in Seq(Halves)
  BY DEF Halves, Half
<1>3. at1100 \in Seq(Halves)
  BY DEF Halves, Half
<1>4. at1200 \in Seq(Halves)
  BY DEF Halves, Half
<1>5. at1300 \in Seq(Halves)
  BY DEF Halves, Half
<1>6. at1400 \in Seq(Halves)
  BY DEF Halves, Half
<1>7. at1500 \in Seq(Halves)
  BY DEF Halves, Half
<1>8. at1600 \in Seq(Halves)
  BY DEF Halves, Half
<1>9. at1700 \in Seq(Halves)
  BY DEF Halves, Half
<1>10. at1800 \in Seq(Halves)
  BY DEF Halves, Half
<1>11. at1900 \in Seq(Halves)
  BY DEF Halves, Half
<1>12. at1a00 \in Seq(Halves)
  BY DEF Halves, Half
<1>13. at2000 \in Seq(Halves)
  BY DEF Halves, Half
<1> HIDE DEF at1000, at1100, at1200, at1300, at1400, at1500, at1600, at1700, at1800, at1900, at1a00, at2000
<1>14. \A addr \in Int, numbers \in Seq(Halves) : Line(addr, numbers) \in ALine
  BY LineOfNumbers
<1>15. Line(\h1000, at1000) \in ALine /\ Line(\h1100, at1100) \in ALine /\ Line(\h1200, at1200) \in ALine
  BY <1>2, <1>3, <1>4, <1>14
<1>16. Line(\h1300, at1300) \in ALine /\ Line(\h1400, at1400) \in ALine /\ Line(\h1500, at1500) \in ALine
  BY <1>5, <1>6, <1>7, <1>14
<1>17. Line(\h1600, at1600) \in ALine /\ Line(\h1700, at1700) \in ALine /\ Line(\h1800, at1800) \in ALine
  BY <1>8, <1>9, <1>10, <1>14
<1>18. Line(\h1900, at1900) \in ALine /\ Line(\h1a00, at1a00) \in ALine /\ Line(\h2000, at2000) \in ALine
  BY <1>11, <1>12, <1>13, <1>14
<1>19. QED
  BY <1>1, <1>15, <1>16, <1>17, <1>18

LEMMA SingleLines ==
  ASSUME NEW op \in Nibble, NEW op0 \in Nibble, NEW op1 \in Nibble, NEW op2 \in Nibble
  PROVE  Single(op, op0, op1, op2) \in Seq(ALine) /\ Single(op, op0, op1, op2) # <<>>
<1> DEFINE first == 4096 * op + 256 * op0 + 16 * op1 + op2
           code == IF op \in {0, 11} THEN <<first, \h8000, \h1002, \hf000>> ELSE <<first, \hf000, \hf100>>
           more == <<\h0001, \h8002, \hfffe, \h1234>>
<1>1. first \in Halves
  BY DEF Nibble, Halves, Half
<1>2. Single(op, op0, op1, op2) = <<Line(\h1000, code), Line(\h2000, more)>>
  BY DEF Single
<1> HIDE DEF first
<1>3. code \in Seq(Halves) /\ more \in Seq(Halves)
  <2>1. \h8000 \in Halves /\ \h1002 \in Halves /\ \hf000 \in Halves /\ \hf100 \in Halves
        /\ \h0001 \in Halves /\ \h8002 \in Halves /\ \hfffe \in Halves /\ \h1234 \in Halves
    BY DEF Halves, Half
  <2>2. QED
    BY <1>1, <2>1
<1> HIDE DEF code, more
<1>4. Line(\h1000, code) \in ALine /\ Line(\h2000, more) \in ALine
  BY <1>3, LineOfNumbers
<1>5. QED
  BY <1>2, <1>4

(***************************************************************************)
(* The machines agree                                                      *)
(***************************************************************************)
\* What the machines keep to: words and bytes are in their ranges, the tables do what the switch
\* does, Java what C does for as long as both are defined, and the CPU of a2 what that of a6 does
\* for as long as it throws nothing.
AgreeInv ==
  /\ sm \in TypedMachines /\ cpu6 \in TypedMachines
  /\ JumpTablesRight /\ JavaAgrees /\ EarlierCPU

LEMMA MachineStarts ==
  MachineInit(digits, longest) => AgreeInv
<1> SUFFICES ASSUME MachineInit(digits, longest) PROVE AgreeInv
  OBVIOUS
<1> DEFINE Starts(lines, start, reg) ==
      lines \in Seq(ALine) /\ lines # <<>> /\ start \in Int /\ reg \in [Register -> Words]
<1>1. ASSUME NEW lines, NEW start, NEW reg, NEW limit, Starts(lines, start, reg), Init(lines, start, reg, limit)
      PROVE  AgreeInv
  <2>1. sm \in TypedMachines
    BY <1>1, Loaded DEF Init
  <2>2. jt = sm /\ cpu6 = sm /\ cpu2 = sm
    BY <1>1 DEF Init
  <2>3. QED
    BY <2>1, <2>2 DEF AgreeInv, JumpTablesRight, JavaAgrees, EarlierCPU
<1>2. CASE program = <<"max", 0>> /\ Init(max_s, -1, NoReg, longest)
  <2>1. Starts(max_s, -1, NoReg)
    BY MaxLines, SomeRegisters
  <2> HIDE DEF Starts
  <2>2. QED
    BY <1>1, <1>2, <2>1
<1>3. CASE \E test \in Results : program = <<"test", test[1]>> /\ Init(a2_test_s, test[1], NoReg, longest)
  <2>1. PICK test \in Results : Init(a2_test_s, test[1], NoReg, longest)
    BY <1>3
  <2>2. test[1] \in Int
    BY DEF Results
  <2>3. Starts(a2_test_s, test[1], NoReg)
    BY <2>2, TestLines, SomeRegisters
  <2> HIDE DEF Starts
  <2>4. QED
    BY <1>1, <2>1, <2>3
<1>4. CASE \E op \in 0 .. 15, op0 \in 0 .. 15, op1, op2 \in digits, reg \in SomeReg :
             Init(Single(op, op0, op1, op2), -1, reg, 2)
  <2>1. PICK op \in 0 .. 15, op0 \in 0 .. 15, op1 \in digits, op2 \in digits, reg \in SomeReg :
          Init(Single(op, op0, op1, op2), -1, reg, 2)
    BY <1>4
  <2>2. op \in Nibble /\ op0 \in Nibble /\ op1 \in Nibble /\ op2 \in Nibble
    BY DigitsAssumption DEF Nibble
  <2>3. Starts(Single(op, op0, op1, op2), -1, reg)
    BY <2>2, SingleLines, SomeRegisters
  <2> HIDE DEF Starts
  <2>4. QED
    BY <1>1, <2>1, <2>3
<1>5. QED
  BY <1>2, <1>3, <1>4 DEF MachineInit

LEMMA RoundOfC ==
  ASSUME NEW m \in TypedMachines
  PROVE  /\ Run(m, SwitchExec(m), "undefined") \in TypedMachines
         /\ m.own => Run(m, SwitchExec(m), "undefined").own
         /\ Run(m, JumpExec(m), "undefined") = Run(m, SwitchExec(m), "undefined")
<1> DEFINE instr == Decode(m)
           label == Switch(instr, Cases, AluCases)
           n == Advance(m)
<1>1. instr \in Instructions
  BY DecodedRight
<1>2. n \in TypedMachines /\ n.own = m.own
  BY Advanced
<1>3. SwitchExec(m) = exec(label, instr, n) /\ JumpExec(m) = exec(JumpTable(instr), instr, n)
  BY DEF SwitchExec, JumpExec
<1> HIDE DEF instr, n
<1>4. label \in Labels /\ JumpTable(instr) = label
  BY <1>1, SwitchLabels, TablesAreSwitches
<1> HIDE DEF label
<1>5. exec(label, instr, n) \in TypedMachines /\ (n.own => exec(label, instr, n).own)
  BY <1>1, <1>2, <1>4, ExecKeeps
<1>6. SwitchExec(m) \in TypedMachines /\ (m.own => SwitchExec(m).own) /\ JumpExec(m) = SwitchExec(m)
  BY <1>2, <1>3, <1>4, <1>5
<1>7. Stop(m, "undefined") \in TypedMachines /\ Stop(m, "undefined").own = m.own
  BY Stopped
<1>8. Run(m, SwitchExec(m), "undefined") \in {m, SwitchExec(m), Stop(m, "undefined")}
  BY DEF Run
<1>9. QED
  <2>1. Run(m, SwitchExec(m), "undefined") \in TypedMachines
    BY <1>6, <1>7, <1>8
  <2>2. m.own => Run(m, SwitchExec(m), "undefined").own
    BY <1>6, <1>7, <1>8
  <2>3. Run(m, JumpExec(m), "undefined") = Run(m, SwitchExec(m), "undefined")
    BY <1>6
  <2>4. QED
    BY <2>1, <2>2, <2>3

LEMMA RoundOfJava ==
  ASSUME NEW m \in TypedMachines
  PROVE  /\ Run(m, Execute6(m), "thrown") \in TypedMachines
         /\ /\ Run(m, Execute6(m), "thrown").run # "thrown"
            /\ Run(m, SwitchExec(m), "undefined").run # "undefined"
            /\ ~Run(m, SwitchExec(m), "undefined").own
            => Run(m, Execute6(m), "thrown") = Run(m, SwitchExec(m), "undefined")
         /\ Run(m, Execute2(m), "thrown").run # "thrown"
            => Run(m, Execute2(m), "thrown") = Run(m, Execute6(m), "thrown")
<1> DEFINE instr == Decode(m)
           label == Switch(instr, Cases, AluCases)
           label2 == Switch(instr, Cases2, AluCases2)
           n == Advance(m)
<1>1. instr \in Instructions
  BY DecodedRight
<1>2. n \in TypedMachines
  BY Advanced
<1>3. /\ SwitchExec(m) = exec(label, instr, n) /\ Execute6(m) = execute(label, instr, n)
      /\ Execute2(m) = execute(label2, instr, n)
  BY DEF SwitchExec, Execute6, Execute2
<1>4. label \in Labels /\ (label2 # "default" => label2 = label)
  BY <1>1, SwitchLabels, EarlierSwitch
<1> HIDE DEF instr, n, label, label2
<1>5. Execute6(m) \in TypedMachines
  BY <1>1, <1>2, <1>3, <1>4, ExecuteKeeps
<1>6. Execute6(m).run # "thrown" /\ SwitchExec(m).run # "undefined" /\ ~SwitchExec(m).own
        => Execute6(m) = SwitchExec(m)
  BY <1>1, <1>2, <1>3, <1>4, ExecutedAlike
<1>7. Execute2(m).run # "thrown" => Execute2(m) = Execute6(m)
  <2>1. CASE label2 = "default"
    <3>1. Execute2(m) = Stop(n, "thrown")
      BY <1>3, <2>1 DEF execute
    <3>2. QED
      BY <1>2, <3>1, Stopped
  <2>2. CASE label2 # "default"
    BY <1>3, <1>4, <2>2
  <2>3. QED
    BY <2>1, <2>2
<1>8. Stop(m, "thrown") \in TypedMachines /\ Stop(m, "thrown").run = "thrown"
  BY Stopped
<1>9. CASE m.run # "running"
  BY <1>9 DEF Run
<1>10. CASE m.run = "running" /\ CanFetch(m)
  <2>1. /\ Run(m, Execute6(m), "thrown") = Execute6(m) /\ Run(m, Execute2(m), "thrown") = Execute2(m)
        /\ Run(m, SwitchExec(m), "undefined") = SwitchExec(m)
    BY <1>10 DEF Run
  <2>2. QED
    BY <1>5, <1>6, <1>7, <2>1
<1>11. CASE m.run = "running" /\ ~CanFetch(m)
  <2>1. Run(m, Execute6(m), "thrown") = Stop(m, "thrown") /\ Run(m, Execute2(m), "thrown") = Stop(m, "thrown")
    BY <1>11 DEF Run
  <2>2. QED
    BY <1>8, <2>1
<1>12. QED
  BY <1>9, <1>10, <1>11

\* A machine that has left what is defined stays so.
LEMMA BadStays ==
  ASSUME NEW m, NEW executed, NEW bad, m.run # "running"
  PROVE  Run(m, executed, bad) = m
BY DEF Run

LEMMA MachineStep ==
  ASSUME AgreeInv, Next
  PROVE  AgreeInv'
<1>1. sm \in TypedMachines /\ cpu6 \in TypedMachines /\ jt = sm /\ JavaAgrees /\ EarlierCPU
  BY DEF AgreeInv, JumpTablesRight
<1>2. /\ sm' = Run(sm, SwitchExec(sm), "undefined") /\ jt' = Run(jt, JumpExec(jt), "undefined")
      /\ cpu6' = Run(cpu6, Execute6(cpu6), "thrown") /\ cpu2' = Run(cpu2, Execute2(cpu2), "thrown")
  BY DEF Next
<1>3. sm' \in TypedMachines /\ jt' = sm' /\ (sm.own => sm'.own)
  BY <1>1, <1>2, RoundOfC
<1>4. cpu6' \in TypedMachines
  BY <1>1, <1>2, RoundOfJava
<1>5. ASSUME cpu6'.run # "thrown", sm'.run # "undefined", ~sm'.own
      PROVE  cpu6' = sm'
  <2>1. cpu6.run # "thrown"
    BY <1>2, <1>5, BadStays
  <2>2. sm.run # "undefined"
    BY <1>2, <1>5, BadStays
  <2>3. ~sm.own
    BY <1>3, <1>5
  <2>4. cpu6 = sm
    BY <1>1, <2>1, <2>2, <2>3 DEF JavaAgrees
  <2>5. QED
    BY <1>1, <1>2, <1>5, <2>4, RoundOfJava
<1>6. ASSUME cpu2'.run # "thrown"
      PROVE  cpu2' = cpu6'
  <2>1. cpu2.run # "thrown"
    BY <1>2, <1>6, BadStays
  <2>2. cpu2 = cpu6
    BY <1>1, <2>1 DEF EarlierCPU
  <2>3. QED
    BY <1>1, <1>2, <1>6, <2>2, RoundOfJava
<1>7. JavaAgrees'
  BY <1>5 DEF JavaAgrees
<1>8. EarlierCPU'
  BY <1>6 DEF EarlierCPU
<1>9. QED
  BY <1>3, <1>4, <1>7, <1>8 DEF AgreeInv, JumpTablesRight

\* Programs of C and Java agree: the words and bytes of the machines stay in their ranges, and the
\* properties of SM213 hold, in every step of every program that is loaded.
THEOREM MachinesKeepInvariant == SuiteSpec => [](subject = "machine" => AgreeInv)
<1> DEFINE Inv == subject = "machine" => AgreeInv
<1>1. SuiteInit => Inv
  BY MachineStarts DEF SuiteInit
<1>2. Inv /\ [SuiteNext]_everything => Inv'
  <2> SUFFICES ASSUME Inv, [SuiteNext]_everything, subject' = "machine" PROVE AgreeInv'
    OBVIOUS
  <2>1. CASE RunMachine
    <3>1. subject = "machine" /\ Next
      BY <2>1 DEF RunMachine
    <3>2. QED
      BY <3>1, MachineStep
  <2>2. CASE UNCHANGED machine /\ subject' = subject
    <3>1. AgreeInv /\ UNCHANGED <<sm, jt, cpu6, cpu2>>
      BY <2>2 DEF machine, machines
    <3>2. QED
      BY <3>1 DEF AgreeInv, JumpTablesRight, JavaAgrees, EarlierCPU
  <2>3. CASE UseData
    <3>1. UNCHANGED machine /\ subject' = subject
      BY <2>3 DEF UseData, DataNext, CallHeap, UseElements, CallList, ReadArgument
    <3>2. QED
      BY <2>2, <3>1
  <2>4. CASE UNCHANGED everything
    <3>1. UNCHANGED machine /\ subject' = subject
      BY <2>4 DEF everything, data
    <3>2. QED
      BY <2>2, <3>1
  <2>5. QED
    BY <2>1, <2>3, <2>4 DEF SuiteNext
<1>3. QED
  BY <1>1, <1>2, PTL DEF SuiteSpec

\* sm.c, sm-jt.c and the two CPU.java: the tables do what the switch does and are never jumped
\* through where they are empty, C and Java agree on all that both define, and the CPU of a2 does
\* what that of a6 does.
THEOREM MachinesAlwaysAgree == SuiteSpec => []MachinesAgree
<1>1. (subject = "machine" => AgreeInv) => MachinesAgree
  BY DEF AgreeInv, MachinesAgree, Machine
<1>2. QED
  BY <1>1, MachinesKeepInvariant, PTL

\* Whatever a register holds, its bytes are taken apart and put together again, in the order of
\* CPU.java and in both of Endianness.java.
THEOREM WordsAlwaysKept == SuiteSpec => [](subject = "machine" => WordsKept)
<1>1. AgreeInv => WordsKept
  <2> SUFFICES ASSUME AgreeInv, NEW r \in Register
               PROVE  LET w == cpu6.reg[r]  b == integerToBytes(w) IN
                        bytesToInteger(b) = w /\ bigEndianValue(b) = w /\ littleEndianValue(Reverse(b)) = w
    BY DEF WordsKept
  <2> DEFINE w == cpu6.reg[r]
             b == integerToBytes(w)
  <2>1. w \in Words
    BY DEF AgreeInv, TypedMachines
  <2>2. bytesToInteger(b) = w
    BY <2>1, BytesKeepWord
  <2>3. b = <<w[1] \div 256, w[1] % 256, w[2] \div 256, w[2] % 256>>
    BY DEF integerToBytes
  <2> HIDE DEF w, b
  <2>4. Reverse(b)[1] = b[4] /\ Reverse(b)[2] = b[3] /\ Reverse(b)[3] = b[2] /\ Reverse(b)[4] = b[1]
    BY <2>3 DEF Reverse
  <2>5. bigEndianValue(b) = bytesToInteger(b) /\ littleEndianValue(Reverse(b)) = bytesToInteger(b)
    BY <2>4 DEF bigEndianValue, littleEndianValue, bytesToInteger
  <2>6. QED
    BY <2>2, <2>5 DEF w, b
<1>2. (subject = "machine" => AgreeInv) => (subject = "machine" => WordsKept)
  BY <1>1
<1>3. QED
  BY <1>2, MachinesKeepInvariant, PTL

\* The theorems about DataSpec hold of the suite that the run checks: its machines leave the data
\* alone.
THEOREM SuiteUsesData == SuiteSpec => DataSpec
<1>1. SuiteInit => DataInit
  BY DEF SuiteInit
<1>2. [SuiteNext]_everything => [DataNext]_data
  BY DEF SuiteNext, RunMachine, UseData, everything
<1>3. QED
  BY <1>1, <1>2, PTL DEF SuiteSpec, DataSpec

=============================================================================
