------------------------ MODULE DynamicAABBTree_proof ------------------------
(***************************************************************************)
(* Proofs about the dynamic tree, for every set of items, nodes and boxes. *)
(***************************************************************************)
EXTENDS DynamicAABBTree, FiniteSetTheorems, WellFoundedInduction, TLAPS

-----------------------------------------------------------------------------
(***************************************************************************)
(* What the operators on trees do, field by field.                         *)
(***************************************************************************)

Tree == [root : Node \cup {Nil},
         left : [Node -> Node \cup {Nil}],
         right : [Node -> Node \cup {Nil}],
         parent : [Node -> Node \cup {Nil}],
         height : [Node -> Nat],
         aabb : [Node -> SUBSET Cell]]

LEMMA Fields ==
  ASSUME NEW t \in Tree
  PROVE  t = [root |-> t.root, left |-> t.left, right |-> t.right,
              parent |-> t.parent, height |-> t.height, aabb |-> t.aabb]
BY DEF Tree

LEMMA HangDoes ==
  ASSUME NEW t \in Tree, NEW p \in Node \cup {Nil}, NEW old, NEW new \in Node
  PROVE  Hang(t, p, old, new) =
         [root |-> IF p = Nil THEN new ELSE t.root,
          left |-> [n \in Node |-> IF n = p /\ t.left[p] = old THEN new ELSE t.left[n]],
          right |-> [n \in Node |-> IF n = p /\ t.left[p] # old THEN new ELSE t.right[n]],
          parent |-> t.parent, height |-> t.height, aabb |-> t.aabb]
<1>1. CASE p = Nil
  BY <1>1, NodeAssumption DEF Hang, Tree
<1>2. CASE p # Nil /\ t.left[p] = old
  BY <1>2, NodeAssumption DEF Hang, Tree
<1>3. CASE p # Nil /\ t.left[p] # old
  BY <1>3, NodeAssumption DEF Hang, Tree
<1> QED
  BY <1>1, <1>2, <1>3

\* Measuring a node with two children changes its height and its box.
LEMMA MeasureDoes ==
  ASSUME NEW t \in Tree, NEW n \in Node, t.left[n] \in Node, t.right[n] \in Node
  PROVE  /\ Measure(t, n) \in Tree
         /\ Measure(t, n) =
            [root |-> t.root, left |-> t.left, right |-> t.right, parent |-> t.parent,
             height |-> [m \in Node |->
               IF m = n THEN OneAbove(t, t.left[n], t.right[n]) ELSE t.height[m]],
             aabb |-> [m \in Node |->
               IF m = n THEN t.aabb[t.left[n]] \cup t.aabb[t.right[n]] ELSE t.aabb[m]]]
<1> DEFINE o == OneAbove(t, t.left[n], t.right[n])
           b == t.aabb[t.left[n]] \cup t.aabb[t.right[n]]
           u == [t EXCEPT !.height[n] = o, !.aabb[n] = b]
<1>1. Measure(t, n) = u
  BY DEF Measure
<1>2. o \in Nat /\ b \in SUBSET Cell
  BY DEF OneAbove, Taller, Tree
<1> HIDE DEF o, b
<1>3. /\ u \in Tree /\ u.root = t.root
      /\ u.left = t.left /\ u.right = t.right /\ u.parent = t.parent
      /\ u.height = [m \in Node |-> IF m = n THEN o ELSE t.height[m]]
      /\ u.aabb = [m \in Node |-> IF m = n THEN b ELSE t.aabb[m]]
  BY <1>2 DEF Tree
<1> HIDE DEF u
<1> QED
  BY <1>1, <1>3, Fields DEF o, b

\* The node `up` takes the place of its parent a, and gives it the child c.
LEMMA WireDoes ==
  ASSUME NEW t \in Tree, NEW a \in Node, NEW up \in Node, a # up,
         t.parent[a] \notin {a, up}, t.left[up] \in Node, t.right[up] \in Node,
         NEW g, g = t.parent[a], NEW c, c = Given(t, up)
  PROVE  /\ Wire(t, a, up) \in Tree
         /\ Wire(t, a, up) =
            [root |-> IF g = Nil THEN up ELSE t.root,
             left |-> [n \in Node |->
               IF n = up THEN a
               ELSE IF n = a THEN (IF t.left[a] = up THEN c ELSE t.left[a])
               ELSE IF n = g /\ t.left[g] = a THEN up ELSE t.left[n]],
             right |-> [n \in Node |->
               IF n = up THEN Kept(t, up)
               ELSE IF n = a THEN (IF t.left[a] = up THEN t.right[a] ELSE c)
               ELSE IF n = g /\ t.left[g] # a THEN up ELSE t.right[n]],
             parent |-> [n \in Node |->
               IF n = c THEN a ELSE IF n = a THEN up ELSE IF n = up THEN g ELSE t.parent[n]],
             height |-> t.height, aabb |-> t.aabb]
<1> DEFINE h == [root |-> IF g = Nil THEN up ELSE t.root,
                 left |-> [n \in Node |-> IF n = g /\ t.left[g] = a THEN up ELSE t.left[n]],
                 right |-> [n \in Node |-> IF n = g /\ t.left[g] # a THEN up ELSE t.right[n]],
                 parent |-> t.parent, height |-> t.height, aabb |-> t.aabb]
           k == [root |-> h.root,
                 left |-> [n \in Node |-> IF n = a /\ h.left[a] = up THEN c ELSE h.left[n]],
                 right |-> [n \in Node |-> IF n = a /\ h.left[a] # up THEN c ELSE h.right[n]],
                 parent |-> h.parent, height |-> h.height, aabb |-> h.aabb]
           w == [k EXCEPT !.left[up] = a, !.right[up] = Kept(t, up), !.parent[up] = g,
                          !.parent[a] = up, !.parent[c] = a]
<1>1. c \in Node /\ Kept(t, up) \in Node /\ g \in Node \cup {Nil} /\ a # Nil
  BY NodeAssumption DEF Given, Kept, Taller, Tree
<1>2. h = Hang(t, g, a, up)
  BY <1>1, HangDoes
<1>3. h \in Tree
  BY <1>1 DEF Tree
<1>4. k \in Tree
  <2> HIDE DEF h
  <2> QED
    BY <1>1, <1>3 DEF Tree
<1>5. Wire(t, a, up) = w
  <2>1. k = Hang(h, a, up, c)
    <3> HIDE DEF h
    <3> QED
      BY <1>1, <1>3, HangDoes
  <2> QED
    BY <1>2, <2>1 DEF Wire
<1>6. /\ w \in Tree /\ w.root = k.root /\ w.height = k.height /\ w.aabb = k.aabb
      /\ w.left = [k.left EXCEPT ![up] = a] /\ w.right = [k.right EXCEPT ![up] = Kept(t, up)]
      /\ w.parent = [k.parent EXCEPT ![up] = g, ![a] = up, ![c] = a]
  <2> HIDE DEF k
  <2> QED
    BY <1>1, <1>4 DEF Tree
<1>7. [k.left EXCEPT ![up] = a] = [n \in Node |->
         IF n = up THEN a
         ELSE IF n = a THEN (IF t.left[a] = up THEN c ELSE t.left[a])
         ELSE IF n = g /\ t.left[g] = a THEN up ELSE t.left[n]]
  OBVIOUS
<1>8. [k.right EXCEPT ![up] = Kept(t, up)] = [n \in Node |->
         IF n = up THEN Kept(t, up)
         ELSE IF n = a THEN (IF t.left[a] = up THEN t.right[a] ELSE c)
         ELSE IF n = g /\ t.left[g] # a THEN up ELSE t.right[n]]
  OBVIOUS
<1>9. [k.parent EXCEPT ![up] = g, ![a] = up, ![c] = a] = [n \in Node |->
         IF n = c THEN a ELSE IF n = a THEN up ELSE IF n = up THEN g ELSE t.parent[n]]
  BY DEF Tree
<1> HIDE DEF w
<1>10. w = [root |-> w.root, left |-> w.left, right |-> w.right,
             parent |-> w.parent, height |-> w.height, aabb |-> w.aabb]
  BY <1>6, Fields
<1> QED
  BY <1>5, <1>6, <1>7, <1>8, <1>9, <1>10

\* The node p takes the place of s, with s and i as its children.
LEMMA GraftDoes ==
  ASSUME NEW t \in Tree, NEW s \in Node, NEW p \in Node, NEW i \in Node,
         p \notin {s, i}, i # s, t.parent[s] # p, NEW g, g = t.parent[s]
  PROVE  /\ Graft(t, s, p, i) \in Tree
         /\ Graft(t, s, p, i) =
            [root |-> IF g = Nil THEN p ELSE t.root,
             left |-> [n \in Node |->
               IF n = p THEN s ELSE IF n = g /\ t.left[g] = s THEN p ELSE t.left[n]],
             right |-> [n \in Node |->
               IF n = p THEN i ELSE IF n = g /\ t.left[g] # s THEN p ELSE t.right[n]],
             parent |-> [n \in Node |->
               IF n \in {s, i} THEN p ELSE IF n = p THEN g ELSE t.parent[n]],
             height |-> [n \in Node |-> IF n = p THEN t.height[s] + 1 ELSE t.height[n]],
             aabb |-> [n \in Node |-> IF n = p THEN t.aabb[s] \cup t.aabb[i] ELSE t.aabb[n]]]
<1> DEFINE h == [root |-> IF g = Nil THEN p ELSE t.root,
                 left |-> [n \in Node |-> IF n = g /\ t.left[g] = s THEN p ELSE t.left[n]],
                 right |-> [n \in Node |-> IF n = g /\ t.left[g] # s THEN p ELSE t.right[n]],
                 parent |-> t.parent, height |-> t.height, aabb |-> t.aabb]
           o == t.height[s] + 1
           b == t.aabb[s] \cup t.aabb[i]
           w == [h EXCEPT !.left[p] = s, !.right[p] = i, !.parent[p] = g,
                          !.parent[s] = p, !.parent[i] = p, !.height[p] = o, !.aabb[p] = b]
<1>1. g \in Node \cup {Nil} /\ o \in Nat /\ b \in SUBSET Cell
  BY DEF Tree
<1>2. h = Hang(t, g, s, p)
  BY <1>1, HangDoes
<1>3. h \in Tree
  BY <1>1 DEF Tree
<1>4. Graft(t, s, p, i) = w
  BY <1>2 DEF Graft
<1>5. /\ w \in Tree /\ w.root = h.root
      /\ w.left = [h.left EXCEPT ![p] = s] /\ w.right = [h.right EXCEPT ![p] = i]
      /\ w.parent = [h.parent EXCEPT ![p] = g, ![s] = p, ![i] = p]
      /\ w.height = [h.height EXCEPT ![p] = o] /\ w.aabb = [h.aabb EXCEPT ![p] = b]
  <2> HIDE DEF h, o, b
  <2> QED
    BY <1>1, <1>3 DEF Tree
<1>6. /\ [h.left EXCEPT ![p] = s] = [n \in Node |->
            IF n = p THEN s ELSE IF n = g /\ t.left[g] = s THEN p ELSE t.left[n]]
      /\ [h.right EXCEPT ![p] = i] = [n \in Node |->
            IF n = p THEN i ELSE IF n = g /\ t.left[g] # s THEN p ELSE t.right[n]]
  OBVIOUS
<1>7. /\ [h.parent EXCEPT ![p] = g, ![s] = p, ![i] = p] = [n \in Node |->
            IF n \in {s, i} THEN p ELSE IF n = p THEN g ELSE t.parent[n]]
      /\ [h.height EXCEPT ![p] = o] = [n \in Node |-> IF n = p THEN o ELSE t.height[n]]
      /\ [h.aabb EXCEPT ![p] = b] = [n \in Node |-> IF n = p THEN b ELSE t.aabb[n]]
  BY DEF Tree
<1> HIDE DEF w
<1>10. w = [root |-> w.root, left |-> w.left, right |-> w.right,
             parent |-> w.parent, height |-> w.height, aabb |-> w.aabb]
  BY <1>5, Fields
<1> QED
  BY <1>4, <1>5, <1>6, <1>7, <1>10

\* The sibling of i takes the place of their parent p, which is reset.
LEMMA PruneDoes ==
  ASSUME NEW t \in Tree, NEW i \in Node, t.root # i,
         NEW p \in Node, p = t.parent[i], NEW g, g = t.parent[p], g # p,
         t.left[p] \in Node \ {p}, t.right[p] \in Node \ {p},
         NEW other, other = IF t.left[p] = i THEN t.right[p] ELSE t.left[p]
  PROVE  /\ Prune(t, i) \in Tree
         /\ Prune(t, i) =
            [root |-> IF g = Nil THEN other ELSE t.root,
             left |-> [n \in Node |->
               IF n = p THEN Nil ELSE IF n = g /\ t.left[g] = p THEN other ELSE t.left[n]],
             right |-> [n \in Node |->
               IF n = p THEN Nil ELSE IF n = g /\ t.left[g] # p THEN other ELSE t.right[n]],
             parent |-> [n \in Node |->
               IF n = other THEN g ELSE IF n = p THEN Nil ELSE t.parent[n]],
             height |-> [n \in Node |-> IF n = p THEN 0 ELSE t.height[n]],
             aabb |-> [n \in Node |-> IF n = p THEN {} ELSE t.aabb[n]]]
<1> DEFINE h == [root |-> IF g = Nil THEN other ELSE t.root,
                 left |-> [n \in Node |-> IF n = g /\ t.left[g] = p THEN other ELSE t.left[n]],
                 right |-> [n \in Node |-> IF n = g /\ t.left[g] # p THEN other ELSE t.right[n]],
                 parent |-> t.parent, height |-> t.height, aabb |-> t.aabb]
           v == [h EXCEPT !.parent[other] = g, !.left[p] = Nil, !.right[p] = Nil]
           w == [v EXCEPT !.parent[p] = Nil, !.height[p] = 0, !.aabb[p] = {}]
<1>1. g \in Node \cup {Nil} /\ other \in Node /\ other # p
  BY DEF Tree
<1>2. h = Hang(t, g, p, other)
  BY ONLY t \in Tree, <1>1, HangDoes
<1>3. h \in Tree
  BY <1>1 DEF Tree
<1>4. Prune(t, i) = w
  BY <1>2 DEF Prune
<1>5. /\ w \in Tree /\ w.root = h.root
      /\ w.left = [h.left EXCEPT ![p] = Nil] /\ w.right = [h.right EXCEPT ![p] = Nil]
      /\ w.parent = [h.parent EXCEPT ![other] = g, ![p] = Nil]
      /\ w.height = [h.height EXCEPT ![p] = 0] /\ w.aabb = [h.aabb EXCEPT ![p] = {}]
  <2> HIDE DEF h
  <2>1. /\ v \in Tree /\ v.root = h.root /\ v.height = h.height /\ v.aabb = h.aabb
        /\ v.left = [h.left EXCEPT ![p] = Nil] /\ v.right = [h.right EXCEPT ![p] = Nil]
        /\ v.parent = [h.parent EXCEPT ![other] = g]
    BY <1>1, <1>3 DEF Tree
  <2> HIDE DEF v
  <2>2. /\ w \in Tree /\ w.root = v.root /\ w.left = v.left /\ w.right = v.right
        /\ w.parent = [v.parent EXCEPT ![p] = Nil]
        /\ w.height = [v.height EXCEPT ![p] = 0] /\ w.aabb = [v.aabb EXCEPT ![p] = {}]
    BY <2>1 DEF Tree
  <2> QED
    BY <2>1, <2>2
<1>6. /\ [h.left EXCEPT ![p] = Nil] = [n \in Node |->
            IF n = p THEN Nil ELSE IF n = g /\ t.left[g] = p THEN other ELSE t.left[n]]
      /\ [h.right EXCEPT ![p] = Nil] = [n \in Node |->
            IF n = p THEN Nil ELSE IF n = g /\ t.left[g] # p THEN other ELSE t.right[n]]
  OBVIOUS
<1>7. /\ [h.parent EXCEPT ![other] = g, ![p] = Nil] = [n \in Node |->
            IF n = other THEN g ELSE IF n = p THEN Nil ELSE t.parent[n]]
      /\ [h.height EXCEPT ![p] = 0] = [n \in Node |-> IF n = p THEN 0 ELSE t.height[n]]
      /\ [h.aabb EXCEPT ![p] = {}] = [n \in Node |-> IF n = p THEN {} ELSE t.aabb[n]]
  BY <1>1 DEF Tree
<1> HIDE DEF w
<1>10. w = [root |-> w.root, left |-> w.left, right |-> w.right,
             parent |-> w.parent, height |-> w.height, aabb |-> w.aabb]
  BY <1>5, Fields
<1> QED
  BY <1>4, <1>5, <1>6, <1>7, <1>10

-----------------------------------------------------------------------------
(***************************************************************************)
(* The shape of a tree t whose leaves are the items P.                     *)
(***************************************************************************)

Nodes(t, P) == Used(t) \cup P
Kids(t, n) == {t.left[n], t.right[n]}

\* Every node lies deeper than its parent, which is what excludes cycles.
Ranked(t) ==
  \E depth \in [Node -> Nat] : \A n \in Used(t) : \A k \in Kids(t, n) : depth[n] < depth[k]

Leafy(t) == \A i \in Item : t.left[i] = Nil /\ t.right[i] = Nil /\ t.height[i] = 0

Rooted(t, P) ==
  /\ t.root = Nil => Nodes(t, P) = {}
  /\ t.root # Nil => t.root \in Nodes(t, P) /\ t.parent[t.root] = Nil

Downward(t, P) ==
  \A n \in Used(t) :
    /\ t.left[n] # t.right[n]
    /\ \A k \in Kids(t, n) : k \in Nodes(t, P) /\ t.parent[k] = n

Upward(t, P) ==
  \A n \in Nodes(t, P) \ {t.root} : t.parent[n] \in Used(t) /\ n \in Kids(t, t.parent[n])

\* One inner node fewer than leaves, so that one is always free for another.
Counted(t, P) ==
  /\ t.root = Nil => P = {}
  /\ t.root # Nil => Cardinality(P) = Cardinality(Used(t)) + 1

Shape(t, P) ==
  /\ t \in Tree /\ P \subseteq Item
  /\ Leafy(t) /\ Rooted(t, P) /\ Downward(t, P) /\ Upward(t, P) /\ Ranked(t) /\ Counted(t, P)

\* What a step does not say of a node follows from these.
LEMMA Nodeful ==
  ASSUME NEW t, NEW P, Shape(t, P)
  PROVE  /\ t \in Tree /\ P \subseteq Item /\ Used(t) \subseteq Inner
         /\ Nodes(t, P) \subseteq Node /\ Nil \notin Node
         /\ Used(t) \cap P = {}
         /\ \A n \in Inner : n \in Used(t) <=> t.left[n] # Nil
         /\ \A n \in Used(t) : t.left[n] \in Nodes(t, P) /\ t.right[n] \in Nodes(t, P)
                                 /\ t.parent[t.left[n]] = n /\ t.parent[t.right[n]] = n
                                 /\ t.left[n] # n /\ t.right[n] # n
<1>1. /\ t \in Tree /\ P \subseteq Item /\ Used(t) \subseteq Inner
      /\ Nodes(t, P) \subseteq Node /\ Nil \notin Node
      /\ Used(t) \cap P = {}
      /\ \A n \in Inner : n \in Used(t) <=> t.left[n] # Nil
  BY NodeAssumption DEF Shape, Nodes, Used, IsLeaf, Node
<1>2. ASSUME NEW n \in Used(t)
      PROVE  /\ t.left[n] \in Nodes(t, P) /\ t.right[n] \in Nodes(t, P)
             /\ t.parent[t.left[n]] = n /\ t.parent[t.right[n]] = n
             /\ t.left[n] # n /\ t.right[n] # n
  <2>1. /\ t.left[n] \in Nodes(t, P) /\ t.right[n] \in Nodes(t, P)
        /\ t.parent[t.left[n]] = n /\ t.parent[t.right[n]] = n
    BY DEF Shape, Downward, Kids
  <2>2. t.left[n] # n /\ t.right[n] # n
    <3>1. PICK depth \in [Node -> Nat] :
            \A m \in Used(t) : \A k \in Kids(t, m) : depth[m] < depth[k]
      BY DEF Shape, Ranked
    <3>2. depth[n] < depth[t.left[n]] /\ depth[n] < depth[t.right[n]]
      BY <3>1 DEF Kids
    <3>3. depth[n] \in Nat
      BY <1>1 DEF Nodes
    <3> QED
      BY <3>2, <3>3
  <2> QED
    BY <2>1, <2>2
<1> QED
  BY <1>1, <1>2

LEMMA Deepest ==
  ASSUME NEW S, NEW depth \in [S -> Nat], NEW T \in SUBSET S, T # {}
  PROVE  \E m \in T : \A n \in T : depth[m] <= depth[n]
<1> DEFINE D == {depth[n] : n \in T}
           Less == {ss \in Nat \X Nat : ss[1] < ss[2]}
<1>1. D \subseteq Nat /\ D # {}
  OBVIOUS
<1>2. IsWellFoundedOn(Less, Nat)
  BY NatLessThanWellFounded DEF OpToRel
<1> HIDE DEF D
<1>3. \E d \in D : \A e \in D : ~ (<<e, d>> \in Less)
  <2> HIDE DEF Less
  <2> QED
    BY <1>1, <1>2, WFMin
<1>4. \E d \in D : \A e \in D : d <= e
  <2>1. PICK d \in D : \A e \in D : ~ (<<e, d>> \in Less)
    BY <1>3
  <2>2. \A e \in D : ~ (e < d)
    BY <1>1, <2>1
  <2> QED
    BY <1>1, <2>1, <2>2
<1> QED
  BY <1>4 DEF D

\* A set of nodes that holds the root and the children of its members holds
\* every node.
LEMMA FromTheRoot ==
  ASSUME NEW t, NEW P, Shape(t, P), NEW S, t.root \in S,
         \A n \in S \cap Used(t) : Kids(t, n) \subseteq S
  PROVE  Nodes(t, P) \subseteq S
<1> SUFFICES ASSUME Nodes(t, P) \ S # {}
             PROVE  FALSE
  OBVIOUS
<1>1. PICK depth \in [Node -> Nat] :
        \A n \in Used(t) : \A k \in Kids(t, n) : depth[n] < depth[k]
  BY DEF Shape, Ranked
<1>2. PICK m \in Nodes(t, P) \ S : \A n \in Nodes(t, P) \ S : depth[m] <= depth[n]
  <2>1. Nodes(t, P) \ S \in SUBSET Node
    BY Nodeful
  <2> QED
    BY <2>1, Deepest
<1>3. t.parent[m] \in Used(t) /\ m \in Kids(t, t.parent[m])
  BY DEF Shape, Upward
<1>4. t.parent[m] \in Nodes(t, P) \ S
  BY <1>3 DEF Nodes
<1>5. depth[t.parent[m]] \in Nat /\ depth[m] \in Nat
  BY <1>3, <1>4, Nodeful
<1> QED
  BY <1>1, <1>2, <1>3, <1>4, <1>5

\* A leaf at the root is alone.
LEMMA LoneLeaf ==
  ASSUME NEW t, NEW P, Shape(t, P), t.root \in Item
  PROVE  Used(t) = {} /\ P = {t.root}
<1>1. Nodes(t, P) \subseteq {t.root}
  <2>1. {t.root} \cap Used(t) = {}
    BY Nodeful, NodeAssumption
  <2> QED
    BY <2>1, FromTheRoot
<1>2. t.root \in Nodes(t, P) /\ t.root \notin Used(t)
  <2>1. t.root \in Node
    BY DEF Node
  <2> QED
    BY <2>1, Nodeful, NodeAssumption DEF Shape, Rooted
<1> QED
  BY <1>1, <1>2 DEF Nodes

\* Boxes, the heights of inner nodes and what is not in the tree have no part
\* in the shape.
LEMMA SameShape ==
  ASSUME NEW t, NEW P, Shape(t, P), NEW u \in Tree,
         u.root = t.root, u.left = t.left, u.right = t.right,
         \A n \in Nodes(t, P) : u.parent[n] = t.parent[n],
         \A i \in Item : u.height[i] = t.height[i]
  PROVE  Shape(u, P) /\ Used(u) = Used(t)
<1>1. Used(u) = Used(t)
  BY DEF Used, IsLeaf
<1>2. Nodes(u, P) = Nodes(t, P) /\ \A n : Kids(u, n) = Kids(t, n)
  BY <1>1 DEF Nodes, Kids
<1>3. Leafy(u) /\ Ranked(u) /\ Counted(u, P)
  BY <1>1, <1>2 DEF Shape, Leafy, Ranked, Counted
<1>4. Rooted(u, P)
  BY <1>2 DEF Shape, Rooted
<1>5. Downward(u, P)
  BY <1>1, <1>2 DEF Shape, Downward
<1>6. Upward(u, P)
  BY <1>1, <1>2 DEF Shape, Upward
<1> QED
  BY <1>1, <1>3, <1>4, <1>5, <1>6 DEF Shape

LEMMA Finite ==
  ASSUME NEW t, NEW P, Shape(t, P)
  PROVE  /\ IsFiniteSet(P) /\ Cardinality(P) \in Nat
         /\ IsFiniteSet(Used(t)) /\ Cardinality(Used(t)) \in Nat
<1>1. P \in SUBSET Item /\ Used(t) \in SUBSET Inner
  BY Nodeful
<1> QED
  BY <1>1, NodeAssumption, FS_Subset, FS_CardinalityType

LEMMA GraftShape ==
  ASSUME NEW t, NEW P, Shape(t, P),
         NEW s \in Nodes(t, P), NEW p \in Inner \ Used(t), NEW i \in Item \ P,
         NEW w, w = Graft(t, s, p, i)
  PROVE  /\ Shape(w, P \cup {i}) /\ Used(w) = Used(t) \cup {p}
         /\ \A j \in Item \ (P \cup {i}) : w.parent[j] = t.parent[j]
<1> DEFINE g == t.parent[s]
           Q == P \cup {i}
<1>1. /\ s \in Node /\ p \in Node /\ i \in Node /\ p \notin {s, i} /\ i # s
      /\ i \notin Used(t) /\ p \notin P
  BY Nodeful, NodeAssumption DEF Nodes, Node
<1>2. /\ g # p /\ g # s /\ t.root # Nil
      /\ g = Nil <=> s = t.root
      /\ g # Nil => g \in Used(t) /\ s \in Kids(t, g)
  <2>1. t.root # Nil /\ t.root \in Nodes(t, P) /\ t.parent[t.root] = Nil
    BY DEF Shape, Rooted
  <2>2. CASE s = t.root
    BY <2>1, <2>2, <1>1, Nodeful
  <2>3. CASE s # t.root
    <3>1. g \in Used(t) /\ s \in Kids(t, g)
      BY <2>3 DEF Shape, Upward
    <3>2. g \in Node /\ g # s
      BY <3>1, Nodeful DEF Kids, Nodes
    <3> QED
      BY <2>1, <2>3, <3>1, <3>2, Nodeful
  <2> QED
    BY <2>2, <2>3
<1>3. /\ w \in Tree
      /\ w.root = IF g = Nil THEN p ELSE t.root
      /\ \A n \in Node :
           /\ w.left[n] = IF n = p THEN s ELSE IF n = g /\ t.left[g] = s THEN p ELSE t.left[n]
           /\ w.right[n] = IF n = p THEN i ELSE IF n = g /\ t.left[g] # s THEN p ELSE t.right[n]
           /\ w.parent[n] = IF n \in {s, i} THEN p ELSE IF n = p THEN g ELSE t.parent[n]
           /\ w.height[n] = IF n = p THEN t.height[s] + 1 ELSE t.height[n]
  <2> HIDE DEF g
  <2>1. g = t.parent[s]
    BY DEF g
  <2> QED
    BY <1>1, <1>2, <2>1, Nodeful, GraftDoes
<1> HIDE DEF g
<1>4. Used(w) = Used(t) \cup {p}
  BY <1>1, <1>2, <1>3, Nodeful DEF Used, IsLeaf, Node
<1>5. Leafy(w)
  BY <1>1, <1>2, <1>3, Nodeful, NodeAssumption DEF Shape, Leafy, Node
<1>6. Nodes(w, Q) = Nodes(t, P) \cup {p, i}
  BY <1>4 DEF Nodes
<1>12. /\ \A k \in Nodes(t, P) : k \in Node /\ k # p /\ k # i
       /\ \A k \in Nodes(t, P) \ {s} : w.parent[k] = t.parent[k]
  BY <1>1, <1>3, Nodeful DEF Nodes
<1>7. Rooted(w, Q)
  <2>1. w.root # Nil
    BY <1>1, <1>2, <1>3, NodeAssumption
  <2>2. t.root \in Nodes(t, P) /\ t.parent[t.root] = Nil
    BY <1>2 DEF Shape, Rooted
  <2>3. w.root \in Nodes(w, Q) /\ w.parent[w.root] = Nil
    BY <1>1, <1>2, <1>3, <1>6, <1>12, <2>2
  <2> QED
    BY <2>1, <2>3 DEF Rooted
<1>8. Downward(w, Q)
  <2>1. ASSUME NEW n \in Used(w)
        PROVE  /\ w.left[n] # w.right[n]
               /\ \A k \in Kids(w, n) : k \in Nodes(w, Q) /\ w.parent[k] = n
    <3>1. CASE n = p
      <4>1. w.left[p] = s /\ w.right[p] = i
        BY <1>1, <1>3
      <4>2. w.parent[s] = p /\ w.parent[i] = p
        BY <1>1, <1>3
      <4>3. Kids(w, p) = {s, i} /\ {s, i} \subseteq Nodes(w, Q)
        BY <4>1, <1>6 DEF Kids, Nodes
      <4> QED
        BY <3>1, <4>1, <4>2, <4>3, <1>1
    <3>2. CASE n # p
      <4>1. /\ n \in Used(t) /\ n \in Node
            /\ t.left[n] # t.right[n] /\ t.left[n] \in Nodes(t, P) /\ t.right[n] \in Nodes(t, P)
            /\ t.parent[t.left[n]] = n /\ t.parent[t.right[n]] = n
            /\ t.left[n] \in Node /\ t.right[n] \in Node
        BY <3>2, <1>4, Nodeful DEF Shape, Downward, Nodes
      <4>2. s \in Kids(t, n) => n = g
        BY <4>1 DEF Kids, g
      <4>3. CASE n = g /\ t.left[g] = s
        <5>1. w.left[n] = p /\ w.right[n] = t.right[n] /\ t.right[n] # s
          BY <1>3, <3>2, <4>1, <4>3
        <5> QED
          BY <1>1, <1>3, <1>6, <1>12, <4>1, <4>3, <5>1 DEF Kids
      <4>4. CASE n = g /\ t.left[g] # s
        <5>1. w.left[n] = t.left[n] /\ w.right[n] = p /\ t.left[n] # s
          BY <1>3, <3>2, <4>1, <4>4
        <5>2. w.parent[p] = n /\ w.parent[t.left[n]] = n /\ t.left[n] # p
          BY <1>1, <1>3, <1>12, <4>1, <4>4, <5>1
        <5> QED
          BY <1>6, <4>1, <5>1, <5>2 DEF Kids
      <4>5. CASE n # g
        <5>1. w.left[n] = t.left[n] /\ w.right[n] = t.right[n]
          BY <1>3, <3>2, <4>1, <4>5
        <5> QED
          BY <1>6, <1>12, <4>1, <4>2, <4>5, <5>1 DEF Kids
      <4> QED
        BY <4>3, <4>4, <4>5
    <3> QED
      BY <3>1, <3>2
  <2> QED
    BY <2>1 DEF Downward
<1>9. Upward(w, Q)
  <2>1. ASSUME NEW n \in Nodes(w, Q) \ {w.root}
        PROVE  w.parent[n] \in Used(w) /\ n \in Kids(w, w.parent[n])
    <3>1. CASE n \in {s, i}
      BY <3>1, <1>1, <1>3, <1>4 DEF Kids
    <3>2. CASE n = p
      BY <3>2, <1>1, <1>2, <1>3, <1>4, Nodeful DEF Kids, Nodes
    <3>3. CASE n \notin {s, i, p}
      <4>1. n \in Nodes(t, P) \ {t.root} /\ n \in Node
        BY <3>3, <1>2, <1>3, <1>6, Nodeful DEF g
      <4>2. /\ t.parent[n] \in Used(t) /\ n \in Kids(t, t.parent[n])
            /\ t.parent[n] \in Node /\ t.parent[n] # p
        BY <4>1, Nodeful DEF Shape, Upward, Nodes
      <4>3. w.parent[n] = t.parent[n]
        BY <3>3, <1>3, <4>1
      <4>4. /\ t.left[t.parent[n]] = n => w.left[t.parent[n]] = n
            /\ t.right[t.parent[n]] = n => w.right[t.parent[n]] = n
        <5> DEFINE m == t.parent[n]
        <5>1. m \in Node /\ m # p /\ (m = g => t.left[m] = s \/ t.right[m] = s)
          BY <1>2, <4>2, NodeAssumption DEF Kids
        <5> HIDE DEF m
        <5>2. t.left[m] = n => w.left[m] = n
          BY <3>3, <1>3, <5>1
        <5>3. t.right[m] = n => w.right[m] = n
          BY <3>3, <1>3, <5>1
        <5> QED
          BY <5>2, <5>3 DEF m
      <4> QED
        BY <1>4, <4>2, <4>3, <4>4 DEF Kids
    <3> QED
      BY <3>1, <3>2, <3>3
  <2> QED
    BY <2>1 DEF Upward
<1>10. Ranked(w)
  <2>1. PICK depth \in [Node -> Nat] :
          \A n \in Used(t) : \A k \in Kids(t, n) : depth[n] < depth[k]
    BY DEF Shape, Ranked
  <2> DEFINE rank == [n \in Node |-> IF n = p THEN 2 * depth[s]
                                     ELSE IF n = i THEN 2 * depth[s] + 1
                                     ELSE 2 * depth[n] + 1]
  <2>2. rank \in [Node -> Nat]
    BY <1>1
  <2>3. ASSUME NEW n \in Used(w)
        PROVE  rank[n] < rank[w.left[n]] /\ rank[n] < rank[w.right[n]]
    <3>1. CASE n = p
      BY <3>1, <1>1, <1>3
    <3>2. CASE n # p
      <4>1. /\ n \in Used(t) /\ n \in Node
            /\ t.left[n] \in Node /\ t.right[n] \in Node
            /\ t.left[n] \notin {p, i} /\ t.right[n] \notin {p, i}
            /\ depth[n] < depth[t.left[n]] /\ depth[n] < depth[t.right[n]]
            /\ depth[n] \in Nat /\ depth[t.left[n]] \in Nat /\ depth[t.right[n]] \in Nat
            /\ n # i
        BY <3>2, <1>1, <1>4, <2>1, Nodeful DEF Kids, Nodes
      <4>2. /\ depth[s] \in Nat
            /\ n = g => depth[n] < depth[s]
        BY <1>1, <1>2, <2>1, <4>1, NodeAssumption
      <4>3. rank[n] = 2 * depth[n] + 1
        BY <3>2, <4>1
      <4>4. /\ w.left[n] = p => n = g
            /\ w.right[n] = p => n = g
            /\ w.left[n] # p => w.left[n] = t.left[n]
            /\ w.right[n] # p => w.right[n] = t.right[n]
        BY <3>2, <1>3, <4>1
      <4>5. rank[n] < rank[w.left[n]]
        BY <1>1, <4>1, <4>2, <4>3, <4>4
      <4>6. rank[n] < rank[w.right[n]]
        BY <1>1, <4>1, <4>2, <4>3, <4>4
      <4> QED
        BY <4>5, <4>6
    <3> QED
      BY <3>1, <3>2
  <2> HIDE DEF rank
  <2> QED
    BY <2>2, <2>3 DEF Ranked, Kids
<1>11. Counted(w, Q)
  <2>1. Cardinality(Q) = Cardinality(P) + 1
    BY Finite, FS_AddElement
  <2>2. Cardinality(Used(w)) = Cardinality(Used(t)) + 1
    BY <1>4, Finite, FS_AddElement
  <2>3. w.root # Nil
    BY <1>1, <1>2, <1>3, NodeAssumption
  <2> QED
    BY <1>2, <2>1, <2>2, <2>3 DEF Shape, Counted
<1>13. ASSUME NEW j \in Item \ Q
       PROVE  w.parent[j] = t.parent[j]
  <2>1. j \in Node /\ j \notin {s, i, p}
    BY <1>1, Nodeful, NodeAssumption DEF Nodes, Node
  <2> QED
    BY <1>3, <2>1
<1> QED
  BY <1>3, <1>4, <1>5, <1>7, <1>8, <1>9, <1>10, <1>11, <1>13, Nodeful DEF Shape

LEMMA PruneShape ==
  ASSUME NEW t, NEW P, Shape(t, P), NEW i \in P, t.root # i,
         NEW w, w = Prune(t, i)
  PROVE  /\ t.parent[i] \in Used(t)
         /\ Shape(w, P \ {i}) /\ Used(w) = Used(t) \ {t.parent[i]}
<1> DEFINE p == t.parent[i]
           g == t.parent[p]
           other == IF t.left[p] = i THEN t.right[p] ELSE t.left[p]
           Q == P \ {i}
<1>1. /\ p \in Used(t) /\ i \in Kids(t, p) /\ p \in Node /\ i \in Node /\ p # i
  BY Nodeful DEF Shape, Upward, Nodes
<1>2. /\ Kids(t, p) = {i, other} /\ other # i /\ other # p
      /\ other \in Nodes(t, P) /\ other \in Node /\ t.parent[other] = p
      /\ t.left[p] \in Node \ {p} /\ t.right[p] \in Node \ {p}
  BY <1>1, Nodeful DEF Shape, Downward, Nodes, Kids
<1>3. /\ t.root \in Nodes(t, P) /\ t.root \in Node /\ t.parent[t.root] = Nil /\ t.root # other
      /\ g = Nil <=> t.root = p
      /\ g # Nil => g \in Used(t) /\ g \in Node /\ p \in Kids(t, g)
      /\ g # p /\ g # i
  <2>1. t.root \in Nodes(t, P) /\ t.parent[t.root] = Nil
    BY <1>1, Nodeful DEF Shape, Rooted, Nodes
  <2>2. p # t.root => g \in Used(t) /\ g \in Node /\ p \in Kids(t, g) /\ g # p
    BY <1>1, Nodeful DEF Shape, Upward, Nodes, Kids
  <2> HIDE DEF p, g, other
  <2> QED
    BY <1>1, <1>2, <2>1, <2>2, Nodeful DEF g
<1>4. /\ w \in Tree
      /\ w.root = IF g = Nil THEN other ELSE t.root
      /\ \A n \in Node :
           /\ w.left[n] = IF n = p THEN Nil
                          ELSE IF n = g /\ t.left[g] = p THEN other ELSE t.left[n]
           /\ w.right[n] = IF n = p THEN Nil
                           ELSE IF n = g /\ t.left[g] # p THEN other ELSE t.right[n]
           /\ w.parent[n] = IF n = other THEN g ELSE IF n = p THEN Nil ELSE t.parent[n]
           /\ w.height[n] = IF n = p THEN 0 ELSE t.height[n]
  <2>1. p = t.parent[i] /\ g = t.parent[p] /\ other = IF t.left[p] = i THEN t.right[p] ELSE t.left[p]
    OBVIOUS
  <2> HIDE DEF p, g, other
  <2>2. /\ t \in Tree /\ i \in Node /\ t.root # i /\ p \in Node /\ g # p
        /\ t.left[p] \in Node \ {p} /\ t.right[p] \in Node \ {p}
    BY <1>1, <1>2, <1>3, Nodeful
  <2>3. /\ w \in Tree
        /\ w = [root |-> IF g = Nil THEN other ELSE t.root,
                left |-> [n \in Node |->
                  IF n = p THEN Nil ELSE IF n = g /\ t.left[g] = p THEN other ELSE t.left[n]],
                right |-> [n \in Node |->
                  IF n = p THEN Nil ELSE IF n = g /\ t.left[g] # p THEN other ELSE t.right[n]],
                parent |-> [n \in Node |->
                  IF n = other THEN g ELSE IF n = p THEN Nil ELSE t.parent[n]],
                height |-> [n \in Node |-> IF n = p THEN 0 ELSE t.height[n]],
                aabb |-> [n \in Node |-> IF n = p THEN {} ELSE t.aabb[n]]]
    BY ONLY <2>1, <2>2, PruneDoes, w = Prune(t, i)
  <2> QED
    BY <2>3
<1>5. /\ \A n \in Nodes(t, P) \ {i, other} : t.parent[n] # p
      /\ \A n \in Nodes(t, P) : n \in Node
  BY <1>1, <1>2, Nodeful DEF Shape, Rooted, Upward
<1>6. \A n \in Used(t) : n \in Inner /\ n \in Node
  BY Nodeful DEF Nodes
<1>7. g = t.parent[p] /\ p \notin P
  BY <1>1, Nodeful
<1> HIDE DEF p, g, other
<1>8. Used(w) = Used(t) \ {p}
  BY <1>1, <1>2, <1>3, <1>4, Nodeful DEF Used, IsLeaf, Node
<1>9. Leafy(w)
  BY <1>1, <1>2, <1>3, <1>4, <1>6, Nodeful, NodeAssumption DEF Shape, Leafy, Node
<1>10. Nodes(w, Q) = Nodes(t, P) \ {p, i}
  BY <1>1, <1>7, <1>8, Nodeful DEF Nodes
<1>11. Rooted(w, Q)
  <2>1. w.root # Nil
    BY <1>2, <1>3, <1>4, NodeAssumption
  <2>2. w.root \in Nodes(w, Q) /\ w.parent[w.root] = Nil
    BY <1>2, <1>3, <1>4, <1>10
  <2> QED
    BY <2>1, <2>2 DEF Rooted
<1>12. Downward(w, Q)
  <2>1. ASSUME NEW n \in Used(w)
        PROVE  /\ w.left[n] # w.right[n]
               /\ \A k \in Kids(w, n) : k \in Nodes(w, Q) /\ w.parent[k] = n
    <3>1. /\ n \in Used(t) /\ n # p /\ n \in Node
          /\ t.left[n] # t.right[n] /\ t.left[n] \in Nodes(t, P) /\ t.right[n] \in Nodes(t, P)
          /\ t.parent[t.left[n]] = n /\ t.parent[t.right[n]] = n
      BY <1>6, <1>8, Nodeful DEF Shape, Downward
    <3>2. \A k \in Nodes(t, P) : t.parent[k] = n /\ k # p => k \in Nodes(w, Q) /\ w.parent[k] = n
                                                               /\ k # other
      BY <1>1, <1>2, <1>4, <1>5, <1>10, <3>1 DEF p
    <3>3. CASE n = g /\ t.left[g] = p
      <4>1. w.left[n] = other /\ w.right[n] = t.right[n] /\ t.right[n] # p
        BY <1>4, <3>1, <3>3
      <4>2. w.parent[other] = n /\ other \in Nodes(w, Q)
        BY <1>2, <1>4, <1>10, <3>3
      <4> QED
        BY <3>1, <3>2, <4>1, <4>2 DEF Kids
    <3>4. CASE n = g /\ t.left[g] # p
      <4>1. w.left[n] = t.left[n] /\ w.right[n] = other /\ t.left[n] # p
        BY <1>4, <3>1, <3>4
      <4>2. w.parent[other] = n /\ other \in Nodes(w, Q)
        BY <1>2, <1>4, <1>10, <3>4
      <4> QED
        BY <3>1, <3>2, <4>1, <4>2 DEF Kids
    <3>5. CASE n # g
      <4>1. w.left[n] = t.left[n] /\ w.right[n] = t.right[n]
        BY <1>4, <3>1, <3>5
      <4>2. t.left[n] # p /\ t.right[n] # p
        BY <1>7, <3>1, <3>5
      <4> QED
        BY <3>1, <3>2, <4>1, <4>2 DEF Kids
    <3> QED
      BY <3>3, <3>4, <3>5
  <2> QED
    BY <2>1 DEF Downward
<1>13. Upward(w, Q)
  <2>1. ASSUME NEW n \in Nodes(w, Q) \ {w.root}
        PROVE  w.parent[n] \in Used(w) /\ n \in Kids(w, w.parent[n])
    <3>1. CASE n = other
      <4>1. g # Nil /\ w.parent[n] = g
        BY <1>2, <1>4, <2>1, <3>1
      <4>2. g \in Used(w) /\ other \in Kids(w, g)
        BY <1>3, <1>4, <1>8, <4>1 DEF Kids
      <4> QED
        BY <3>1, <4>1, <4>2
    <3>2. CASE n # other
      <4> DEFINE m == t.parent[n]
      <4>1. n \in Nodes(t, P) \ {t.root} /\ n \notin {p, i} /\ n \in Node
        BY <1>3, <1>4, <1>5, <1>10, <3>2
      <4>2. m \in Used(t) /\ m # p /\ m \in Node /\ n \in Kids(t, m)
        BY <1>5, <1>6, <3>2, <4>1 DEF Shape, Upward
      <4>3. w.parent[n] = m
        BY <1>4, <3>2, <4>1
      <4> HIDE DEF m
      <4>4. m = g => t.left[m] = p \/ t.right[m] = p
        BY <1>3, <4>2, Nodeful DEF Kids
      <4>5. t.left[m] = n => w.left[m] = n
        BY <1>4, <4>1, <4>2
      <4>6. t.right[m] = n => w.right[m] = n
        BY <1>4, <4>1, <4>2, <4>4
      <4> QED
        BY <1>8, <4>2, <4>3, <4>5, <4>6 DEF Kids
    <3> QED
      BY <3>1, <3>2
  <2> QED
    BY <2>1 DEF Upward
<1>14. Ranked(w)
  <2>1. PICK depth \in [Node -> Nat] :
          \A n \in Used(t) : \A k \in Kids(t, n) : depth[n] < depth[k]
    BY DEF Shape, Ranked
  <2>2. ASSUME NEW n \in Used(w)
        PROVE  depth[n] < depth[w.left[n]] /\ depth[n] < depth[w.right[n]]
    <3>1. n \in Used(t) /\ n # p /\ n \in Node
      BY <1>6, <1>8
    <3>2. depth[n] < depth[t.left[n]] /\ depth[n] < depth[t.right[n]]
      BY <2>1, <3>1 DEF Kids
    <3>3. n = g => depth[n] < depth[other]
      <4>1. depth[p] < depth[other]
        BY <1>1, <1>2, <2>1
      <4>2. n = g => depth[n] < depth[p]
        BY <1>3, <2>1, <3>1, Nodeful
      <4>3. depth[n] \in Nat /\ depth[p] \in Nat /\ depth[other] \in Nat
        BY <1>1, <1>2, <3>1
      <4> QED
        BY <4>1, <4>2, <4>3
    <3> QED
      BY <1>4, <3>1, <3>2, <3>3
  <2> QED
    BY <2>2 DEF Ranked, Kids
<1>15. Counted(w, Q)
  <2>1. Cardinality(Q) = Cardinality(P) - 1
    BY Finite, FS_RemoveElement
  <2>2. Cardinality(Used(w)) = Cardinality(Used(t)) - 1
    BY <1>1, <1>8, Finite, FS_RemoveElement
  <2>3. w.root # Nil /\ t.root # Nil
    BY <1>2, <1>3, <1>4, NodeAssumption
  <2>4. Cardinality(P) \in Nat /\ Cardinality(Used(t)) \in Nat
    BY Finite
  <2> QED
    BY <2>1, <2>2, <2>3, <2>4 DEF Shape, Counted
<1> QED
  BY <1>1, <1>4, <1>8, <1>9, <1>11, <1>12, <1>13, <1>14, <1>15, Nodeful DEF Shape, p

LEMMA MeasureShape ==
  ASSUME NEW t, NEW P, Shape(t, P), NEW n \in Used(t)
  PROVE  Shape(Measure(t, n), P) /\ Used(Measure(t, n)) = Used(t)
<1> DEFINE u == Measure(t, n)
<1>1. n \in Node /\ t.left[n] \in Node /\ t.right[n] \in Node /\ n \notin Item
  BY Nodeful, NodeAssumption DEF Nodes
<1>2. /\ u \in Tree /\ u.root = t.root
      /\ u.left = t.left /\ u.right = t.right /\ u.parent = t.parent
      /\ \A m \in Node : m # n => u.height[m] = t.height[m]
  BY <1>1, Nodeful, MeasureDoes
<1>3. \A i \in Item : u.height[i] = t.height[i]
  BY <1>1, <1>2 DEF Node
<1> HIDE DEF u
<1>4. Shape(u, P) /\ Used(u) = Used(t)
  BY <1>2, <1>3, SameShape
<1> QED
  BY <1>4 DEF u

\* The nodes around a rotation, and the rotation.
LEMMA Around ==
  ASSUME NEW t, NEW P, Shape(t, P), NEW a \in Used(t), NEW up \in Used(t), up \in Kids(t, a),
         NEW g, g = t.parent[a], NEW b, b = Kept(t, up), NEW c, c = Given(t, up)
  PROVE  /\ a \in Node /\ up \in Node /\ b \in Nodes(t, P) /\ c \in Nodes(t, P)
         /\ b \in Node /\ c \in Node /\ Kids(t, up) = {b, c} /\ b # c
         /\ t.parent[up] = a /\ t.parent[b] = up /\ t.parent[c] = up
         /\ a # up /\ g \notin {a, up, b, c} /\ a \notin {b, c} /\ up \notin {b, c}
         /\ g = Nil <=> a = t.root
         /\ g # Nil => g \in Used(t) /\ g \in Node /\ a \in Kids(t, g)
         /\ t.root \in Nodes(t, P) /\ t.root \in Node /\ t.parent[t.root] = Nil
         /\ t.root \notin {up, b, c}
<1>1. /\ a \in Node /\ up \in Node /\ t.parent[up] = a /\ a # up
  BY Nodeful DEF Kids, Nodes
<1>2. /\ b \in Nodes(t, P) /\ c \in Nodes(t, P) /\ b \in Node /\ c \in Node
      /\ Kids(t, up) = {b, c} /\ b # c /\ t.parent[b] = up /\ t.parent[c] = up
      /\ up \notin {b, c}
  <2>1. {b, c} = Kids(t, up) /\ b # c
    BY DEF Kept, Given, Taller, Kids, Shape, Downward
  <2> QED
    BY <2>1, Nodeful DEF Kids
<1>3. /\ t.root \in Nodes(t, P) /\ t.root \in Node /\ t.parent[t.root] = Nil
  BY <1>1, Nodeful DEF Shape, Rooted, Nodes
<1>4. a # t.root => g \in Used(t) /\ g \in Node /\ a \in Kids(t, g) /\ g # a
  BY <1>1, Nodeful DEF Shape, Upward, Nodes, Kids
<1>5. g \notin {up, b, c} /\ a \notin {b, c}
  <2>1. PICK depth \in [Node -> Nat] :
          \A n \in Used(t) : \A k \in Kids(t, n) : depth[n] < depth[k]
    BY DEF Shape, Ranked
  <2>2. depth[a] < depth[up] /\ depth[up] < depth[b] /\ depth[up] < depth[c]
    BY <1>2, <2>1
  <2>3. depth[a] \in Nat /\ depth[up] \in Nat /\ depth[b] \in Nat /\ depth[c] \in Nat
    BY <1>1, <1>2
  <2>4. g # Nil => depth[g] < depth[a] /\ depth[g] \in Nat
    BY <1>3, <1>4, <2>1
  <2> QED
    BY <1>1, <1>2, <2>2, <2>3, <2>4, Nodeful
<1> QED
  BY <1>1, <1>2, <1>3, <1>4, <1>5, Nodeful

LEMMA WireShape ==
  ASSUME NEW t, NEW P, Shape(t, P), NEW a \in Used(t), NEW up \in Used(t), up \in Kids(t, a),
         NEW w, w = Wire(t, a, up)
  PROVE  Shape(w, P) /\ Used(w) = Used(t)
<1> DEFINE g == t.parent[a]
           b == Kept(t, up)
           c == Given(t, up)
<1>1. /\ a \in Node /\ up \in Node /\ b \in Nodes(t, P) /\ c \in Nodes(t, P)
      /\ b \in Node /\ c \in Node /\ Kids(t, up) = {b, c} /\ b # c
      /\ t.parent[up] = a /\ t.parent[b] = up /\ t.parent[c] = up
      /\ a # up /\ g \notin {a, up, b, c} /\ a \notin {b, c} /\ up \notin {b, c}
      /\ g = Nil <=> a = t.root
      /\ g # Nil => g \in Used(t) /\ g \in Node /\ a \in Kids(t, g)
      /\ t.root \in Nodes(t, P) /\ t.root \in Node /\ t.parent[t.root] = Nil
      /\ t.root \notin {up, b, c}
  BY Around
<1>2. /\ w \in Tree
      /\ w.root = IF g = Nil THEN up ELSE t.root
      /\ \A n \in Node :
           /\ w.left[n] = IF n = up THEN a
                          ELSE IF n = a THEN (IF t.left[a] = up THEN c ELSE t.left[a])
                          ELSE IF n = g /\ t.left[g] = a THEN up ELSE t.left[n]
           /\ w.right[n] = IF n = up THEN b
                           ELSE IF n = a THEN (IF t.left[a] = up THEN t.right[a] ELSE c)
                           ELSE IF n = g /\ t.left[g] # a THEN up ELSE t.right[n]
           /\ w.parent[n] = IF n = c THEN a ELSE IF n = a THEN up
                            ELSE IF n = up THEN g ELSE t.parent[n]
      /\ w.height = t.height
  <2>1. t.left[up] \in Node /\ t.right[up] \in Node /\ t.parent[a] \notin {a, up}
    BY <1>1, Nodeful
  <2>2. t \in Tree
    BY Nodeful
  <2>3. g = t.parent[a] /\ b = Kept(t, up) /\ c = Given(t, up)
    OBVIOUS
  <2> HIDE DEF g, b, c
  <2> QED
    BY <1>1, <2>1, <2>2, <2>3, WireDoes
<1>3. g = t.parent[a]
  OBVIOUS
<1> HIDE DEF g, b, c
<1>4. \A n \in Used(t) : /\ n \in Inner /\ n \in Node
                         /\ t.left[n] # t.right[n]
                         /\ t.left[n] \in Nodes(t, P) /\ t.right[n] \in Nodes(t, P)
                         /\ t.left[n] \in Node /\ t.right[n] \in Node
                         /\ t.parent[t.left[n]] = n /\ t.parent[t.right[n]] = n
  BY Nodeful DEF Nodes, Shape, Downward
<1>5. Used(w) = Used(t)
  BY <1>1, <1>2, <1>4, Nodeful DEF Used, IsLeaf, Node
<1>6. Leafy(w)
  <2>1. \A i \in Item : i \in Node /\ i \notin Used(t) /\ i # a /\ i # up /\ i # g
    BY <1>1, Nodeful, NodeAssumption DEF Node
  <2> QED
    BY <1>2, <2>1 DEF Shape, Leafy
<1>7. Nodes(w, P) = Nodes(t, P)
  BY <1>5 DEF Nodes
<1>8. Rooted(w, P)
  <2>1. w.root # Nil
    BY <1>1, <1>2, NodeAssumption
  <2>2. w.root \in Nodes(w, P) /\ w.parent[w.root] = Nil
    BY <1>1, <1>2, <1>7 DEF Nodes
  <2> QED
    BY <2>1, <2>2 DEF Rooted
<1>9. Downward(w, P)
  <2>1. \A k \in Node : k \notin {a, up, c} => w.parent[k] = t.parent[k]
    BY <1>2
  <2>2. ASSUME NEW n \in Used(w)
        PROVE  /\ w.left[n] # w.right[n]
               /\ w.left[n] \in Nodes(t, P) /\ w.right[n] \in Nodes(t, P)
               /\ w.parent[w.left[n]] = n /\ w.parent[w.right[n]] = n
    <3>1. n \in Used(t) /\ n \in Node
      BY <1>4, <1>5
    <3>2. CASE n = up
      <4>1. w.left[n] = a /\ w.right[n] = b
        BY <1>2, <3>1, <3>2
      <4>2. w.parent[a] = up /\ w.parent[b] = up
        BY <1>1, <1>2
      <4> QED
        BY <1>1, <3>2, <4>1, <4>2 DEF Nodes
    <3>3. CASE n = a /\ t.left[a] = up
      <4>1. w.left[n] = c /\ w.right[n] = t.right[a]
        BY <1>1, <1>2, <3>1, <3>3
      <4>2. t.right[a] \notin {a, up, c}
        BY <1>1, <1>3, <1>4, <3>1, <3>3
      <4>3. w.parent[c] = a /\ w.parent[t.right[a]] = a
        BY <1>1, <1>2, <1>4, <2>1, <3>1, <4>2
      <4> QED
        BY <1>1, <1>4, <3>1, <3>3, <4>1, <4>2, <4>3
    <3>4. CASE n = a /\ t.left[a] # up
      <4>1. w.left[n] = t.left[a] /\ w.right[n] = c
        BY <1>1, <1>2, <3>1, <3>4
      <4>2. t.left[a] \notin {a, up, c}
        BY <1>1, <1>3, <1>4, <3>1, <3>4
      <4>3. w.parent[c] = a /\ w.parent[t.left[a]] = a
        BY <1>1, <1>2, <1>4, <2>1, <3>1, <4>2
      <4> QED
        BY <1>1, <1>4, <3>1, <3>4, <4>1, <4>2, <4>3
    <3>5. CASE n = g /\ t.left[g] = a
      <4>1. w.left[n] = up /\ w.right[n] = t.right[n]
        BY <1>1, <1>2, <3>1, <3>5
      <4>2. t.right[n] \notin {a, up, c}
        BY <1>1, <1>4, <3>1, <3>5
      <4>3. w.parent[up] = n /\ w.parent[t.right[n]] = n
        BY <1>1, <1>2, <1>4, <2>1, <3>1, <3>5, <4>2
      <4> QED
        BY <1>1, <1>4, <3>1, <3>5, <4>1, <4>2, <4>3 DEF Nodes
    <3>6. CASE n = g /\ t.left[g] # a
      <4>1. w.left[n] = t.left[n] /\ w.right[n] = up
        BY <1>1, <1>2, <3>1, <3>6
      <4>2. t.left[n] \notin {a, up, c}
        BY <1>1, <1>4, <3>1, <3>6
      <4>3. w.parent[up] = n /\ w.parent[t.left[n]] = n
        BY <1>1, <1>2, <1>4, <2>1, <3>1, <3>6, <4>2
      <4> QED
        BY <1>1, <1>4, <3>1, <3>6, <4>1, <4>2, <4>3 DEF Nodes
    <3>7. CASE n \notin {up, a, g}
      <4>1. w.left[n] = t.left[n] /\ w.right[n] = t.right[n]
        BY <1>2, <3>1, <3>7
      <4>2. t.left[n] \notin {a, up, c} /\ t.right[n] \notin {a, up, c}
        BY <1>1, <1>3, <1>4, <3>1, <3>7
      <4> QED
        BY <1>4, <2>1, <3>1, <4>1, <4>2
    <3> QED
      BY <3>2, <3>3, <3>4, <3>5, <3>6, <3>7
  <2> QED
    BY <1>7, <2>2 DEF Downward, Kids
<1>10. Upward(w, P)
  <2>1. ASSUME NEW n \in Nodes(w, P) \ {w.root}
        PROVE  w.parent[n] \in Used(w) /\ n \in Kids(w, w.parent[n])
    <3>0. n \in Node /\ n \in Nodes(t, P)
      BY <1>7, Nodeful
    <3>1. CASE n = c
      BY <1>1, <1>2, <1>5, <3>1 DEF Kids
    <3>2. CASE n = a
      BY <1>1, <1>2, <1>5, <3>2 DEF Kids
    <3>3. CASE n = up
      <4>1. g # Nil /\ w.parent[n] = g
        BY <1>1, <1>2, <3>3
      <4>2. w.left[g] = up \/ w.right[g] = up
        BY <1>1, <1>2, <4>1
      <4> QED
        BY <1>1, <1>5, <3>3, <4>1, <4>2 DEF Kids
    <3>4. CASE n \notin {a, up, c}
      <4> DEFINE m == t.parent[n]
      <4>1. w.parent[n] = m
        BY <1>2, <3>0, <3>4
      <4>2. n # t.root
        BY <1>1, <1>2, <3>4
      <4>3. m \in Used(t) /\ n \in Kids(t, m)
        BY <3>0, <4>2 DEF Shape, Upward
      <4>4. m \in Node /\ (t.left[m] = n \/ t.right[m] = n)
        BY <1>4, <4>3 DEF Kids
      <4> HIDE DEF m
      <4>5. CASE m = up
        BY <1>1, <1>2, <1>5, <3>4, <4>1, <4>3, <4>5 DEF Kids
      <4>6. CASE m = a
        <5>1. w.left[m] = n \/ w.right[m] = n
          BY <1>1, <1>2, <3>4, <4>4, <4>6 DEF Kids
        <5> QED
          BY <1>5, <4>1, <4>3, <5>1 DEF Kids
      <4>7. CASE m = g
        <5>1. t.left[g] = a \/ t.right[g] = a
          BY <1>1, <4>4, <4>7, NodeAssumption DEF Kids
        <5>2. w.left[m] = n \/ w.right[m] = n
          BY <1>1, <1>2, <3>4, <4>4, <4>7, <5>1
        <5> QED
          BY <1>5, <4>1, <4>3, <5>2 DEF Kids
      <4>8. CASE m \notin {up, a, g}
        BY <1>2, <1>5, <4>1, <4>3, <4>4, <4>8 DEF Kids
      <4> QED
        BY <4>5, <4>6, <4>7, <4>8
    <3> QED
      BY <3>1, <3>2, <3>3, <3>4
  <2> QED
    BY <2>1 DEF Upward
<1>11. Ranked(w)
  <2>1. PICK depth \in [Node -> Nat] :
          \A n \in Used(t) : \A k \in Kids(t, n) : depth[n] < depth[k]
    BY DEF Shape, Ranked
  <2> DEFINE rank == [n \in Node |-> IF n = up THEN 2 * depth[a] ELSE 2 * depth[n] + 1]
  <2>2. rank \in [Node -> Nat]
    BY <1>1
  <2>3. /\ depth[a] \in Nat /\ depth[up] \in Nat /\ depth[b] \in Nat /\ depth[c] \in Nat
        /\ depth[a] < depth[up] /\ depth[up] < depth[b] /\ depth[up] < depth[c]
    BY <1>1, <2>1
  <2>4. /\ rank[up] = 2 * depth[a] /\ rank[a] = 2 * depth[a] + 1
        /\ rank[b] = 2 * depth[b] + 1 /\ rank[c] = 2 * depth[c] + 1
    BY <1>1
  <2>5. ASSUME NEW n \in Used(w)
        PROVE  rank[n] < rank[w.left[n]] /\ rank[n] < rank[w.right[n]]
    <3>1. /\ n \in Used(t) /\ n \in Node /\ t.left[n] \in Node /\ t.right[n] \in Node
          /\ depth[n] < depth[t.left[n]] /\ depth[n] < depth[t.right[n]]
          /\ depth[n] \in Nat /\ depth[t.left[n]] \in Nat /\ depth[t.right[n]] \in Nat
      BY <1>4, <1>5, <2>1 DEF Kids
    <3>2. n # up => rank[n] = 2 * depth[n] + 1
      BY <3>1
    <3>3. /\ t.left[n] # up => rank[t.left[n]] = 2 * depth[t.left[n]] + 1
          /\ t.right[n] # up => rank[t.right[n]] = 2 * depth[t.right[n]] + 1
      BY <3>1
    <3> HIDE DEF rank
    <3>4. CASE n = up
      BY <1>2, <2>3, <2>4, <3>1, <3>4
    <3>5. CASE n = a /\ t.left[a] = up
      <4>1. w.left[n] = c /\ w.right[n] = t.right[a] /\ t.right[a] # up
        BY <1>1, <1>2, <1>4, <3>1, <3>5
      <4> QED
        BY <1>1, <2>3, <2>4, <3>1, <3>2, <3>3, <3>5, <4>1
    <3>6. CASE n = a /\ t.left[a] # up
      <4>1. w.left[n] = t.left[a] /\ w.right[n] = c
        BY <1>1, <1>2, <3>1, <3>6
      <4> QED
        BY <1>1, <2>3, <2>4, <3>1, <3>2, <3>3, <3>6, <4>1
    <3>7. CASE n \notin {up, a}
      <4>1. /\ t.left[n] # up /\ t.right[n] # up
            /\ n = g => depth[n] < depth[a]
        BY <1>1, <1>4, <2>1, <3>1, <3>7, NodeAssumption
      <4>2. /\ w.left[n] = t.left[n] \/ (n = g /\ w.left[n] = up)
            /\ w.right[n] = t.right[n] \/ (n = g /\ w.right[n] = up)
        BY <1>2, <3>1, <3>7
      <4> QED
        BY <2>3, <2>4, <3>1, <3>2, <3>3, <3>7, <4>1, <4>2
    <3> QED
      BY <3>4, <3>5, <3>6, <3>7
  <2> HIDE DEF rank
  <2> QED
    BY <2>2, <2>5 DEF Ranked, Kids
<1>12. Counted(w, P)
  <2>1. w.root # Nil /\ t.root # Nil
    BY <1>1, <1>2, NodeAssumption
  <2> QED
    BY <1>5, <2>1 DEF Shape, Counted
<1> QED
  BY <1>2, <1>5, <1>6, <1>8, <1>9, <1>10, <1>11, <1>12, Nodeful DEF Shape

LEMMA EmptyShape ==
  ASSUME NEW t \in Tree, t.root = Nil, t.left = Nowhere, Leafy(t)
  PROVE  Shape(t, {}) /\ Used(t) = {}
<1>1. Used(t) = {}
  BY DEF Used, IsLeaf, Nowhere, Node
<1>2. Ranked(t)
  <2>1. [n \in Node |-> 0] \in [Node -> Nat]
    OBVIOUS
  <2> QED
    BY <1>1, <2>1 DEF Ranked
<1> QED
  BY <1>1, <1>2 DEF Shape, Rooted, Downward, Upward, Counted, Nodes

\* A leaf placed in an empty tree.
LEMMA FirstShape ==
  ASSUME NEW t, Shape(t, {}), NEW i \in Item, t.parent[i] = Nil
  PROVE  LET w == [t EXCEPT !.root = i]
         IN  Shape(w, {i}) /\ Used(w) = {} /\ w.parent = t.parent
<1> DEFINE w == [t EXCEPT !.root = i]
<1>1. t.root = Nil /\ Used(t) = {}
  <2>1. t.root = Nil
    BY Finite, Nodeful, FS_EmptySet DEF Shape, Counted
  <2> QED
    BY <2>1 DEF Shape, Rooted, Nodes
<1>2. /\ w \in Tree /\ w.root = i /\ w.left = t.left /\ w.right = t.right
      /\ w.parent = t.parent /\ w.height = t.height
  <2>1. i \in Node \cup {Nil} /\ t \in Tree
    BY Nodeful DEF Node
  <2> QED
    BY <2>1 DEF Tree
<1> HIDE DEF w
<1>3. Used(w) = {} /\ i \in Node /\ i # Nil
  BY <1>1, <1>2, NodeAssumption DEF Used, IsLeaf, Node
<1>4. Leafy(w) /\ Ranked(w)
  BY <1>1, <1>2, <1>3 DEF Shape, Leafy, Ranked
<1>5. Rooted(w, {i}) /\ Downward(w, {i}) /\ Upward(w, {i})
  BY <1>2, <1>3 DEF Rooted, Downward, Upward, Nodes
<1>6. Counted(w, {i})
  <2>1. Cardinality({i}) = 1 /\ Cardinality({}) = 0
    BY FS_Singleton, FS_EmptySet
  <2> QED
    BY <1>2, <1>3, <2>1 DEF Counted
<1>7. Shape(w, {i}) /\ Used(w) = {} /\ w.parent = t.parent
  BY <1>2, <1>3, <1>4, <1>5, <1>6 DEF Shape
<1> QED
  BY <1>7 DEF w

\* An item is taken out, and the climb starts at a node of the tree.
LEMMA TakeOut ==
  ASSUME NEW t, NEW P, Shape(t, P), NEW i \in P, NEW w, w = Prune(t, i)
  PROVE  /\ Shape(w, P \ {i})
         /\ AbovePruned(t, i) \in Used(w) \cup {Nil}
         /\ w.root = Nil <=> t.root = i
         /\ \A j \in Item \ P : w.parent[j] = t.parent[j]
         /\ w.parent[i] = t.parent[i]
<1>1. CASE t.root = i
  <2>1. i \in Item /\ Nil \in Node \cup {Nil} /\ t \in Tree
    BY Nodeful
  <2>2. Used(t) = {} /\ P \ {i} = {}
    BY <1>1, <2>1, LoneLeaf
  <2>3. w = [t EXCEPT !.root = Nil]
    BY <1>1 DEF Prune
  <2>4. /\ w \in Tree /\ w.root = Nil /\ w.left = t.left /\ w.right = t.right
        /\ w.parent = t.parent /\ w.height = t.height
    BY <2>1, <2>3 DEF Tree
  <2>5. t.left = Nowhere
    <3>1. \A n \in Node : t.left[n] = Nil
      BY <2>2 DEF Used, IsLeaf, Node, Shape, Leafy
    <3> QED
      BY <2>1, <3>1 DEF Tree, Nowhere
  <2>6. Leafy(w)
    BY <2>4 DEF Shape, Leafy
  <2>7. Shape(w, {})
    BY <2>4, <2>5, <2>6, EmptyShape
  <2> QED
    BY <1>1, <2>2, <2>4, <2>7 DEF AbovePruned
<1>2. CASE t.root # i
  <2> DEFINE p == t.parent[i]
             g == t.parent[p]
             other == IF t.left[p] = i THEN t.right[p] ELSE t.left[p]
  <2>1. /\ p \in Used(t) /\ Shape(w, P \ {i}) /\ Used(w) = Used(t) \ {p}
    BY <1>2, PruneShape
  <2>2. /\ p \in Node /\ i \in Kids(t, p) /\ i \in Node /\ i \notin Used(t)
        /\ t.left[p] \in Nodes(t, P) /\ t.right[p] \in Nodes(t, P) /\ t.left[p] # t.right[p]
        /\ t.left[p] \in Node \ {p} /\ t.right[p] \in Node \ {p}
    BY <1>2, <2>1, Nodeful DEF Shape, Upward, Downward, Nodes
  <2>3. g # p /\ g \in Used(t) \cup {Nil}
    BY <2>1, <2>2, Nodeful DEF Shape, Upward, Rooted, Nodes, Kids
  <2>4. /\ w.root = IF g = Nil THEN other ELSE t.root
        /\ \A n \in Node : w.parent[n] = IF n = other THEN g ELSE IF n = p THEN Nil ELSE t.parent[n]
    <3>1. p = t.parent[i] /\ g = t.parent[p]
          /\ other = IF t.left[p] = i THEN t.right[p] ELSE t.left[p]
      OBVIOUS
    <3> HIDE DEF p, g, other
    <3> QED
      BY <1>2, <2>2, <2>3, <3>1, Nodeful, PruneDoes
  <2>5. other # i /\ other \in Nodes(t, P) /\ other \in Node
    BY <2>2 DEF Kids
  <2>6. AbovePruned(t, i) = g
    BY <1>2 DEF AbovePruned
  <2> HIDE DEF g, other
  <2>7. w.root # Nil
    BY <2>1, <2>2, <2>4, <2>5, Nodeful DEF Shape, Rooted, Nodes
  <2>8. ASSUME NEW j \in Item, j \notin P \/ j = i
        PROVE  w.parent[j] = t.parent[j]
    <3>1. j \in Node /\ j \notin Used(t) /\ j # p
      BY <2>1, Nodeful, NodeAssumption DEF Node
    <3>2. j # other
      BY <2>5, <2>8, <3>1 DEF Nodes
    <3> QED
      BY <2>4, <3>1, <3>2
  <2>9. i \in Item
    BY Nodeful
  <2> QED
    BY <1>2, <2>1, <2>3, <2>6, <2>7, <2>8, <2>9
<1> QED
  BY <1>1, <1>2

-----------------------------------------------------------------------------
(***************************************************************************)
(* One round of the climb.                                                 *)
(***************************************************************************)

Top(t, a) == IF Lifted(t, a) = Nil THEN a ELSE Lifted(t, a)
Balanced(t, a) == IF Lifted(t, a) = Nil THEN t ELSE Lift(t, a, Lifted(t, a))
Refitted(t, a) == Measure(Balanced(t, a), Top(t, a))

LEMMA RefitIs ==
  Refit => /\ pc = "refit" /\ cursor # Nil
           /\ tree' = Refitted(tree, cursor)
           /\ cursor' = Balanced(tree, cursor).parent[Top(tree, cursor)]
           /\ UNCHANGED <<leaves, pc, pending, query, found>>
BY DEF Refit, NoSearch, Top, Balanced, Refitted

\* Only a node with a child too tall for the other is rotated, and that child
\* has children.
LEMMA LiftedIs ==
  ASSUME NEW t, NEW P, Shape(t, P), NEW a \in Used(t), Lifted(t, a) # Nil
  PROVE  Lifted(t, a) \in Used(t) /\ Lifted(t, a) \in Kids(t, a)
<1> DEFINE l == t.left[a]
           r == t.right[a]
<1>1. /\ l \in Nodes(t, P) /\ r \in Nodes(t, P)
      /\ t.height[l] \in Nat /\ t.height[r] \in Nat
  BY Nodeful DEF Tree
<1>2. \A n \in Nodes(t, P) : t.height[n] # 0 => n \in Used(t)
  BY DEF Shape, Leafy, Nodes
<1>3. \/ Lifted(t, a) = r /\ t.height[r] > t.height[l] + 1
      \/ Lifted(t, a) = l /\ t.height[l] > t.height[r] + 1
  BY DEF Lifted
<1> HIDE DEF l, r
<1>4. Lifted(t, a) \in Used(t)
  BY <1>1, <1>2, <1>3
<1> QED
  BY <1>3, <1>4 DEF Kids, l, r

LEMMA LiftShape ==
  ASSUME NEW t, NEW P, Shape(t, P), NEW a \in Used(t), NEW up \in Used(t), up \in Kids(t, a),
         NEW u, u = Lift(t, a, up)
  PROVE  /\ Shape(u, P) /\ Used(u) = Used(t)
         /\ u.parent[up] = t.parent[a]
         /\ \A j \in Item \ P : u.parent[j] = t.parent[j]
<1> DEFINE w == Wire(t, a, up)
           v == Measure(w, a)
<1>1. Shape(w, P) /\ Used(w) = Used(t)
  BY WireShape
<1>2. /\ a \in Node /\ up \in Node /\ a # up /\ Given(t, up) \in Nodes(t, P)
      /\ Given(t, up) # up /\ t.parent[a] \notin {a, up}
      /\ t.left[up] \in Node /\ t.right[up] \in Node /\ t \in Tree
  BY Around, Nodeful DEF Nodes
<1>3. /\ w.parent[up] = t.parent[a]
      /\ \A n \in Node : n \notin {Given(t, up), a, up} => w.parent[n] = t.parent[n]
  BY <1>2, WireDoes
<1> HIDE DEF w
<1>4. Shape(v, P) /\ Used(v) = Used(t) /\ v.parent = w.parent
  <2>1. w.left[a] \in Node /\ w.right[a] \in Node /\ w \in Tree
    BY <1>1, Nodeful
  <2> QED
    BY <1>1, <1>2, <2>1, MeasureShape, MeasureDoes
<1> HIDE DEF v
<1>5. u = Measure(v, up)
  BY DEF Lift, v, w
<1>6. Shape(u, P) /\ Used(u) = Used(t) /\ u.parent = w.parent
  <2>1. v.left[up] \in Node /\ v.right[up] \in Node /\ v \in Tree
    BY <1>4, Nodeful
  <2> QED
    BY <1>2, <1>4, <1>5, <2>1, MeasureShape, MeasureDoes
<1>7. \A j \in Item \ P : j \in Node /\ j \notin {Given(t, up), a, up}
  <2>1. \A j \in Item \ P : j \in Node /\ j \notin Nodes(t, P)
    BY Nodeful, NodeAssumption DEF Nodes, Node
  <2> QED
    BY <1>2, <2>1 DEF Nodes
<1> QED
  BY <1>3, <1>6, <1>7

LEMMA RefitShape ==
  ASSUME NEW t, NEW P, Shape(t, P), NEW a \in Used(t), NEW u, u = Refitted(t, a)
  PROVE  /\ Shape(u, P) /\ Used(u) = Used(t) /\ u.root # Nil
         /\ Top(t, a) \in Used(t)
         /\ Balanced(t, a).parent[Top(t, a)] = t.parent[a]
         /\ t.parent[a] \in Used(u) \cup {Nil}
         /\ \A j \in Item \ P : u.parent[j] = t.parent[j]
<1> DEFINE b == Balanced(t, a)
           top == Top(t, a)
<1>1. /\ Shape(b, P) /\ Used(b) = Used(t) /\ top \in Used(t)
      /\ b.parent[top] = t.parent[a]
      /\ \A j \in Item \ P : b.parent[j] = t.parent[j]
  <2>1. CASE Lifted(t, a) = Nil
    BY <2>1 DEF Balanced, Top
  <2>2. CASE Lifted(t, a) # Nil
    BY <2>2, LiftedIs, LiftShape DEF Balanced, Top
  <2> QED
    BY <2>1, <2>2
<1>2. u = Measure(b, top)
  BY DEF Refitted
<1> HIDE DEF b, top
<1>3. Shape(u, P) /\ Used(u) = Used(t) /\ u.parent = b.parent
  <2>1. b.left[top] \in Node /\ b.right[top] \in Node /\ b \in Tree /\ top \in Node
    BY <1>1, Nodeful DEF Nodes
  <2> QED
    BY <1>1, <1>2, <2>1, MeasureShape, MeasureDoes
<1>4. u.root # Nil
  BY <1>3 DEF Shape, Rooted, Nodes
<1>5. t.parent[a] \in Used(t) \cup {Nil}
  BY Nodeful DEF Shape, Upward, Rooted, Nodes
<1> QED
  BY <1>1, <1>3, <1>4, <1>5 DEF b, top

-----------------------------------------------------------------------------
(***************************************************************************)
(* The pointers agree.                                                     *)
(***************************************************************************)

Placed == leaves \ pending

\* Nothing outside the tree points into it, save an item that is about to be
\* inserted again.
Loose ==
  /\ \A i \in Item \ leaves : tree.parent[i] = Nil
  /\ tree.root = Nil => \A i \in Item : tree.parent[i] = Nil

CursorInTree ==
  /\ pc = "refit" => cursor \in Used(tree) \cup {Nil}
  /\ pc \in {"visit", "climb"} => cursor \in InTree
  /\ pc \in {"visit", "climb", "done"} => pending = {}

Standing ==
  /\ TypeOK
  /\ pending \subseteq leaves
  /\ Shape(tree, Placed)
  /\ Loose
  /\ CursorInTree

LEMMA Typing ==
  TypeOK <=> /\ tree \in Tree
             /\ leaves \subseteq Item
             /\ pc \in {"idle", "refit", "visit", "climb", "done"}
             /\ cursor \in Node \cup {Nil}
             /\ pending \subseteq Item
             /\ query \subseteq Cell
             /\ found \subseteq Item
BY DEF TypeOK, Tree

LEMMA EmptyTree ==
  Empty \in Tree /\ Empty.root = Nil /\ Empty.left = Nowhere /\ Leafy(Empty)
    /\ \A n \in Node : Empty.parent[n] = Nil
BY DEF Empty, Nowhere, Tree, Leafy, Node

LEMMA FreeInner ==
  ASSUME NEW t, NEW P, Shape(t, P), t.root # Nil, NEW i \in Item \ P
  PROVE  (CHOOSE p \in Inner : p \notin Used(t)) \in Inner \ Used(t)
<1>1. Cardinality(P) = Cardinality(Used(t)) + 1
  BY DEF Shape, Counted
<1>2. P \in SUBSET (Item \ {i}) /\ i \in Item
  BY Nodeful
<1>3. /\ IsFiniteSet(Item \ {i}) /\ Cardinality(Item \ {i}) = Cardinality(Item) - 1
      /\ Cardinality(Item) \in Nat /\ Cardinality(Inner) \in Nat
  BY NodeAssumption, FS_RemoveElement, FS_CardinalityType
<1>4. Cardinality(P) <= Cardinality(Item) - 1
  BY <1>2, <1>3, FS_Subset
<1>5. Cardinality(Used(t)) \in Nat /\ Cardinality(P) \in Nat /\ Used(t) \subseteq Inner
  BY Finite, Nodeful
<1>6. Used(t) # Inner
  BY <1>1, <1>3, <1>4, <1>5, NodeAssumption
<1> QED
  BY <1>5, <1>6

LEMMA StandingInit == Init => Standing
<1> SUFFICES ASSUME Init PROVE Standing
  OBVIOUS
<1>1. tree = Empty /\ leaves = {} /\ pc = "idle" /\ cursor = Nil /\ pending = {}
      /\ query = {} /\ found = {}
  BY DEF Init
<1>2. TypeOK
  BY <1>1, EmptyTree, Typing
<1>3. Shape(tree, Placed)
  BY <1>1, EmptyTree, EmptyShape DEF Placed
<1>4. Loose
  BY <1>1, EmptyTree DEF Loose, Node
<1> QED
  BY <1>1, <1>2, <1>3, <1>4 DEF Standing, CursorInTree

LEMMA StandingStep == Standing /\ [Next]_vars => Standing'
<1> SUFFICES ASSUME Standing, [Next]_vars
             PROVE  Standing'
  OBVIOUS
<1>1. /\ tree \in Tree /\ leaves \subseteq Item
      /\ pc \in {"idle", "refit", "visit", "climb", "done"}
      /\ cursor \in Node \cup {Nil} /\ pending \subseteq leaves
      /\ query \subseteq Cell /\ found \subseteq Item
      /\ Shape(tree, Placed) /\ Loose /\ CursorInTree /\ TypeOK
  BY Typing DEF Standing
<1>2. InTree = Nodes(tree, Placed)
  BY DEF InTree, Nodes, Placed
\* Only the tree, and only the boxes of it, change.
<1>3. ASSUME Idle, Idle', UNCHANGED <<cursor, query, found>>, leaves' \subseteq Item,
             tree' \in Tree, tree'.root = tree.root, tree'.left = tree.left,
             tree'.right = tree.right, tree'.parent = tree.parent, tree'.height = tree.height,
             leaves' = leaves
      PROVE  Standing'
  BY <1>1, <1>3, SameShape DEF Standing, TypeOK, Tree, Loose, CursorInTree, Idle, Placed
<1>4. ASSUME NEW i \in Item, NEW b \in Box, Add(i, b)
      PROVE  Standing'
  <2>1. /\ Idle /\ i \notin leaves /\ leaves' = leaves \cup {i}
        /\ tree' = [tree EXCEPT !.aabb[i] = Expand(b)] /\ pending' = {i}
        /\ UNCHANGED <<pc, cursor, query, found>>
    BY <1>4 DEF Add, NoSearch
  <2>2. Expand(b) \in SUBSET Cell /\ i \in Node
    BY BoxAssumption DEF Node
  <2>3. /\ tree' \in Tree /\ tree'.root = tree.root /\ tree'.left = tree.left
        /\ tree'.right = tree.right /\ tree'.parent = tree.parent /\ tree'.height = tree.height
    BY <1>1, <2>1, <2>2 DEF Tree
  <2>4. Placed' = Placed
    BY <2>1 DEF Placed, Idle
  <2>5. Shape(tree, Placed)'
    BY <1>1, <2>3, <2>4, SameShape
  <2>6. TypeOK'
    BY <1>1, <2>1, <2>3, Typing DEF TypeOK, Tree
  <2>7. Loose'
    BY <1>1, <2>1, <2>3 DEF Loose
  <2> QED
    BY <2>1, <2>5, <2>6, <2>7 DEF Standing, CursorInTree, Idle
<1>5. ASSUME NEW i \in Item, NEW b \in Box, Update(i, b)
      PROVE  Standing'
  <2> DEFINE w == Prune(tree, i)
  <2>1. /\ Idle /\ i \in leaves /\ leaves' = leaves /\ pc' = "refit"
        /\ tree' = [w EXCEPT !.aabb[i] = Expand(b)] /\ pending' = {i}
        /\ cursor' = AbovePruned(tree, i)
        /\ UNCHANGED <<query, found>>
    BY <1>5 DEF Update, NoSearch
  <2>2. Expand(b) \in SUBSET Cell /\ i \in Node /\ i \in Placed
    BY <2>1, BoxAssumption DEF Node, Placed, Idle
  <2>3. /\ Shape(w, Placed \ {i}) /\ AbovePruned(tree, i) \in Used(w) \cup {Nil}
        /\ w.root = Nil <=> tree.root = i
        /\ \A j \in Item \ Placed : w.parent[j] = tree.parent[j]
        /\ w.parent[i] = tree.parent[i]
    BY <1>1, <2>2, TakeOut
  <2> HIDE DEF w
  <2>4. w \in Tree
    BY <2>3, Nodeful
  <2>5. /\ tree' \in Tree /\ tree'.root = w.root /\ tree'.left = w.left
        /\ tree'.right = w.right /\ tree'.parent = w.parent /\ tree'.height = w.height
    BY <2>1, <2>2, <2>4 DEF Tree
  <2>6. Placed' = Placed \ {i}
    BY <2>1 DEF Placed, Idle
  <2>7. Shape(tree', Placed') /\ Used(tree') = Used(w)
    BY <2>3, <2>5, <2>6, SameShape
  <2>8. cursor' \in Used(tree)' \cup {Nil} /\ cursor' \in Node \cup {Nil}
    BY <2>1, <2>3, <2>7, Nodeful DEF Nodes
  <2>9. TypeOK'
    BY <1>1, <2>1, <2>5, <2>8, Typing DEF TypeOK, Tree
  <2>10. Loose'
    <3>1. \A j \in Item \ leaves : tree'.parent[j] = Nil
      BY <1>1, <2>1, <2>3, <2>5 DEF Loose, Placed
    <3>2. ASSUME tree'.root = Nil
          PROVE  \A j \in Item : tree'.parent[j] = Nil
      <4>1. tree.root = i /\ Placed = {i} /\ leaves = {i}
        BY <1>1, <2>1, <2>3, <2>5, <3>2, LoneLeaf DEF Placed, Idle
      <4>2. tree.parent[i] = Nil
        BY <1>1, <2>2, <4>1, Nodeful DEF Shape, Rooted, Nodes
      <4> QED
        BY <2>3, <2>5, <3>1, <4>1, <4>2
    <3> QED
      BY <2>1, <3>1, <3>2 DEF Loose
  <2> QED
    BY <1>1, <2>1, <2>7, <2>8, <2>9, <2>10 DEF Standing, CursorInTree
<1>6. ASSUME NEW i \in Item, Remove(i)
      PROVE  Standing'
  <2> DEFINE w == Prune(tree, i)
  <2>1. /\ Idle /\ i \in leaves /\ leaves' = leaves \ {i} /\ pc' = "refit"
        /\ tree' = [w EXCEPT !.parent[i] = Nil, !.aabb[i] = {}] /\ pending' = pending
        /\ cursor' = AbovePruned(tree, i)
        /\ UNCHANGED <<query, found>>
    BY <1>6 DEF Remove, NoSearch
  <2>2. i \in Node /\ i \in Placed
    BY <2>1 DEF Node, Placed, Idle
  <2>3. /\ Shape(w, Placed \ {i}) /\ AbovePruned(tree, i) \in Used(w) \cup {Nil}
        /\ w.root = Nil <=> tree.root = i
        /\ \A j \in Item \ Placed : w.parent[j] = tree.parent[j]
    BY <1>1, <2>2, TakeOut
  <2> HIDE DEF w
  <2>4. w \in Tree
    BY <2>3, Nodeful
  <2>5. /\ tree' \in Tree /\ tree'.root = w.root /\ tree'.left = w.left
        /\ tree'.right = w.right /\ tree'.height = w.height
        /\ tree'.parent = [w.parent EXCEPT ![i] = Nil]
    BY <2>1, <2>2, <2>4 DEF Tree
  <2>6. Placed' = Placed \ {i}
    BY <2>1 DEF Placed, Idle
  <2>7. /\ \A n \in Node : tree'.parent[n] = IF n = i THEN Nil ELSE w.parent[n]
        /\ i \notin Nodes(w, Placed \ {i})
        /\ Nodes(w, Placed \ {i}) \subseteq Node
    BY <2>2, <2>3, <2>4, <2>5, Nodeful, NodeAssumption DEF Tree, Nodes
  <2>8. Shape(tree', Placed') /\ Used(tree') = Used(w)
    <3>1. \A n \in Nodes(w, Placed \ {i}) : tree'.parent[n] = w.parent[n]
      BY <2>7
    <3> QED
      BY <2>3, <2>5, <2>6, <3>1, SameShape
  <2>9. cursor' \in Used(tree)' \cup {Nil} /\ cursor' \in Node \cup {Nil}
    BY <2>1, <2>3, <2>8, Nodeful DEF Nodes
  <2>10. TypeOK'
    BY <1>1, <2>1, <2>5, <2>9, Typing DEF TypeOK, Tree
  <2>11. Loose'
    <3>1. \A j \in Item \ leaves' : tree'.parent[j] = Nil
      BY <1>1, <2>1, <2>3, <2>7 DEF Loose, Placed, Node
    <3>2. ASSUME tree'.root = Nil
          PROVE  \A j \in Item : tree'.parent[j] = Nil
      <4>1. leaves' = {}
        BY <1>1, <2>1, <2>3, <2>5, <3>2, LoneLeaf DEF Placed, Idle
      <4> QED
        BY <3>1, <4>1
    <3> QED
      BY <3>1, <3>2 DEF Loose
  <2> QED
    BY <1>1, <2>1, <2>8, <2>9, <2>10, <2>11 DEF Standing, CursorInTree, Idle
<1>7. CASE Clear
  <2>1. /\ leaves' = {} /\ tree' = Empty /\ pending = {} /\ pc = "idle"
        /\ UNCHANGED <<pc, cursor, pending, query, found>>
    BY <1>7 DEF Clear, Idle, NoSearch
  <2>2. Shape(tree, Placed)'
    BY <2>1, EmptyTree, EmptyShape DEF Placed
  <2>3. TypeOK'
    BY <1>1, <2>1, EmptyTree, Typing DEF TypeOK, Tree
  <2>4. Loose'
    BY <2>1, EmptyTree DEF Loose, Node
  <2> QED
    BY <2>1, <2>2, <2>3, <2>4 DEF Standing, CursorInTree
<1>8. CASE Optimize
  <2> DEFINE boxes == [n \in Node |-> IF n \in leaves THEN tree.aabb[n] ELSE {}]
  <2>1. /\ tree' = [Empty EXCEPT !.aabb = boxes] /\ pending' = leaves /\ pc = "idle"
        /\ UNCHANGED <<leaves, pc, cursor, query, found>>
    BY <1>8 DEF Optimize, Idle, NoSearch
  <2>2. boxes \in [Node -> SUBSET Cell]
    BY <1>1 DEF Tree
  <2> HIDE DEF boxes
  <2>3. /\ tree' \in Tree /\ tree'.root = Nil /\ tree'.left = Nowhere
        /\ tree'.parent = Nowhere /\ tree'.right = Nowhere /\ tree'.height = Empty.height
    BY <2>1, <2>2, EmptyTree DEF Empty, Tree
  <2>4. Leafy(tree')
    BY <2>3 DEF Leafy, Nowhere, Empty, Node
  <2>5. Shape(tree', Placed')
    BY <2>1, <2>3, <2>4, EmptyShape DEF Placed
  <2>6. TypeOK'
    BY <1>1, <2>1, <2>3, Typing DEF TypeOK, Tree
  <2>7. Loose'
    BY <2>3 DEF Loose, Nowhere, Node
  <2> QED
    BY <2>1, <2>5, <2>6, <2>7 DEF Standing, CursorInTree
<1>9. ASSUME NEW i \in Item, NEW j \in Item, GetBodyAABB(i, j)
      PROVE  Standing'
  <2>1. /\ Idle /\ tree' = [tree EXCEPT !.aabb[i] = @ \cup tree.aabb[j]]
        /\ UNCHANGED <<leaves, pc, cursor, pending, query, found>>
    BY <1>9 DEF GetBodyAABB, NoSearch
  <2>2. i \in Node /\ tree.aabb[i] \cup tree.aabb[j] \in SUBSET Cell
    BY <1>1 DEF Node, Tree
  <2>3. /\ tree' \in Tree /\ tree'.root = tree.root /\ tree'.left = tree.left
        /\ tree'.right = tree.right /\ tree'.parent = tree.parent /\ tree'.height = tree.height
    BY <1>1, <2>1, <2>2 DEF Tree
  <2> QED
    BY <1>1, <1>3, <2>1, <2>3 DEF Idle
<1>10. ASSUME NEW box \in Box \cup {tree.aabb[i] : i \in leaves}, BeginSearch(box)
       PROVE  Standing'
  <2>1. /\ Idle /\ tree.root # Nil /\ query' = box /\ cursor' = tree.root /\ pc' = "visit"
        /\ UNCHANGED <<tree, leaves, pending, found>>
    BY <1>10 DEF BeginSearch
  <2>2. box \in SUBSET Cell
    <3>1. CASE box \in Box
      BY <3>1, BoxAssumption
    <3>2. CASE box \in {tree.aabb[i] : i \in leaves}
      BY <1>1, <3>2 DEF Tree, Node
    <3> QED
      BY <3>1, <3>2
  <2>3. cursor' \in InTree' /\ cursor' \in Node
    BY <1>1, <1>2, <2>1, Nodeful DEF Shape, Rooted, InTree
  <2>4. TypeOK'
    BY <1>1, <2>1, <2>2, <2>3, Typing DEF TypeOK, Tree
  <2> QED
    BY <1>1, <2>1, <2>3, <2>4 DEF Standing, Loose, CursorInTree, Idle, Placed
<1>11. ASSUME NEW i \in Item, NEW sibling \in Node, Insert(i, sibling)
       PROVE  Standing'
  <2> DEFINE p == CHOOSE p \in Inner : p \notin Used(tree)
  <2>1. /\ pc = "idle" /\ i \in pending
        /\ sibling \in Nodes(tree, Placed)
        /\ tree' = Graft(tree, sibling, p, i) /\ cursor' = p /\ pc' = "refit"
        /\ pending' = pending \ {i}
        /\ UNCHANGED <<leaves, query, found>>
    BY <1>11 DEF Insert, NoSearch, Nodes, Placed
  <2>2. tree.root # Nil /\ i \in Item \ Placed
    BY <1>1, <2>1 DEF Shape, Rooted, Placed
  <2>3. p \in Inner \ Used(tree)
    BY <1>1, <2>2, FreeInner
  <2> HIDE DEF p
  <2>4. /\ Shape(tree', Placed \cup {i}) /\ Used(tree') = Used(tree) \cup {p}
        /\ \A j \in Item \ (Placed \cup {i}) : tree'.parent[j] = tree.parent[j]
    BY <1>1, <2>1, <2>2, <2>3, GraftShape
  <2>5. Placed' = Placed \cup {i}
    BY <1>1, <2>1 DEF Placed
  <2>6. TypeOK'
    <3>1. tree' \in Tree /\ p \in Node
      BY <2>3, <2>4, Nodeful DEF Node
    <3> QED
      BY <1>1, <2>1, <3>1, Typing DEF TypeOK, Tree
  <2>7. Loose'
    <3>1. tree'.root # Nil
      BY <2>4 DEF Shape, Rooted, Nodes
    <3>2. \A j \in Item \ leaves : tree'.parent[j] = tree.parent[j]
      BY <1>1, <2>1, <2>4 DEF Placed
    <3> QED
      BY <1>1, <2>1, <3>1, <3>2 DEF Loose
  <2> QED
    BY <1>1, <2>1, <2>4, <2>5, <2>6, <2>7 DEF Standing, CursorInTree
<1>12. ASSUME NEW i \in Item, InsertFirst(i)
       PROVE  Standing'
  <2>1. /\ pc = "idle" /\ i \in pending /\ tree.root = Nil
        /\ tree' = [tree EXCEPT !.root = i] /\ pending' = pending \ {i}
        /\ UNCHANGED <<leaves, pc, cursor, query, found>>
    BY <1>12 DEF InsertFirst, NoSearch
  <2>2. Placed = {} /\ tree.parent[i] = Nil
    BY <1>1, <2>1 DEF Shape, Rooted, Nodes, Loose
  <2>3. Shape(tree', {i}) /\ tree'.parent = tree.parent
    BY <1>1, <2>1, <2>2, FirstShape
  <2>4. Placed' = {i}
    BY <1>1, <2>1, <2>2 DEF Placed
  <2>5. TypeOK'
    BY <1>1, <2>1, <2>3, Typing, Nodeful DEF TypeOK, Tree
  <2>6. Loose'
    BY <1>1, <2>1, <2>3 DEF Loose
  <2> QED
    BY <1>1, <2>1, <2>3, <2>4, <2>5, <2>6 DEF Standing, CursorInTree
<1>13. CASE Refit
  <2>1. /\ pc = "refit" /\ cursor # Nil /\ tree' = Refitted(tree, cursor)
        /\ cursor' = Balanced(tree, cursor).parent[Top(tree, cursor)]
        /\ UNCHANGED <<leaves, pc, pending, query, found>>
    BY <1>13, RefitIs
  <2>2. cursor \in Used(tree)
    BY <1>1, <2>1 DEF CursorInTree
  <2>3. /\ Shape(tree', Placed) /\ Used(tree') = Used(tree) /\ tree'.root # Nil
        /\ cursor' \in Used(tree') \cup {Nil}
        /\ \A j \in Item \ Placed : tree'.parent[j] = tree.parent[j]
    BY <1>1, <2>1, <2>2, RefitShape
  <2>4. Placed' = Placed
    BY <2>1 DEF Placed
  <2>5. TypeOK'
    <3>1. tree' \in Tree /\ cursor' \in Node \cup {Nil}
      BY <2>3, Nodeful DEF Nodes
    <3> QED
      BY <1>1, <2>1, <3>1, Typing DEF TypeOK, Tree
  <2>6. Loose'
    BY <1>1, <2>1, <2>3 DEF Loose, Placed
  <2> QED
    BY <1>1, <2>1, <2>3, <2>4, <2>5, <2>6 DEF Standing, CursorInTree
<1>14. CASE RefitDone
  BY <1>1, <1>14 DEF RefitDone, NoSearch, Standing, TypeOK, Loose, CursorInTree, Placed
<1>15. CASE Visit
  <2>1. /\ pc = "visit" /\ cursor \in Nodes(tree, Placed) /\ pending = {}
        /\ UNCHANGED <<tree, leaves, pending, query>>
        /\ \/ ~ IsLeaf(tree, cursor) /\ cursor' = tree.left[cursor] /\ UNCHANGED <<pc, found>>
           \/ /\ ~ (Overlaps(tree.aabb[cursor]) /\ ~ IsLeaf(tree, cursor))
              /\ found' = IF Overlaps(tree.aabb[cursor]) THEN found \cup {cursor} ELSE found
              /\ pc' = "climb" /\ UNCHANGED cursor
    BY <1>1, <1>2, <1>15 DEF Visit, CursorInTree
  <2>2. IsLeaf(tree, cursor) => cursor \in Item
    BY <1>1, <2>1, Nodeful DEF Nodes, IsLeaf, Used
  <2>3. ~ IsLeaf(tree, cursor) => tree.left[cursor] \in Nodes(tree, Placed)
    BY <1>1, <2>1, Nodeful DEF Nodes, IsLeaf, Shape, Leafy
  <2>4. cursor' \in Nodes(tree, Placed) /\ cursor' \in Node
    BY <1>1, <2>1, <2>3, Nodeful
  <2>5. found' \subseteq Item /\ pc' \in {"visit", "climb"}
    BY <1>1, <2>1, <2>2
  <2>6. TypeOK'
    BY <1>1, <2>1, <2>4, <2>5, Typing DEF TypeOK, Tree
  <2>7. cursor' \in InTree'
    BY <1>2, <2>1, <2>4 DEF InTree
  <2> QED
    BY <1>1, <2>1, <2>5, <2>6, <2>7 DEF Standing, Loose, CursorInTree, Placed
<1>16. CASE Climb
  <2>1. /\ pc = "climb" /\ cursor \in Nodes(tree, Placed) /\ pending = {}
        /\ UNCHANGED <<tree, leaves, pending, query, found>>
        /\ \/ pc' = "done" /\ UNCHANGED cursor
           \/ /\ tree.parent[cursor] # Nil /\ pc' = "visit"
              /\ cursor' = tree.right[tree.parent[cursor]]
           \/ tree.parent[cursor] # Nil /\ cursor' = tree.parent[cursor] /\ UNCHANGED pc
    BY <1>1, <1>2, <1>16 DEF Climb, CursorInTree
  <2>2. tree.parent[cursor] # Nil =>
          /\ tree.parent[cursor] \in Nodes(tree, Placed)
          /\ tree.right[tree.parent[cursor]] \in Nodes(tree, Placed)
    <3>1. tree.parent[cursor] # Nil => tree.parent[cursor] \in Used(tree)
      BY <1>1, <2>1 DEF Shape, Rooted, Upward
    <3> QED
      BY <1>1, <3>1, Nodeful DEF Nodes
  <2>3. cursor' \in Nodes(tree, Placed) /\ cursor' \in Node
    BY <1>1, <2>1, <2>2, Nodeful
  <2>4. TypeOK'
    BY <1>1, <2>1, <2>3, Typing DEF TypeOK, Tree
  <2>5. cursor' \in InTree'
    BY <1>2, <2>1, <2>3 DEF InTree
  <2> QED
    BY <1>1, <2>1, <2>4, <2>5 DEF Standing, Loose, CursorInTree, Placed
<1>17. CASE EndSearch
  BY <1>1, <1>17 DEF EndSearch, Standing, TypeOK, Loose, CursorInTree, Placed
<1>18. CASE UNCHANGED vars
  BY <1>1, <1>18 DEF vars, Standing, TypeOK, Loose, CursorInTree, Placed, InTree
<1> QED
  BY <1>4, <1>5, <1>6, <1>7, <1>8, <1>9, <1>10, <1>11, <1>12, <1>13, <1>14, <1>15, <1>16,
     <1>17, <1>18 DEF Next, Operation, Loop

LEMMA AlwaysStanding == Spec => []Standing
BY StandingInit, StandingStep, PTL DEF Spec

LEMMA StandingLinked == Standing => Linked
<1> SUFFICES ASSUME Standing, Idle
             PROVE  /\ tree.root = Nil <=> leaves = {}
                    /\ tree.root # Nil => tree.root \in InTree /\ tree.parent[tree.root] = Nil
                    /\ \A n \in Used(tree) :
                         /\ tree.left[n] # tree.right[n]
                         /\ \A c \in Children(n) : c \in InTree /\ tree.parent[c] = n
                    /\ \A n \in InTree \ {tree.root} :
                         tree.parent[n] \in Used(tree) /\ n \in Children(tree.parent[n])
  BY DEF Linked
<1>1. /\ Shape(tree, leaves) /\ InTree = Nodes(tree, leaves)
      /\ \A n : Children(n) = Kids(tree, n)
  BY DEF Standing, Idle, Placed, InTree, Nodes, Children, Kids
<1>2. leaves = {} => tree.root = Nil
  <2>1. leaves = {} => Cardinality(leaves) = 0
    BY FS_EmptySet
  <2> QED
    BY <1>1, <2>1, Finite DEF Shape, Counted
<1> QED
  BY <1>1, <1>2 DEF Shape, Counted, Rooted, Downward, Upward

\* After any operation, parent and child pointers agree and every node but the
\* root is the child of one other: insert, removeNode and balance never lose a
\* node, reach it twice or close a cycle.
THEOREM PointersAgree == Spec => []Linked
BY StandingLinked, AlwaysStanding, PTL

-----------------------------------------------------------------------------
(***************************************************************************)
(* Heights and boxes are exact.                                            *)
(***************************************************************************)

Exact(t, n) ==
  /\ t.height[n] = OneAbove(t, t.left[n], t.right[n])
  /\ BodyAABB \/ t.aabb[n] = t.aabb[t.left[n]] \cup t.aabb[t.right[n]]

\* n and its ancestors: the least set that holds n and the parents of its
\* members.
RisesFrom(t, n, S) ==
  n \in S \cup {Nil} /\ \A k \in S : t.parent[k] \in S \cup {Nil}
Above(t, n) == {m \in Node : \A S \in SUBSET Node : RisesFrom(t, n, S) => m \in S}

LEMMA AboveIs ==
  ASSUME NEW t \in Tree, NEW n \in Node \cup {Nil}
  PROVE  /\ RisesFrom(t, n, Above(t, n))
         /\ Above(t, Nil) = {}
         /\ n # Nil => Above(t, n) \subseteq {n} \cup Above(t, t.parent[n])
<1>1. RisesFrom(t, n, Above(t, n))
  <2>1. n \in Above(t, n) \cup {Nil}
    BY DEF Above, RisesFrom
  <2>2. ASSUME NEW k \in Above(t, n)
        PROVE  t.parent[k] \in Above(t, n) \cup {Nil}
    <3>1. k \in Node /\ t.parent[k] \in Node \cup {Nil}
      BY DEF Above, Tree
    <3>2. ASSUME NEW S \in SUBSET Node, RisesFrom(t, n, S)
          PROVE  t.parent[k] \in S \cup {Nil}
      BY <3>2 DEF Above, RisesFrom
    <3> QED
      BY <3>1, <3>2, NodeAssumption DEF Above
  <2> QED
    BY <2>1, <2>2 DEF RisesFrom
<1>2. Above(t, Nil) = {}
  <2>1. RisesFrom(t, Nil, {})
    BY DEF RisesFrom
  <2> QED
    BY <2>1 DEF Above
<1>3. ASSUME n # Nil, NEW m \in Above(t, n), m # n
      PROVE  m \in Above(t, t.parent[n])
  <2>1. ASSUME NEW S \in SUBSET Node, RisesFrom(t, t.parent[n], S)
        PROVE  m \in S
    <3>1. RisesFrom(t, n, S \cup {n}) /\ S \cup {n} \in SUBSET Node
      BY <1>3, <2>1 DEF RisesFrom
    <3> QED
      BY <1>3, <3>1 DEF Above
  <2> QED
    BY <2>1 DEF Above
<1> QED
  BY <1>1, <1>2, <1>3

LEMMA AboveSame ==
  ASSUME NEW t, NEW u, u.parent = t.parent, NEW n
  PROVE  Above(u, n) = Above(t, n)
BY DEF Above, RisesFrom

\* A node's exactness is a matter of the node and its children.
LEMMA ExactSame ==
  ASSUME NEW t, NEW u, NEW n, u.left[n] = t.left[n], u.right[n] = t.right[n], Exact(t, n),
         \A k \in {n} \cup Kids(t, n) : u.height[k] = t.height[k] /\ u.aabb[k] = t.aabb[k]
  PROVE  Exact(u, n)
BY DEF Exact, Kids, OneAbove, Taller

LEMMA MeasureExact ==
  ASSUME NEW t, NEW P, Shape(t, P), NEW n \in Used(t), NEW u, u = Measure(t, n)
  PROVE  /\ Exact(u, n)
         /\ \A m \in Used(t) \ {n} : n \notin Kids(t, m) /\ Exact(t, m) => Exact(u, m)
<1>1. n \in Node /\ t.left[n] \in Node \ {n} /\ t.right[n] \in Node \ {n} /\ t \in Tree
  BY Nodeful DEF Nodes
<1>2. /\ u.left = t.left /\ u.right = t.right
      /\ \A k \in Node :
           /\ u.height[k] = IF k = n THEN OneAbove(t, t.left[n], t.right[n]) ELSE t.height[k]
           /\ u.aabb[k] = IF k = n THEN t.aabb[t.left[n]] \cup t.aabb[t.right[n]] ELSE t.aabb[k]
  <2> DEFINE r == [root |-> t.root, left |-> t.left, right |-> t.right, parent |-> t.parent,
                   height |-> [m \in Node |->
                     IF m = n THEN OneAbove(t, t.left[n], t.right[n]) ELSE t.height[m]],
                   aabb |-> [m \in Node |->
                     IF m = n THEN t.aabb[t.left[n]] \cup t.aabb[t.right[n]] ELSE t.aabb[m]]]
  <2>1. u = r
    BY <1>1, MeasureDoes, Zenon
  <2> QED
    BY <2>1
<1>3. Exact(u, n)
  BY <1>1, <1>2 DEF Exact, OneAbove, Taller
<1>4. ASSUME NEW m \in Used(t) \ {n}, n \notin Kids(t, m), Exact(t, m)
      PROVE  Exact(u, m)
  <2>1. \A k \in {m} \cup Kids(t, m) : k \in Node /\ k # n
    BY <1>4, Nodeful DEF Kids, Nodes
  <2> QED
    BY <1>2, <1>4, <2>1, ExactSame
<1> QED
  BY <1>3, <1>4

\* A rotation changes no pointer above it.
LEMMA AboveWire ==
  ASSUME NEW t, NEW P, Shape(t, P), NEW a \in Used(t), NEW up \in Used(t), up \in Kids(t, a),
         NEW w, w = Wire(t, a, up), Shape(w, P),
         NEW g, g = t.parent[a], NEW c, c = Given(t, up),
         c \in Kids(w, a), a \in Kids(w, up), w.parent[up] = g, Used(w) = Used(t),
         \A n \in Node : n \notin {a, up, c} => w.parent[n] = t.parent[n]
  PROVE  Above(t, g) \subseteq Above(w, g)
<1> DEFINE A == Above(w, g)
<1>1. t \in Tree /\ w \in Tree /\ g \in Used(t) \cup {Nil} /\ g \in Node \cup {Nil}
  BY Around, Nodeful
<1>2. CASE g = Nil
  BY <1>1, <1>2, AboveIs
<1>3. CASE g # Nil
  <2>1. RisesFrom(w, g, A) /\ g \in A /\ A \subseteq Node
    BY <1>1, <1>3, AboveIs DEF RisesFrom, Above
  <2>2. PICK depth \in [Node -> Nat] :
          \A n \in Used(w) : \A k \in Kids(w, n) : depth[n] < depth[k]
    BY DEF Shape, Ranked
  <2> DEFINE S == {n \in Nodes(w, P) : depth[n] <= depth[g]}
  <2>3. RisesFrom(w, g, S) /\ S \in SUBSET Node
    <3>1. g \in S /\ S \in SUBSET Node
      BY <1>1, <1>3, <2>2, Nodeful DEF Nodes
    <3>2. ASSUME NEW n \in S
          PROVE  w.parent[n] \in S \cup {Nil}
      <4>1. n = w.root => w.parent[n] = Nil
        BY DEF Shape, Rooted, Nodes
      <4>2. n # w.root => w.parent[n] \in Used(w) /\ depth[w.parent[n]] < depth[n]
        BY <2>2 DEF Shape, Upward
      <4>3. n # w.root => /\ w.parent[n] \in Node /\ w.parent[n] \in Nodes(w, P)
                          /\ depth[w.parent[n]] \in Nat
        BY <2>2, <4>2, Nodeful DEF Nodes
      <4>4. n \in Node /\ depth[n] \in Nat /\ depth[n] <= depth[g] /\ depth[g] \in Nat
        BY <2>2, <3>1, Nodeful
      <4> QED
        BY <4>1, <4>2, <4>3, <4>4
    <3> QED
      BY <3>1, <3>2 DEF RisesFrom
  <2>4. a \notin S /\ up \notin S /\ c \notin S
    <3>1. up \in Kids(w, g)
      BY <1>1, <1>3, Around, Nodeful DEF Shape, Upward, Rooted, Nodes
    <3>2. depth[g] < depth[up] /\ depth[up] < depth[a] /\ depth[a] < depth[c]
      BY <1>1, <1>3, <2>2, <3>1
    <3>3. depth[g] \in Nat /\ depth[up] \in Nat /\ depth[a] \in Nat /\ depth[c] \in Nat
      BY <1>1, <1>3, <2>2, Around
    <3> QED
      BY <3>2, <3>3
  <2>5. A \subseteq S
    BY <2>3 DEF Above
  <2> HIDE DEF A, S
  <2>6. RisesFrom(t, g, A)
    BY <2>1, <2>4, <2>5 DEF RisesFrom
  <2> QED
    BY <2>1, <2>6 DEF Above, A
<1> QED
  BY <1>2, <1>3

\* After a round of the climb only the nodes above may be out of date.
LEMMA RefitExact ==
  ASSUME NEW t, NEW P, Shape(t, P), NEW a \in Used(t), NEW u, u = Refitted(t, a),
         \A n \in Used(t) \ Above(t, a) : Exact(t, n)
  PROVE  \A n \in Used(u) \ Above(u, t.parent[a]) : Exact(u, n)
<1> DEFINE g == t.parent[a]
<1>1. t \in Tree /\ a \in Node /\ g \in Used(t) \cup {Nil} /\ g \in Node \cup {Nil}
  BY Nodeful DEF Shape, Rooted, Upward, Nodes
<1>2. \A n \in Used(t) : /\ n \in Node /\ n # Nil
                         /\ \A k \in Kids(t, n) : k \in Node /\ t.parent[k] = n
  BY Nodeful DEF Kids, Nodes
<1>3. Above(t, a) \subseteq {a} \cup Above(t, g)
  BY <1>1, <1>2, AboveIs
<1>4. \A n \in Used(t) \ Above(t, g) : n # g
  BY <1>1, <1>2, AboveIs DEF RisesFrom
<1>5. CASE Lifted(t, a) = Nil
  <2>1. u = Measure(t, a)
    BY <1>5 DEF Refitted, Balanced, Top
  <2>2. Used(u) = Used(t) /\ u.parent = t.parent
    <3>1. t.left[a] \in Node /\ t.right[a] \in Node
      BY <1>2 DEF Kids
    <3> QED
      BY <1>1, <2>1, <3>1, MeasureShape, MeasureDoes
  <2>3. ASSUME NEW n \in Used(t), n \notin Above(t, g)
        PROVE  Exact(u, n)
    <3>1. a \notin Kids(t, n)
      BY <1>2, <1>4, <2>3
    <3>2. n # a => Exact(t, n)
      BY <1>3, <2>3
    <3> QED
      BY <2>1, <3>1, <3>2, MeasureExact
  <2> QED
    BY <2>2, <2>3, AboveSame
<1>6. CASE Lifted(t, a) # Nil
  <2> DEFINE up == Lifted(t, a)
             b == Kept(t, up)
             c == Given(t, up)
             w == Wire(t, a, up)
             v == Measure(w, a)
             x == Measure(v, up)
  <2>1. up \in Used(t) /\ up \in Kids(t, a)
    BY <1>6, LiftedIs
  <2>2. u = Measure(x, up)
    BY <1>6 DEF Refitted, Balanced, Top, Lift
  <2> HIDE DEF up
  <2>3. /\ up \in Node /\ b \in Node /\ c \in Node /\ a # up /\ g \notin {a, up, b, c}
        /\ a \notin {b, c} /\ up \notin {b, c} /\ b # c
        /\ t.parent[up] = a /\ t.parent[b] = up /\ t.parent[c] = up
        /\ t.left[up] \in Node /\ t.right[up] \in Node
    BY <1>2, <2>1, Around DEF Kids
  <2>4. Shape(w, P) /\ Used(w) = Used(t)
    BY <2>1, WireShape
  <2>5. /\ w.height = t.height /\ w.aabb = t.aabb
        /\ \A n \in Node :
             /\ n \notin {a, up, g} => w.left[n] = t.left[n] /\ w.right[n] = t.right[n]
             /\ w.parent[n] = IF n = c THEN a ELSE IF n = a THEN up
                              ELSE IF n = up THEN g ELSE t.parent[n]
    <3>1. g = t.parent[a] /\ c = Given(t, up)
      OBVIOUS
    <3> HIDE DEF g, c, b
    <3> QED
      BY <1>1, <2>3, <3>1, WireDoes
  <2>6. /\ w.left[up] = a
        /\ w.left[a] = c \/ w.right[a] = c
    <3>1. g = t.parent[a] /\ c = Given(t, up)
      OBVIOUS
    <3> HIDE DEF g, c, b
    <3> QED
      BY <1>1, <2>3, <3>1, WireDoes
  <2> HIDE DEF w, b, c
  <2>7. /\ Shape(v, P) /\ Used(v) = Used(t) /\ v.parent = w.parent
        /\ v.left = w.left /\ v.right = w.right
    <3>1. w \in Tree /\ w.left[a] \in Node /\ w.right[a] \in Node
      BY <2>4, Nodeful
    <3> QED
      BY <1>1, <2>4, <3>1, MeasureShape, MeasureDoes
  <2>8. /\ Exact(v, a)
        /\ \A n \in Used(t) \ {a} : a \notin Kids(w, n) /\ Exact(w, n) => Exact(v, n)
    BY <2>4, MeasureExact
  <2> HIDE DEF v
  <2>9. /\ Shape(x, P) /\ Used(x) = Used(t) /\ x.parent = w.parent
        /\ x.left = w.left /\ x.right = w.right
    <3>1. v \in Tree /\ v.left[up] \in Node /\ v.right[up] \in Node
      BY <2>1, <2>7, Nodeful
    <3> QED
      BY <2>1, <2>3, <2>7, <3>1, MeasureShape, MeasureDoes
  <2>10. /\ Exact(x, up)
         /\ \A n \in Used(t) \ {up} : up \notin Kids(w, n) /\ Exact(v, n) => Exact(x, n)
    BY <2>1, <2>7, MeasureExact DEF Kids
  <2> HIDE DEF x
  <2>11. Used(u) = Used(t) /\ u.parent = w.parent
    <3>1. x \in Tree /\ x.left[up] \in Node /\ x.right[up] \in Node
      BY <2>1, <2>9, Nodeful
    <3> QED
      BY <2>1, <2>2, <2>3, <2>9, <3>1, MeasureShape, MeasureDoes
  <2>12. /\ Exact(u, up)
         /\ \A n \in Used(t) \ {up} : up \notin Kids(w, n) /\ Exact(x, n) => Exact(u, n)
    BY <2>1, <2>2, <2>9, MeasureExact DEF Kids
  <2>13. \A n \in Used(t) : \A k \in Kids(w, n) : w.parent[k] = n /\ k \in Node
    BY <2>4, Nodeful DEF Kids, Nodes
  <2>14. Exact(u, a)
    <3>1. up \notin Kids(w, a)
      BY <2>3, <2>5, <2>13
    <3> QED
      BY <2>3, <2>8, <2>10, <2>12, <3>1
  <2>15. Above(t, g) \subseteq Above(u, g)
    <3>1. g = t.parent[a] /\ c = Given(t, up) /\ w = Wire(t, a, up)
      BY DEF c, w
    <3> HIDE DEF g
    <3>2. /\ c \in Kids(w, a) /\ a \in Kids(w, up) /\ w.parent[up] = g
          /\ \A n \in Node : n \notin {a, up, c} => w.parent[n] = t.parent[n]
      BY <2>3, <2>5, <2>6 DEF Kids
    <3>3. Above(t, g) \subseteq Above(w, g)
      BY <2>1, <2>4, <3>1, <3>2, AboveWire
    <3> QED
      BY <2>11, <3>3, AboveSame
  <2>16. ASSUME NEW n \in Used(t), n \notin Above(u, g), n \notin {a, up}
         PROVE  Exact(u, n)
    <3>1. n \notin Above(t, g) /\ n # g /\ n \in Node
      BY <1>2, <1>4, <2>15, <2>16
    <3>2. Exact(t, n)
      BY <1>3, <2>16, <3>1
    <3>3. Kids(w, n) = Kids(t, n) /\ w.left[n] = t.left[n] /\ w.right[n] = t.right[n]
      BY <2>5, <2>16, <3>1 DEF Kids
    <3>4. Exact(w, n)
      BY <2>5, <3>2, <3>3, ExactSame
    <3>5. a \notin Kids(w, n) /\ up \notin Kids(w, n)
      BY <1>1, <2>3, <2>5, <2>13, <2>16, <3>1
    <3> QED
      BY <2>8, <2>10, <2>12, <2>16, <3>4, <3>5
  <2> QED
    BY <2>11, <2>12, <2>14, <2>16
<1> QED
  BY <1>5, <1>6

\* Taking an item out puts only the nodes above its parent out of date.
LEMMA TakeOutExact ==
  ASSUME NEW t, NEW P, Shape(t, P), NEW i \in P, NEW w, w = Prune(t, i),
         \A n \in Used(t) : Exact(t, n)
  PROVE  /\ \A n \in Used(w) \ Above(w, AbovePruned(t, i)) : Exact(w, n)
         /\ \A j \in Item : w.aabb[j] = t.aabb[j]
<1>1. CASE t.root = i
  <2>1. Used(t) = {} /\ t \in Tree
    BY <1>1, LoneLeaf, Nodeful
  <2>2. w = [t EXCEPT !.root = Nil]
    BY <1>1 DEF Prune
  <2>3. w.left = t.left /\ w.aabb = t.aabb
    BY <2>1, <2>2 DEF Tree
  <2> QED
    BY <2>1, <2>3 DEF Used, IsLeaf
<1>2. CASE t.root # i
  <2> DEFINE p == t.parent[i]
             g == t.parent[p]
             other == IF t.left[p] = i THEN t.right[p] ELSE t.left[p]
  <2>1. p \in Used(t) /\ Shape(w, P \ {i}) /\ Used(w) = Used(t) \ {p}
    BY <1>2, PruneShape
  <2>2. /\ p \in Node /\ i \in Node /\ t.left[p] \in Node \ {p} /\ t.right[p] \in Node \ {p}
        /\ p \notin Item
    BY <2>1, Nodeful, NodeAssumption DEF Nodes
  <2>3. g # p /\ g \in Node \cup {Nil}
    BY <2>1, <2>2, Nodeful DEF Shape, Upward, Rooted, Nodes, Kids
  <2>4. /\ \A n \in Node : n \notin {p, g} => w.left[n] = t.left[n] /\ w.right[n] = t.right[n]
        /\ \A n \in Node : n # p => w.height[n] = t.height[n] /\ w.aabb[n] = t.aabb[n]
    <3>1. p = t.parent[i] /\ g = t.parent[p]
          /\ other = IF t.left[p] = i THEN t.right[p] ELSE t.left[p]
      OBVIOUS
    <3> DEFINE r == [root |-> IF g = Nil THEN other ELSE t.root,
                     left |-> [n \in Node |->
                       IF n = p THEN Nil ELSE IF n = g /\ t.left[g] = p THEN other ELSE t.left[n]],
                     right |-> [n \in Node |->
                       IF n = p THEN Nil ELSE IF n = g /\ t.left[g] # p THEN other ELSE t.right[n]],
                     parent |-> [n \in Node |->
                       IF n = other THEN g ELSE IF n = p THEN Nil ELSE t.parent[n]],
                     height |-> [n \in Node |-> IF n = p THEN 0 ELSE t.height[n]],
                     aabb |-> [n \in Node |-> IF n = p THEN {} ELSE t.aabb[n]]]
    <3> HIDE DEF p, g, other
    <3>2. t \in Tree
      BY Nodeful
    <3>3. w = r
      BY <1>2, <2>2, <2>3, <3>1, <3>2, PruneDoes
    <3> QED
      BY <3>3
  <2>5. ASSUME NEW n \in Used(w), n \notin Above(w, g)
        PROVE  Exact(w, n)
    <3>1. n # g /\ n \in Used(t) /\ n \in Node /\ n # p
      <4>1. n \in Used(t) /\ n \in Node /\ n # p /\ n # Nil
        BY <2>1, Nodeful DEF Nodes
      <4> QED
        BY <2>1, <2>3, <2>5, <4>1, AboveIs, Nodeful DEF RisesFrom
    <3>2. w.left[n] = t.left[n] /\ w.right[n] = t.right[n]
      BY <2>4, <3>1
    <3>3. \A k \in Kids(t, n) : k \in Node /\ k # p
      BY <3>1, Nodeful DEF Kids, Nodes
    <3> QED
      BY <2>4, <3>1, <3>2, <3>3, ExactSame
  <2>6. AbovePruned(t, i) = g
    BY <1>2 DEF AbovePruned
  <2>7. \A j \in Item : w.aabb[j] = t.aabb[j]
    BY <2>2, <2>4 DEF Node
  <2> QED
    BY <2>5, <2>6, <2>7
<1> QED
  BY <1>1, <1>2

\* A graft puts only the new node and those above it out of date.
LEMMA GraftExact ==
  ASSUME NEW t, NEW P, Shape(t, P), \A n \in Used(t) : Exact(t, n),
         NEW s \in Nodes(t, P), NEW p \in Inner \ Used(t), NEW i \in Item \ P,
         NEW w, w = Graft(t, s, p, i)
  PROVE  /\ \A n \in Used(w) \ Above(w, p) : Exact(w, n)
         /\ \A j \in Item : w.aabb[j] = t.aabb[j]
<1> DEFINE g == t.parent[s]
           r == [root |-> IF g = Nil THEN p ELSE t.root,
                 left |-> [n \in Node |->
                   IF n = p THEN s ELSE IF n = g /\ t.left[g] = s THEN p ELSE t.left[n]],
                 right |-> [n \in Node |->
                   IF n = p THEN i ELSE IF n = g /\ t.left[g] # s THEN p ELSE t.right[n]],
                 parent |-> [n \in Node |->
                   IF n \in {s, i} THEN p ELSE IF n = p THEN g ELSE t.parent[n]],
                 height |-> [n \in Node |-> IF n = p THEN t.height[s] + 1 ELSE t.height[n]],
                 aabb |-> [n \in Node |-> IF n = p THEN t.aabb[s] \cup t.aabb[i] ELSE t.aabb[n]]]
<1>1. /\ s \in Node /\ p \in Node /\ i \in Node /\ p \notin {s, i} /\ i # s
      /\ p \notin Item /\ t \in Tree /\ p \notin Nodes(t, P)
  BY Nodeful, NodeAssumption DEF Nodes, Node
<1>2. g # p /\ g = t.parent[s] /\ g \in Node \cup {Nil}
  BY <1>1, Nodeful DEF Shape, Upward, Rooted, Nodes
<1> HIDE DEF g
<1>3. w = r
  BY <1>1, <1>2, GraftDoes
<1>4. /\ \A n \in Node : n \notin {p, g} => w.left[n] = t.left[n] /\ w.right[n] = t.right[n]
      /\ \A n \in Node : n # p => w.height[n] = t.height[n] /\ w.aabb[n] = t.aabb[n]
      /\ w.parent[p] = g
  BY <1>1, <1>3
<1>5. Shape(w, P \cup {i}) /\ Used(w) = Used(t) \cup {p}
  BY GraftShape
<1>6. p \in Above(w, p) /\ g \in Above(w, p) \cup {Nil}
  BY <1>1, <1>4, <1>5, AboveIs, Nodeful DEF RisesFrom
<1>7. ASSUME NEW n \in Used(w), n \notin Above(w, p)
      PROVE  Exact(w, n)
  <2>1. n # p /\ n # g /\ n \in Used(t) /\ n \in Node
    BY <1>5, <1>6, <1>7, Nodeful DEF Nodes
  <2>2. w.left[n] = t.left[n] /\ w.right[n] = t.right[n]
    BY <1>4, <2>1
  <2>3. \A k \in Kids(t, n) : k \in Node /\ k # p
    BY <1>1, <2>1, Nodeful DEF Kids, Nodes
  <2> QED
    BY <1>4, <2>1, <2>2, <2>3, ExactSame
<1>8. \A j \in Item : w.aabb[j] = t.aabb[j]
  BY <1>1, <1>4 DEF Node
<1> QED
  BY <1>7, <1>8

\* Rotations and measurements leave the boxes of the items alone.
LEMMA RefitBoxes ==
  ASSUME NEW t, NEW P, Shape(t, P), NEW a \in Used(t), NEW u, u = Refitted(t, a)
  PROVE  \A j \in Item : u.aabb[j] = t.aabb[j]
<1>1. ASSUME NEW v, Shape(v, P), NEW n \in Used(v)
      PROVE  \A j \in Item : Measure(v, n).aabb[j] = v.aabb[j]
  <2>1. v \in Tree /\ n \in Node /\ v.left[n] \in Node /\ v.right[n] \in Node /\ n \notin Item
    BY <1>1, Nodeful, NodeAssumption DEF Nodes
  <2>2. \A m \in Node : m # n => Measure(v, n).aabb[m] = v.aabb[m]
    BY <2>1 DEF Measure, Tree
  <2> QED
    BY <2>1, <2>2 DEF Node
<1>2. CASE Lifted(t, a) = Nil
  BY <1>1, <1>2 DEF Refitted, Balanced, Top
<1>3. CASE Lifted(t, a) # Nil
  <2> DEFINE up == Lifted(t, a)
             w == Wire(t, a, up)
             v == Measure(w, a)
             x == Measure(v, up)
  <2>1. up \in Used(t) /\ up \in Kids(t, a)
    BY <1>3, LiftedIs
  <2>2. u = Measure(x, up)
    BY <1>3 DEF Refitted, Balanced, Top, Lift
  <2> HIDE DEF up
  <2>3. Shape(w, P) /\ Used(w) = Used(t) /\ w.aabb = t.aabb
    <3>1. /\ a \in Node /\ up \in Node /\ a # up /\ t.parent[a] \notin {a, up}
          /\ t.left[up] \in Node /\ t.right[up] \in Node /\ t \in Tree
      BY <2>1, Around, Nodeful
    <3>2. w.aabb = t.aabb
      BY <3>1, WireDoes
    <3> QED
      BY <2>1, <3>2, WireShape
  <2> HIDE DEF w
  <2>4. Shape(v, P) /\ Used(v) = Used(t) /\ \A j \in Item : v.aabb[j] = w.aabb[j]
    BY <1>1, <2>3, MeasureShape
  <2> HIDE DEF v
  <2>5. Shape(x, P) /\ Used(x) = Used(t) /\ \A j \in Item : x.aabb[j] = v.aabb[j]
    BY <1>1, <2>1, <2>4, MeasureShape
  <2> HIDE DEF x
  <2>6. \A j \in Item : u.aabb[j] = x.aabb[j]
    BY <1>1, <2>1, <2>2, <2>5
  <2> QED
    BY <2>3, <2>4, <2>5, <2>6
<1> QED
  BY <1>2, <1>3

Stale == IF pc = "refit" THEN Above(tree, cursor) ELSE {}

\* Only the nodes the climb has still to reach may be out of date.
Settled == \A n \in Used(tree) \ Stale : Exact(tree, n)

\* Outside a climb everything is exact.
LEMMA SettledNow ==
  ASSUME Settled, pc # "refit" \/ cursor = Nil, tree \in Tree
  PROVE  \A n \in Used(tree) : Exact(tree, n)
BY AboveIs DEF Settled, Stale

\* The box of an item outside the tree is no one's business.
LEMMA ExactElsewhere ==
  ASSUME NEW t, NEW P, Shape(t, P), NEW i \in Item \ P, NEW n \in Used(t), Exact(t, n),
         NEW u, u.left = t.left, u.right = t.right, u.height = t.height,
         \A m \in Node : m # i => u.aabb[m] = t.aabb[m]
  PROVE  Exact(u, n)
<1>1. \A m \in {n} \cup Kids(t, n) : m \in Node /\ m # i
  BY Nodeful, NodeAssumption DEF Kids, Nodes
<1> QED
  BY <1>1, ExactSame

LEMMA SettledStep == Standing /\ Settled /\ [Next]_vars => Settled'
<1> SUFFICES ASSUME Standing, Settled, [Next]_vars
             PROVE  Settled'
  OBVIOUS
<1>1. /\ Shape(tree, Placed) /\ tree \in Tree /\ CursorInTree /\ pending \subseteq leaves
      /\ leaves \subseteq Item
  BY Typing DEF Standing
<1>2. ASSUME Idle
      PROVE  /\ Placed = leaves
             /\ \A n \in Used(tree) : Exact(tree, n)
  BY <1>1, <1>2, SettledNow DEF Idle, Placed
<1>4. ASSUME NEW i \in Item, NEW b \in Box, Add(i, b)
      PROVE  Settled'
  <2>1. /\ Idle /\ i \notin leaves /\ tree' = [tree EXCEPT !.aabb[i] = Expand(b)]
        /\ pc' = pc
    BY <1>4 DEF Add
  <2>2. /\ tree'.left = tree.left /\ tree'.right = tree.right /\ tree'.height = tree.height
        /\ \A m \in Node : m # i => tree'.aabb[m] = tree.aabb[m]
    BY <1>1, <2>1 DEF Tree
  <2>3. Used(tree') = Used(tree)
    BY <2>2 DEF Used, IsLeaf
  <2>4. \A n \in Used(tree) : Exact(tree', n)
    <3>1. /\ Shape(tree, leaves) /\ i \in Item \ leaves
          /\ \A n \in Used(tree) : Exact(tree, n)
      BY <1>1, <1>2, <2>1
    <3> QED
      BY <2>2, <3>1, ExactElsewhere
  <2> QED
    BY <2>3, <2>4 DEF Settled
<1>5. ASSUME NEW i \in Item, NEW b \in Box, Update(i, b)
      PROVE  Settled'
  <2> DEFINE w == Prune(tree, i)
  <2>1. /\ Idle /\ i \in leaves /\ pc' = "refit" /\ cursor' = AbovePruned(tree, i)
        /\ tree' = [w EXCEPT !.aabb[i] = Expand(b)]
    BY <1>5 DEF Update
  <2>2. Shape(w, leaves \ {i}) /\ w \in Tree
    BY <1>1, <1>2, <2>1, TakeOut, Nodeful
  <2>3. \A n \in Used(w) \ Above(w, cursor') : Exact(w, n)
    BY <1>1, <1>2, <2>1, TakeOutExact
  <2> HIDE DEF w
  <2>4. /\ tree'.left = w.left /\ tree'.right = w.right /\ tree'.height = w.height
        /\ tree'.parent = w.parent
        /\ \A m \in Node : m # i => tree'.aabb[m] = w.aabb[m]
    BY <2>1, <2>2 DEF Tree
  <2>5. Used(tree') = Used(w) /\ Stale' = Above(w, cursor')
    BY <2>1, <2>4, AboveSame DEF Used, IsLeaf, Stale
  <2>6. \A n \in Used(w) \ Above(w, cursor') : Exact(tree', n)
    BY <2>2, <2>3, <2>4, ExactElsewhere
  <2> QED
    BY <2>5, <2>6 DEF Settled
<1>6. ASSUME NEW i \in Item, Remove(i)
      PROVE  Settled'
  <2> DEFINE w == Prune(tree, i)
  <2>1. /\ Idle /\ i \in leaves /\ pc' = "refit" /\ cursor' = AbovePruned(tree, i)
        /\ tree' = [w EXCEPT !.parent[i] = Nil, !.aabb[i] = {}]
    BY <1>6 DEF Remove
  <2>2. Shape(w, leaves \ {i}) /\ w \in Tree /\ cursor' \in Used(w) \cup {Nil}
    BY <1>1, <1>2, <2>1, TakeOut, Nodeful
  <2>3. \A n \in Used(w) \ Above(w, cursor') : Exact(w, n)
    BY <1>1, <1>2, <2>1, TakeOutExact
  <2> HIDE DEF w
  <2>4. /\ tree'.left = w.left /\ tree'.right = w.right /\ tree'.height = w.height
        /\ \A m \in Node : m # i => tree'.aabb[m] = w.aabb[m] /\ tree'.parent[m] = w.parent[m]
    BY <2>1, <2>2 DEF Tree
  <2>5. Used(tree') = Used(w)
    BY <2>4 DEF Used, IsLeaf
  <2>6. Above(w, cursor') \subseteq Above(tree', cursor')
    <3> DEFINE A == Above(tree', cursor') \cap Used(w)
    <3>1. /\ tree' \in Tree /\ cursor' \in Node \cup {Nil}
          /\ \A m \in Used(w) : m \in Node /\ m # i
      BY <1>1, <2>1, <2>2, Nodeful, StandingStep, Typing, NodeAssumption DEF Standing, Nodes
    <3>2. RisesFrom(tree', cursor', Above(tree', cursor'))
      BY <3>1, AboveIs
    <3>3. ASSUME NEW m \in A
          PROVE  w.parent[m] \in A \cup {Nil}
      <4>1. w.parent[m] \in Above(tree', cursor') \cup {Nil}
        BY <2>4, <3>1, <3>2 DEF RisesFrom
      <4>2. w.parent[m] \in Used(w) \cup {Nil}
        BY <2>2 DEF Shape, Upward, Rooted, Nodes
      <4> QED
        BY <4>1, <4>2
    <3>4. RisesFrom(w, cursor', A) /\ A \in SUBSET Node
      BY <2>2, <3>1, <3>2, <3>3 DEF RisesFrom
    <3> QED
      BY <3>4 DEF Above
  <2>7. \A n \in Used(w) \ Above(w, cursor') : Exact(tree', n)
    BY <2>2, <2>3, <2>4, ExactElsewhere
  <2> QED
    BY <2>1, <2>5, <2>6, <2>7 DEF Settled, Stale
<1>7. ASSUME Used(tree') = {}
      PROVE  Settled'
  BY <1>7 DEF Settled
<1>8. CASE Clear
  BY <1>7, <1>8, EmptyTree, EmptyShape DEF Clear
<1>9. CASE Optimize
  <2>1. tree'.left = Nowhere
    BY <1>9 DEF Optimize, Empty
  <2> QED
    BY <1>7, <2>1 DEF Used, IsLeaf, Nowhere, Node
<1>10. ASSUME NEW i \in Item, NEW j \in Item, GetBodyAABB(i, j)
       PROVE  Settled'
  <2>1. /\ Idle /\ BodyAABB /\ tree' = [tree EXCEPT !.aabb[i] = @ \cup tree.aabb[j]]
        /\ pc' = pc
    BY <1>10 DEF GetBodyAABB
  <2>2. /\ tree'.left = tree.left /\ tree'.right = tree.right /\ tree'.height = tree.height
    BY <1>1, <2>1 DEF Tree
  <2>3. Used(tree') = Used(tree)
    BY <2>2 DEF Used, IsLeaf
  <2> QED
    BY <1>2, <2>1, <2>2, <2>3 DEF Settled, Exact, OneAbove, Taller
<1>11. ASSUME NEW box, BeginSearch(box)
       PROVE  Settled'
  BY <1>2, <1>11 DEF BeginSearch, Settled, Stale
<1>12. ASSUME NEW i \in Item, NEW sibling \in Node, Insert(i, sibling)
       PROVE  Settled'
  <2> DEFINE p == CHOOSE p \in Inner : p \notin Used(tree)
  <2>1. /\ pc = "idle" /\ i \in pending /\ sibling \in Nodes(tree, Placed)
        /\ tree' = Graft(tree, sibling, p, i) /\ cursor' = p /\ pc' = "refit"
    BY <1>12 DEF Insert, Nodes, Placed
  <2>2. tree.root # Nil /\ i \in Item \ Placed
    BY <1>1, <2>1 DEF Shape, Rooted, Placed
  <2>3. p \in Inner \ Used(tree)
    BY <1>1, <2>2, FreeInner
  <2> HIDE DEF p
  <2>4. \A n \in Used(tree) : Exact(tree, n)
    BY <1>1, <2>1, SettledNow
  <2>5. \A n \in Used(tree') \ Above(tree', p) : Exact(tree', n)
    BY <1>1, <2>1, <2>2, <2>3, <2>4, GraftExact
  <2> QED
    BY <2>1, <2>5 DEF Settled, Stale
<1>13. ASSUME NEW i \in Item, InsertFirst(i)
       PROVE  Settled'
  <2>1. tree' = [tree EXCEPT !.root = i] /\ tree.root = Nil
    BY <1>13 DEF InsertFirst
  <2>2. Used(tree) = {}
    BY <1>1, <2>1 DEF Shape, Rooted, Nodes
  <2>3. tree'.left = tree.left
    BY <1>1, <2>1 DEF Tree
  <2> QED
    BY <1>7, <2>2, <2>3 DEF Used, IsLeaf
<1>14. CASE Refit
  <2>1. /\ pc = "refit" /\ pc' = pc /\ cursor # Nil /\ tree' = Refitted(tree, cursor)
        /\ cursor' = Balanced(tree, cursor).parent[Top(tree, cursor)]
    BY <1>14, RefitIs
  <2>2. cursor \in Used(tree)
    BY <1>1, <2>1 DEF CursorInTree
  <2>3. cursor' = tree.parent[cursor]
    BY <1>1, <2>1, <2>2, RefitShape
  <2> QED
    BY <1>1, <2>1, <2>2, <2>3, RefitExact DEF Settled, Stale
<1>15. CASE RefitDone
  <2>1. pc = "refit" /\ cursor = Nil /\ pc' = "idle" /\ UNCHANGED tree
    BY <1>15 DEF RefitDone
  <2> QED
    BY <1>1, <2>1, SettledNow DEF Settled
<1>16. CASE Visit \/ Climb \/ EndSearch
  <2>1. pc # "refit" /\ UNCHANGED tree
    BY <1>16 DEF Visit, Climb, EndSearch
  <2> QED
    BY <1>1, <2>1, SettledNow DEF Settled
<1>17. CASE UNCHANGED vars
  BY <1>17 DEF vars, Settled, Stale
<1> QED
  BY <1>4, <1>5, <1>6, <1>8, <1>9, <1>10, <1>11, <1>12, <1>13, <1>14, <1>15, <1>16, <1>17
     DEF Next, Operation, Loop

LEMMA SettledInit == Init => Settled
BY EmptyTree, EmptyShape DEF Init, Settled

\* After any operation every height and box is exact: a node is one above its
\* taller child, and its box is the union of its children's.  Only a program
\* that asks for the box of a body can break the second part.
THEOREM HeightsAndBoxesExact == ~ BodyAABB => (Spec => []Consistent)
<1> SUFFICES ASSUME ~ BodyAABB
             PROVE  Spec => []Consistent
  OBVIOUS
<1>1. Standing /\ Settled => Consistent
  <2> SUFFICES ASSUME Standing, Settled
               PROVE  Consistent
    OBVIOUS
  <2>1. Linked /\ TypeOK /\ tree \in Tree
    BY StandingLinked, Typing DEF Standing
  <2>2. ASSUME Idle
        PROVE  \A n \in Used(tree) : Exact(tree, n)
    BY <2>1, <2>2, SettledNow DEF Idle
  <2>3. IsValid
    BY <2>1, <2>2 DEF IsValid, Exact, Children
  <2>4. Measured
    <3>1. \A i \in leaves : tree.height[i] = 0
      BY <2>1 DEF Standing, Shape, Leafy, TypeOK
    <3>2. \A n \in Used(tree) : UNION {tree.aabb[c] : c \in Children(n)}
                                  = tree.aabb[tree.left[n]] \cup tree.aabb[tree.right[n]]
      BY DEF Children
    <3> QED
      BY <2>2, <3>1, <3>2 DEF Measured, Exact
  <2> QED
    BY <2>1, <2>3, <2>4 DEF Consistent
<1>2. Init => Standing /\ Settled
  BY StandingInit, SettledInit
<1>3. Standing /\ Settled /\ [Next]_vars => (Standing /\ Settled)'
  BY StandingStep, SettledStep
<1> QED
  BY <1>1, <1>2, <1>3, PTL DEF Spec

-----------------------------------------------------------------------------
(***************************************************************************)
(* A search finds exactly the items that overlap.                          *)
(***************************************************************************)

\* n and its descendants: the least set that holds n and the children of its
\* members.
SpreadsFrom(t, n, S) == n \in S /\ \A k \in S \cap Used(t) : Kids(t, k) \subseteq S
Below(t, n) == {m \in Node : \A S \in SUBSET Node : SpreadsFrom(t, n, S) => m \in S}

\* The walk has passed m when it reaches n.
Before(t, m, n) ==
  \E p \in Used(t) : m \in Below(t, t.left[p]) /\ n \in Below(t, t.right[p])

Hits == {i \in leaves : Overlaps(tree.aabb[i])}

Searching ==
  /\ pc \in {"idle", "refit"} => found = {}
  /\ pc = "visit" => found = {i \in Hits : Before(tree, i, cursor)}
  /\ pc = "climb" =>
       found = {i \in Hits : Before(tree, i, cursor) \/ i \in Below(tree, cursor)}
  /\ pc = "done" => found = Hits

LEMMA BelowIs ==
  ASSUME NEW t, NEW P, Shape(t, P), NEW n \in Nodes(t, P)
  PROVE  /\ SpreadsFrom(t, n, Below(t, n))
         /\ Below(t, n) \subseteq Nodes(t, P)
         /\ n \in P => Below(t, n) = {n}
         /\ n \in Used(t) =>
              Below(t, n) = {n} \cup Below(t, t.left[n]) \cup Below(t, t.right[n])
<1>1. n \in Node /\ Nodes(t, P) \subseteq Node
  BY Nodeful
<1>2. SpreadsFrom(t, n, Nodes(t, P))
  BY Nodeful DEF SpreadsFrom, Kids
<1>3. Below(t, n) \subseteq Nodes(t, P)
  BY <1>1, <1>2 DEF Below
<1>4. ASSUME NEW m \in Nodes(t, P)
      PROVE  SpreadsFrom(t, m, Below(t, m))
  <2>1. m \in Below(t, m)
    BY <1>1 DEF Below, SpreadsFrom
  <2>2. ASSUME NEW k \in Below(t, m) \cap Used(t)
        PROVE  Kids(t, k) \subseteq Below(t, m)
    <3>1. Kids(t, k) \subseteq Node
      BY Nodeful DEF Kids
    <3> QED
      BY <3>1 DEF Below, SpreadsFrom
  <2> QED
    BY <2>1, <2>2 DEF SpreadsFrom
<1>5. ASSUME n \in P
      PROVE  Below(t, n) = {n}
  <2>1. SpreadsFrom(t, n, {n}) /\ {n} \in SUBSET Node
    BY <1>1, <1>5, Nodeful DEF SpreadsFrom
  <2> QED
    BY <1>4, <2>1 DEF Below, SpreadsFrom
<1>6. ASSUME n \in Used(t)
      PROVE  Below(t, n) = {n} \cup Below(t, t.left[n]) \cup Below(t, t.right[n])
  <2> DEFINE l == t.left[n]
             r == t.right[n]
             S == {n} \cup Below(t, l) \cup Below(t, r)
  <2>1. l \in Nodes(t, P) /\ r \in Nodes(t, P) /\ Kids(t, n) = {l, r}
    BY <1>6, Nodeful DEF Kids
  <2> HIDE DEF l, r
  <2>2. SpreadsFrom(t, l, Below(t, l)) /\ SpreadsFrom(t, r, Below(t, r))
    BY <1>4, <2>1
  <2>3. SpreadsFrom(t, n, S) /\ S \in SUBSET Node
    BY <1>1, <2>1, <2>2 DEF SpreadsFrom, Below
  <2>4. Below(t, n) \subseteq S
    BY <2>3 DEF Below
  <2>5. SpreadsFrom(t, n, Below(t, n))
    BY <1>4
  <2>6. SpreadsFrom(t, l, Below(t, n)) /\ SpreadsFrom(t, r, Below(t, n))
    BY <1>6, <2>1, <2>5 DEF SpreadsFrom
  <2>7. Below(t, l) \subseteq Below(t, n) /\ Below(t, r) \subseteq Below(t, n)
    <3>1. Below(t, n) \in SUBSET Node
      BY DEF Below
    <3> QED
      BY <2>6, <3>1 DEF Below
  <2>8. n \in Below(t, n)
    BY <2>5 DEF SpreadsFrom
  <2> QED
    BY <2>4, <2>7, <2>8 DEF l, r
<1> QED
  BY <1>3, <1>4, <1>5, <1>6

\* A descendant of n other than n has its parent among n's descendants.
LEMMA BelowParent ==
  ASSUME NEW t, NEW P, Shape(t, P), NEW n \in Nodes(t, P), NEW m \in Below(t, n), m # n
  PROVE  t.parent[m] \in Below(t, n)
<1> SUFFICES ASSUME t.parent[m] \notin Below(t, n)
             PROVE  FALSE
  OBVIOUS
<1> DEFINE S == Below(t, n) \ {m}
<1>1. SpreadsFrom(t, n, Below(t, n)) /\ Below(t, n) \subseteq Node
  BY BelowIs DEF Below
<1>2. ASSUME NEW k \in S \cap Used(t)
      PROVE  Kids(t, k) \subseteq S
  <2>1. Kids(t, k) \subseteq Below(t, n)
    BY <1>1 DEF SpreadsFrom
  <2>2. m \notin Kids(t, k)
    BY Nodeful DEF Kids
  <2> QED
    BY <2>1, <2>2
<1>3. SpreadsFrom(t, n, S) /\ S \in SUBSET Node
  BY <1>1, <1>2 DEF SpreadsFrom
<1> QED
  BY <1>3 DEF Below

\* A node's box holds the boxes of its descendants.
LEMMA BelowBoxes ==
  ASSUME NEW t, NEW P, Shape(t, P), ~ BodyAABB, \A k \in Used(t) : Exact(t, k),
         NEW n \in Nodes(t, P), NEW m \in Below(t, n)
  PROVE  t.aabb[m] \subseteq t.aabb[n]
<1> DEFINE S == {k \in Nodes(t, P) : t.aabb[k] \subseteq t.aabb[n]}
<1>1. ASSUME NEW k \in S \cap Used(t)
      PROVE  Kids(t, k) \subseteq S
  BY Nodeful DEF Exact, Kids
<1>2. SpreadsFrom(t, n, S) /\ S \in SUBSET Node
  BY <1>1, Nodeful DEF SpreadsFrom
<1> QED
  BY <1>2 DEF Below

\* What the walk has passed when it moves, for a node n and its parent p.
LEMMA BeforeIs ==
  ASSUME NEW t, NEW P, Shape(t, P), NEW i \in P
  PROVE  /\ t.root # Nil => ~ Before(t, i, t.root)
         /\ \A p \in Used(t) :
              /\ Before(t, i, t.left[p]) <=> Before(t, i, p)
              /\ Before(t, i, t.right[p]) <=> Before(t, i, p) \/ i \in Below(t, t.left[p])
<1>1. ASSUME t.root # Nil, NEW p \in Used(t), t.root \in Below(t, t.right[p])
      PROVE  FALSE
  <2>1. t.root \in Nodes(t, P) /\ t.parent[t.root] = Nil
    BY <1>1 DEF Shape, Rooted
  <2>2. t.right[p] \in Nodes(t, P) /\ t.parent[t.right[p]] = p /\ p # Nil
    BY Nodeful DEF Nodes
  <2>3. t.parent[t.root] \in Below(t, t.right[p])
    BY <1>1, <2>1, <2>2, BelowParent
  <2> QED
    BY <2>1, <2>3, Nodeful DEF Below
<1>2. ASSUME NEW p \in Used(t)
      PROVE  /\ Before(t, i, t.left[p]) <=> Before(t, i, p)
             /\ Before(t, i, t.right[p]) <=> Before(t, i, p) \/ i \in Below(t, t.left[p])
  <2>1. /\ t.left[p] \in Nodes(t, P) /\ t.right[p] \in Nodes(t, P) /\ t.left[p] # t.right[p]
        /\ t.parent[t.left[p]] = p /\ t.parent[t.right[p]] = p
    BY Nodeful DEF Shape, Downward
  <2>2. ASSUME NEW q \in Used(t)
        PROVE  /\ t.right[q] \in Nodes(t, P) /\ t.parent[t.right[q]] = q
               /\ SpreadsFrom(t, t.right[q], Below(t, t.right[q]))
    BY Nodeful, BelowIs
  <2>3. ASSUME NEW q \in Used(t), p \in Below(t, t.right[q])
        PROVE  t.left[p] \in Below(t, t.right[q]) /\ t.right[p] \in Below(t, t.right[q])
    BY <2>2, <2>3 DEF SpreadsFrom, Kids
  <2>4. ASSUME NEW q \in Used(t), t.left[p] \in Below(t, t.right[q])
        PROVE  p \in Below(t, t.right[q])
    <3>1. t.left[p] # t.right[q]
      BY <2>1, <2>2
    <3> QED
      BY <2>1, <2>2, <2>4, <3>1, BelowParent
  <2>5. ASSUME NEW q \in Used(t), t.right[p] \in Below(t, t.right[q]), q # p
        PROVE  p \in Below(t, t.right[q])
    <3>1. t.right[p] # t.right[q]
      BY <2>1, <2>2, <2>5
    <3> QED
      BY <2>1, <2>2, <2>5, <3>1, BelowParent
  <2>6. t.right[p] \in Below(t, t.right[p])
    BY <2>2 DEF SpreadsFrom
  <2> QED
    BY <2>3, <2>4, <2>5, <2>6 DEF Before
<1> QED
  BY <1>1, <1>2 DEF Before

LEMMA SearchingInit == Init => Searching
BY DEF Init, Searching

\* What was found is exactly what overlaps among the items already passed.
LEMMA SearchingStep ==
  ~ BodyAABB => (Standing /\ Settled /\ Searching /\ [Next]_vars => Searching')
<1> SUFFICES ASSUME ~ BodyAABB, Standing, Settled, Searching, [Next]_vars
             PROVE  Searching'
  OBVIOUS
<1>1. /\ Shape(tree, Placed) /\ tree \in Tree /\ CursorInTree
      /\ pc \in {"idle", "refit", "visit", "climb", "done"} /\ leaves \subseteq Item
  BY Typing DEF Standing
<1>2. ASSUME pc \in {"visit", "climb"}
      PROVE  /\ Placed = leaves /\ Shape(tree, leaves) /\ cursor \in Nodes(tree, leaves)
             /\ \A n \in Used(tree) : Exact(tree, n)
             /\ Hits \subseteq leaves
  BY <1>1, <1>2, SettledNow DEF CursorInTree, Placed, InTree, Nodes, Hits
<1>3. ASSUME UNCHANGED <<tree, leaves, query>>
      PROVE  Hits' = Hits
  BY <1>3 DEF Hits, Overlaps
<1>4. CASE /\ pc \in {"idle", "refit"} /\ pc' \in {"idle", "refit"}
           /\ UNCHANGED found
  BY <1>4 DEF Searching
<1>5. ASSUME NEW box, BeginSearch(box)
      PROVE  Searching'
  <2>1. /\ pc = "idle" /\ tree.root # Nil /\ pc' = "visit" /\ cursor' = tree.root
        /\ UNCHANGED <<tree, leaves, found>> /\ found = {} /\ Placed = leaves
    BY <1>5 DEF BeginSearch, Idle, Searching, Placed
  <2>2. \A i \in Hits' : ~ Before(tree, i, tree.root)
    BY <1>1, <2>1, BeforeIs DEF Hits
  <2>3. found' = {i \in Hits' : Before(tree', i, cursor')}
    BY <2>1, <2>2
  <2> QED
    BY <2>1, <2>3 DEF Searching
<1>6. CASE Visit
  <2>1. /\ pc = "visit" /\ UNCHANGED <<tree, leaves, pending, query>>
        /\ found = {i \in Hits : Before(tree, i, cursor)}
    BY <1>6 DEF Visit, Searching
  <2>2. Hits' = Hits
    BY <1>3, <2>1
  <2>3. CASE Overlaps(tree.aabb[cursor]) /\ ~ IsLeaf(tree, cursor)
    <3>1. cursor \in Used(tree) /\ cursor' = tree.left[cursor] /\ UNCHANGED <<pc, found>>
      <4>1. cursor' = tree.left[cursor] /\ UNCHANGED <<pc, found>>
        BY <1>6, <2>3 DEF Visit
      <4>2. cursor \in Used(tree)
        BY <1>1, <1>2, <2>1, <2>3 DEF Nodes, Shape, Leafy, IsLeaf
      <4> QED
        BY <4>1, <4>2
    <3>2. \A i \in Hits : Before(tree, i, cursor') <=> Before(tree, i, cursor)
      BY <1>2, <2>1, <3>1, BeforeIs
    <3>3. found' = {i \in Hits' : Before(tree', i, cursor')}
      BY <2>1, <2>2, <3>1, <3>2
    <3> QED
      BY <2>1, <3>1, <3>3 DEF Searching
  <2>4. CASE ~ (Overlaps(tree.aabb[cursor]) /\ ~ IsLeaf(tree, cursor))
    <3>1. /\ found' = IF Overlaps(tree.aabb[cursor]) THEN found \cup {cursor} ELSE found
          /\ pc' = "climb" /\ cursor' = cursor
      BY <1>6, <2>4 DEF Visit
    <3>2. CASE Overlaps(tree.aabb[cursor])
      <4>1. cursor \in leaves
        BY <1>2, <2>1, <2>4, <3>2 DEF Nodes, Used
      <4>2. Below(tree, cursor) = {cursor} /\ cursor \in Hits
        BY <1>2, <2>1, <3>2, <4>1, BelowIs DEF Hits
      <4>3. found' = {i \in Hits' : Before(tree', i, cursor') \/ i \in Below(tree', cursor')}
        BY <2>1, <2>2, <3>1, <3>2, <4>2
      <4> QED
        BY <3>1, <4>3 DEF Searching
    <3>3. CASE ~ Overlaps(tree.aabb[cursor])
      <4>1. ASSUME NEW i \in Hits, i \in Below(tree, cursor)
            PROVE  FALSE
        <5>1. tree.aabb[i] \subseteq tree.aabb[cursor]
          BY <1>2, <2>1, <4>1, BelowBoxes
        <5> QED
          BY <3>3, <5>1 DEF Hits, Overlaps
      <4>2. found' = {i \in Hits' : Before(tree', i, cursor') \/ i \in Below(tree', cursor')}
        BY <2>1, <2>2, <3>1, <3>3, <4>1
      <4> QED
        BY <3>1, <4>2 DEF Searching
    <3> QED
      BY <3>2, <3>3
  <2> QED
    BY <2>3, <2>4
<1>7. CASE Climb
  <2> DEFINE p == tree.parent[cursor]
  <2>1. /\ pc = "climb" /\ UNCHANGED <<tree, leaves, pending, query, found>>
        /\ found = {i \in Hits : Before(tree, i, cursor) \/ i \in Below(tree, cursor)}
    BY <1>7 DEF Climb, Searching
  <2>2. Hits' = Hits
    BY <1>3, <2>1
  <2>3. /\ p # Nil => p \in Used(tree) /\ cursor \in Kids(tree, p)
        /\ p = Nil => cursor = tree.root
    <3>1. tree.root # Nil /\ tree.parent[tree.root] = Nil
      BY <1>2, <2>1 DEF Shape, Rooted
    <3> QED
      BY <1>2, <2>1, <3>1, Nodeful DEF Shape, Upward, Nodes
  <2>4. CASE p = Nil
    <3>1. pc' = "done"
      BY <1>7, <2>4 DEF Climb
    <3>2. leaves \subseteq Below(tree, cursor)
      <4>1. Shape(tree, leaves) /\ tree.root = cursor
            /\ SpreadsFrom(tree, cursor, Below(tree, cursor))
        BY <1>2, <2>1, <2>3, <2>4, BelowIs
      <4>2. Nodes(tree, leaves) \subseteq Below(tree, cursor)
        BY <4>1, FromTheRoot DEF SpreadsFrom
      <4> QED
        BY <4>2 DEF Nodes
    <3>3. found' = Hits'
      BY <1>2, <2>1, <2>2, <3>2
    <3> QED
      BY <3>1, <3>3 DEF Searching
  <2>5. CASE p # Nil /\ cursor = tree.left[p]
    <3>1. pc' = "visit" /\ cursor' = tree.right[p] /\ p \in Used(tree)
      BY <1>7, <2>3, <2>5 DEF Climb
    <3> HIDE DEF p
    <3>2. \A i \in Hits : /\ Before(tree, i, cursor) <=> Before(tree, i, p)
                          /\ Before(tree, i, cursor')
                               <=> Before(tree, i, p) \/ i \in Below(tree, cursor)
      BY <1>2, <2>1, <2>5, <3>1, BeforeIs
    <3>3. found' = {i \in Hits' : Before(tree', i, cursor')}
      BY <2>1, <2>2, <3>2
    <3> QED
      BY <3>1, <3>3 DEF Searching
  <2>6. CASE p # Nil /\ cursor # tree.left[p]
    <3>1. pc' = pc /\ cursor' = p /\ p \in Used(tree) /\ cursor = tree.right[p]
      BY <1>7, <2>3, <2>6 DEF Climb, Kids
    <3> HIDE DEF p
    <3>2. /\ \A i \in Hits : Before(tree, i, cursor)
                               <=> Before(tree, i, p) \/ i \in Below(tree, tree.left[p])
          /\ Below(tree, p) = {p} \cup Below(tree, tree.left[p]) \cup Below(tree, cursor)
          /\ p \notin Hits
      <4>1. Shape(tree, leaves) /\ p \in Nodes(tree, leaves) /\ p \notin leaves
        BY <1>2, <2>1, <3>1, Nodeful DEF Nodes
      <4> QED
        BY <1>2, <2>1, <3>1, <4>1, BeforeIs, BelowIs
    <3>3. found' = {i \in Hits' : Before(tree', i, cursor') \/ i \in Below(tree', cursor')}
      BY <2>1, <2>2, <3>1, <3>2
    <3> QED
      BY <2>1, <3>1, <3>3 DEF Searching
  <2> QED
    BY <2>4, <2>5, <2>6
<1>8. CASE EndSearch
  BY <1>8 DEF EndSearch, Searching
<1>9. CASE UNCHANGED vars
  BY <1>3, <1>9 DEF vars, Searching
<1>10. ASSUME NEW i \in Item, NEW j \in Item, GetBodyAABB(i, j)
       PROVE  FALSE
  BY <1>10 DEF GetBodyAABB
<1>11. CASE (\E i \in Item, b \in Box : Add(i, b) \/ Update(i, b)) \/ (\E i \in Item : Remove(i))
             \/ Clear \/ Optimize
  <2>1. ASSUME NEW i \in Item, NEW b \in Box, Add(i, b)
        PROVE  Searching'
    <3>1. pc = "idle" /\ pc' = pc /\ UNCHANGED found
      BY <2>1 DEF Add, Idle, NoSearch
    <3> QED
      BY <1>4, <3>1
  <2>2. ASSUME NEW i \in Item, NEW b \in Box, Update(i, b)
        PROVE  Searching'
    <3>1. pc = "idle" /\ pc' = "refit" /\ UNCHANGED found
      BY <2>2 DEF Update, Idle, NoSearch
    <3> QED
      BY <1>4, <3>1
  <2>3. ASSUME NEW i \in Item, Remove(i)
        PROVE  Searching'
    <3>1. pc = "idle" /\ pc' = "refit" /\ UNCHANGED found
      BY <2>3 DEF Remove, Idle, NoSearch
    <3> QED
      BY <1>4, <3>1
  <2>4. CASE Clear \/ Optimize
    <3>1. pc = "idle" /\ pc' = pc /\ UNCHANGED found
      BY <2>4 DEF Clear, Optimize, Idle, NoSearch
    <3> QED
      BY <1>4, <3>1
  <2> QED
    BY <1>11, <2>1, <2>2, <2>3, <2>4
<1>12. CASE (\E i \in Item, s \in Node : Insert(i, s)) \/ (\E i \in Item : InsertFirst(i))
             \/ Refit \/ RefitDone
  BY <1>4, <1>12 DEF Insert, InsertFirst, Refit, RefitDone, NoSearch
<1> QED
  BY <1>5, <1>6, <1>7, <1>8, <1>9, <1>10, <1>11, <1>12 DEF Next, Operation, Loop

-----------------------------------------------------------------------------
(***************************************************************************)
(* The promise of a detector.                                              *)
(***************************************************************************)

\* What the promise sees of the tree.
Held == [i \in Item |-> IF i \in leaves THEN tree.aabb[i] ELSE {}]
Phase ==
  CASE pc \in {"visit", "climb"} -> "asked" [] pc = "done" -> "answered" [] OTHER -> "idle"
Answer == IF pc = "done" THEN found ELSE {}

\* Every item in the tree has a box.
Boxed == \A i \in leaves : tree.aabb[i] # {}

\* An operation that keeps the items and their boxes is not seen.
LEMMA Unseen ==
  ASSUME leaves' = leaves, \A i \in leaves : tree'.aabb[i] = tree.aabb[i], query' = query,
         pc \in {"idle", "refit"}, pc' \in {"idle", "refit"}
  PROVE  UNCHANGED Promise!vars /\ (Boxed => Boxed')
<1>1. Held' = Held /\ Phase' = Phase /\ Answer' = Answer
  BY DEF Held, Phase, Answer
<1> QED
  BY <1>1 DEF Promise!vars, Held, Phase, Answer, Boxed

LEMMA BoxedInit == Init => Boxed
BY DEF Init, Boxed

LEMMA StepKeepsPromise ==
  ~ BodyAABB => (Standing /\ Settled /\ Searching /\ Boxed /\ [Next]_vars
                   => [Promise!Next]_(Promise!vars) /\ Boxed')
<1> SUFFICES ASSUME ~ BodyAABB, Standing, Settled, Searching, Boxed, [Next]_vars
             PROVE  [Promise!Next]_(Promise!vars) /\ Boxed'
  OBVIOUS
<1>1. /\ Shape(tree, Placed) /\ tree \in Tree /\ CursorInTree /\ pending \subseteq leaves
      /\ pc \in {"idle", "refit", "visit", "climb", "done"} /\ leaves \subseteq Item
      /\ Item \subseteq Node
  BY Typing DEF Standing, Node
<1>2. ASSUME Idle
      PROVE  Placed = leaves /\ \A n \in Used(tree) : Exact(tree, n)
  BY <1>1, <1>2, SettledNow DEF Idle, Placed
<1>3. ASSUME pc = "idle", pc' \in {"idle", "refit"}, NoSearch
      PROVE  Promise!Unasked
  BY <1>3 DEF NoSearch, Promise!Unasked
<1>4. ASSUME NEW i \in Item, NEW b \in Box, Add(i, b)
      PROVE  Promise!Next /\ Boxed'
  <2>1. /\ leaves' = leaves \cup {i} /\ tree'.aabb[i] = Expand(b)
        /\ \A j \in Item \ {i} : tree'.aabb[j] = tree.aabb[j]
        /\ pc = "idle" /\ pc' = pc /\ NoSearch
    BY <1>1, <1>4 DEF Add, Idle, Tree
  <2>2. Expand(b) \in SUBSET Cell /\ Expand(b) # {}
    BY BoxAssumption
  <2>3. Held' = [Held EXCEPT ![i] = Expand(b)]
    BY <2>1 DEF Held
  <2>4. Promise!Place(i, Expand(b))
    BY <1>3, <2>1, <2>3 DEF Promise!Place, Held
  <2> QED
    BY <1>1, <2>1, <2>2, <2>4 DEF Promise!Next, Boxed
<1>5. ASSUME NEW i \in Item, NEW b \in Box, Update(i, b)
      PROVE  Promise!Next /\ Boxed'
  <2> DEFINE w == Prune(tree, i)
  <2>1. /\ Idle /\ i \in leaves /\ leaves' = leaves /\ pc' = "refit" /\ NoSearch
        /\ tree' = [w EXCEPT !.aabb[i] = Expand(b)]
    BY <1>5 DEF Update
  <2>2. Shape(tree, leaves) /\ \A n \in Used(tree) : Exact(tree, n)
    BY <1>1, <1>2, <2>1
  <2>3. w \in Tree /\ \A j \in Item : w.aabb[j] = tree.aabb[j]
    <3>1. w \in Tree
      BY <2>1, <2>2, TakeOut, Nodeful
    <3>2. \A j \in Item : w.aabb[j] = tree.aabb[j]
      BY <2>1, <2>2, TakeOutExact
    <3> QED
      BY <3>1, <3>2
  <2> HIDE DEF w
  <2>4. tree'.aabb[i] = Expand(b) /\ \A j \in Item \ {i} : tree'.aabb[j] = tree.aabb[j]
    BY <1>1, <2>1, <2>3 DEF Tree
  <2>5. Expand(b) \in SUBSET Cell /\ Expand(b) # {}
    BY BoxAssumption
  <2>6. Held' = [Held EXCEPT ![i] = Expand(b)]
    BY <2>1, <2>4 DEF Held
  <2>7. Promise!Place(i, Expand(b))
    BY <1>3, <2>1, <2>6 DEF Promise!Place, Held, Idle
  <2> QED
    BY <1>1, <2>1, <2>4, <2>5, <2>7 DEF Promise!Next, Boxed
<1>6. ASSUME NEW i \in Item, Remove(i)
      PROVE  Promise!Next /\ Boxed'
  <2> DEFINE w == Prune(tree, i)
  <2>1. /\ Idle /\ i \in leaves /\ leaves' = leaves \ {i} /\ pc' = "refit" /\ NoSearch
        /\ tree' = [w EXCEPT !.parent[i] = Nil, !.aabb[i] = {}]
    BY <1>6 DEF Remove
  <2>2. Shape(tree, leaves) /\ \A n \in Used(tree) : Exact(tree, n)
    BY <1>1, <1>2, <2>1
  <2>3. w \in Tree /\ \A j \in Item : w.aabb[j] = tree.aabb[j]
    <3>1. w \in Tree
      BY <2>1, <2>2, TakeOut, Nodeful
    <3>2. \A j \in Item : w.aabb[j] = tree.aabb[j]
      BY <2>1, <2>2, TakeOutExact
    <3> QED
      BY <3>1, <3>2
  <2> HIDE DEF w
  <2>4. \A j \in Item \ {i} : tree'.aabb[j] = tree.aabb[j]
    BY <1>1, <2>1, <2>3 DEF Tree
  <2>5. Held' = [Held EXCEPT ![i] = {}]
    BY <2>1, <2>4 DEF Held
  <2>6. Promise!Remove(i)
    BY <1>3, <2>1, <2>5 DEF Promise!Remove, Held, Idle
  <2> QED
    BY <1>1, <2>1, <2>4, <2>6 DEF Promise!Next, Boxed
<1>7. CASE Clear
  <2>1. leaves' = {} /\ pc = "idle" /\ pc' = pc /\ NoSearch
    BY <1>7 DEF Clear, Idle
  <2>2. Promise!Clear
    BY <1>3, <2>1 DEF Promise!Clear
  <2> QED
    BY <2>1, <2>2 DEF Promise!Next, Boxed
<1>8. CASE Optimize
  <2>1. /\ leaves' = leaves /\ pc = "idle" /\ pc' = pc /\ query' = query
        /\ \A i \in leaves : tree'.aabb[i] = tree.aabb[i]
    BY <1>1, <1>8 DEF Optimize, Idle, NoSearch, Empty
  <2> QED
    BY <2>1, Unseen
<1>9. ASSUME NEW i \in Item, NEW s \in Node, Insert(i, s)
      PROVE  UNCHANGED Promise!vars /\ Boxed'
  <2> DEFINE p == CHOOSE q \in Inner : q \notin Used(tree)
  <2>1. /\ pc = "idle" /\ i \in Item \ Placed /\ i \in pending /\ s \in Nodes(tree, Placed)
        /\ tree' = Graft(tree, s, p, i) /\ pc' = "refit" /\ leaves' = leaves /\ query' = query
    BY <1>9 DEF Insert, Placed, Nodes, NoSearch
  <2>2. p \in Inner \ Used(tree)
    <3>1. tree.root # Nil
      BY <1>1, <2>1 DEF Shape, Rooted
    <3> QED
      BY <1>1, <2>1, <3>1, FreeInner
  <2> HIDE DEF p
  <2>3. \A n \in Used(tree) : Exact(tree, n)
    BY <1>1, <2>1, SettledNow
  <2>4. \A j \in Item : tree'.aabb[j] = tree.aabb[j]
    BY <1>1, <2>1, <2>2, <2>3, GraftExact
  <2> QED
    BY <1>1, <2>1, <2>4, Unseen
<1>10. ASSUME NEW i \in Item, InsertFirst(i)
       PROVE  UNCHANGED Promise!vars /\ Boxed'
  <2>1. /\ pc = "idle" /\ pc' = pc /\ leaves' = leaves /\ query' = query
        /\ tree'.aabb = tree.aabb
    BY <1>1, <1>10 DEF InsertFirst, NoSearch, Tree
  <2> QED
    BY <2>1, Unseen
<1>11. CASE Refit
  <2>1. /\ pc = "refit" /\ pc' = pc /\ leaves' = leaves /\ query' = query
        /\ cursor \in Used(tree) /\ tree' = Refitted(tree, cursor)
    BY <1>1, <1>11, RefitIs DEF Refit, NoSearch, CursorInTree
  <2>2. \A j \in Item : tree'.aabb[j] = tree.aabb[j]
    BY <1>1, <2>1, RefitBoxes
  <2> QED
    BY <1>1, <2>1, <2>2, Unseen
<1>12. CASE RefitDone
  BY <1>12, Unseen DEF RefitDone, NoSearch
<1>13. ASSUME NEW c \in Box \cup {tree.aabb[i] : i \in leaves}, BeginSearch(c)
       PROVE  Promise!Next /\ Boxed'
  <2>1. c \in SUBSET Cell
    BY <1>1, BoxAssumption DEF Tree
  <2>2. Promise!Ask(c)
    BY <1>13 DEF BeginSearch, Idle, Promise!Ask
  <2> QED
    BY <1>13, <2>1, <2>2 DEF Promise!Next, BeginSearch, Boxed
<1>14. CASE (Visit \/ Climb) /\ pc' # "done"
  <2>1. /\ pc \in {"visit", "climb"} /\ pc' \in {"visit", "climb"}
        /\ UNCHANGED <<tree, leaves, query>>
    BY <1>14 DEF Visit, Climb
  <2>2. Held' = Held /\ Phase' = Phase /\ Answer' = Answer
    BY <2>1 DEF Held, Phase, Answer
  <2> QED
    BY <2>1, <2>2 DEF Promise!vars, Held, Phase, Answer, Boxed
<1>15. CASE Climb /\ pc' = "done"
  <2>1. pc = "climb" /\ UNCHANGED <<tree, leaves, query, found>>
    BY <1>15 DEF Climb
  <2>2. found' = Hits'
    BY <1>15, SearchingStep DEF Searching
  <2>3. found' = {i \in {j \in Item : Held[j] # {}} : Meet(query, Held[i])}
    BY <1>1, <2>1, <2>2 DEF Hits, Held, Overlaps, Meet, Boxed
  <2>4. Promise!Answer
    BY <1>15, <2>1, <2>3 DEF Promise!Answer, Promise!Held, Held
  <2> QED
    BY <2>1, <2>4 DEF Promise!Next, Boxed
<1>16. CASE EndSearch
  <2>1. Promise!Forget
    BY <1>16 DEF EndSearch, Promise!Forget
  <2> QED
    BY <1>16, <2>1 DEF Promise!Next, EndSearch, Boxed
<1>17. CASE UNCHANGED vars
  BY <1>17 DEF vars, Promise!vars, Boxed
<1>18. ASSUME NEW i \in Item, NEW j \in Item, GetBodyAABB(i, j)
       PROVE  FALSE
  BY <1>18 DEF GetBodyAABB
<1>19. Visit => pc' # "done"
  BY DEF Visit
<1> QED
  BY <1>4, <1>5, <1>6, <1>7, <1>8, <1>9, <1>10, <1>11, <1>12, <1>13, <1>14, <1>15, <1>16,
     <1>17, <1>18, <1>19 DEF Next, Operation, Loop

\* Whatever was added, moved, removed or rebuilt, the tree holds what it was
\* given, and a search answers with exactly the items whose box overlaps the
\* one asked about: the walk over parent and child pointers skips no subtree
\* that holds one and comes to an end only when it has passed them all.
THEOREM KeepsPromise == ~ BodyAABB => (Spec => IsBroadphase)
<1> SUFFICES ASSUME ~ BodyAABB
             PROVE  Spec => IsBroadphase
  OBVIOUS
<1>1. Init => Promise!Init
  BY DEF Init, Promise!Init
<1>2. Init => Standing /\ Settled /\ Searching /\ Boxed
  BY StandingInit, SettledInit, SearchingInit, BoxedInit
<1>3. Standing /\ Settled /\ Searching /\ Boxed /\ [Next]_vars
        => (Standing /\ Settled /\ Searching /\ Boxed)'
  BY StandingStep, SettledStep, SearchingStep, StepKeepsPromise
<1>4. Standing /\ Settled /\ Searching /\ Boxed /\ [Next]_vars
        => [Promise!Next]_(Promise!vars)
  BY StepKeepsPromise
<1> QED
  BY <1>1, <1>2, <1>3, <1>4, PTL DEF Spec, IsBroadphase, Promise!Safety
=============================================================================
