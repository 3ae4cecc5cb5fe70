--------------------------- MODULE DynamicAABBTree ---------------------------
(***************************************************************************)
(* The dynamic tree of boxes behind the broadphase.                        *)
(*                                                                         *)
(* The leaves are the items; an inner node's box is the union of its       *)
(* children's.  Inserting or removing a leaf rewires parent, left and      *)
(* right pointers and then climbs to the root, rotating each node whose    *)
(* children differ too much in height and recomputing heights and boxes.   *)
(* A search walks the same pointers without a stack.  The module models    *)
(* the pointers and every step of the two loops.                           *)
(*                                                                         *)
(* A box is a set of cells, and a union of boxes the union of the sets:    *)
(* the hull the code computes has more cells, so it hides no more nodes    *)
(* from a search.                                                          *)
(***************************************************************************)
EXTENDS Naturals, FiniteSets

CONSTANTS
  Item,             \* the items; each names its leaf object too
  Inner,            \* the inner node objects, one fewer than the items or more
  Nil,              \* null
  Cell,             \* the cells of the plane
  Box,              \* the boxes an item can occupy: nonempty sets of cells
  Expand(_),        \* AABBExpansionMethod.expand
  Oversized(_, _),  \* fat box too large for a new one (AABB_REDUCTION_RATIO)
  SameBody(_, _),   \* two items are fixtures of one body
  Searches,         \* TRUE iff the program searches the tree
  BodyAABB          \* TRUE iff the program asks for the box of a body

Node == Item \cup Inner

ASSUME NodeAssumption ==
  /\ IsFiniteSet(Item) /\ IsFiniteSet(Inner)
  /\ Item \cap Inner = {} /\ Nil \notin Node
  /\ Cardinality(Item) <= Cardinality(Inner) + 1
  /\ Searches \in BOOLEAN /\ BodyAABB \in BOOLEAN
ASSUME BoxAssumption ==
  \A b \in Box : b # {} /\ b \subseteq Expand(b) /\ Expand(b) \subseteq Cell

VARIABLES
  tree,     \* the root and the fields of every node
  leaves,   \* the items with a leaf
  pc,       \* idle, or inside one of the loops
  cursor,   \* the node the loop is at
  pending,  \* the leaves still to be inserted by the operation
  query,    \* the box searched for
  found     \* the items found

vars == <<tree, leaves, pc, cursor, pending, query, found>>

TypeOK ==
  /\ tree \in [root : Node \cup {Nil},
               left : [Node -> Node \cup {Nil}],
               right : [Node -> Node \cup {Nil}],
               parent : [Node -> Node \cup {Nil}],
               height : [Node -> Nat],
               aabb : [Node -> SUBSET Cell]]
  /\ leaves \subseteq Item
  /\ pc \in {"idle", "refit", "visit", "climb", "done"}
  /\ cursor \in Node \cup {Nil}
  /\ pending \subseteq Item
  /\ query \subseteq Cell
  /\ found \subseteq Item

Nowhere == [n \in Node |-> Nil]

Empty == [root |-> Nil, left |-> Nowhere, right |-> Nowhere, parent |-> Nowhere,
          height |-> [n \in Node |-> 0], aabb |-> [n \in Node |-> {}]]

Init ==
  /\ tree = Empty
  /\ leaves = {}
  /\ pc = "idle" /\ cursor = Nil /\ pending = {}
  /\ query = {} /\ found = {}

-----------------------------------------------------------------------------
(***************************************************************************)
(* Pointers.                                                               *)
(***************************************************************************)

IsLeaf(t, n) == t.left[n] = Nil

\* The inner nodes in use: an unlinked one is garbage, and is reset.
Used(t) == {n \in Inner : ~ IsLeaf(t, n)}

Taller(t, m, n) == IF t.height[m] > t.height[n] THEN m ELSE n
OneAbove(t, m, n) == 1 + t.height[Taller(t, m, n)]

\* `new` takes the place of `old` under `p`, or at the root.
Hang(t, p, old, new) ==
  IF p = Nil THEN [t EXCEPT !.root = new]
  ELSE IF t.left[p] = old THEN [t EXCEPT !.left[p] = new]
  ELSE [t EXCEPT !.right[p] = new]

\* The height and box of n follow from its children's.
Measure(t, n) ==
  [t EXCEPT !.height[n] = OneAbove(t, t.left[n], t.right[n]),
            !.aabb[n] = t.aabb[t.left[n]] \cup t.aabb[t.right[n]]]

\* The children of a lifted node: it keeps the taller one and gives the other
\* to the node it rises above.
Kept(t, up) == Taller(t, t.left[up], t.right[up])
Given(t, up) == IF Kept(t, up) = t.left[up] THEN t.right[up] ELSE t.left[up]

\* Mutant: the child that changes hands still points to its former parent.
WireKeepsParent(t, a, up) ==
  [Hang(Hang(t, t.parent[a], a, up), a, up, Given(t, up))
     EXCEPT !.left[up] = a, !.right[up] = Kept(t, up),
            !.parent[up] = t.parent[a], !.parent[a] = up]

Wire(t, a, up) ==
  [Hang(Hang(t, t.parent[a], a, up), a, up, Given(t, up))
     EXCEPT !.left[up] = a, !.right[up] = Kept(t, up),
            !.parent[up] = t.parent[a], !.parent[a] = up, !.parent[Given(t, up)] = a]

\* Mutant: only the node now on top is measured.
LiftMeasuresTop(t, a, up) == Measure(Wire(t, a, up), up)

\* The child `up` rises above a.
Lift(t, a, up) == Measure(Measure(Wire(t, a, up), a), up)

\* balance: the child to lift above n, or Nil.
Lifted(t, n) ==
  LET l == t.left[n] r == t.right[n]
  IN  IF t.height[n] < 2 THEN Nil
      ELSE IF t.height[r] > t.height[l] + 1 THEN r
      ELSE IF t.height[l] > t.height[r] + 1 THEN l
      ELSE Nil

\* The inner node p becomes the parent of the node s and the new leaf i.
Graft(t, s, p, i) ==
  [Hang(t, t.parent[s], s, p)
     EXCEPT !.left[p] = s, !.right[p] = i,
            !.parent[p] = t.parent[s], !.parent[s] = p, !.parent[i] = p,
            !.height[p] = t.height[s] + 1,
            !.aabb[p] = t.aabb[s] \cup t.aabb[i]]

\* removeNode up to its loop: the sibling of i takes the place of their
\* parent.  The pointers of i itself are left as they are.
Prune(t, i) ==
  LET p == t.parent[i]
      other == IF t.left[p] = i THEN t.right[p] ELSE t.left[p]
  IN  IF t.root = i THEN [t EXCEPT !.root = Nil]
      ELSE [Hang(t, t.parent[p], p, other)
              EXCEPT !.parent[other] = t.parent[p],
                     !.left[p] = Nil, !.right[p] = Nil, !.parent[p] = Nil,
                     !.height[p] = 0, !.aabb[p] = {}]

\* Where the loop of removeNode starts: at the grandparent.
AbovePruned(t, i) == IF t.root = i THEN Nil ELSE t.parent[t.parent[i]]

-----------------------------------------------------------------------------
(***************************************************************************)
(* Operations of the program.                                              *)
(***************************************************************************)

Idle == pc = "idle" /\ pending = {}
NoSearch == UNCHANGED <<query, found>>

\* addNode: a new leaf object, with no pointers yet.
Add(i, b) ==
  /\ Idle
  /\ i \notin leaves
  /\ leaves' = leaves \cup {i}
  /\ tree' = [tree EXCEPT !.aabb[i] = Expand(b)]
  /\ pending' = {i}
  /\ UNCHANGED <<pc, cursor>> /\ NoSearch

\* updateNode: a leaf that left its box, or shrank far below it, is removed
\* and inserted again.
Update(i, b) ==
  /\ Idle
  /\ i \in leaves
  /\ ~ (b \subseteq tree.aabb[i]) \/ Oversized(tree.aabb[i], Expand(b))
  /\ tree' = [Prune(tree, i) EXCEPT !.aabb[i] = Expand(b)]
  /\ cursor' = AbovePruned(tree, i)
  /\ pc' = "refit"
  /\ pending' = {i}
  /\ UNCHANGED leaves /\ NoSearch

\* remove: the leaf object is garbage.
Remove(i) ==
  /\ Idle
  /\ i \in leaves
  /\ leaves' = leaves \ {i}
  /\ tree' = [Prune(tree, i) EXCEPT !.parent[i] = Nil, !.aabb[i] = {}]
  /\ cursor' = AbovePruned(tree, i)
  /\ pc' = "refit"
  /\ UNCHANGED pending /\ NoSearch

Clear ==
  /\ Idle
  /\ leaves # {}
  /\ leaves' = {}
  /\ tree' = Empty
  /\ UNCHANGED <<pc, cursor, pending>> /\ NoSearch

\* optimize: every leaf is inserted again, the largest first; the order
\* matters to no property.
Optimize ==
  /\ Idle
  /\ leaves # {}
  /\ tree' = [Empty EXCEPT !.aabb = [n \in Node |-> IF n \in leaves THEN tree.aabb[n] ELSE {}]]
  /\ pending' = leaves
  /\ UNCHANGED <<leaves, pc, cursor>> /\ NoSearch

\* getAABB(body) unions the boxes of a body's leaves into the first one, in
\* place.
GetBodyAABB(i, j) ==
  /\ Idle
  /\ BodyAABB
  /\ {i, j} \subseteq leaves /\ i # j /\ SameBody(i, j)
  /\ tree' = [tree EXCEPT !.aabb[i] = @ \cup tree.aabb[j]]
  /\ UNCHANGED <<leaves, pc, cursor, pending>> /\ NoSearch

\* detectIterator, for the box of a leaf or a box of the caller's.
BeginSearch(box) ==
  /\ Idle
  /\ Searches
  /\ tree.root # Nil
  /\ query' = box
  /\ cursor' = tree.root
  /\ pc' = "visit"
  /\ UNCHANGED <<tree, leaves, pending, found>>

-----------------------------------------------------------------------------
(***************************************************************************)
(* The loops.                                                              *)
(***************************************************************************)

\* insert: the descent can stop at any node, whatever the perimeters say, and
\* the new leaf becomes the sibling of the node it stops at.  Their parent is a
\* new object; which one makes no difference.
Insert(i, sibling) ==
  /\ pc = "idle"
  /\ i \in pending
  /\ sibling \in Used(tree) \/ (sibling \in leaves \ pending)
  /\ LET p == CHOOSE p \in Inner : p \notin Used(tree)
     IN  /\ tree' = Graft(tree, sibling, p, i)
         /\ cursor' = p
  /\ pc' = "refit"
  /\ pending' = pending \ {i}
  /\ UNCHANGED leaves /\ NoSearch

InsertFirst(i) ==
  /\ pc = "idle"
  /\ i \in pending
  /\ tree.root = Nil
  /\ tree' = [tree EXCEPT !.root = i]
  /\ pending' = pending \ {i}
  /\ UNCHANGED <<leaves, pc, cursor>> /\ NoSearch

\* One round of the climb after an insertion or a removal: balance, measure,
\* go up.
Refit ==
  /\ pc = "refit" /\ cursor # Nil
  /\ LET up == Lifted(tree, cursor)
         top == IF up = Nil THEN cursor ELSE up
         balanced == IF up = Nil THEN tree ELSE Lift(tree, cursor, up)
     IN  /\ tree' = Measure(balanced, top)
         /\ cursor' = balanced.parent[top]
  /\ UNCHANGED <<leaves, pc, pending>> /\ NoSearch

RefitDone ==
  /\ pc = "refit" /\ cursor = Nil
  /\ pc' = "idle"
  /\ UNCHANGED <<tree, leaves, cursor, pending>> /\ NoSearch

\* Mutant: only a box inside the query counts.
OverlapsContained(box) == box \subseteq query

Overlaps(box) == box \cap query # {}

\* The search enters the left child of a node that overlaps, and leaves
\* every other node ...
Visit ==
  /\ pc = "visit"
  /\ IF Overlaps(tree.aabb[cursor]) /\ ~ IsLeaf(tree, cursor)
     THEN /\ cursor' = tree.left[cursor]
          /\ UNCHANGED <<pc, found>>
     ELSE /\ found' = IF Overlaps(tree.aabb[cursor]) THEN found \cup {cursor} ELSE found
          /\ pc' = "climb"
          /\ UNCHANGED cursor
  /\ UNCHANGED <<tree, leaves, pending, query>>

\* Mutant: the climb does not look at which child it comes from.
ClimbToSibling ==
  /\ pc = "climb"
  /\ LET p == tree.parent[cursor]
     IN  \/ p = Nil /\ pc' = "done" /\ UNCHANGED cursor
         \/ p # Nil /\ pc' = "visit" /\ cursor' = tree.right[p]
  /\ UNCHANGED <<tree, leaves, pending, query, found>>

\* ... for the right sibling of its nearest ancestor that is a left child.
Climb ==
  /\ pc = "climb"
  /\ LET p == tree.parent[cursor]
     IN  \/ p = Nil /\ pc' = "done" /\ UNCHANGED cursor
         \/ p # Nil /\ cursor = tree.left[p] /\ pc' = "visit" /\ cursor' = tree.right[p]
         \/ p # Nil /\ cursor # tree.left[p] /\ cursor' = p /\ UNCHANGED pc
  /\ UNCHANGED <<tree, leaves, pending, query, found>>

EndSearch ==
  /\ pc = "done"
  /\ pc' = "idle" /\ cursor' = Nil
  /\ query' = {} /\ found' = {}
  /\ UNCHANGED <<tree, leaves, pending>>

-----------------------------------------------------------------------------
Operation ==
  \/ \E i \in Item, b \in Box : Add(i, b) \/ Update(i, b)
  \/ \E i \in Item : Remove(i)
  \/ Clear
  \/ Optimize
  \/ \E i, j \in Item : GetBodyAABB(i, j)
  \/ \E box \in Box \cup {tree.aabb[i] : i \in leaves} : BeginSearch(box)

Loop ==
  \/ \E i \in Item, sibling \in Node : Insert(i, sibling)
  \/ \E i \in Item : InsertFirst(i)
  \/ Refit
  \/ RefitDone
  \/ Visit
  \/ Climb
  \/ EndSearch

Next == Operation \/ Loop

\* The operations are sequential code that nothing can stop half way.
Spec == Init /\ [][Next]_vars /\ WF_vars(Loop)

-----------------------------------------------------------------------------
(***************************************************************************)
(* Properties.                                                             *)
(***************************************************************************)

Children(n) == {tree.left[n], tree.right[n]}

\* The nodes of the tree: every inner node in use and every inserted leaf.
InTree == Used(tree) \cup (leaves \ pending)

\* Whatever the order of insertions, removals and rotations, parent and child
\* pointers agree and every node but the root is the child of one other, even
\* in a tree whose boxes a body query has changed (insert, removeNode, balance).
Linked ==
  Idle =>
    /\ tree.root = Nil <=> leaves = {}
    /\ tree.root # Nil => tree.root \in InTree /\ tree.parent[tree.root] = Nil
    /\ \A n \in Used(tree) :
         /\ tree.left[n] # tree.right[n]
         /\ \A c \in Children(n) : c \in InTree /\ tree.parent[c] = n
    /\ \A n \in InTree \ {tree.root} :
         tree.parent[n] \in Used(tree) /\ n \in Children(tree.parent[n])

\* isValid: the pointers agree, and a node's box contains its children's.
IsValid ==
  /\ Linked
  /\ Idle => \A n \in Used(tree) : \A c \in Children(n) : tree.aabb[c] \subseteq tree.aabb[n]

\* The heights rotation relies on are exact, which also leaves no room for a
\* cycle, and no box is larger than its leaves require.
Measured ==
  Idle =>
    /\ \A i \in leaves : tree.height[i] = 0
    /\ \A n \in Used(tree) :
         /\ tree.height[n] = OneAbove(tree, tree.left[n], tree.right[n])
         /\ tree.aabb[n] = UNION {tree.aabb[c] : c \in Children(n)}

\* Between operations the tree is what isValid asks of it and is measured
\* exactly, whatever was inserted, removed, updated, rotated or rebuilt.
Consistent == TypeOK /\ IsValid /\ Measured

\* The climbing loops end: the parent pointers never form a cycle, and the
\* search never comes back to a node (insert, removeNode, findNext).
LoopsEnd == (pc # "idle") ~> (pc = "idle")

Meet(b, c) == b \cap c # {}

\* The promise of a detector, kept by the walk over the pointers.
Promise == INSTANCE Broadphase WITH
  Box <- SUBSET Cell,
  None <- {},
  Touches <- Meet,
  box <- [i \in Item |-> IF i \in leaves THEN tree.aabb[i] ELSE {}],
  phase <- CASE pc \in {"visit", "climb"} -> "asked" [] pc = "done" -> "answered" [] OTHER -> "idle",
  answer <- IF pc = "done" THEN found ELSE {}

IsBroadphase == Promise!Safety
=============================================================================
