------------------------------- MODULE AVLTree -------------------------------
(***************************************************************************)
(* The balanced search tree that orders the proxies of the sweep and prune *)
(* broadphase, with the pointers of its nodes, its rotations and its       *)
(* stack-based iterators.                                                  *)
(*                                                                         *)
(* A key has at most one node at a time, so a key stands for its node.  An *)
(* operation runs to its end before the next one begins; its loops take    *)
(* one action per round.                                                   *)
(***************************************************************************)
EXTENDS Integers, Sequences, FiniteSets

CONSTANTS
  Key,         \* the values the program stores
  Nil,         \* null
  Diff(_, _)   \* Comparable.compareTo

Node == Key \cup {Nil}

ASSUME KeyAssumption == Nil \notin Key

\* What Comparable asks of compareTo: its sign turns with its arguments, and it
\* orders the keys up to ties.
ASSUME DiffAssumption ==
  \A a, b, c \in Key :
    /\ Diff(a, b) \in Int
    /\ Diff(a, b) < 0 <=> Diff(b, a) > 0
    /\ Diff(a, b) <= 0 /\ Diff(b, c) < 0 => Diff(a, c) < 0

VARIABLES
  tree,     \* the root and the pointers of every node
  members,  \* the keys inserted and not removed since
  phase,    \* idle, or inside a loop
  item,     \* the key the operation is about
  cursor,   \* the node the loop is at
  range,    \* the ends of the iteration and its direction
  stack,    \* the stack of the iterator
  out       \* what the iterator has returned

treeVars == <<tree, members, phase, item, cursor, range, stack, out>>
iteration == <<range, stack, out>>

TreeTypeOK ==
  /\ tree \in [root : Node, left : [Key -> Node], right : [Key -> Node],
               parent : [Key -> Node]]
  /\ members \subseteq Key
  /\ phase \in {"idle", "descend", "insertUp", "removeUp", "iterate"}
  /\ item \in Node /\ cursor \in Node
  /\ range \in [from : Node, to : Node, inOrder : BOOLEAN]
  /\ stack \in Seq(Key) /\ out \in Seq(Key)

Everything == [from |-> Nil, to |-> Nil, inOrder |-> TRUE]

TreeInit ==
  /\ tree = [root |-> Nil, left |-> [k \in Key |-> Nil],
             right |-> [k \in Key |-> Nil], parent |-> [k \in Key |-> Nil]]
  /\ members = {}
  /\ phase = "idle" /\ item = Nil /\ cursor = Nil
  /\ range = Everything /\ stack = <<>> /\ out = <<>>

-----------------------------------------------------------------------------
(***************************************************************************)
(* Shape.                                                                  *)
(***************************************************************************)

\* getHeight, of every node.
Heights(t) ==
  LET h[n \in Node] ==
        IF n = Nil THEN 0
        ELSE LET l == h[t.left[n]] r == h[t.right[n]] IN 1 + IF l > r THEN l ELSE r
  IN  h

Balance(t, n) == Heights(t)[t.left[n]] - Heights(t)[t.right[n]]

\* Whether a loop rebalances at n at all.
Tall(t, n) == Heights(t)[n] > 2

\* getMinimum of the subtree at n.
Minimum(t, n) ==
  LET least[k \in Key] == IF t.left[k] = Nil THEN k ELSE least[t.left[k]] IN least[n]

Maximum(t, n) ==
  LET most[k \in Key] == IF t.right[k] = Nil THEN k ELSE most[t.right[k]] IN most[n]

Linked(t) == {k \in Key : k = t.root \/ t.parent[k] # Nil}

\* contains: the node the search for k ends at, Nil when it is not found.
Found(k) ==
  LET at[n \in Node] ==
        IF n = Nil \/ k = n THEN n
        ELSE IF Diff(k, n) = 0 THEN Nil
        ELSE IF Diff(k, n) < 0 THEN at[tree.left[n]] ELSE at[tree.right[n]]
  IN  at[tree.root]

WithParent(t, c, p) == IF c = Nil THEN t ELSE [t EXCEPT !.parent[c] = p]

\* The node `new` takes the place of `old` below p.
Replace(t, p, old, new) ==
  IF p = Nil THEN [t EXCEPT !.root = new]
  ELSE IF t.left[p] = old THEN [t EXCEPT !.left[p] = new]
  ELSE [t EXCEPT !.right[p] = new]

\* Mutant: the raised node still points to its former parent, now below it.
RotateLeftKeepsParent(t, n) ==
  LET p == t.parent[n] r == t.right[n] rl == t.left[r]
  IN  WithParent([Replace(t, p, n, r) EXCEPT !.parent[n] = r, !.right[n] = rl,
                                             !.left[r] = n], rl, n)

RotateLeft(t, n) ==
  LET p == t.parent[n] r == t.right[n] rl == t.left[r]
  IN  WithParent([Replace(t, p, n, r) EXCEPT !.parent[n] = r, !.right[n] = rl,
                                             !.left[r] = n, !.parent[r] = p], rl, n)

RotateRight(t, n) ==
  LET p == t.parent[n] l == t.left[n] lr == t.right[l]
  IN  WithParent([Replace(t, p, n, l) EXCEPT !.parent[n] = l, !.left[n] = lr,
                                             !.right[l] = n, !.parent[l] = p], lr, n)

-----------------------------------------------------------------------------
(***************************************************************************)
(* Insertion.                                                              *)
(***************************************************************************)

InsertKey(k) ==
  /\ phase = "idle"
  /\ item' = k
  /\ IF tree.root = Nil
     THEN /\ tree' = [tree EXCEPT !.root = k]
          /\ members' = members \cup {k}
          /\ UNCHANGED <<phase, cursor>>
     ELSE /\ phase' = "descend" /\ cursor' = tree.root
          /\ UNCHANGED <<tree, members>>
  /\ UNCHANGED iteration

\* A key that compares equal to one in the tree is refused.
Refuse ==
  /\ phase = "descend"
  /\ item = cursor \/ Diff(item, cursor) = 0
  /\ phase' = "idle"
  /\ UNCHANGED <<tree, members, item, cursor>> /\ UNCHANGED iteration

\* The new node hangs where the search falls out of the tree.
Descend ==
  /\ phase = "descend"
  /\ item # cursor /\ Diff(item, cursor) # 0
  /\ LET below == IF Diff(item, cursor) < 0 THEN tree.left[cursor] ELSE tree.right[cursor]
     IN  IF below # Nil
         THEN cursor' = below /\ UNCHANGED <<tree, members, phase>>
         ELSE /\ tree' = IF Diff(item, cursor) < 0
                         THEN [tree EXCEPT !.left[cursor] = item, !.parent[item] = cursor]
                         ELSE [tree EXCEPT !.right[cursor] = item, !.parent[item] = cursor]
              /\ members' = members \cup {item}
              /\ phase' = "insertUp"
              /\ UNCHANGED cursor
  /\ UNCHANGED item /\ UNCHANGED iteration

\* The rotations of insert at n: the side the new key went to tells which.
RaisedForInsert(t, n) ==
  LET b == Balance(t, n) IN
  IF ~ Tall(t, n) THEN t
  ELSE IF b > 1 /\ Diff(item, t.left[n]) < 0 THEN RotateRight(t, n)
  ELSE IF b > 1 /\ Diff(item, t.left[n]) > 0 THEN RotateRight(RotateLeft(t, t.left[n]), n)
  ELSE IF b < -1 /\ Diff(item, t.right[n]) > 0 THEN RotateLeft(t, n)
  ELSE IF b < -1 /\ Diff(item, t.right[n]) < 0 THEN RotateLeft(RotateRight(t, t.right[n]), n)
  ELSE t

\* One round of the climb after an insertion.
InsertUp ==
  /\ phase = "insertUp"
  /\ IF cursor = Nil
     THEN phase' = "idle" /\ UNCHANGED <<tree, cursor>>
     ELSE /\ tree' = RaisedForInsert(tree, cursor)
          /\ cursor' = tree'.parent[cursor]
          /\ UNCHANGED phase
  /\ UNCHANGED <<members, item>> /\ UNCHANGED iteration

-----------------------------------------------------------------------------
(***************************************************************************)
(* Removal.                                                                *)
(***************************************************************************)

\* The node n is unlinked; its object is garbage.
Forgotten(t, n) == [t EXCEPT !.left[n] = Nil, !.right[n] = Nil, !.parent[n] = Nil]

\* A node with at most one child: the child takes its place.
Bypass(t, n) ==
  LET c == IF t.left[n] # Nil THEN t.left[n] ELSE t.right[n]
  IN  Forgotten(WithParent(Replace(t, t.parent[n], n, c), c, t.parent[n]), n)

\* A node with two children: the least key on its right, m, takes its place.
\* Unless m is the right child, its own right subtree moves up first.
Succeed(t, n, m) ==
  LET freed == IF m = t.right[n] THEN t
               ELSE WithParent([t EXCEPT !.left[t.parent[m]] = t.right[m],
                                         !.right[m] = t.right[n],
                                         !.parent[t.right[n]] = m],
                               t.right[m], t.parent[m])
  IN  Forgotten([Replace(freed, t.parent[n], n, m)
                   EXCEPT !.left[m] = t.left[n], !.parent[t.left[n]] = m,
                          !.parent[m] = t.parent[n]], n)

\* Mutant: the climb always starts at the node that took the place.
StartAtSuccessor(t, n) ==
  IF t.left[n] # Nil /\ t.right[n] # Nil THEN Minimum(t, t.right[n])
  ELSE IF t.left[n] # Nil THEN t.left[n]
  ELSE IF t.right[n] # Nil THEN t.right[n]
  ELSE t.parent[n]

\* Where the climb starts: at the lowest node whose subtree changed.
Start(t, n) ==
  IF t.left[n] # Nil /\ t.right[n] # Nil
  THEN LET m == Minimum(t, t.right[n]) IN IF m = t.right[n] THEN m ELSE t.parent[m]
  ELSE IF t.left[n] # Nil THEN t.left[n]
  ELSE IF t.right[n] # Nil THEN t.right[n]
  ELSE t.parent[n]

RemoveNode(n) ==
  /\ tree' = IF tree.left[n] # Nil /\ tree.right[n] # Nil
             THEN Succeed(tree, n, Minimum(tree, tree.right[n]))
             ELSE Bypass(tree, n)
  /\ cursor' = Start(tree, n)
  /\ phase' = "removeUp"

\* remove of a key: nothing happens when the search does not find it.
RemoveKey(k) ==
  /\ phase = "idle"
  /\ k \in members
  /\ members' = members \ {k}
  /\ IF Found(k) = Nil THEN UNCHANGED <<tree, cursor, phase>> ELSE RemoveNode(k)
  /\ UNCHANGED item /\ UNCHANGED iteration

\* removeMinimum and removeMaximum of a subtree.
RemoveExtreme(start) ==
  /\ phase = "idle"
  /\ start \in Linked(tree)
  /\ \E k \in {Minimum(tree, start), Maximum(tree, start)} :
       members' = members \ {k} /\ RemoveNode(k)
  /\ UNCHANGED item /\ UNCHANGED iteration

\* The rotations of remove at n: the balance of the taller child tells which.
RaisedForRemove(t, n) ==
  LET b == Balance(t, n) IN
  IF ~ Tall(t, n) THEN t
  ELSE IF b > 1 /\ Balance(t, t.left[n]) >= 0 THEN RotateRight(t, n)
  ELSE IF b > 1 THEN RotateRight(RotateLeft(t, t.left[n]), n)
  ELSE IF b < -1 /\ Balance(t, t.right[n]) <= 0 THEN RotateLeft(t, n)
  ELSE IF b < -1 THEN RotateLeft(RotateRight(t, t.right[n]), n)
  ELSE t

RemoveUp ==
  /\ phase = "removeUp"
  /\ IF cursor = Nil
     THEN phase' = "idle" /\ UNCHANGED <<tree, cursor>>
     ELSE /\ tree' = RaisedForRemove(tree, cursor)
          /\ cursor' = tree'.parent[cursor]
          /\ UNCHANGED phase
  /\ UNCHANGED <<members, item>> /\ UNCHANGED iteration

ClearTree ==
  /\ phase = "idle"
  /\ members # {}
  /\ tree' = [root |-> Nil, left |-> [k \in Key |-> Nil],
              right |-> [k \in Key |-> Nil], parent |-> [k \in Key |-> Nil]]
  /\ members' = {}
  /\ UNCHANGED <<phase, item, cursor>> /\ UNCHANGED iteration

-----------------------------------------------------------------------------
(***************************************************************************)
(* Iteration.  The top of the stack is its last element.                   *)
(***************************************************************************)

\* pushLeft: the left spine from n, as far as it is not beyond `to`.
LeftSpine(n, to) ==
  LET spine[k \in Node] ==
        IF k = Nil THEN <<>>
        ELSE (IF to = Nil \/ Diff(to, k) >= 0 THEN <<k>> ELSE <<>>) \o spine[tree.left[k]]
  IN  spine[n]

RightSpine(n) ==
  LET spine[k \in Node] == IF k = Nil THEN <<>> ELSE <<k>> \o spine[tree.right[k]]
  IN  spine[n]

\* Mutant: the path keeps the nodes it leaves to the right as well.
PathFromWhole(from) ==
  LET path[k \in Node] ==
        IF k = Nil THEN <<>>
        ELSE IF k = from \/ Diff(from, k) = 0 THEN <<k>>
        ELSE <<k>> \o path[IF Diff(from, k) < 0 THEN tree.left[k] ELSE tree.right[k]]
  IN  path[tree.root]

\* pushLeftFrom: the path towards `from`, without the nodes below it.
PathFrom(from) ==
  LET path[k \in Node] ==
        IF k = Nil THEN <<>>
        ELSE IF k = from \/ Diff(from, k) = 0 THEN <<k>>
        ELSE IF Diff(from, k) < 0 THEN <<k>> \o path[tree.left[k]]
        ELSE path[tree.right[k]]
  IN  path[tree.root]

\* tailIterator, headIterator, subsetIterator, inOrderIterator and
\* reverseOrderIterator.
BeginIteration(from, to, inOrder) ==
  /\ phase = "idle"
  /\ inOrder \/ (from = Nil /\ to = Nil)
  /\ range' = [from |-> from, to |-> to, inOrder |-> inOrder]
  /\ stack' = IF ~ inOrder THEN RightSpine(tree.root)
              ELSE IF from = Nil THEN LeftSpine(tree.root, to) ELSE PathFrom(from)
  /\ out' = <<>>
  /\ phase' = "iterate"
  /\ UNCHANGED <<tree, members, item, cursor>>

\* next.
Advance ==
  /\ phase = "iterate"
  /\ stack # <<>>
  /\ LET n == stack[Len(stack)]
         rest == SubSeq(stack, 1, Len(stack) - 1)
     IN  /\ out' = Append(out, n)
         /\ stack' = rest \o IF range.inOrder THEN LeftSpine(tree.right[n], range.to)
                             ELSE RightSpine(tree.left[n])
  /\ UNCHANGED <<tree, members, phase, item, cursor, range>>

\* The program drops the iterator.
EndIteration ==
  /\ phase = "iterate"
  /\ stack = <<>>
  /\ phase' = "idle"
  /\ range' = Everything /\ out' = <<>>
  /\ UNCHANGED <<tree, members, item, cursor, stack>>

-----------------------------------------------------------------------------

TreeOperation ==
  \/ \E k \in Key : InsertKey(k) \/ RemoveKey(k) \/ RemoveExtreme(k)
  \/ ClearTree
  \/ \E from, to \in Node, inOrder \in BOOLEAN : BeginIteration(from, to, inOrder)

Loop == Refuse \/ Descend \/ InsertUp \/ RemoveUp \/ Advance \/ EndIteration

TreeNext == TreeOperation \/ Loop

\* An operation that has begun is run to its end.
TreeSpec == TreeInit /\ [][TreeNext]_treeVars /\ WF_treeVars(Loop)

-----------------------------------------------------------------------------
(***************************************************************************)
(* Properties.                                                             *)
(***************************************************************************)

\* isValid and contains: whatever was inserted and removed, and in whatever
\* order, the search from the root finds exactly the members, and parent
\* pointers agree with child pointers, which rotations and removals climb.
Searchable ==
  phase = "idle" =>
    /\ {k \in Key : Found(k) = k} = members
    /\ Linked(tree) = members
    /\ tree.root # Nil => tree.parent[tree.root] = Nil
    /\ \A k \in members :
         /\ tree.left[k] # Nil => tree.parent[tree.left[k]] = k
         /\ tree.right[k] # Nil => tree.parent[tree.right[k]] = k

\* isBalanced: no node has subtrees whose heights differ by more than one,
\* after any mixture of insertions and removals.
Balanced ==
  phase = "idle" => \A k \in members : Balance(tree, k) \in -1..1

\* Searchable and balanced at once, through every sequence of operations.
TreeConsistent == TreeTypeOK /\ Searchable /\ Balanced

\* What lies in the range of the iteration.
InRange ==
  {k \in members : /\ range.from = Nil \/ Diff(range.from, k) <= 0
                   /\ range.to = Nil \/ Diff(range.to, k) >= 0}

\* An iterator returns the members in its range, each once and in order, and no
\* other; but one that is bounded on both sides also returns what lies beyond
\* its end on the path to its beginning (BinarySearchTreeIterator).
IterationIsExact ==
  LET returned == {out[i] : i \in DOMAIN out}
      path == {PathFrom(range.from)[i] : i \in DOMAIN PathFrom(range.from)}
  IN phase = "iterate" =>
       /\ \A i, j \in DOMAIN out :
            i < j => IF range.inOrder THEN Diff(out[i], out[j]) < 0 ELSE Diff(out[i], out[j]) > 0
       /\ returned \ InRange \subseteq (IF Nil \in {range.from, range.to} THEN {} ELSE path)
       /\ stack = <<>> => InRange \subseteq returned

\* Every climb and every iteration ends, also when a rotation has put the node
\* the climb is at one level lower (insert, remove).
OperationsEnd == (phase # "idle") ~> (phase = "idle")
=============================================================================
