------------------------- MODULE SweepAndPrune_proof -------------------------
(***************************************************************************)
(* Proofs about the sweep and prune broadphase and the tree under it.      *)
(*                                                                         *)
(* First the tree, for every set of keys that compareTo orders: it stays a *)
(* balanced search tree of its members, and its iterators return their     *)
(* range.  Then the broadphase, for every set of items and boxes, every    *)
(* filter and every hash code.                                             *)
(***************************************************************************)
EXTENDS SweepAndPrune, AVLTree, WellFoundedInduction, FiniteSetTheorems, SequenceTheorems,
        TLAPS

-----------------------------------------------------------------------------
(***************************************************************************)
(* The tree under the broadphase: functions along its pointers.            *)
(***************************************************************************)

\* A nonempty set of numbers has a least one.
LEMMA LeastNumber ==
  ASSUME NEW T, T \subseteq Nat, T # {}
  PROVE  \E d \in T : \A e \in T : d <= e
<1> DEFINE Less == {ss \in Nat \X Nat : ss[1] < ss[2]}
<1>1. IsWellFoundedOn(Less, Nat)
  BY NatLessThanWellFounded DEF OpToRel
<1>2. \E d \in T : \A e \in T : ~ (<<e, d>> \in Less)
  <2> HIDE DEF Less
  <2> QED
    BY <1>1, WFMin
<1> QED
  <2>1. PICK d \in T : \A e \in T : ~ (<<e, d>> \in Less)
    BY <1>2
  <2>2. \A e \in T : ~ (e < d)
    BY <2>1
  <2> QED
    BY <2>1, <2>2

\* A nonempty set has an element of the lowest rank.
LEMMA Lowest ==
  ASSUME NEW D, NEW rank, D # {}, \A x \in D : rank[x] \in Nat
  PROVE  \E x \in D : \A y \in D : rank[x] <= rank[y]
<1> DEFINE T == {rank[x] : x \in D}
<1>1. T \subseteq Nat /\ T # {}
  OBVIOUS
<1>2. PICK d \in T : \A e \in T : d <= e
  <2> HIDE DEF T
  <2> QED
    BY <1>1, LeastNumber
<1> QED
  BY <1>2

\* G computes the value of a node from those of its two children.
Rule(V, G) == G \in [Key \X V \X V -> V]

\* The functions that G and the value v0 of Nil define along the pointers L and R.
Solutions(L, R, V, v0, G) ==
  {f \in [Node -> V] : /\ f[Nil] = v0
                       /\ \A k \in Key : f[k] = G[<<k, f[L[k]], f[R[k]]>>]}

\* The rank decreases from a node to its children: there is no cycle.
Descending(L, R, rank) ==
  /\ rank \in [Node -> Nat]
  /\ \A k \in Key : rank[L[k]] < rank[k] /\ rank[R[k]] < rank[k]

\* Without a cycle, a recursive definition along the pointers has a solution.
LEMMA TreeRecursion ==
  ASSUME NEW L \in [Key -> Node], NEW R \in [Key -> Node],
         NEW rank, Descending(L, R, rank),
         NEW V, NEW v0 \in V, NEW G, Rule(V, G)
  PROVE  Solutions(L, R, V, v0, G) # {}
<1> USE KeyAssumption DEF Node, Descending, Rule
<1> DEFINE Eq(f, n) == /\ f \in [Node -> V] /\ f[Nil] = v0
                       /\ \A k \in Key : rank[k] < n => f[k] = G[<<k, f[L[k]], f[R[k]]>>]
           Lacking == {n \in Nat : ~ \E f : Eq(f, n)}
<1>1. ASSUME NEW m \in Nat PROVE \E f : Eq(f, m)
  <2>1. ASSUME Lacking # {} PROVE FALSE
    <3>1. PICK n \in Lacking : \A e \in Lacking : n <= e
      <4>1. Lacking \subseteq Nat
        OBVIOUS
      <4> HIDE DEF Lacking
      <4> QED
        BY <2>1, <4>1, LeastNumber
    <3>2. CASE n = 0
      <4>1. Eq([x \in Node |-> v0], 0)
        OBVIOUS
      <4> QED
        BY <4>1, <3>1, <3>2
    <3>3. CASE n # 0
      <4>1. n \in Nat /\ n - 1 \in Nat /\ n - 1 \notin Lacking
        BY <3>1, <3>3
      <4>2. PICK f : Eq(f, n - 1)
        BY <4>1
      <4> DEFINE g == [x \in Node |-> IF x = Nil THEN v0 ELSE G[<<x, f[L[x]], f[R[x]]>>]]
      <4>3. g \in [Node -> V] /\ g[Nil] = v0
        BY <4>2
      <4>4. \A k \in Key : g[k] = G[<<k, f[L[k]], f[R[k]]>>]
        BY <4>2
      <4>5. ASSUME NEW k \in Key, rank[k] < n PROVE g[k] = G[<<k, g[L[k]], g[R[k]]>>]
        <5>1. ASSUME NEW c \in Node, rank[c] < rank[k] PROVE g[c] = f[c]
          <6>1. CASE c = Nil
            BY <6>1, <4>2, <4>3
          <6>2. CASE c \in Key
            <7>1. rank[c] < n - 1
              BY <4>1, <4>5, <5>1, <6>2
            <7> QED
              BY <7>1, <6>2, <4>2, <4>4
          <6> QED
            BY <6>1, <6>2
        <5>2. g[L[k]] = f[L[k]] /\ g[R[k]] = f[R[k]]
          BY <5>1
        <5> QED
          BY <5>2, <4>4
      <4>6. Eq(g, n)
        <5> HIDE DEF g
        <5> QED
          BY <4>3, <4>5
      <4> QED
        BY <4>6, <3>1
    <3> QED
      BY <3>2, <3>3
  <2> QED
    BY <2>1
<1>2. ASSUME NEW f, NEW g, NEW m \in Nat, NEW n \in Nat, Eq(f, m), Eq(g, n),
             NEW x \in Node, rank[x] < m, rank[x] < n
      PROVE  f[x] = g[x]
  <2> DEFINE D == {k \in Key : rank[k] < m /\ rank[k] < n /\ f[k] # g[k]}
  <2>1. ASSUME D # {} PROVE FALSE
    <3>1. PICK k \in D : \A y \in D : rank[k] <= rank[y]
      <4>1. \A y \in D : rank[y] \in Nat
        OBVIOUS
      <4> HIDE DEF D
      <4> QED
        BY <2>1, <4>1, Lowest
    <3>2. ASSUME NEW c \in Node, rank[c] < rank[k] PROVE f[c] = g[c]
      <4>1. CASE c = Nil
        BY <4>1, <1>2
      <4>2. CASE c \in Key
        <5>1. c \notin D
          BY <3>1, <3>2, <4>2
        <5>2. rank[c] < m /\ rank[c] < n
          BY <3>1, <3>2, <4>2
        <5> QED
          BY <5>1, <5>2, <4>2
      <4> QED
        BY <4>1, <4>2
    <3>3. f[L[k]] = g[L[k]] /\ f[R[k]] = g[R[k]]
      BY <3>2
    <3>4. f[k] = G[<<k, f[L[k]], f[R[k]]>>] /\ g[k] = G[<<k, g[L[k]], g[R[k]]>>]
      BY <1>2
    <3> QED
      BY <3>3, <3>4
  <2>2. CASE x = Nil
    BY <2>2, <1>2
  <2>3. CASE x \in Key
    BY <2>1, <2>3, <1>2
  <2> QED
    BY <2>2, <2>3
<1> DEFINE Up(x) == CHOOSE f : Eq(f, rank[x] + 1)
           F == [x \in Node |-> Up(x)[x]]
<1>3. \A x \in Node : Eq(Up(x), rank[x] + 1)
  <2> SUFFICES ASSUME NEW x \in Node PROVE Eq(Up(x), rank[x] + 1)
    OBVIOUS
  <2>1. rank[x] + 1 \in Nat
    OBVIOUS
  <2>2. \E f : Eq(f, rank[x] + 1)
    BY <1>1, <2>1
  <2> HIDE DEF Eq
  <2> QED
    BY <2>2
<1>4. F \in [Node -> V] /\ F[Nil] = v0
  <2> HIDE DEF Up
  <2> QED
    BY <1>3
<1>5. ASSUME NEW k \in Key PROVE F[k] = G[<<k, F[L[k]], F[R[k]]>>]
  <2> HIDE DEF Up
  <2>1. Up(k)[k] = G[<<k, Up(k)[L[k]], Up(k)[R[k]]>>]
    BY <1>3
  <2>2. ASSUME NEW c \in Node, rank[c] < rank[k] PROVE Up(k)[c] = F[c]
    <3>1. rank[k] + 1 \in Nat /\ rank[c] + 1 \in Nat
      OBVIOUS
    <3>2. rank[c] < rank[c] + 1 /\ rank[c] < rank[k] + 1
      BY <2>2
    <3>3. Eq(Up(k), rank[k] + 1) /\ Eq(Up(c), rank[c] + 1)
      BY <1>3
    <3> HIDE DEF Eq
    <3>4. Up(k)[c] = Up(c)[c]
      BY <1>2, <3>1, <3>2, <3>3
    <3> QED
      BY <3>4
  <2>3. Up(k)[L[k]] = F[L[k]] /\ Up(k)[R[k]] = F[R[k]]
    BY <2>2
  <2> QED
    BY <2>1, <2>3
<1> HIDE DEF F
<1> QED
  BY <1>4, <1>5 DEF Solutions

-----------------------------------------------------------------------------
(***************************************************************************)
(* Shape: a tree of pointers that is a search tree.                        *)
(***************************************************************************)

\* A strict order of the keys, given as a set of pairs.
Orders(less) ==
  \A a, b, c \in Key : /\ <<a, a>> \notin less
                       /\ <<a, b>> \in less /\ <<b, c>> \in less => <<a, c>> \in less

\* S is the set of keys below every node, itself included.
Pointers(root, L, R, P, S) ==
  /\ root \in Node
  /\ L \in [Key -> Node] /\ R \in [Key -> Node] /\ P \in [Key -> Node]
  /\ S \in [Node -> SUBSET Key]

\* The pointers are those of a search tree along `less` with the subtrees S: every
\* node is in between its subtrees, parents agree with children, and a key that
\* is not below the root has no pointers.
Shape(root, L, R, P, S, less) ==
  /\ Pointers(root, L, R, P, S)
  /\ S[Nil] = {}
  /\ root # Nil => P[root] = Nil
  /\ \A k \in Key :
       /\ S[k] = {k} \cup S[L[k]] \cup S[R[k]]
       /\ IsFiniteSet(S[k])
       /\ \A x \in S[L[k]] : <<x, k>> \in less
       /\ \A x \in S[R[k]] : <<k, x>> \in less
       /\ L[k] # Nil => P[L[k]] = k
       /\ R[k] # Nil => P[R[k]] = k
       /\ P[k] # Nil => k = L[P[k]] \/ k = R[P[k]]
       /\ k \notin S[root] => L[k] = Nil /\ R[k] = Nil /\ P[k] = Nil
       /\ \A x \in S[k] : S[x] \subseteq S[k] /\ (x # k => P[x] \in S[k])

\* What the other proofs need of the shape around one node.
LEMMA ShapeFacts ==
  ASSUME NEW root, NEW L, NEW R, NEW P, NEW S, NEW less,
         Shape(root, L, R, P, S, less), Orders(less), NEW k \in Key
  PROVE  /\ k \in S[k]
         /\ k \notin S[L[k]] /\ k \notin S[R[k]]
         /\ S[L[k]] \cap S[R[k]] = {}
         /\ L[k] # k /\ R[k] # k /\ P[k] # k
         /\ L[k] # Nil => L[k] # R[k] /\ L[k] \in S[k] /\ L[k] \in S[L[k]]
         /\ R[k] # Nil => L[k] # R[k] /\ R[k] \in S[k] /\ R[k] \in S[R[k]]
         /\ P[k] # Nil => k \in S[P[k]] /\ P[k] \notin S[k] /\ P[k] \in S[root] /\ k \in S[root]
         /\ k \in S[root] => k = root \/ P[k] # Nil
         /\ k = root => P[k] = Nil
         /\ \A x \in S[L[k]], y \in S[R[k]] : <<x, y>> \in less
<1> USE KeyAssumption DEF Node
<1>0. Pointers(root, L, R, P, S)
  BY DEF Shape
<1>1. \A j \in Key : j \in S[j]
  BY DEF Shape
<1>2. \A j \in Key : j \notin S[L[j]] /\ j \notin S[R[j]]
  BY DEF Shape, Orders
<1>3. S[L[k]] \cap S[R[k]] = {}
  <2> SUFFICES ASSUME NEW x \in S[L[k]], x \in S[R[k]] PROVE FALSE
    OBVIOUS
  <2>1. x \in Key
    BY <1>0 DEF Pointers
  <2>2. <<x, k>> \in less /\ <<k, x>> \in less
    BY DEF Shape
  <2> QED
    BY <2>1, <2>2 DEF Orders
<1>4. \A x \in S[L[k]], y \in S[R[k]] : <<x, y>> \in less
  <2> SUFFICES ASSUME NEW x \in S[L[k]], NEW y \in S[R[k]] PROVE <<x, y>> \in less
    OBVIOUS
  <2>1. x \in Key /\ y \in Key
    BY <1>0 DEF Pointers
  <2>2. <<x, k>> \in less /\ <<k, y>> \in less
    BY DEF Shape
  <2> QED
    BY <2>1, <2>2 DEF Orders
<1>5. \A j \in Key : /\ S[L[j]] \subseteq S[j] /\ S[R[j]] \subseteq S[j]
                     /\ L[j] # Nil => L[j] \in Key /\ L[j] \in S[L[j]]
                     /\ R[j] # Nil => R[j] \in Key /\ R[j] \in S[R[j]]
  BY <1>0, <1>1 DEF Shape, Pointers
<1>6. L[k] # k /\ R[k] # k
  BY <1>2, <1>5
<1>7. P[k] # Nil => k \in S[P[k]] /\ P[k] \notin S[k] /\ P[k] # k
  <2> SUFFICES ASSUME P[k] # Nil PROVE k \in S[P[k]] /\ P[k] \notin S[k] /\ P[k] # k
    OBVIOUS
  <2>1. P[k] \in Key
    BY <1>0 DEF Pointers
  <2>2. k = L[P[k]] \/ k = R[P[k]]
    BY DEF Shape
  <2> QED
    BY <1>1, <1>2, <1>5, <2>1, <2>2
<1>8. P[k] # Nil => P[k] \in S[root] /\ k \in S[root]
  <2> SUFFICES ASSUME P[k] # Nil PROVE P[k] \in S[root] /\ k \in S[root]
    OBVIOUS
  <2>1. k \in S[root]
    BY DEF Shape
  <2>2. root \in Key
    BY <1>0, <2>1 DEF Pointers, Shape
  <2>3. k # root
    BY <2>2 DEF Shape
  <2> QED
    BY <2>1, <2>2, <2>3 DEF Shape
<1>9. k \in S[root] => k = root \/ P[k] # Nil
  <2> SUFFICES ASSUME k \in S[root], k # root PROVE P[k] # Nil
    OBVIOUS
  <2>1. root \in Key
    BY <1>0 DEF Pointers, Shape
  <2>2. P[k] \in S[root]
    BY <2>1 DEF Shape
  <2> QED
    BY <2>1, <2>2, <1>0 DEF Pointers
<1>10. k = root => P[k] = Nil
  BY DEF Shape
<1> QED
  <2>1. L[k] # Nil => L[k] # R[k]
    BY <1>3, <1>5
  <2>2. R[k] # Nil => L[k] # R[k]
    BY <1>3, <1>5
  <2>3. P[k] # k
    BY <1>7
  <2> QED
    BY ONLY <1>1, <1>2, <1>3, <1>4, <1>5, <1>6, <1>7, <1>8, <1>9, <1>10, <2>1, <2>2, <2>3, k \in Key

-----------------------------------------------------------------------------
(***************************************************************************)
(* One rotation.                                                           *)
(***************************************************************************)

\* The pointers after n has been rotated below its child R[n].
Turned(root, L, R, P, n, root2, L2, R2, P2) ==
  LET p == P[n] r == R[n] IN
  /\ root2 = IF p = Nil THEN r ELSE root
  /\ L2 \in [Key -> Node] /\ R2 \in [Key -> Node] /\ P2 \in [Key -> Node]
  /\ \A k \in Key :
       /\ L2[k] = IF k = r THEN n ELSE IF k = p /\ L[p] = n THEN r ELSE L[k]
       /\ R2[k] = IF k = n THEN L[r] ELSE IF k = p /\ R[p] = n THEN r ELSE R[k]
       /\ P2[k] = IF k = n THEN r ELSE IF k = r THEN p ELSE IF k = L[r] THEN n ELSE P[k]

\* The subtrees after that rotation.
SetsTurned(L, R, S, n) ==
  [S EXCEPT ![n] = {n} \cup S[L[n]] \cup S[L[R[n]]], ![R[n]] = S[n]]

\* A rotation leaves a search tree of the same keys.
LEMMA RotationKeepsShape ==
  ASSUME NEW root, NEW L, NEW R, NEW P, NEW S, NEW less,
         Shape(root, L, R, P, S, less), Orders(less),
         NEW n \in S[root], R[n] # Nil,
         NEW root2, NEW L2, NEW R2, NEW P2,
         Turned(root, L, R, P, n, root2, L2, R2, P2)
  PROVE  /\ Shape(root2, L2, R2, P2, SetsTurned(L, R, S, n), less)
         /\ SetsTurned(L, R, S, n)[root2] = S[root]
<1> USE KeyAssumption DEF Node
<1> DEFINE p == P[n]  r == R[n]  rl == L[r]
           T == SetsTurned(L, R, S, n)
<1>0. Pointers(root, L, R, P, S)
  BY DEF Shape
<1>1. root \in Key /\ n \in Key /\ r \in Key /\ p \in Node /\ rl \in Node /\ L[n] \in Node
  BY <1>0 DEF Shape, Pointers
<1>2. P[r] = n /\ (rl # Nil => P[rl] = r) /\ (L[n] # Nil => P[L[n]] = n)
  BY <1>1 DEF Shape
<1>3. r # n /\ rl # n /\ rl # r /\ p # n /\ p # r /\ L[n] # n /\ L[n] # r
  BY <1>1, <1>2, ShapeFacts
<1>3a. rl # Nil => rl # p /\ rl # L[n]
  <2> SUFFICES ASSUME rl # Nil PROVE rl # p /\ rl # L[n]
    OBVIOUS
  <2>1. rl \in S[r] /\ (p \notin S[n] \/ p = Nil)
    BY <1>1, ShapeFacts
  <2>2. r \in S[n]
    BY <1>1, ShapeFacts
  <2>3. rl \in S[n]
    BY <1>1, <2>1, <2>2 DEF Shape
  <2> QED
    BY <1>1, <1>2, <1>3, <2>1, <2>2, <2>3, ShapeFacts
<1>3b. p # Nil => n = L[p] \/ n = R[p]
  BY <1>1 DEF Shape
<1>3c. p # Nil => ~ (n = L[p] /\ n = R[p])
  BY <1>1, ShapeFacts
<1>4. T \in [Node -> SUBSET Key]
  BY <1>0, <1>1 DEF SetsTurned, Pointers
<1>5. /\ T[n] = {n} \cup S[L[n]] \cup S[rl] /\ T[r] = S[n]
      /\ \A x \in Node : x # n /\ x # r => T[x] = S[x]
  BY <1>0, <1>1, <1>3 DEF SetsTurned, Pointers
<1> HIDE DEF T
<1>6. S[n] = {n} \cup S[L[n]] \cup S[r] /\ S[r] = {r} \cup S[rl] \cup S[R[r]]
  BY <1>1 DEF Shape
<1>7. root2 \in Node /\ L2 \in [Key -> Node] /\ R2 \in [Key -> Node] /\ P2 \in [Key -> Node]
  BY <1>0, <1>1 DEF Turned, Pointers
<1>8. /\ root2 = IF p = Nil THEN r ELSE root
      /\ \A k \in Key :
           /\ L2[k] = IF k = r THEN n ELSE IF k = p /\ L[p] = n THEN r ELSE L[k]
           /\ R2[k] = IF k = n THEN rl ELSE IF k = p /\ R[p] = n THEN r ELSE R[k]
           /\ P2[k] = IF k = n THEN r ELSE IF k = r THEN p ELSE IF k = rl THEN n ELSE P[k]
  BY DEF Turned
<1>9. T[Nil] = {}
  BY <1>1, <1>5 DEF Shape
<1>10. T[root2] = S[root] /\ (p = Nil <=> n = root)
  <2>1. p = Nil <=> n = root
    BY <1>1, ShapeFacts
  <2>2. root # r
    BY <1>1, <1>2, ShapeFacts
  <2> QED
    BY <2>1, <2>2, <1>1, <1>5, <1>8
<1>11. root2 # Nil => P2[root2] = Nil
  <2>1. CASE p = Nil
    BY <2>1, <1>1, <1>3, <1>8
  <2>2. CASE p # Nil
    <3>1. root2 = root /\ root # n /\ P[root] = Nil
      BY <2>2, <1>1, <1>8, <1>10 DEF Shape
    <3>2. root # r /\ root # rl
      BY <3>1, <1>1, <1>2
    <3> QED
      BY <3>1, <3>2, <1>1, <1>8
  <2> QED
    BY <2>1, <2>2
<1>12. ASSUME NEW k \in Key, k # n, k # r
       PROVE  /\ T[k] = S[k] /\ T[L2[k]] = S[L[k]] /\ T[R2[k]] = S[R[k]]
  <2>1. T[k] = S[k]
    BY <1>5, <1>12
  <2>2. L[k] # r /\ R[k] # r
    BY <1>1, <1>2, <1>12 DEF Shape
  <2>3. CASE k = p
    <3>1. L2[k] = (IF L[p] = n THEN r ELSE L[k]) /\ R2[k] = (IF R[p] = n THEN r ELSE R[k])
      BY <1>8, <1>12, <2>3
    <3>2. L[k] \in Node /\ R[k] \in Node
      BY <1>0 DEF Pointers
    <3> QED
      BY <2>1, <2>2, <2>3, <3>1, <3>2, <1>5
  <2>4. CASE k # p
    <3>1. L2[k] = L[k] /\ R2[k] = R[k]
      BY <1>8, <1>12, <2>4
    <3>2. L[k] # n /\ R[k] # n
      BY <1>1, <2>4 DEF Shape
    <3>3. L[k] \in Node /\ R[k] \in Node
      BY <1>0 DEF Pointers
    <3> QED
      BY <2>1, <2>2, <3>1, <3>2, <3>3, <1>5
  <2> QED
    BY <2>3, <2>4
<1>13. /\ L2[n] = L[n] /\ R2[n] = rl /\ P2[n] = r
       /\ L2[r] = n /\ R2[r] = R[r] /\ P2[r] = p
       /\ rl # Nil => P2[rl] = n
  BY <1>1, <1>3, <1>8
<1>14. T[L[n]] = S[L[n]] /\ T[rl] = S[rl] /\ T[R[r]] = S[R[r]]
  <2>1. R[r] \in Node /\ R[r] # r /\ R[r] # n
    BY <1>0, <1>1, <1>2, <1>3, ShapeFacts DEF Pointers, Shape
  <2> QED
    BY <2>1, <1>1, <1>3, <1>5
<1>15. ASSUME NEW k \in Key
       PROVE  /\ T[k] = {k} \cup T[L2[k]] \cup T[R2[k]]
              /\ IsFiniteSet(T[k])
              /\ \A x \in T[L2[k]] : <<x, k>> \in less
              /\ \A x \in T[R2[k]] : <<k, x>> \in less
  <2>1. CASE k # n /\ k # r
    <3>1. /\ S[k] = {k} \cup S[L[k]] \cup S[R[k]] /\ IsFiniteSet(S[k])
          /\ \A x \in S[L[k]] : <<x, k>> \in less
          /\ \A x \in S[R[k]] : <<k, x>> \in less
      BY DEF Shape
    <3>2. T[k] = S[k] /\ T[L2[k]] = S[L[k]] /\ T[R2[k]] = S[R[k]]
      BY <1>12, <2>1
    <3> QED
      BY <3>1, <3>2
  <2>2. CASE k = n
    <3>1. T[L2[k]] = S[L[n]] /\ T[R2[k]] = S[rl]
      BY <2>2, <1>13, <1>14
    <3>2. T[k] = {k} \cup T[L2[k]] \cup T[R2[k]]
      BY <2>2, <3>1, <1>5
    <3>3. IsFiniteSet(S[n]) /\ T[k] \subseteq S[n]
      BY <1>1, <1>5, <1>6, <2>2 DEF Shape
    <3>4. IsFiniteSet(T[k])
      BY <3>3, FS_Subset
    <3>5. \A x \in S[L[n]] : <<x, n>> \in less
      BY <1>1 DEF Shape
    <3>6. \A x \in S[rl] : <<n, x>> \in less
      BY <1>1, <1>6 DEF Shape
    <3> QED
      BY <2>2, <3>1, <3>2, <3>4, <3>5, <3>6
  <2>3. CASE k = r
    <3>1. T[L2[k]] = {n} \cup S[L[n]] \cup S[rl] /\ T[R2[k]] = S[R[r]]
      BY <2>3, <1>5, <1>13, <1>14
    <3>2. T[k] = {k} \cup T[L2[k]] \cup T[R2[k]]
      BY <2>3, <3>1, <1>5, <1>6
    <3>3. IsFiniteSet(T[k])
      BY <2>3, <1>1, <1>5 DEF Shape
    <3>4. <<n, r>> \in less
      BY <1>1, <1>6 DEF Shape
    <3>5. \A x \in S[L[n]] : <<x, n>> \in less /\ x \in Key
      BY <1>0, <1>1 DEF Shape, Pointers
    <3>6. \A x \in S[L[n]] : <<x, r>> \in less
      BY <3>4, <3>5, <1>1 DEF Orders
    <3>7. \A x \in S[rl] : <<x, r>> \in less
      BY <1>1 DEF Shape
    <3>8. \A x \in S[R[r]] : <<r, x>> \in less
      BY <1>1 DEF Shape
    <3> QED
      BY <2>3, <3>1, <3>2, <3>3, <3>4, <3>6, <3>7, <3>8
  <2> QED
    BY <2>1, <2>2, <2>3
<1>16. ASSUME NEW k \in Key
       PROVE  /\ L2[k] # Nil => P2[L2[k]] = k
              /\ R2[k] # Nil => P2[R2[k]] = k
  <2>0. L[k] \in Node /\ R[k] \in Node /\ (L[k] # Nil => P[L[k]] = k) /\ (R[k] # Nil => P[R[k]] = k)
    BY <1>0 DEF Shape, Pointers
  <2>1. CASE k = n
    <3>1. L[n] # Nil => L[n] # rl
      BY <1>3a
    <3> QED
      BY <2>0, <2>1, <3>1, <1>1, <1>2, <1>3, <1>8, <1>13
  <2>2. CASE k = r
    <3>1. R[r] # Nil => R[r] # rl /\ R[r] # r /\ R[r] # n
      BY <1>1, <1>2, <1>3, <2>0, <2>2, ShapeFacts
    <3> QED
      BY <2>0, <2>2, <3>1, <1>1, <1>2, <1>3, <1>8, <1>13
  <2>3. CASE k = p
    <3>1. k # n /\ k # r
      BY <2>3, <1>3
    <3>2. L[p] # Nil /\ L[p] # n => L[p] # r /\ L[p] # rl
      BY <2>0, <2>3, <1>2, <1>3
    <3>3. R[p] # Nil /\ R[p] # n => R[p] # r /\ R[p] # rl
      BY <2>0, <2>3, <1>2, <1>3
    <3>4. L2[k] = (IF L[p] = n THEN r ELSE L[p]) /\ R2[k] = (IF R[p] = n THEN r ELSE R[p])
      BY <1>8, <2>3, <3>1
    <3>5. L2[k] # Nil => P2[L2[k]] = k
      <4>1. CASE L[p] = n
        BY <4>1, <3>4, <2>3, <1>13
      <4>2. CASE L[p] # n
        BY <4>2, <3>2, <3>4, <2>0, <2>3, <1>8
      <4> QED
        BY <4>1, <4>2
    <3>6. R2[k] # Nil => P2[R2[k]] = k
      <4>1. CASE R[p] = n
        BY <4>1, <3>4, <2>3, <1>13
      <4>2. CASE R[p] # n
        BY <4>2, <3>3, <3>4, <2>0, <2>3, <1>8
      <4> QED
        BY <4>1, <4>2
    <3> QED
      BY <3>5, <3>6
  <2>4. CASE k # n /\ k # r /\ k # p
    <3>1. L2[k] = L[k] /\ R2[k] = R[k]
      BY <2>4, <1>8
    <3>2. L[k] # Nil => L[k] # n /\ L[k] # r /\ L[k] # rl
      BY <2>0, <2>4, <1>2
    <3>3. R[k] # Nil => R[k] # n /\ R[k] # r /\ R[k] # rl
      BY <2>0, <2>4, <1>2
    <3> QED
      BY <2>0, <3>1, <3>2, <3>3, <1>8
  <2> QED
    BY <2>1, <2>2, <2>3, <2>4
<1>17. ASSUME NEW k \in Key, P2[k] # Nil PROVE k = L2[P2[k]] \/ k = R2[P2[k]]
  <2>1. CASE k = n
    BY <2>1, <1>13
  <2>2. CASE k = r
    <3>1. P2[k] = p /\ p \in Key /\ p # n /\ p # r
      BY <2>2, <1>1, <1>3, <1>13, <1>17
    <3> QED
      BY <2>2, <3>1, <1>3b, <1>8
  <2>3. CASE k # n /\ k # r /\ k = rl
    BY <2>3, <1>1, <1>13
  <2>4. CASE k # n /\ k # r /\ k # rl
    <3>1. P2[k] = P[k]
      BY <2>4, <1>8
    <3>2. P[k] \in Key /\ (k = L[P[k]] \/ k = R[P[k]])
      BY <3>1, <1>0, <1>17 DEF Shape, Pointers
    <3>3. CASE P[k] = r
      BY <3>1, <3>2, <3>3, <2>4, <1>13
    <3>4. CASE P[k] = n
      BY <3>1, <3>2, <3>4, <2>4, <1>13
    <3>5. CASE P[k] # r /\ P[k] # n
      <4>1. k = L[P[k]] => k = L2[P[k]]
        BY <3>2, <3>5, <2>4, <1>8
      <4>2. k = R[P[k]] => k = R2[P[k]]
        BY <3>2, <3>5, <2>4, <1>8
      <4> QED
        BY <3>1, <3>2, <4>1, <4>2
    <3> QED
      BY <3>3, <3>4, <3>5
  <2> QED
    BY <2>1, <2>2, <2>3, <2>4
<1>18. S[n] \subseteq S[root] /\ r \in S[root] /\ (p # Nil => p \in S[root])
       /\ (rl # Nil => rl \in S[root])
  <2>1. S[n] \subseteq S[root]
    BY <1>1 DEF Shape
  <2>2. r \in S[n] /\ (rl # Nil => rl \in S[r])
    BY <1>1, ShapeFacts
  <2>3. S[r] \subseteq S[n]
    BY <1>6
  <2>4. p # Nil => p \in S[root]
    BY <1>1, ShapeFacts
  <2> QED
    BY <2>1, <2>2, <2>3, <2>4
<1>19. ASSUME NEW k \in Key, k \notin S[root] PROVE L2[k] = Nil /\ R2[k] = Nil /\ P2[k] = Nil
  <2>1. k # n /\ k # r /\ k # p /\ k # rl
    BY <1>18, <1>19
  <2>2. L[k] = Nil /\ R[k] = Nil /\ P[k] = Nil
    BY <1>19 DEF Shape
  <2> QED
    BY <2>1, <2>2, <1>8
<1>20. \A k \in Key : \A x \in S[k] : x \in Key /\ S[x] \subseteq S[k] /\ (x # k => P[x] \in S[k])
  BY <1>0 DEF Shape, Pointers
<1>21. ASSUME NEW k \in Key, NEW x \in T[k] PROVE T[x] \subseteq T[k]
  <2>1. T[n] \subseteq S[n]
    BY <1>5, <1>6
  <2>2. x \in Key
    BY <1>4
  <2>3. CASE k # n /\ k # r
    <3>1. x \in S[k] /\ T[k] = S[k]
      BY <2>3, <1>5
    <3>2. CASE x = n
      BY <3>1, <3>2, <2>1, <1>20
    <3>3. CASE x = r
      <4>1. P[r] \in S[k]
        BY <2>3, <3>1, <3>3, <1>20
      <4> QED
        BY <4>1, <3>1, <3>3, <1>2, <1>5, <1>20
    <3>4. CASE x # n /\ x # r
      BY <3>1, <3>4, <2>2, <1>5, <1>20
    <3> QED
      BY <3>2, <3>3, <3>4
  <2>4. CASE k = n
    <3>0. r \notin S[L[n]] /\ r \notin S[rl] /\ n \notin S[L[n]] /\ n \notin S[r]
      BY <1>1, ShapeFacts
    <3>1. x = n \/ (x \in S[L[n]] /\ x # n /\ x # r) \/ (x \in S[rl] /\ x # n /\ x # r)
      BY <2>4, <3>0, <1>3, <1>5, <1>6
    <3>2. CASE x = n
      BY <3>2, <2>4
    <3>3. CASE x \in S[L[n]] /\ x # n /\ x # r
      <4>1. S[x] \subseteq S[L[n]]
        <5>1. L[n] \in Key
          BY <3>3, <1>1 DEF Shape
        <5> QED
          BY <5>1, <3>3, <1>20
      <4> QED
        BY <4>1, <3>3, <2>2, <2>4, <1>5
    <3>4. CASE x \in S[rl] /\ x # n /\ x # r
      <4>1. S[x] \subseteq S[rl]
        <5>1. rl \in Key
          BY <3>4, <1>1 DEF Shape
        <5> QED
          BY <5>1, <3>4, <1>20
      <4> QED
        BY <4>1, <3>4, <2>2, <2>4, <1>5
    <3> QED
      BY <3>1, <3>2, <3>3, <3>4
  <2>5. CASE k = r
    <3>1. x \in S[n] /\ T[k] = S[n]
      BY <2>5, <1>5
    <3>2. S[x] \subseteq S[n]
      BY <3>1, <1>1, <1>20
    <3> QED
      BY <2>1, <2>2, <3>1, <3>2, <1>5
  <2> QED
    BY <2>3, <2>4, <2>5
<1>22. ASSUME NEW k \in Key, NEW x \in T[k], x # k PROVE P2[x] \in T[k]
  <2>2. x \in Key
    BY <1>4
  <2>3. CASE k # n /\ k # r
    <3>1. x \in S[k] /\ T[k] = S[k] /\ P[x] \in S[k]
      BY <2>3, <1>5, <1>20, <1>22
    <3>2. CASE x = n
      <4>1. r \in S[n] /\ S[n] \subseteq S[k]
        BY <3>1, <3>2, <1>1, <1>20, ShapeFacts
      <4> QED
        BY <4>1, <3>1, <3>2, <1>13
    <3>3. CASE x = r
      <4>1. n \in S[k]
        BY <3>1, <3>3, <1>2
      <4>2. p \in S[k]
        BY <4>1, <2>3, <1>20
      <4> QED
        BY <4>2, <3>1, <3>3, <1>13
    <3>4. CASE x # n /\ x # r /\ x = rl
      <4>1. r \in S[k]
        BY <3>1, <3>4, <1>2, <2>2
      <4>2. n \in S[k]
        BY <4>1, <2>3, <1>2, <1>20
      <4> QED
        BY <4>2, <3>1, <3>4, <1>13, <2>2
    <3>5. CASE x # n /\ x # r /\ x # rl
      BY <3>1, <3>5, <2>2, <1>8
    <3> QED
      BY <3>2, <3>3, <3>4, <3>5
  <2>4. CASE k = n
    <3>0. r \notin S[L[n]] /\ r \notin S[rl] /\ n \notin S[L[n]] /\ n \notin S[r] /\ S[L[n]] \cap S[r] = {}
      BY <1>1, ShapeFacts
    <3>1. (x \in S[L[n]] /\ x # n /\ x # r) \/ (x \in S[rl] /\ x # n /\ x # r)
      BY <2>4, <3>0, <1>3, <1>5, <1>6, <1>22
    <3>3. CASE x \in S[L[n]] /\ x # n /\ x # r
      <4>0. L[n] \in Key
        BY <3>3, <1>1 DEF Shape
      <4>1. x # rl
        <5>1. rl # Nil => rl \in S[r]
          BY <1>1, ShapeFacts
        <5> QED
          BY <5>1, <2>2, <3>0, <3>3
      <4>2. P2[x] = P[x]
        BY <4>1, <3>3, <2>2, <1>8
      <4>3. CASE x = L[n]
        BY <4>2, <4>3, <2>4, <1>2, <1>5, <2>2
      <4>4. CASE x # L[n]
        <5>1. P[x] \in S[L[n]]
          BY <4>0, <4>4, <3>3, <1>20
        <5> QED
          BY <5>1, <4>2, <2>4, <1>5
      <4> QED
        BY <4>3, <4>4
    <3>4. CASE x \in S[rl] /\ x # n /\ x # r
      <4>0. rl \in Key
        BY <3>4, <1>1 DEF Shape
      <4>3. CASE x = rl
        BY <4>0, <4>3, <2>4, <1>13, <1>5
      <4>4. CASE x # rl
        <5>1. P[x] \in S[rl]
          BY <4>0, <4>4, <3>4, <1>20
        <5>2. P2[x] = P[x]
          BY <4>4, <3>4, <2>2, <1>8
        <5> QED
          BY <5>1, <5>2, <2>4, <1>5
      <4> QED
        BY <4>3, <4>4
    <3> QED
      BY <3>1, <3>3, <3>4
  <2>5. CASE k = r
    <3>1. x \in S[n] /\ T[k] = S[n] /\ r \in S[n] /\ n \in S[n]
      BY <2>5, <1>1, <1>5, ShapeFacts
    <3>2. CASE x = n
      BY <3>1, <3>2, <1>13
    <3>3. CASE x # n /\ x = rl
      BY <3>1, <3>3, <1>13, <2>2
    <3>4. CASE x # n /\ x # rl
      <4>1. P[x] \in S[n]
        BY <3>1, <3>4, <1>1, <1>20
      <4>2. P2[x] = P[x]
        BY <3>4, <2>2, <2>5, <1>8, <1>22
      <4> QED
        BY <4>1, <4>2, <3>1
    <3> QED
      BY <3>2, <3>3, <3>4
  <2> QED
    BY <2>3, <2>4, <2>5
<1>23. Pointers(root2, L2, R2, P2, T)
  BY <1>4, <1>7 DEF Pointers
<1>24. ASSUME NEW k \in Key, k \notin T[root2] PROVE L2[k] = Nil /\ R2[k] = Nil /\ P2[k] = Nil
  BY <1>10, <1>19, <1>24
<1>25. Shape(root2, L2, R2, P2, T, less)
  BY <1>9, <1>11, <1>15, <1>16, <1>17, <1>21, <1>22, <1>23, <1>24 DEF Shape
<1> QED
  BY <1>10, <1>25 DEF T

-----------------------------------------------------------------------------
(***************************************************************************)
(* Taking a node out.                                                      *)
(***************************************************************************)

\* The pointers after a node without L child has been bypassed.
Unlinked(root, L, R, P, n, root2, L2, R2, P2) ==
  LET p == P[n] c == R[n] IN
  /\ root2 = IF p = Nil THEN c ELSE root
  /\ L2 \in [Key -> Node] /\ R2 \in [Key -> Node] /\ P2 \in [Key -> Node]
  /\ \A k \in Key :
       /\ L2[k] = IF k = n THEN Nil ELSE IF k = p /\ L[p] = n THEN c ELSE L[k]
       /\ R2[k] = IF k = n THEN Nil ELSE IF k = p /\ R[p] = n THEN c ELSE R[k]
       /\ P2[k] = IF k = n THEN Nil ELSE IF k = c THEN p ELSE P[k]

\* The subtrees without the key n.
SetsWithout(S, n) == [x \in Node |-> IF x = n THEN {n} ELSE S[x] \ {n}]

\* Bypassing a node leaves a search tree of the other keys.
LEMMA UnlinkKeepsShape ==
  ASSUME NEW root, NEW L, NEW R, NEW P, NEW S, NEW less,
         Shape(root, L, R, P, S, less), Orders(less),
         NEW n \in S[root], L[n] = Nil,
         NEW root2, NEW L2, NEW R2, NEW P2,
         Unlinked(root, L, R, P, n, root2, L2, R2, P2)
  PROVE  /\ Shape(root2, L2, R2, P2, SetsWithout(S, n), less)
         /\ SetsWithout(S, n)[root2] = S[root] \ {n}
<1> USE KeyAssumption DEF Node
<1> DEFINE p == P[n]  c == R[n]
           T == SetsWithout(S, n)
<1>0. Pointers(root, L, R, P, S)
  BY DEF Shape
<1>1. root \in Key /\ n \in Key /\ c \in Node /\ p \in Node
  BY <1>0 DEF Shape, Pointers
<1>2. c # Nil => P[c] = n
  BY <1>1 DEF Shape
<1>3. p # n /\ c # n /\ (c # Nil => c # p)
  <2>1. p # n /\ c # n
    BY <1>1, ShapeFacts
  <2>2. c # Nil => c # p
    <3>1. c # Nil => c \in S[n]
      BY <1>1, ShapeFacts
    <3>2. p # Nil => p \notin S[n]
      BY <1>1, ShapeFacts
    <3> QED
      BY <3>1, <3>2
  <2> QED
    BY <2>1, <2>2
<1>4. p # Nil => /\ n = L[p] \/ n = R[p]
                 /\ ~ (n = L[p] /\ n = R[p])
  <2>1. p # Nil => n = L[p] \/ n = R[p]
    BY <1>1 DEF Shape
  <2>2. p # Nil => ~ (n = L[p] /\ n = R[p])
    BY <1>1, ShapeFacts
  <2> QED
    BY <2>1, <2>2
<1>5. T \in [Node -> SUBSET Key] /\ T[n] = {n} /\ T[Nil] = {}
      /\ \A x \in Node : x # n => T[x] = S[x] \ {n}
  BY <1>0, <1>1 DEF SetsWithout, Shape, Pointers
<1> HIDE DEF T
<1>6. root2 \in Node /\ L2 \in [Key -> Node] /\ R2 \in [Key -> Node] /\ P2 \in [Key -> Node]
  BY <1>0, <1>1 DEF Unlinked, Pointers
<1>7. /\ root2 = IF p = Nil THEN c ELSE root
      /\ \A k \in Key :
           /\ L2[k] = IF k = n THEN Nil ELSE IF k = p /\ L[p] = n THEN c ELSE L[k]
           /\ R2[k] = IF k = n THEN Nil ELSE IF k = p /\ R[p] = n THEN c ELSE R[k]
           /\ P2[k] = IF k = n THEN Nil ELSE IF k = c THEN p ELSE P[k]
  BY DEF Unlinked
<1>8. S[n] = {n} \cup S[c] /\ n \notin S[c]
  <2>1. S[Nil] = {} /\ S[n] = {n} \cup S[L[n]] \cup S[R[n]]
    BY <1>1 DEF Shape
  <2>2. n \notin S[R[n]]
    BY <1>1, ShapeFacts
  <2> QED
    BY <2>1, <2>2
<1>9. p = Nil <=> n = root
  BY <1>1, ShapeFacts
<1>10. T[root2] = S[root] \ {n}
  BY <1>1, <1>3, <1>5, <1>7, <1>8, <1>9
<1>11. root2 # Nil => P2[root2] = Nil
  <2>1. CASE p = Nil
    BY <2>1, <1>1, <1>3, <1>7
  <2>2. CASE p # Nil
    <3>1. root2 = root /\ root # n /\ P[root] = Nil
      BY <2>2, <1>1, <1>7, <1>9 DEF Shape
    <3>2. root # c
      BY <3>1, <1>1, <1>2
    <3> QED
      BY <3>1, <3>2, <1>1, <1>7
  <2> QED
    BY <2>1, <2>2
<1>12. ASSUME NEW k \in Key, k # n
       PROVE  T[k] = S[k] \ {n} /\ T[L2[k]] = S[L[k]] \ {n} /\ T[R2[k]] = S[R[k]] \ {n}
  <2>0. T[c] = S[n] \ {n}
    BY <1>1, <1>3, <1>5, <1>8
  <2>1. L[k] \in Node /\ R[k] \in Node
    BY <1>0 DEF Pointers
  <2>2. (L[k] = n => k = p) /\ (R[k] = n => k = p)
    BY <1>1 DEF Shape
  <2>3. T[L2[k]] = S[L[k]] \ {n}
    BY <2>0, <2>1, <2>2, <1>1, <1>5, <1>7, <1>12
  <2>4. T[R2[k]] = S[R[k]] \ {n}
    BY <2>0, <2>1, <2>2, <1>1, <1>5, <1>7, <1>12
  <2> QED
    BY <2>3, <2>4, <1>5, <1>12
<1>13. L2[n] = Nil /\ R2[n] = Nil /\ P2[n] = Nil /\ (c # Nil => P2[c] = p)
  BY <1>1, <1>3, <1>7
<1>14. ASSUME NEW k \in Key
       PROVE  /\ T[k] = {k} \cup T[L2[k]] \cup T[R2[k]]
              /\ IsFiniteSet(T[k])
              /\ \A x \in T[L2[k]] : <<x, k>> \in less
              /\ \A x \in T[R2[k]] : <<k, x>> \in less
  <2>1. CASE k # n
    <3>1. /\ S[k] = {k} \cup S[L[k]] \cup S[R[k]] /\ IsFiniteSet(S[k])
          /\ \A x \in S[L[k]] : <<x, k>> \in less
          /\ \A x \in S[R[k]] : <<k, x>> \in less
      BY DEF Shape
    <3>2. T[k] = S[k] \ {n} /\ T[L2[k]] = S[L[k]] \ {n} /\ T[R2[k]] = S[R[k]] \ {n}
      BY <1>12, <2>1
    <3>3. IsFiniteSet(S[k] \ {n})
      <4>1. S[k] \ {n} \subseteq S[k]
        OBVIOUS
      <4> QED
        BY <3>1, <4>1, FS_Subset
    <3> QED
      BY <2>1, <3>1, <3>2, <3>3
  <2>2. CASE k = n
    <3>1. T[L2[k]] = {} /\ T[R2[k]] = {} /\ T[k] = {k}
      BY <2>2, <1>5, <1>13
    <3>2. IsFiniteSet({k})
      BY FS_Singleton
    <3> QED
      BY <3>1, <3>2
  <2> QED
    BY <2>1, <2>2
<1>15. ASSUME NEW k \in Key
       PROVE  /\ L2[k] # Nil => P2[L2[k]] = k
              /\ R2[k] # Nil => P2[R2[k]] = k
  <2>0. L[k] \in Node /\ R[k] \in Node /\ (L[k] # Nil => P[L[k]] = k) /\ (R[k] # Nil => P[R[k]] = k)
    BY <1>0 DEF Shape, Pointers
  <2>1. CASE k = n
    BY <2>1, <1>13
  <2>2. CASE k # n /\ L[k] # n
    <3>1. L2[k] = L[k] /\ (L[k] # Nil => L[k] # c)
      BY <2>0, <2>2, <1>2, <1>7
    <3>2. L2[k] # Nil => P2[L2[k]] = k
      BY <2>0, <2>2, <3>1, <1>7
    <3>3. R2[k] # Nil => P2[R2[k]] = k
      <4>1. CASE R[k] = n
        BY <2>0, <2>2, <4>1, <1>1, <1>7, <1>13
      <4>2. CASE R[k] # n
        <5>1. R2[k] = R[k] /\ (R[k] # Nil => R[k] # c)
          BY <2>0, <2>2, <4>2, <1>2, <1>7
        <5> QED
          BY <2>0, <4>2, <5>1, <1>7
      <4> QED
        BY <4>1, <4>2
    <3> QED
      BY <3>2, <3>3
  <2>3. CASE k # n /\ L[k] = n
    <3>1. L2[k] = c /\ k = p
      BY <2>0, <2>3, <1>1, <1>7
    <3>2. L2[k] # Nil => P2[L2[k]] = k
      BY <3>1, <1>13
    <3>3. R[k] # n
      BY <2>3, <3>1, <1>4
    <3>4. R2[k] = R[k] /\ (R[k] # Nil => R[k] # c)
      BY <2>0, <2>3, <3>3, <1>2, <1>7
    <3>5. R2[k] # Nil => P2[R2[k]] = k
      BY <2>0, <3>3, <3>4, <1>7
    <3> QED
      BY <3>2, <3>5
  <2> QED
    BY <2>1, <2>2, <2>3
<1>16. ASSUME NEW k \in Key, P2[k] # Nil PROVE k = L2[P2[k]] \/ k = R2[P2[k]]
  <2>1. k # n
    BY <1>13, <1>16
  <2>2. CASE k = c
    <3>1. P2[k] = p /\ p \in Key /\ p # n
      BY <2>2, <1>1, <1>3, <1>13, <1>16
    <3> QED
      BY <2>2, <3>1, <1>4, <1>7
  <2>3. CASE k # c
    <3>1. P2[k] = P[k]
      BY <2>1, <2>3, <1>7
    <3>2. P[k] \in Key /\ (k = L[P[k]] \/ k = R[P[k]])
      BY <3>1, <1>0, <1>16 DEF Shape, Pointers
    <3>3. P[k] # n
      BY <2>3, <3>2
    <3> QED
      BY <2>1, <3>1, <3>2, <3>3, <1>7
  <2> QED
    BY <2>2, <2>3
<1>17. ASSUME NEW k \in Key, k \notin T[root2] PROVE L2[k] = Nil /\ R2[k] = Nil /\ P2[k] = Nil
  <2>1. CASE k = n
    BY <2>1, <1>13
  <2>2. CASE k # n
    <3>1. k \notin S[root]
      BY <2>2, <1>10, <1>17
    <3>2. L[k] = Nil /\ R[k] = Nil /\ P[k] = Nil
      BY <3>1 DEF Shape
    <3>3. k # p
      BY <3>1, <1>1, ShapeFacts
    <3>4. k # c
      BY <3>2, <1>1, <1>2
    <3> QED
      BY <2>2, <3>2, <3>3, <3>4, <1>7
  <2> QED
    BY <2>1, <2>2
<1>18. \A k \in Key : \A x \in S[k] : x \in Key /\ S[x] \subseteq S[k] /\ (x # k => P[x] \in S[k])
  BY <1>0 DEF Shape, Pointers
<1>19. ASSUME NEW k \in Key, NEW x \in T[k] PROVE T[x] \subseteq T[k] /\ (x # k => P2[x] \in T[k])
  <2>1. x \in Key
    BY <1>5
  <2>2. CASE k = n
    BY <2>2, <1>5
  <2>3. CASE k # n
    <3>1. x \in S[k] /\ x # n /\ T[k] = S[k] \ {n} /\ T[x] = S[x] \ {n}
      BY <2>1, <2>3, <1>5
    <3>2. T[x] \subseteq T[k]
      BY <3>1, <1>18
    <3>3. ASSUME x # k PROVE P2[x] \in T[k]
      <4>0. P[x] \in S[k]
        BY <3>1, <3>3, <1>18
      <4>1. CASE x = c
        <5>1. n \in S[k]
          BY <4>0, <4>1, <1>2, <2>1
        <5>2. p \in S[k]
          BY <5>1, <2>3, <1>18
        <5> QED
          BY <4>1, <5>2, <3>1, <1>3, <1>13, <2>1
      <4>2. CASE x # c
        <5>1. P2[x] = P[x]
          BY <4>2, <3>1, <2>1, <1>7
        <5>2. P[x] # n
          <6>1. P[x] = n => x = L[n] \/ x = R[n]
            BY <2>1, <1>1 DEF Shape
          <6> QED
            BY <6>1, <4>2, <2>1
        <5> QED
          BY <5>1, <5>2, <4>0, <3>1
      <4> QED
        BY <4>1, <4>2
    <3> QED
      BY <3>2, <3>3
  <2> QED
    BY <2>2, <2>3
<1>20. Pointers(root2, L2, R2, P2, T)
  BY <1>5, <1>6 DEF Pointers
<1>21. Shape(root2, L2, R2, P2, T, less)
  BY <1>5, <1>11, <1>14, <1>15, <1>16, <1>17, <1>19, <1>20 DEF Shape
<1> QED
  BY <1>10, <1>21 DEF T

\* The pointers after m, which is in no tree, has taken the place of n.
Succeeded(root, L, R, P, n, m, root2, L2, R2, P2) ==
  /\ root2 = IF P[n] = Nil THEN m ELSE root
  /\ L2 \in [Key -> Node] /\ R2 \in [Key -> Node] /\ P2 \in [Key -> Node]
  /\ \A k \in Key :
       /\ L2[k] = IF k = m THEN L[n] ELSE IF k = n THEN Nil ELSE IF L[k] = n THEN m ELSE L[k]
       /\ R2[k] = IF k = m THEN R[n] ELSE IF k = n THEN Nil ELSE IF R[k] = n THEN m ELSE R[k]
       /\ P2[k] = IF k = m THEN P[n] ELSE IF k = n THEN Nil ELSE IF P[k] = n THEN m ELSE P[k]

\* The subtrees after that.
SetsSucceeded(S, n, m) ==
  [x \in Node |-> IF x = n THEN {n} ELSE IF x = m THEN (S[n] \ {n}) \cup {m}
                  ELSE IF n \in S[x] THEN (S[x] \ {n}) \cup {m} ELSE S[x]]

\* A key that fits everywhere n does may take the place of n.
LEMMA SuccessorKeepsShape ==
  ASSUME NEW root, NEW L, NEW R, NEW P, NEW S, NEW less,
         Shape(root, L, R, P, S, less), Orders(less),
         NEW n \in S[root], NEW m \in Key, m \notin S[root],
         \A k \in Key : n \in S[L[k]] => <<m, k>> \in less,
         \A k \in Key : n \in S[R[k]] => <<k, m>> \in less,
         \A x \in S[L[n]] : <<x, m>> \in less,
         \A x \in S[R[n]] : <<m, x>> \in less,
         NEW root2, NEW L2, NEW R2, NEW P2,
         Succeeded(root, L, R, P, n, m, root2, L2, R2, P2)
  PROVE  /\ Shape(root2, L2, R2, P2, SetsSucceeded(S, n, m), less)
         /\ SetsSucceeded(S, n, m)[root2] = (S[root] \ {n}) \cup {m}
<1> USE KeyAssumption DEF Node
<1> DEFINE T == SetsSucceeded(S, n, m)
<1>0. Pointers(root, L, R, P, S)
  BY DEF Shape
<1>1. root \in Key /\ n \in Key /\ P[n] \in Node /\ L[n] \in Node /\ R[n] \in Node /\ n # m
  BY <1>0 DEF Shape, Pointers
<1>2. L[m] = Nil /\ R[m] = Nil /\ P[m] = Nil
  BY DEF Shape
<1>3. \A k \in Key : L[k] \in Node /\ R[k] \in Node /\ P[k] \in Node
  BY <1>0 DEF Pointers
<1>4. \A k \in Key : L[k] # m /\ R[k] # m /\ P[k] # m
  <2> SUFFICES ASSUME NEW k \in Key PROVE L[k] # m /\ R[k] # m /\ P[k] # m
    OBVIOUS
  <2>1. L[k] # m /\ R[k] # m
    BY <1>2 DEF Shape
  <2>2. P[k] # m
    BY <1>2 DEF Shape
  <2> QED
    BY <2>1, <2>2
<1>5. /\ T \in [Node -> SUBSET Key] /\ T[n] = {n} /\ T[Nil] = {}
      /\ T[m] = (S[n] \ {n}) \cup {m}
      /\ \A x \in Node : x # n /\ x # m =>
           T[x] = IF n \in S[x] THEN (S[x] \ {n}) \cup {m} ELSE S[x]
  BY <1>0, <1>1 DEF SetsSucceeded, Shape, Pointers
<1> HIDE DEF T
<1>6. root2 \in Node /\ L2 \in [Key -> Node] /\ R2 \in [Key -> Node] /\ P2 \in [Key -> Node]
  BY <1>0, <1>1 DEF Succeeded, Pointers
<1>7. /\ root2 = IF P[n] = Nil THEN m ELSE root
      /\ \A k \in Key :
         /\ L2[k] = IF k = m THEN L[n] ELSE IF k = n THEN Nil ELSE IF L[k] = n THEN m ELSE L[k]
         /\ R2[k] = IF k = m THEN R[n] ELSE IF k = n THEN Nil ELSE IF R[k] = n THEN m ELSE R[k]
         /\ P2[k] = IF k = m THEN P[n] ELSE IF k = n THEN Nil ELSE IF P[k] = n THEN m ELSE P[k]
  BY DEF Succeeded
<1>8. P[n] = Nil <=> n = root
  BY <1>1, ShapeFacts
<1>9. n \in S[n] /\ n \notin S[L[n]] /\ n \notin S[R[n]] /\ L[n] # n /\ R[n] # n /\ P[n] # n
  BY <1>1, ShapeFacts
<1>10. T[root2] = (S[root] \ {n}) \cup {m}
  <2>1. CASE n = root
    BY <2>1, <1>5, <1>7, <1>8
  <2>2. CASE n # root
    <3>1. root2 = root
      BY <2>2, <1>7, <1>8
    <3>2. root # m
      BY <1>1, ShapeFacts
    <3> QED
      BY <2>2, <3>1, <3>2, <1>1, <1>5
  <2> QED
    BY <2>1, <2>2
<1>11. root2 # Nil => P2[root2] = Nil
  <2>1. CASE P[n] = Nil
    BY <2>1, <1>1, <1>7
  <2>2. CASE P[n] # Nil
    <3>1. root2 = root /\ root # n /\ P[root] = Nil
      BY <2>2, <1>1, <1>7, <1>8 DEF Shape
    <3>2. root # m
      BY <1>1, ShapeFacts
    <3> QED
      BY <3>1, <3>2, <1>1, <1>7
  <2> QED
    BY <2>1, <2>2
<1>12. \A k \in Key : \A x \in S[k] : x \in Key /\ S[x] \subseteq S[k] /\ (x # k => P[x] \in S[k])
  BY <1>0 DEF Shape, Pointers
<1>13. \A k \in Key : k # m => m \notin S[k]
  <2> SUFFICES ASSUME NEW k \in Key, k # m, m \in S[k] PROVE FALSE
    OBVIOUS
  <2>1. P[m] \in S[k]
    BY <1>12
  <2> QED
    BY <2>1, <1>0, <1>2 DEF Pointers
<1>14. ASSUME NEW k \in Key, NEW c \in {L[k], R[k]}, k # m
       PROVE  T[IF c = n THEN m ELSE c] = IF n \in S[c] THEN (S[c] \ {n}) \cup {m} ELSE S[c]
  <2>1. c \in Node /\ c # m
    BY <1>3, <1>4
  <2> QED
    BY <2>1, <1>5, <1>9
<1>15. ASSUME NEW k \in Key
       PROVE  /\ T[k] = {k} \cup T[L2[k]] \cup T[R2[k]]
              /\ IsFiniteSet(T[k])
              /\ \A x \in T[L2[k]] : <<x, k>> \in less
              /\ \A x \in T[R2[k]] : <<k, x>> \in less
  <2>0. /\ S[k] = {k} \cup S[L[k]] \cup S[R[k]] /\ IsFiniteSet(S[k])
        /\ \A x \in S[L[k]] : <<x, k>> \in less
        /\ \A x \in S[R[k]] : <<k, x>> \in less
    BY DEF Shape
  <2>1. CASE k # n /\ k # m
    <3>1. T[k] = IF n \in S[k] THEN (S[k] \ {n}) \cup {m} ELSE S[k]
      BY <1>5, <2>1
    <3>2. L2[k] = IF L[k] = n THEN m ELSE L[k]
      BY <1>7, <2>1
    <3>3. R2[k] = IF R[k] = n THEN m ELSE R[k]
      BY <1>7, <2>1
    <3>4. T[L2[k]] = IF n \in S[L[k]] THEN (S[L[k]] \ {n}) \cup {m} ELSE S[L[k]]
      BY <1>14, <2>1, <3>2
    <3>5. T[R2[k]] = IF n \in S[R[k]] THEN (S[R[k]] \ {n}) \cup {m} ELSE S[R[k]]
      BY <1>14, <2>1, <3>3
    <3>6. T[k] = {k} \cup T[L2[k]] \cup T[R2[k]]
      BY <2>0, <2>1, <3>1, <3>4, <3>5
    <3>7. IsFiniteSet(T[k])
      <4>1. IsFiniteSet(S[k] \cup {m})
        BY <2>0, FS_AddElement
      <4>2. T[k] \subseteq S[k] \cup {m}
        BY <3>1
      <4> QED
        BY <4>1, <4>2, FS_Subset
    <3> QED
      BY <2>0, <3>4, <3>5, <3>6, <3>7
  <2>2. CASE k = n
    <3>1. T[L2[k]] = {} /\ T[R2[k]] = {} /\ T[k] = {k}
      BY <2>2, <1>1, <1>5, <1>7
    <3>2. IsFiniteSet({k})
      BY FS_Singleton
    <3> QED
      BY <3>1, <3>2
  <2>3. CASE k = m
    <3>1. L2[k] = L[n] /\ R2[k] = R[n]
      BY <1>1, <1>7, <2>3
    <3>2. T[L[n]] = S[L[n]] /\ T[R[n]] = S[R[n]]
      BY <1>1, <1>4, <1>5, <1>9
    <3>3. S[n] = {n} \cup S[L[n]] \cup S[R[n]] /\ IsFiniteSet(S[n])
      BY <1>1 DEF Shape
    <3>4. T[k] = {k} \cup T[L2[k]] \cup T[R2[k]]
      BY <2>3, <3>1, <3>2, <3>3, <1>5, <1>9
    <3>5. IsFiniteSet(T[k])
      <4>1. IsFiniteSet(S[n] \cup {m})
        BY <3>3, FS_AddElement
      <4>2. T[k] \subseteq S[n] \cup {m}
        BY <2>3, <1>5
      <4> QED
        BY <4>1, <4>2, FS_Subset
    <3> QED
      BY <2>3, <3>1, <3>2, <3>4, <3>5
  <2> QED
    BY <2>1, <2>2, <2>3
<1>16. ASSUME NEW k \in Key
       PROVE  /\ L2[k] # Nil => P2[L2[k]] = k
              /\ R2[k] # Nil => P2[R2[k]] = k
  <2>0. /\ L[k] # Nil => P[L[k]] = k
        /\ R[k] # Nil => P[R[k]] = k
        /\ L[n] # Nil => P[L[n]] = n
        /\ R[n] # Nil => P[R[n]] = n
    BY <1>1 DEF Shape
  <2>1. CASE k = n
    BY <2>1, <1>1, <1>7
  <2>2. CASE k = m
    <3>1. L2[k] = L[n] /\ R2[k] = R[n]
      BY <1>1, <1>7, <2>2
    <3> QED
      BY <2>0, <2>2, <3>1, <1>1, <1>4, <1>7, <1>9
  <2>3. CASE k # n /\ k # m
    <3>1. L2[k] = (IF L[k] = n THEN m ELSE L[k]) /\ R2[k] = (IF R[k] = n THEN m ELSE R[k])
      BY <1>7, <2>3
    <3>2. P2[m] = P[n]
      BY <1>7
    <3>3. L2[k] # Nil => P2[L2[k]] = k
      BY <2>0, <2>3, <3>1, <3>2, <1>1, <1>3, <1>4, <1>7
    <3>4. R2[k] # Nil => P2[R2[k]] = k
      BY <2>0, <2>3, <3>1, <3>2, <1>1, <1>3, <1>4, <1>7
    <3> QED
      BY <3>3, <3>4
  <2> QED
    BY <2>1, <2>2, <2>3
<1>17. ASSUME NEW k \in Key, P2[k] # Nil PROVE k = L2[P2[k]] \/ k = R2[P2[k]]
  <2>0. P[k] # Nil => P[k] \in Key /\ (k = L[P[k]] \/ k = R[P[k]])
    BY <1>3 DEF Shape
  <2>1. CASE k = n
    BY <2>1, <1>1, <1>7, <1>17
  <2>2. CASE k = m
    <3>1. P2[k] = P[n] /\ P[n] \in Key /\ P[n] # m /\ P[n] # n
      BY <2>2, <1>1, <1>4, <1>7, <1>9, <1>17
    <3>2. n = L[P[n]] \/ n = R[P[n]]
      BY <3>1, <1>1 DEF Shape
    <3> QED
      BY <2>2, <3>1, <3>2, <1>7
  <2>3. CASE k # n /\ k # m /\ P[k] = n
    BY <2>0, <2>3, <1>1, <1>7
  <2>4. CASE k # n /\ k # m /\ P[k] # n
    <3>1. P2[k] = P[k]
      BY <2>4, <1>7
    <3>2. P[k] # m
      BY <1>4
    <3> QED
      BY <2>0, <2>4, <3>1, <3>2, <1>7, <1>17
  <2> QED
    BY <2>1, <2>2, <2>3, <2>4
<1>18. ASSUME NEW k \in Key, k \notin T[root2] PROVE L2[k] = Nil /\ R2[k] = Nil /\ P2[k] = Nil
  <2>1. CASE k = n
    BY <2>1, <1>1, <1>7
  <2>2. CASE k # n
    <3>1. k # m /\ k \notin S[root]
      BY <2>2, <1>10, <1>18
    <3>2. L[k] = Nil /\ R[k] = Nil /\ P[k] = Nil
      BY <3>1 DEF Shape
    <3> QED
      BY <2>2, <3>1, <3>2, <1>1, <1>7
  <2> QED
    BY <2>1, <2>2
<1>19. ASSUME NEW k \in Key, NEW x \in T[k] PROVE T[x] \subseteq T[k] /\ (x # k => P2[x] \in T[k])
  <2>1. x \in Key
    BY <1>5
  <2>2. CASE k = n
    BY <2>2, <1>5
  <2>3. CASE k = m
    <3>1. CASE x = m
      BY <2>3, <3>1
    <3>2. CASE x # m
      <4>1. x \in S[n] /\ x # n
        BY <2>3, <3>2, <1>5
      <4>2. n \notin S[x]
        <5>1. x \in S[L[n]] \/ x \in S[R[n]]
          BY <4>1, <1>1 DEF Shape
        <5>2. S[x] \subseteq S[L[n]] \/ S[x] \subseteq S[R[n]]
          <6>1. x \in S[L[n]] => L[n] \in Key
            BY <1>1 DEF Shape
          <6>2. x \in S[R[n]] => R[n] \in Key
            BY <1>1 DEF Shape
          <6> QED
            BY <5>1, <6>1, <6>2, <1>12
        <5> QED
          BY <5>2, <1>9
      <4>3. T[x] = S[x] /\ S[x] \subseteq S[n]
        BY <4>1, <4>2, <3>2, <2>1, <1>1, <1>5, <1>12
      <4>4. T[x] \subseteq T[k]
        BY <4>2, <4>3, <2>3, <1>5
      <4>5. P[x] \in S[n]
        BY <4>1, <1>1, <1>12
      <4>6. P2[x] = IF P[x] = n THEN m ELSE P[x]
        BY <2>1, <3>2, <4>1, <1>7
      <4> QED
        BY <4>4, <4>5, <4>6, <2>3, <1>5
    <3> QED
      BY <3>1, <3>2
  <2>4. CASE k # n /\ k # m
    <3>0. T[k] = IF n \in S[k] THEN (S[k] \ {n}) \cup {m} ELSE S[k]
      BY <1>5, <2>4
    <3>1. CASE x = m
      <4>1. n \in S[k]
        BY <3>0, <3>1, <2>4, <1>13
      <4>2. S[n] \subseteq S[k] /\ P[n] \in S[k]
        BY <4>1, <2>4, <1>12
      <4>3. T[x] \subseteq T[k]
        BY <3>0, <3>1, <4>1, <4>2, <1>5
      <4>4. P2[x] = P[n]
        BY <3>1, <1>7
      <4> QED
        BY <4>1, <4>2, <4>3, <4>4, <3>0, <1>9
    <3>2. CASE x = n
      <4>1. n \notin T[k]
        BY <3>0, <1>1
      <4> QED
        BY <3>2, <4>1
    <3>3. CASE x # m /\ x # n
      <4>1. x \in S[k]
        BY <3>0, <3>3
      <4>2. S[x] \subseteq S[k]
        BY <4>1, <1>12
      <4>3. T[x] = IF n \in S[x] THEN (S[x] \ {n}) \cup {m} ELSE S[x]
        BY <3>3, <2>1, <1>5
      <4>4. T[x] \subseteq T[k]
        BY <4>2, <4>3, <3>0
      <4>5. ASSUME x # k PROVE P2[x] \in T[k]
        <5>1. P[x] \in S[k]
          BY <4>1, <4>5, <1>12
        <5>2. P2[x] = IF P[x] = n THEN m ELSE P[x]
          BY <2>1, <3>3, <1>7
        <5> QED
          BY <5>1, <5>2, <3>0
      <4> QED
        BY <4>4, <4>5
    <3> QED
      BY <3>1, <3>2, <3>3
  <2> QED
    BY <2>2, <2>3, <2>4
<1>20. Pointers(root2, L2, R2, P2, T)
  BY <1>5, <1>6 DEF Pointers
<1>21. Shape(root2, L2, R2, P2, T, less)
  BY <1>5, <1>11, <1>15, <1>16, <1>17, <1>18, <1>19, <1>20 DEF Shape
<1> QED
  BY <1>10, <1>21 DEF T

-----------------------------------------------------------------------------
(***************************************************************************)
(* Hanging a new node.                                                     *)
(***************************************************************************)

\* The subtrees with the new key k below a.
SetsWith(S, a, k) == [x \in Node |-> IF a \in S[x] THEN S[x] \cup {k} ELSE S[x]]

\* The pointers after x has been hung at a, on the side L.
Hung(L, R, P, a, x, L2, R2, P2) ==
  /\ L2 = [L EXCEPT ![a] = x]
  /\ R2 = R
  /\ P2 = [P EXCEPT ![x] = a]

\* x belongs on the free side L of a, also as seen from the nodes above a.
Fits(L, R, S, less, a, x) ==
  /\ L[a] = Nil
  /\ <<x, a>> \in less
  /\ \A k \in Key : a \in S[L[k]] => <<x, k>> \in less
  /\ \A k \in Key : a \in S[R[k]] => <<k, x>> \in less

\* Hanging a key where it fits leaves a search tree with that key.
LEMMA HangingKeepsShape ==
  ASSUME NEW root, NEW L, NEW R, NEW P, NEW S, NEW less,
         Shape(root, L, R, P, S, less), Orders(less),
         NEW a \in S[root], NEW x \in Key, x \notin S[root],
         Fits(L, R, S, less, a, x),
         NEW L2, NEW R2, NEW P2, Hung(L, R, P, a, x, L2, R2, P2)
  PROVE  /\ Shape(root, L2, R2, P2, SetsWith(S, a, x), less)
         /\ SetsWith(S, a, x)[root] = S[root] \cup {x}
<1> USE KeyAssumption DEF Node, Fits
<1> DEFINE T == SetsWith(S, a, x)
<1>0. Pointers(root, L, R, P, S)
  BY DEF Shape
<1>1. root \in Key /\ a \in Key /\ a # x
  BY <1>0 DEF Shape, Pointers
<1>2. L[x] = Nil /\ R[x] = Nil /\ P[x] = Nil
  BY DEF Shape
<1>3. \A k \in Key : L[k] \in Node /\ R[k] \in Node /\ P[k] \in Node
  BY <1>0 DEF Pointers
<1>4. \A k \in Key : L[k] # x /\ R[k] # x /\ P[k] # x
  <2> SUFFICES ASSUME NEW k \in Key PROVE L[k] # x /\ R[k] # x /\ P[k] # x
    OBVIOUS
  <2>1. L[k] # x /\ R[k] # x
    BY <1>2 DEF Shape
  <2>2. P[k] # x
    BY <1>2 DEF Shape
  <2> QED
    BY <2>1, <2>2
<1>5. /\ T \in [Node -> SUBSET Key] /\ T[Nil] = {}
      /\ \A y \in Node : T[y] = IF a \in S[y] THEN S[y] \cup {x} ELSE S[y]
  BY <1>0, <1>1 DEF SetsWith, Shape, Pointers
<1> HIDE DEF T
<1>6. L2 \in [Key -> Node] /\ R2 \in [Key -> Node] /\ P2 \in [Key -> Node]
  BY <1>0, <1>1 DEF Hung, Pointers
<1>7. \A k \in Key : /\ L2[k] = IF k = a THEN x ELSE L[k]
                     /\ R2[k] = R[k]
                     /\ P2[k] = IF k = x THEN a ELSE P[k]
  BY <1>0, <1>1 DEF Hung, Pointers
<1>8. S[x] = {x} /\ T[x] = {x}
  <2>1. S[x] = {x} \cup S[L[x]] \cup S[R[x]] /\ S[Nil] = {}
    BY DEF Shape
  <2>2. S[x] = {x}
    BY <1>2, <2>1
  <2> QED
    BY <1>1, <1>5, <2>2
<1>9. T[root] = S[root] \cup {x}
  BY <1>1, <1>5
<1>10. root # x /\ (root # Nil => P2[root] = Nil)
  <2>1. root # x
    BY <1>1, ShapeFacts
  <2> QED
    BY <2>1, <1>1, <1>7 DEF Shape
<1>12. \A k \in Key : \A y \in S[k] : y \in Key /\ S[y] \subseteq S[k] /\ (y # k => P[y] \in S[k])
  BY <1>0 DEF Shape, Pointers
<1>13. a \in S[a] /\ a \notin S[L[a]] /\ a \notin S[R[a]]
  BY <1>1, ShapeFacts
<1>14. \A k \in Key : k # x => x \notin S[k]
  <2> SUFFICES ASSUME NEW k \in Key, k # x, x \in S[k] PROVE FALSE
    OBVIOUS
  <2>1. P[x] \in S[k]
    BY <1>12
  <2> QED
    BY <2>1, <1>0, <1>2 DEF Pointers
<1>15. ASSUME NEW k \in Key
       PROVE  /\ T[k] = {k} \cup T[L2[k]] \cup T[R2[k]]
              /\ IsFiniteSet(T[k])
              /\ \A y \in T[L2[k]] : <<y, k>> \in less
              /\ \A y \in T[R2[k]] : <<k, y>> \in less
  <2>0. /\ S[k] = {k} \cup S[L[k]] \cup S[R[k]] /\ IsFiniteSet(S[k])
        /\ \A y \in S[L[k]] : <<y, k>> \in less
        /\ \A y \in S[R[k]] : <<k, y>> \in less
        /\ S[Nil] = {}
    BY DEF Shape
  <2>1. R2[k] = R[k] /\ T[R2[k]] = IF a \in S[R[k]] THEN S[R[k]] \cup {x} ELSE S[R[k]]
    BY <1>3, <1>5, <1>7
  <2>2. IsFiniteSet(T[k])
    <3>1. IsFiniteSet(S[k] \cup {x})
      BY <2>0, FS_AddElement
    <3>2. T[k] \subseteq S[k] \cup {x}
      BY <1>5
    <3> QED
      BY <3>1, <3>2, FS_Subset
  <2>3. \A y \in T[R2[k]] : <<k, y>> \in less
    BY <2>0, <2>1
  <2>4. CASE k = a
    <3>1. T[L2[k]] = {x}
      BY <2>4, <1>7, <1>8
    <3>2. T[k] = {k} \cup T[L2[k]] \cup T[R2[k]]
      BY <2>0, <2>1, <2>4, <3>1, <1>5, <1>13
    <3> QED
      BY <2>2, <2>3, <2>4, <3>1, <3>2
  <2>5. CASE k # a
    <3>1. T[L2[k]] = IF a \in S[L[k]] THEN S[L[k]] \cup {x} ELSE S[L[k]]
      BY <2>5, <1>3, <1>5, <1>7
    <3>2. T[k] = {k} \cup T[L2[k]] \cup T[R2[k]]
      BY <2>0, <2>1, <2>5, <3>1, <1>5
    <3> QED
      BY <2>0, <2>2, <2>3, <3>1, <3>2
  <2> QED
    BY <2>4, <2>5
<1>16. ASSUME NEW k \in Key
       PROVE  /\ L2[k] # Nil => P2[L2[k]] = k
              /\ R2[k] # Nil => P2[R2[k]] = k
  <2>0. /\ L[k] # Nil => P[L[k]] = k
        /\ R[k] # Nil => P[R[k]] = k
    BY DEF Shape
  <2> QED
    BY <2>0, <1>3, <1>4, <1>7
<1>17. ASSUME NEW k \in Key, P2[k] # Nil PROVE k = L2[P2[k]] \/ k = R2[P2[k]]
  <2>0. P[k] # Nil => P[k] \in Key /\ (k = L[P[k]] \/ k = R[P[k]])
    BY <1>3 DEF Shape
  <2>1. CASE k = x
    BY <2>1, <1>1, <1>7
  <2>2. CASE k # x
    <3>1. P2[k] = P[k] /\ P[k] # Nil
      BY <2>2, <1>7, <1>17
    <3> QED
      BY <2>0, <2>2, <3>1, <1>7
  <2> QED
    BY <2>1, <2>2
<1>18. ASSUME NEW k \in Key, k \notin T[root] PROVE L2[k] = Nil /\ R2[k] = Nil /\ P2[k] = Nil
  <2>1. k # x /\ k \notin S[root]
    BY <1>9, <1>18
  <2>2. L[k] = Nil /\ R[k] = Nil /\ P[k] = Nil
    BY <2>1 DEF Shape
  <2> QED
    BY <2>1, <2>2, <1>7
<1>19. ASSUME NEW k \in Key, NEW y \in T[k] PROVE T[y] \subseteq T[k] /\ (y # k => P2[y] \in T[k])
  <2>1. y \in Key
    BY <1>5
  <2>2. CASE y = x
    <3>1. CASE k = x
      BY <2>2, <3>1
    <3>2. CASE k # x
      <4>1. a \in S[k]
        BY <2>2, <3>2, <1>5, <1>14
      <4>2. T[k] = S[k] \cup {x}
        BY <4>1, <1>5
      <4>3. P2[x] = a
        BY <1>7
      <4> QED
        BY <2>2, <4>1, <4>2, <4>3, <1>8
    <3> QED
      BY <3>1, <3>2
  <2>3. CASE y # x
    <3>1. y \in S[k]
      BY <2>3, <1>5
    <3>2. S[y] \subseteq S[k] /\ (y # k => P[y] \in S[k])
      BY <3>1, <1>12
    <3> QED
      BY <2>1, <2>3, <3>2, <1>5, <1>7
  <2> QED
    BY <2>2, <2>3
<1>20. Pointers(root, L2, R2, P2, T)
  BY <1>1, <1>5, <1>6 DEF Pointers
<1>21. Shape(root, L2, R2, P2, T, less)
  BY <1>5, <1>10, <1>15, <1>16, <1>17, <1>18, <1>19, <1>20 DEF Shape
<1> QED
  BY <1>9, <1>21 DEF T

-----------------------------------------------------------------------------
(***************************************************************************)
(* Heights.                                                                *)
(***************************************************************************)

\* The size of the subtree is a rank that decreases towards the leaves.
LEMMA Sizes ==
  ASSUME NEW root, NEW L, NEW R, NEW P, NEW S, NEW less,
         Shape(root, L, R, P, S, less), Orders(less)
  PROVE  Descending(L, R, [x \in Node |-> Cardinality(S[x])])
<1> USE KeyAssumption DEF Node
<1> DEFINE rank == [x \in Node |-> Cardinality(S[x])]
<1>1. ASSUME NEW x \in Node PROVE IsFiniteSet(S[x]) /\ Cardinality(S[x]) \in Nat
  <2>1. CASE x = Nil
    <3>1. S[x] = {}
      BY <2>1 DEF Shape
    <3> QED
      BY <3>1, FS_EmptySet
  <2>2. CASE x \in Key
    BY <2>2, FS_CardinalityType DEF Shape
  <2> QED
    BY <2>1, <2>2
<1>2. ASSUME NEW k \in Key, NEW c \in {L[k], R[k]} PROVE c \in Node /\ Cardinality(S[c]) < Cardinality(S[k])
  <2>1. c \in Node
    BY DEF Shape, Pointers
  <2>2. S[c] \subseteq S[k] /\ S[c] # S[k]
    <3>1. k \in S[k] /\ k \notin S[c]
      BY ShapeFacts
    <3>2. S[k] = {k} \cup S[L[k]] \cup S[R[k]]
      BY DEF Shape
    <3> QED
      BY <3>1, <3>2
  <2>3. Cardinality(S[c]) <= Cardinality(S[k]) /\ Cardinality(S[c]) # Cardinality(S[k])
    BY <1>1, <2>2, FS_Subset
  <2> QED
    BY <1>1, <2>1, <2>3
<1> QED
  BY <1>1, <1>2 DEF Descending

\* The height of a node whose subtrees have the heights l and r.
Joined(l, r) == 1 + IF l > r THEN l ELSE r

\* h is the height of every node (getHeight).
Levels(L, R, h) ==
  /\ h \in [Node -> Nat] /\ h[Nil] = 0
  /\ \A k \in Key : h[k] = Joined(h[L[k]], h[R[k]])

\* On a set that is closed below, heights have only one solution.
LEMMA LevelsAgree ==
  ASSUME NEW root, NEW L, NEW R, NEW P, NEW S, NEW less,
         Shape(root, L, R, P, S, less), Orders(less),
         NEW D \in SUBSET Key,
         \A k \in D : L[k] \in D \cup {Nil} /\ R[k] \in D \cup {Nil},
         NEW g, NEW h, g[Nil] = h[Nil],
         \A k \in D : g[k] = Joined(g[L[k]], g[R[k]]) /\ h[k] = Joined(h[L[k]], h[R[k]])
  PROVE  \A k \in D : g[k] = h[k]
<1> DEFINE rank == [x \in Node |-> Cardinality(S[x])]
           Off == {k \in D : g[k] # h[k]}
<1>1. rank \in [Node -> Nat] /\ \A k \in Key : rank[L[k]] < rank[k] /\ rank[R[k]] < rank[k]
  BY Sizes DEF Descending
<1> HIDE DEF rank
<1>2. ASSUME Off # {} PROVE FALSE
  <2>1. \A y \in Off : rank[y] \in Nat
    BY <1>1 DEF Node
  <2>2. PICK k \in Off : \A y \in Off : rank[k] <= rank[y]
    <3> HIDE DEF Off
    <3> QED
      BY <1>2, <2>1, Lowest
  <2>3. ASSUME NEW c \in {L[k], R[k]} PROVE g[c] = h[c]
    <3>1. rank[c] < rank[k] /\ rank[k] \in Nat /\ c \in D \cup {Nil}
      BY <1>1, <2>1, <2>2
    <3>2. c \notin Off
      <4>1. c \in Off => rank[k] <= rank[c] /\ rank[c] \in Nat
        BY <2>1, <2>2
      <4> QED
        BY <3>1, <4>1
    <3> QED
      BY <3>1, <3>2
  <2>4. g[L[k]] = h[L[k]] /\ g[R[k]] = h[R[k]]
    BY <2>3
  <2> QED
    BY <2>2, <2>4
<1> QED
  BY <1>2

\* The recursive heights of the model exist and are heights.
LEMMA HeightsAre ==
  ASSUME NEW t, NEW S, NEW less,
         Shape(t.root, t.left, t.right, t.parent, S, less), Orders(less)
  PROVE  Levels(t.left, t.right, Heights(t))
<1> USE KeyAssumption
<1> DEFINE L == t.left R == t.right
           rank == [x \in Node |-> Cardinality(S[x])]
           G == [z \in Key \X Nat \X Nat |-> 1 + IF z[2] > z[3] THEN z[2] ELSE z[3]]
<1>1. rank \in [Node -> Nat] /\ \A k \in Key : rank[L[k]] < rank[k] /\ rank[R[k]] < rank[k]
  BY Sizes DEF Descending
<1>2. L \in [Key -> Node] /\ R \in [Key -> Node]
  BY DEF Shape, Pointers
<1>3. G \in [Key \X Nat \X Nat -> Nat]
  OBVIOUS
<1>4. PICK f \in [Node -> Nat] : /\ f[Nil] = 0
                                 /\ \A k \in Key : f[k] = G[<<k, f[L[k]], f[R[k]]>>]
  <2>1. L \in [Key -> Node] /\ R \in [Key -> Node]
    BY <1>2
  <2>2. Descending(L, R, rank)
    BY Sizes
  <2> DEFINE V == Nat
  <2>3. Rule(V, G)
    BY <1>3 DEF Rule
  <2>4. 0 \in V
    OBVIOUS
  <2>5. Solutions(L, R, V, 0, G) # {}
    <3> HIDE DEF rank, G, L, R, V
    <3> QED
      BY ONLY <2>1, <2>2, <2>3, <2>4, TreeRecursion
  <2> QED
    BY <2>5 DEF Solutions
<1>5. \A k \in Key : f[k] = 1 + IF f[L[k]] > f[R[k]] THEN f[L[k]] ELSE f[R[k]]
  BY <1>2, <1>4 DEF Node
<1>6. f = [n \in Node |-> IF n = Nil THEN 0
             ELSE LET l == f[t.left[n]] r == f[t.right[n]] IN 1 + IF l > r THEN l ELSE r]
  BY <1>4, <1>5 DEF Node
<1> DEFINE Is(h) == h = [n \in Node |-> IF n = Nil THEN 0
             ELSE LET l == h[t.left[n]] r == h[t.right[n]] IN 1 + IF l > r THEN l ELSE r]
<1>7. Heights(t) = CHOOSE h : Is(h)
  BY DEF Heights
<1>8. Is(f)
  BY <1>6
<1>9. Is(Heights(t))
  <2> HIDE DEF Is
  <2> QED
    BY <1>7, <1>8
<1> DEFINE h == Heights(t)
<1>10. h = [n \in Node |-> IF n = Nil THEN 0
             ELSE LET l == h[t.left[n]] r == h[t.right[n]] IN 1 + IF l > r THEN l ELSE r]
  BY <1>9
<1> HIDE DEF h
<1>11. h[Nil] = 0 /\ \A k \in Key : h[k] = 1 + IF h[L[k]] > h[R[k]] THEN h[L[k]] ELSE h[R[k]]
  BY <1>10 DEF Node
<1>12. \A k \in Key : f[k] = h[k]
  <2>1. \A k \in Key : L[k] \in Key \cup {Nil} /\ R[k] \in Key \cup {Nil}
    BY <1>2 DEF Node
  <2>2. \A k \in Key : f[k] = Joined(f[L[k]], f[R[k]]) /\ h[k] = Joined(h[L[k]], h[R[k]])
    BY <1>5, <1>11 DEF Joined
  <2>3. f[Nil] = h[Nil]
    BY <1>4, <1>11
  <2>4. Shape(t.root, L, R, t.parent, S, less) /\ Orders(less)
    OBVIOUS
  <2> DEFINE D == Key
  <2>5. D \in SUBSET Key
    OBVIOUS
  <2>6. \A k \in D : L[k] \in D \cup {Nil} /\ R[k] \in D \cup {Nil}
    BY <2>1
  <2>7. \A k \in D : f[k] = Joined(f[L[k]], f[R[k]]) /\ h[k] = Joined(h[L[k]], h[R[k]])
    BY <2>2
  <2>8. \A k \in D : f[k] = h[k]
    <3> HIDE DEF L, R, D
    <3> QED
      BY ONLY <2>3, <2>4, <2>5, <2>6, <2>7, LevelsAgree
  <2> QED
    BY <2>8
<1>13. h = [n \in Node |-> h[n]]
  BY <1>10
<1>14. h \in [Node -> Nat]
  <2>1. \A n \in Node : h[n] = f[n]
    BY <1>4, <1>11, <1>12 DEF Node
  <2> QED
    BY <1>4, <1>13, <2>1
<1> QED
  BY <1>11, <1>14 DEF h, Levels, Joined

-----------------------------------------------------------------------------
(***************************************************************************)
(* Heights that are out of date below one node.                            *)
(***************************************************************************)

\* At k the heights are right, and they differ by at most one below.
EvenAt(L, R, g, k) == g[k] = Joined(g[L[k]], g[R[k]]) /\ g[L[k]] - g[R[k]] \in -1..1

\* So they are everywhere outside of X.
Fit(L, R, g, X) ==
  /\ g \in [Node -> Nat] /\ g[Nil] = 0
  /\ \A k \in Key \ X : EvenAt(L, R, g, k)

\* g would be right and even everywhere if the subtree L[a] were lower by d.
NearBy(L, R, a, d, g) ==
  /\ Fit(L, R, g, {a})
  /\ a # Nil => g[a] = Joined(g[L[a]] - d, g[R[a]]) /\ g[L[a]] - d - g[R[a]] \in -1..1

\* The same, the subtree being the one at n, whichever side of p it is on.
Reaches(L, R, p, n, d, g) ==
  /\ p # Nil /\ n = L[p] => NearBy(L, R, p, d, g)
  /\ p # Nil /\ n = R[p] => NearBy(R, L, p, d, g)
  /\ p = Nil => NearBy(L, R, Nil, 0, g)

\* Below the node that is out of date the heights are the true ones.
LEMMA TrueLevels ==
  ASSUME NEW root, NEW L, NEW R, NEW P, NEW S, NEW less,
         Shape(root, L, R, P, S, less), Orders(less),
         NEW a \in Node, NEW d, NEW g, NearBy(L, R, a, d, g), NEW h, Levels(L, R, h)
  PROVE  \A k \in Node : a \notin S[k] => g[k] = h[k]
<1> USE KeyAssumption DEF Node
<1>0. Fit(L, R, g, {a})
  BY DEF NearBy
<1> DEFINE D == {k \in Key : a \notin S[k]}
<1>1. g[Nil] = 0 /\ h[Nil] = 0
  BY <1>0 DEF Fit, Levels
<1>2. \A k \in D : L[k] \in D \cup {Nil} /\ R[k] \in D \cup {Nil}
  <2> SUFFICES ASSUME NEW k \in D PROVE L[k] \in D \cup {Nil} /\ R[k] \in D \cup {Nil}
    OBVIOUS
  <2>1. L[k] \in Node /\ R[k] \in Node /\ S[k] = {k} \cup S[L[k]] \cup S[R[k]]
    BY DEF Shape, Pointers
  <2> QED
    BY <2>1
<1>3. \A k \in D : g[k] = Joined(g[L[k]], g[R[k]]) /\ h[k] = Joined(h[L[k]], h[R[k]])
  <2> SUFFICES ASSUME NEW k \in D PROVE g[k] = Joined(g[L[k]], g[R[k]]) /\ h[k] = Joined(h[L[k]], h[R[k]])
    OBVIOUS
  <2>1. k # a
    BY ShapeFacts
  <2> QED
    BY <1>0, <2>1 DEF Fit, EvenAt, Levels
<1>4. \A k \in D : g[k] = h[k]
  <2>1. D \in SUBSET Key
    OBVIOUS
  <2>2. g[Nil] = h[Nil]
    BY <1>1
  <2> HIDE DEF D
  <2> QED
    BY <1>2, <1>3, <2>1, <2>2, LevelsAgree
<1> QED
  BY <1>1, <1>4

\* Correcting the height of a node moves what is out of date to its parent.
LEMMA Refit ==
  ASSUME NEW root, NEW L, NEW R, NEW P, NEW S, NEW less,
         Shape(root, L, R, P, S, less), Orders(less),
         NEW n \in Key, NEW g, Fit(L, R, g, {n}),
         NEW v \in Nat, v = Joined(g[L[n]], g[R[n]]), g[L[n]] - g[R[n]] \in -1..1
  PROVE  Reaches(L, R, P[n], n, v - g[n], [g EXCEPT ![n] = v])
<1> USE KeyAssumption DEF Node
<1> DEFINE p == P[n]  f == [g EXCEPT ![n] = v]
<1>0. g \in [Node -> Nat] /\ g[Nil] = 0
  BY DEF Fit
<1>1. f \in [Node -> Nat] /\ f[Nil] = 0 /\ f[n] = v /\ \A k \in Node : k # n => f[k] = g[k]
  BY <1>0
<1> HIDE DEF f
<1>2. \A k \in Key : L[k] \in Node /\ R[k] \in Node
  BY DEF Shape, Pointers
<1>3. p \in Node /\ p # n /\ L[n] # n /\ R[n] # n
  <2>1. p \in Node
    BY DEF Shape, Pointers
  <2> QED
    BY <2>1, ShapeFacts
<1>4. ASSUME NEW k \in Key, k # p PROVE EvenAt(L, R, f, k)
  <2>1. L[k] # n /\ R[k] # n
    BY <1>4 DEF Shape
  <2>2. f[L[k]] = g[L[k]] /\ f[R[k]] = g[R[k]]
    BY <2>1, <1>1, <1>2
  <2>3. CASE k = n
    BY <2>2, <2>3, <1>1 DEF EvenAt
  <2>4. CASE k # n
    <3>1. EvenAt(L, R, g, k)
      BY <2>4 DEF Fit
    <3> QED
      BY <2>2, <2>4, <3>1, <1>1 DEF EvenAt
  <2> QED
    BY <2>3, <2>4
<1>5. Fit(L, R, f, {p}) /\ Fit(R, L, f, {p})
  <2>1. ASSUME NEW k \in Key, k # p PROVE EvenAt(R, L, f, k)
    <3>1. f[L[k]] \in Nat /\ f[R[k]] \in Nat /\ f[k] \in Nat
      BY <1>1, <1>2
    <3> QED
      BY <3>1, <2>1, <1>4 DEF EvenAt, Joined
  <2> QED
    BY <2>1, <1>1, <1>4 DEF Fit
<1>6. ASSUME p # Nil
      PROVE  /\ n = L[p] => f[p] = Joined(f[L[p]] - (v - g[n]), f[R[p]])
                            /\ f[L[p]] - (v - g[n]) - f[R[p]] \in -1..1
             /\ n = R[p] => f[p] = Joined(f[R[p]] - (v - g[n]), f[L[p]])
                            /\ f[R[p]] - (v - g[n]) - f[L[p]] \in -1..1
  <2>1. p \in Key /\ EvenAt(L, R, g, p) /\ f[p] = g[p]
    BY <1>1, <1>3, <1>6 DEF Fit
  <2>2. L[p] # n \/ R[p] # n
    BY <2>1, ShapeFacts
  <2>3. L[p] \in Node /\ R[p] \in Node /\ g[L[p]] \in Nat /\ g[R[p]] \in Nat /\ g[p] \in Nat /\ g[n] \in Nat
    BY <2>1, <1>0, <1>2
  <2>4. CASE n = L[p]
    <3>1. f[L[p]] = v /\ f[R[p]] = g[R[p]]
      BY <2>2, <2>3, <2>4, <1>1
    <3>2. f[L[p]] - (v - g[n]) = g[L[p]]
      BY <2>3, <2>4, <3>1
    <3> QED
      BY <2>1, <2>2, <2>3, <2>4, <3>1, <3>2 DEF EvenAt
  <2>5. CASE n = R[p]
    <3>1. f[R[p]] = v /\ f[L[p]] = g[L[p]]
      BY <2>2, <2>3, <2>5, <1>1
    <3>2. f[R[p]] - (v - g[n]) = g[R[p]]
      BY <2>3, <2>5, <3>1
    <3>3. Joined(g[L[p]], g[R[p]]) = Joined(g[R[p]], g[L[p]]) /\ g[R[p]] - g[L[p]] \in -1..1
      BY <2>1, <2>3 DEF EvenAt, Joined
    <3>4. f[p] = Joined(g[R[p]], g[L[p]])
      BY <2>1, <3>3 DEF EvenAt
    <3> QED
      BY <2>2, <2>5, <3>1, <3>2, <3>3, <3>4
  <2> QED
    BY <2>4, <2>5
<1>7. NearBy(L, R, Nil, 0, f) \/ p # Nil
  BY <1>5 DEF NearBy
<1>8. Reaches(L, R, p, n, v - g[n], f)
  BY <1>5, <1>6, <1>7 DEF Reaches, NearBy
<1> QED
  BY <1>8 DEF f

\* After a rotation of even subtrees only the raised node and the one above it may
\* be out of date.
LEMMA TurnOnce ==
  ASSUME NEW root, NEW L, NEW R, NEW P, NEW S, NEW less,
         Shape(root, L, R, P, S, less), Orders(less),
         NEW n \in Key, R[n] # Nil,
         NEW root2, NEW L2, NEW R2, NEW P2,
         Turned(root, L, R, P, n, root2, L2, R2, P2),
         NEW g, Fit(L, R, g, {P[n]}),
         NEW v \in Nat, v = Joined(g[L[n]], g[L[R[n]]]), g[L[n]] - g[L[R[n]]] \in -1..1
  PROVE  Fit(L2, R2, [g EXCEPT ![n] = v], {R[n], P[n]})
<1> USE KeyAssumption DEF Node
<1> DEFINE p == P[n]  r == R[n]  f == [g EXCEPT ![n] = v]
<1>0. g \in [Node -> Nat] /\ g[Nil] = 0
  BY DEF Fit
<1>1. f \in [Node -> Nat] /\ f[Nil] = 0 /\ f[n] = v /\ \A k \in Node : k # n => f[k] = g[k]
  BY <1>0
<1> HIDE DEF f
<1>2. \A k \in Key : L[k] \in Node /\ R[k] \in Node
  BY DEF Shape, Pointers
<1>3. r \in Key /\ p \in Node /\ p # n /\ L[n] # n /\ r # n /\ L[r] # n
  <2>1. r \in Key /\ p \in Node
    BY <1>2 DEF Shape, Pointers
  <2>2. p # n /\ L[n] # n /\ r # n
    BY ShapeFacts
  <2>3. P[r] = n
    BY DEF Shape
  <2>4. L[r] = n => p = r
    BY <2>1 DEF Shape
  <2>5. P[n] # r
    BY <2>1, <2>3, ShapeFacts
  <2> QED
    BY <2>1, <2>2, <2>4, <2>5
<1>4. ASSUME NEW k \in Key, k # p, k # r PROVE EvenAt(L2, R2, f, k)
  <2>1. CASE k = n
    <3>1. L2[k] = L[n] /\ R2[k] = L[r]
      BY <2>1, <1>3 DEF Turned
    <3>2. f[L2[k]] = g[L[n]] /\ f[R2[k]] = g[L[r]]
      BY <3>1, <1>1, <1>2, <1>3
    <3> QED
      BY <2>1, <3>2, <1>1 DEF EvenAt
  <2>2. CASE k # n
    <3>1. L2[k] = L[k] /\ R2[k] = R[k]
      BY <2>2, <1>4 DEF Turned
    <3>2. L[k] # n /\ R[k] # n
      BY <1>4 DEF Shape
    <3>3. f[L[k]] = g[L[k]] /\ f[R[k]] = g[R[k]] /\ f[k] = g[k]
      BY <3>2, <2>2, <1>1, <1>2
    <3>4. EvenAt(L, R, g, k)
      BY <1>4 DEF Fit
    <3> QED
      BY <3>1, <3>3, <3>4 DEF EvenAt
  <2> QED
    BY <2>1, <2>2
<1>5. Fit(L2, R2, f, {r, p})
  BY <1>1, <1>4 DEF Fit
<1> QED
  BY <1>5 DEF f

\* When the raised node is even as well, only the node above it may be.
LEMMA TurnLast ==
  ASSUME NEW root, NEW L, NEW R, NEW P, NEW S, NEW less,
         Shape(root, L, R, P, S, less), Orders(less),
         NEW n \in Key, R[n] # Nil,
         NEW root2, NEW L2, NEW R2, NEW P2,
         Turned(root, L, R, P, n, root2, L2, R2, P2),
         NEW g, Fit(L, R, g, {n, R[n]}),
         NEW v \in Nat, v = Joined(g[L[n]], g[L[R[n]]]), g[L[n]] - g[L[R[n]]] \in -1..1,
         NEW w \in Nat, w = Joined(v, g[R[R[n]]]), v - g[R[R[n]]] \in -1..1
  PROVE  Reaches(L2, R2, P[n], R[n], w - g[n], [g EXCEPT ![n] = v, ![R[n]] = w])
<1> USE KeyAssumption DEF Node
<1> DEFINE p == P[n]  r == R[n]  f == [g EXCEPT ![n] = v, ![R[n]] = w]
<1>0. g \in [Node -> Nat] /\ g[Nil] = 0
  BY DEF Fit
<1>2. \A k \in Key : L[k] \in Node /\ R[k] \in Node
  BY DEF Shape, Pointers
<1>3. r \in Key /\ p \in Node /\ p # n /\ p # r /\ L[n] # n /\ r # n /\ L[r] # n /\ R[r] # n
      /\ L[n] # r /\ L[r] # r /\ R[r] # r
  <2>1. r \in Key /\ p \in Node
    BY <1>2 DEF Shape, Pointers
  <2>2. p # n /\ L[n] # n /\ r # n /\ L[n] # r
    BY ShapeFacts
  <2>3. P[r] = n
    BY DEF Shape
  <2>4. (L[r] = n => p = r) /\ (R[r] = n => p = r)
    BY <2>1 DEF Shape
  <2>5. P[n] # r
    BY <2>1, <2>3, ShapeFacts
  <2>6. L[r] # r /\ R[r] # r
    BY <2>1, ShapeFacts
  <2> QED
    BY <2>1, <2>2, <2>4, <2>5, <2>6
<1>1. /\ f \in [Node -> Nat] /\ f[Nil] = 0 /\ f[n] = v /\ f[r] = w
      /\ \A k \in Node : k # n /\ k # r => f[k] = g[k]
  BY <1>0, <1>3
<1> HIDE DEF f
<1>4. ASSUME NEW k \in Key, k # p PROVE EvenAt(L2, R2, f, k)
  <2>1. CASE k = n
    <3>1. L2[k] = L[n] /\ R2[k] = L[r]
      BY <2>1, <1>3 DEF Turned
    <3>2. f[L2[k]] = g[L[n]] /\ f[R2[k]] = g[L[r]]
      BY <3>1, <1>1, <1>2, <1>3
    <3> QED
      BY <2>1, <3>2, <1>1 DEF EvenAt
  <2>2. CASE k = r
    <3>1. L2[k] = n /\ R2[k] = R[r]
      BY <2>2, <1>3 DEF Turned
    <3>2. f[L2[k]] = v /\ f[R2[k]] = g[R[r]]
      BY <3>1, <1>1, <1>2, <1>3
    <3> QED
      BY <2>2, <3>2, <1>1 DEF EvenAt
  <2>3. CASE k # n /\ k # r
    <3>1. L2[k] = L[k] /\ R2[k] = R[k]
      BY <2>3, <1>4 DEF Turned
    <3>2. L[k] # n /\ R[k] # n /\ L[k] # r /\ R[k] # r
      BY <2>3, <1>4 DEF Shape
    <3>3. f[L[k]] = g[L[k]] /\ f[R[k]] = g[R[k]] /\ f[k] = g[k]
      BY <3>2, <2>3, <1>1, <1>2
    <3>4. EvenAt(L, R, g, k)
      BY <2>3 DEF Fit
    <3> QED
      BY <3>1, <3>3, <3>4 DEF EvenAt
  <2> QED
    BY <2>1, <2>2, <2>3
<1>4a. \A k \in Key : L2[k] \in Node /\ R2[k] \in Node
  BY DEF Turned
<1>5. Fit(L2, R2, f, {p}) /\ Fit(R2, L2, f, {p})
  <2>1. ASSUME NEW k \in Key, k # p PROVE EvenAt(R2, L2, f, k)
    <3>1. f[L2[k]] \in Nat /\ f[R2[k]] \in Nat /\ f[k] \in Nat
      BY <1>1, <1>4a
    <3> QED
      BY <3>1, <2>1, <1>4 DEF EvenAt, Joined
  <2> QED
    BY <2>1, <1>1, <1>4 DEF Fit
<1>6. ASSUME p # Nil
      PROVE  /\ r = L2[p] => f[p] = Joined(f[L2[p]] - (w - g[n]), f[R2[p]])
                            /\ f[L2[p]] - (w - g[n]) - f[R2[p]] \in -1..1
             /\ r = R2[p] => f[p] = Joined(f[R2[p]] - (w - g[n]), f[L2[p]])
                            /\ f[R2[p]] - (w - g[n]) - f[L2[p]] \in -1..1
  <2>1. p \in Key /\ EvenAt(L, R, g, p) /\ f[p] = g[p]
    BY <1>1, <1>3, <1>6 DEF Fit
  <2>2. L[p] # n \/ R[p] # n
    BY <2>1, ShapeFacts
  <2>2a. L[p] # r /\ R[p] # r
    BY <2>1, <1>3 DEF Shape
  <2>2b. L2[p] = (IF L[p] = n THEN r ELSE L[p]) /\ R2[p] = (IF R[p] = n THEN r ELSE R[p])
    BY <2>1, <1>3 DEF Turned
  <2>3. L[p] \in Node /\ R[p] \in Node /\ g[L[p]] \in Nat /\ g[R[p]] \in Nat /\ g[p] \in Nat /\ g[n] \in Nat
    BY <2>1, <1>0, <1>2
  <2>4. CASE n = L[p]
    <3>1. L2[p] = r /\ R2[p] = R[p] /\ f[L2[p]] = w /\ f[R2[p]] = g[R[p]] /\ R2[p] # r
      BY <2>2, <2>2a, <2>2b, <2>3, <2>4, <1>1
    <3>2. f[L2[p]] - (w - g[n]) = g[L[p]]
      BY <2>3, <2>4, <3>1
    <3> QED
      BY <2>1, <2>2, <2>3, <2>4, <3>1, <3>2 DEF EvenAt
  <2>5. CASE n = R[p]
    <3>1. R2[p] = r /\ L2[p] = L[p] /\ f[R2[p]] = w /\ f[L2[p]] = g[L[p]] /\ L2[p] # r
      BY <2>2, <2>2a, <2>2b, <2>3, <2>5, <1>1
    <3>2. f[R2[p]] - (w - g[n]) = g[R[p]]
      BY <2>3, <2>5, <3>1
    <3>3. Joined(g[L[p]], g[R[p]]) = Joined(g[R[p]], g[L[p]]) /\ g[R[p]] - g[L[p]] \in -1..1
      BY <2>1, <2>3 DEF EvenAt, Joined
    <3>4. f[p] = Joined(g[R[p]], g[L[p]])
      BY <2>1, <3>3 DEF EvenAt
    <3> QED
      BY <2>2, <2>5, <3>1, <3>2, <3>3, <3>4
  <2>6. CASE n # L[p] /\ n # R[p]
    BY <2>2a, <2>2b, <2>6
  <2> QED
    BY <2>4, <2>5, <2>6
<1>7. NearBy(L2, R2, Nil, 0, f) \/ p # Nil
  BY <1>5 DEF NearBy
<1>8. Reaches(L2, R2, p, r, w - g[n], f)
  BY <1>5, <1>6, <1>7 DEF Reaches, NearBy
<1> QED
  BY <1>8 DEF f

-----------------------------------------------------------------------------
(***************************************************************************)
(* The two hands of a tree: one argument serves both sides.                *)
(***************************************************************************)

\* The values that TreeTypeOK allows for the tree.
Trees == [root : Node, left : [Key -> Node], right : [Key -> Node], parent : [Key -> Node]]

\* The order of the keys that compareTo gives.
Less == {q \in Key \X Key : Diff(q[1], q[2]) < 0}

\* The opposite order.
More == {q \in Key \X Key : Diff(q[1], q[2]) > 0}

\* The order along which the hand s comes first.
Along(s) == IF s THEN Less ELSE More

\* The child pointers on the side s.
Hand(t, s) == IF s THEN t.left ELSE t.right

\* The rotation that moves the node n to the side s.
Turn(t, s, n) == IF s THEN RotateLeft(t, n) ELSE RotateRight(t, n)

\* t is a search tree with the subtrees S.
Good(t, S) == t \in Trees /\ Shape(t.root, t.left, t.right, t.parent, S, Less)

\* compareTo orders the keys, in both directions.
LEMMA OrderFacts ==
  /\ Orders(Less) /\ Orders(More)
  /\ \A a, b \in Key : /\ <<a, b>> \in Less <=> Diff(a, b) < 0
                       /\ <<a, b>> \in More <=> Diff(a, b) > 0
                       /\ <<a, b>> \in Less <=> <<b, a>> \in More
<1>1. \A a, b \in Key : /\ <<a, b>> \in Less <=> Diff(a, b) < 0
                        /\ <<a, b>> \in More <=> Diff(a, b) > 0
  BY DEF Less, More
<1>2. \A a, b \in Key : <<a, b>> \in Less <=> <<b, a>> \in More
  BY <1>1, DiffAssumption
<1>3. Orders(Less)
  <2>1. \A a \in Key : ~ (Diff(a, a) < 0)
    BY DiffAssumption
  <2>2. \A a, b, c \in Key : Diff(a, b) < 0 /\ Diff(b, c) < 0 => Diff(a, c) < 0
    BY DiffAssumption
  <2> QED
    BY <1>1, <2>1, <2>2 DEF Orders
<1>4. Orders(More)
  BY <1>2, <1>3 DEF Orders
<1> QED
  BY <1>1, <1>2, <1>3, <1>4

\* The mirror image of a search tree is one along the opposite order.
LEMMA MirrorShape ==
  ASSUME NEW root, NEW L, NEW R, NEW P, NEW S, NEW less, NEW more,
         \A a, b \in Key : <<a, b>> \in less <=> <<b, a>> \in more,
         Shape(root, L, R, P, S, less)
  PROVE  Shape(root, R, L, P, S, more)
<1>1. Pointers(root, R, L, P, S)
  BY DEF Shape, Pointers
<1>2. ASSUME NEW k \in Key
      PROVE  /\ S[k] = {k} \cup S[R[k]] \cup S[L[k]]
             /\ \A x \in S[R[k]] : <<x, k>> \in more
             /\ \A x \in S[L[k]] : <<k, x>> \in more
  <2>1. S[R[k]] \subseteq Key /\ S[L[k]] \subseteq Key
    BY <1>1 DEF Pointers
  <2>2. \A x \in S[R[k]] : <<x, k>> \in more
    BY <2>1 DEF Shape
  <2>3. \A x \in S[L[k]] : <<k, x>> \in more
    BY <2>1 DEF Shape
  <2>4. S[k] = {k} \cup S[R[k]] \cup S[L[k]]
    BY DEF Shape
  <2> QED
    BY <2>2, <2>3, <2>4
<1> QED
  BY <1>1, <1>2 DEF Shape

\* A tree seen from either side is a search tree.
LEMMA Views ==
  ASSUME NEW t, NEW S, Good(t, S), NEW s \in BOOLEAN
  PROVE  /\ Shape(t.root, Hand(t, s), Hand(t, ~ s), t.parent, S, Along(s))
         /\ Orders(Along(s))
         /\ Hand(t, s) \in [Key -> Node]
<1>1. CASE s
  <2>1. Hand(t, s) = t.left /\ Hand(t, ~ s) = t.right /\ Along(s) = Less
    BY <1>1 DEF Hand, Along
  <2> QED
    BY <2>1, OrderFacts DEF Good, Shape, Pointers
<1>2. CASE ~ s
  <2>1. Hand(t, s) = t.right /\ Hand(t, ~ s) = t.left /\ Along(s) = More
    BY <1>2 DEF Hand, Along
  <2>2. Shape(t.root, t.right, t.left, t.parent, S, More)
    BY OrderFacts, MirrorShape DEF Good
  <2> QED
    BY <2>1, <2>2, OrderFacts DEF Shape, Pointers
<1> QED
  BY <1>1, <1>2

\* A tree that is a search tree seen from one side is one.
LEMMA FromView ==
  ASSUME NEW t \in Trees, NEW S, NEW s \in BOOLEAN,
         Shape(t.root, Hand(t, s), Hand(t, ~ s), t.parent, S, Along(s))
  PROVE  Good(t, S)
<1>1. CASE s
  <2>1. Hand(t, s) = t.left /\ Hand(t, ~ s) = t.right /\ Along(s) = Less
    BY <1>1 DEF Hand, Along
  <2> QED
    BY <2>1 DEF Good
<1>2. CASE ~ s
  <2>1. Hand(t, s) = t.right /\ Hand(t, ~ s) = t.left /\ Along(s) = More
    BY <1>2 DEF Hand, Along
  <2>2. Shape(t.root, t.right, t.left, t.parent, S, More)
    BY <2>1
  <2>3. \A a, b \in Key : <<a, b>> \in More <=> <<b, a>> \in Less
    BY OrderFacts
  <2>4. Shape(t.root, t.left, t.right, t.parent, S, Less)
    BY <2>2, <2>3, MirrorShape
  <2> QED
    BY <2>4 DEF Good
<1> QED
  BY <1>1, <1>2

\* rotateLeft writes the pointers that Turned describes.
LEMMA RotateLeftPointers ==
  ASSUME NEW t \in Trees, NEW n \in Key, NEW r \in Key, r = t.right[n],
         n # r, t.left[r] # n, t.left[r] # r, t.parent[n] # n, t.parent[n] # r,
         t.parent[n] # Nil => ~ (t.left[t.parent[n]] = n /\ t.right[t.parent[n]] = n)
                              /\ (t.left[t.parent[n]] = n \/ t.right[t.parent[n]] = n)
  PROVE  LET u == RotateLeft(t, n) IN
         /\ u \in Trees
         /\ Turned(t.root, t.left, t.right, t.parent, n, u.root, u.left, u.right, u.parent)
<1> USE KeyAssumption DEF Node
<1> DEFINE p == t.parent[n]  rl == t.left[r]
           a == Replace(t, p, n, r)
           b == [a EXCEPT !.parent[n] = r, !.right[n] = rl, !.left[r] = n, !.parent[r] = p]
           u == WithParent(b, rl, n)
<1>1. p \in Node /\ rl \in Node
  BY DEF Trees
<1>2. /\ a \in Trees
      /\ a.root = IF p = Nil THEN r ELSE t.root
      /\ a.parent = t.parent
      /\ \A k \in Key : a.left[k] = IF k = p /\ t.left[p] = n THEN r ELSE t.left[k]
      /\ \A k \in Key : a.right[k] = IF k = p /\ t.right[p] = n THEN r ELSE t.right[k]
  <2>1. CASE p = Nil
    <3>1. a = [t EXCEPT !.root = r]
      BY <2>1 DEF Replace
    <3> QED
      BY <2>1, <3>1 DEF Trees
  <2>2. CASE p # Nil /\ t.left[p] = n
    <3>1. a = [t EXCEPT !.left[p] = r]
      BY <2>2 DEF Replace
    <3> QED
      BY <1>1, <2>2, <3>1 DEF Trees
  <2>3. CASE p # Nil /\ t.left[p] # n
    <3>1. a = [t EXCEPT !.right[p] = r]
      BY <2>3 DEF Replace
    <3> QED
      BY <1>1, <2>3, <3>1 DEF Trees
  <2> QED
    BY <2>1, <2>2, <2>3
<1>3. u = RotateLeft(t, n)
  BY DEF RotateLeft
<1> HIDE DEF a
<1>4. /\ b \in Trees
      /\ b.root = a.root
      /\ b.left = [a.left EXCEPT ![r] = n]
      /\ b.right = [a.right EXCEPT ![n] = rl]
      /\ b.parent = [[a.parent EXCEPT ![n] = r] EXCEPT ![r] = p]
  BY <1>1, <1>2 DEF Trees
<1> HIDE DEF b
<1>5. /\ u \in Trees
      /\ u.root = b.root /\ u.left = b.left /\ u.right = b.right
      /\ u.parent = IF rl = Nil THEN b.parent ELSE [b.parent EXCEPT ![rl] = n]
  <2>1. CASE rl = Nil
    BY <1>4, <2>1 DEF WithParent, Trees
  <2>2. CASE rl # Nil
    BY <1>1, <1>4, <2>2 DEF WithParent, Trees
  <2> QED
    BY <2>1, <2>2
<1> HIDE DEF u
<1>6. /\ u.root = IF p = Nil THEN r ELSE t.root
      /\ \A k \in Key :
         /\ u.left[k] = IF k = r THEN n ELSE IF k = p /\ t.left[p] = n THEN r ELSE t.left[k]
         /\ u.right[k] = IF k = n THEN rl ELSE IF k = p /\ t.right[p] = n THEN r ELSE t.right[k]
         /\ u.parent[k] = IF k = n THEN r ELSE IF k = r THEN p ELSE IF k = rl THEN n ELSE t.parent[k]
  <2>0. a.left \in [Key -> Node] /\ a.right \in [Key -> Node] /\ t.parent \in [Key -> Node]
    BY <1>2 DEF Trees
  <2>1. ASSUME NEW k \in Key
        PROVE  u.left[k] = IF k = r THEN n ELSE IF k = p /\ t.left[p] = n THEN r ELSE t.left[k]
    BY <2>0, <1>2, <1>4, <1>5
  <2>2. ASSUME NEW k \in Key
        PROVE  u.right[k] = IF k = n THEN rl ELSE IF k = p /\ t.right[p] = n THEN r ELSE t.right[k]
    BY <2>0, <1>2, <1>4, <1>5
  <2>3. ASSUME NEW k \in Key
        PROVE  u.parent[k] = IF k = n THEN r ELSE IF k = r THEN p ELSE IF k = rl THEN n ELSE t.parent[k]
    BY <2>0, <1>1, <1>2, <1>4, <1>5
  <2> QED
    BY <1>2, <1>4, <1>5, <2>1, <2>2, <2>3
<1>7. u.left \in [Key -> Node] /\ u.right \in [Key -> Node] /\ u.parent \in [Key -> Node]
  BY <1>5 DEF Trees
<1> QED
  BY <1>3, <1>5, <1>6, <1>7 DEF Turned

\* rotateRight writes those of its mirror image.
LEMMA RotateRightPointers ==
  ASSUME NEW t \in Trees, NEW n \in Key, NEW r \in Key, r = t.left[n],
         n # r, t.right[r] # n, t.right[r] # r, t.parent[n] # n, t.parent[n] # r,
         t.parent[n] # Nil => ~ (t.left[t.parent[n]] = n /\ t.right[t.parent[n]] = n)
                              /\ (t.left[t.parent[n]] = n \/ t.right[t.parent[n]] = n)
  PROVE  LET u == RotateRight(t, n) IN
         /\ u \in Trees
         /\ Turned(t.root, t.right, t.left, t.parent, n, u.root, u.right, u.left, u.parent)
<1> USE KeyAssumption DEF Node
<1> DEFINE p == t.parent[n]  lr == t.right[r]
           a == Replace(t, p, n, r)
           b == [a EXCEPT !.parent[n] = r, !.left[n] = lr, !.right[r] = n, !.parent[r] = p]
           u == WithParent(b, lr, n)
<1>1. p \in Node /\ lr \in Node
  BY DEF Trees
<1>2. /\ a \in Trees
      /\ a.root = IF p = Nil THEN r ELSE t.root
      /\ a.parent = t.parent
      /\ \A k \in Key : a.left[k] = IF k = p /\ t.left[p] = n THEN r ELSE t.left[k]
      /\ \A k \in Key : a.right[k] = IF k = p /\ t.right[p] = n THEN r ELSE t.right[k]
  <2>1. CASE p = Nil
    <3>1. a = [t EXCEPT !.root = r]
      BY <2>1 DEF Replace
    <3> QED
      BY <2>1, <3>1 DEF Trees
  <2>2. CASE p # Nil /\ t.left[p] = n
    <3>1. a = [t EXCEPT !.left[p] = r]
      BY <2>2 DEF Replace
    <3> QED
      BY <1>1, <2>2, <3>1 DEF Trees
  <2>3. CASE p # Nil /\ t.left[p] # n
    <3>1. a = [t EXCEPT !.right[p] = r]
      BY <2>3 DEF Replace
    <3> QED
      BY <1>1, <2>3, <3>1 DEF Trees
  <2> QED
    BY <2>1, <2>2, <2>3
<1>3. u = RotateRight(t, n)
  BY DEF RotateRight
<1> HIDE DEF a
<1>4. /\ b \in Trees
      /\ b.root = a.root
      /\ b.left = [a.left EXCEPT ![n] = lr]
      /\ b.right = [a.right EXCEPT ![r] = n]
      /\ b.parent = [[a.parent EXCEPT ![n] = r] EXCEPT ![r] = p]
  BY <1>1, <1>2 DEF Trees
<1> HIDE DEF b
<1>5. /\ u \in Trees
      /\ u.root = b.root /\ u.left = b.left /\ u.right = b.right
      /\ u.parent = IF lr = Nil THEN b.parent ELSE [b.parent EXCEPT ![lr] = n]
  <2>1. CASE lr = Nil
    BY <1>4, <2>1 DEF WithParent, Trees
  <2>2. CASE lr # Nil
    BY <1>1, <1>4, <2>2 DEF WithParent, Trees
  <2> QED
    BY <2>1, <2>2
<1> HIDE DEF u
<1>6. /\ u.root = IF p = Nil THEN r ELSE t.root
      /\ \A k \in Key :
         /\ u.right[k] = IF k = r THEN n ELSE IF k = p /\ t.right[p] = n THEN r ELSE t.right[k]
         /\ u.left[k] = IF k = n THEN lr ELSE IF k = p /\ t.left[p] = n THEN r ELSE t.left[k]
         /\ u.parent[k] = IF k = n THEN r ELSE IF k = r THEN p ELSE IF k = lr THEN n ELSE t.parent[k]
  <2>0. a.left \in [Key -> Node] /\ a.right \in [Key -> Node] /\ t.parent \in [Key -> Node]
    BY <1>2 DEF Trees
  <2>1. ASSUME NEW k \in Key
        PROVE  u.right[k] = IF k = r THEN n ELSE IF k = p /\ t.right[p] = n THEN r ELSE t.right[k]
    BY <2>0, <1>2, <1>4, <1>5
  <2>2. ASSUME NEW k \in Key
        PROVE  u.left[k] = IF k = n THEN lr ELSE IF k = p /\ t.left[p] = n THEN r ELSE t.left[k]
    BY <2>0, <1>2, <1>4, <1>5
  <2>3. ASSUME NEW k \in Key
        PROVE  u.parent[k] = IF k = n THEN r ELSE IF k = r THEN p ELSE IF k = lr THEN n ELSE t.parent[k]
    BY <2>0, <1>1, <1>2, <1>4, <1>5
  <2> QED
    BY <1>2, <1>4, <1>5, <2>1, <2>2, <2>3
<1>7. u.left \in [Key -> Node] /\ u.right \in [Key -> Node] /\ u.parent \in [Key -> Node]
  BY <1>5 DEF Trees
<1> QED
  BY <1>3, <1>5, <1>6, <1>7 DEF Turned

\* A rotation to the side s keeps the search tree and its keys (rotateLeft,
\* rotateRight).
LEMMA Turning ==
  ASSUME NEW t, NEW S, Good(t, S), NEW s \in BOOLEAN,
         NEW n \in S[t.root], Hand(t, ~ s)[n] # Nil
  PROVE  LET u == Turn(t, s, n)
             T == SetsTurned(Hand(t, s), Hand(t, ~ s), S, n)
         IN /\ Turned(t.root, Hand(t, s), Hand(t, ~ s), t.parent, n,
                      u.root, Hand(u, s), Hand(u, ~ s), u.parent)
            /\ Good(u, T)
            /\ T[u.root] = S[t.root]
<1> USE KeyAssumption
<1> DEFINE u == Turn(t, s, n)
           T == SetsTurned(Hand(t, s), Hand(t, ~ s), S, n)
           r == Hand(t, ~ s)[n]
<1>1. /\ Shape(t.root, Hand(t, s), Hand(t, ~ s), t.parent, S, Along(s))
      /\ Orders(Along(s)) /\ Hand(t, s) \in [Key -> Node] /\ Hand(t, ~ s) \in [Key -> Node]
  BY Views
<1>2. n \in Key /\ t.root \in Node /\ t.parent[n] \in Node
  <2>1. t.root \in Node /\ S \in [Node -> SUBSET Key] /\ t.parent \in [Key -> Node]
    BY <1>1 DEF Shape, Pointers
  <2> QED
    BY <2>1
<1>3. r \in Key
  BY <1>1, <1>2 DEF Node
<1>4. n # r /\ Hand(t, s)[r] # n /\ Hand(t, s)[r] # r /\ t.parent[n] # n /\ t.parent[n] # r
  <2>1. n # r /\ t.parent[n] # n
    BY <1>1, <1>2, ShapeFacts
  <2>2. t.parent[r] = n
    BY <1>1, <1>2 DEF Shape
  <2>3. t.parent[n] # r
    <3>1. t.parent[r] # Nil => t.parent[r] \notin S[r]
      BY <1>1, <1>3, ShapeFacts
    <3>2. t.parent[n] = r => n \in S[r]
      BY <1>1, <1>2, <1>3, ShapeFacts DEF Node
    <3> QED
      BY <2>2, <3>1, <3>2, <1>2
  <2>4. Hand(t, s)[r] # r
    BY <1>1, <1>3, ShapeFacts
  <2>5. Hand(t, s)[r] = n => t.parent[n] = r
    BY <1>1, <1>2, <1>3 DEF Shape
  <2> QED
    BY <2>1, <2>3, <2>4, <2>5
<1>5. t.parent[n] # Nil => ~ (t.left[t.parent[n]] = n /\ t.right[t.parent[n]] = n)
                              /\ (t.left[t.parent[n]] = n \/ t.right[t.parent[n]] = n)
  <2> SUFFICES ASSUME t.parent[n] # Nil
               PROVE  ~ (t.left[t.parent[n]] = n /\ t.right[t.parent[n]] = n)
                      /\ (t.left[t.parent[n]] = n \/ t.right[t.parent[n]] = n)
    OBVIOUS
  <2>1. t.parent[n] \in Key
    BY <1>2 DEF Node
  <2>2. Shape(t.root, t.left, t.right, t.parent, S, Less) /\ Orders(Less)
    BY OrderFacts DEF Good
  <2>3. t.left[t.parent[n]] = n \/ t.right[t.parent[n]] = n
    BY <1>2, <2>2 DEF Shape
  <2>4. ~ (t.left[t.parent[n]] = n /\ t.right[t.parent[n]] = n)
    BY <1>2, <2>1, <2>2, ShapeFacts
  <2> QED
    BY <2>3, <2>4
<1>6. /\ u \in Trees
      /\ Turned(t.root, Hand(t, s), Hand(t, ~ s), t.parent, n,
                u.root, Hand(u, s), Hand(u, ~ s), u.parent)
  <2>0. t \in Trees
    BY DEF Good
  <2>1. CASE s
    <3>1. /\ Hand(t, s) = t.left /\ Hand(t, ~ s) = t.right /\ u = RotateLeft(t, n)
          /\ Hand(u, s) = u.left /\ Hand(u, ~ s) = u.right
      BY <2>1 DEF Hand, Turn
    <3> HIDE DEF u
    <3> QED
      BY <2>0, <3>1, <1>2, <1>3, <1>4, <1>5, RotateLeftPointers
  <2>2. CASE ~ s
    <3>1. /\ Hand(t, s) = t.right /\ Hand(t, ~ s) = t.left /\ u = RotateRight(t, n)
          /\ Hand(u, s) = u.right /\ Hand(u, ~ s) = u.left
      BY <2>2 DEF Hand, Turn
    <3> HIDE DEF u
    <3> QED
      BY <2>0, <3>1, <1>2, <1>3, <1>4, <1>5, RotateRightPointers
  <2> QED
    BY <2>1, <2>2
<1> HIDE DEF u
<1>7. /\ Shape(u.root, Hand(u, s), Hand(u, ~ s), u.parent, T, Along(s))
      /\ T[u.root] = S[t.root]
  BY <1>1, <1>6, RotationKeepsShape
<1>8. Good(u, T)
  BY <1>6, <1>7, FromView
<1> QED
  BY <1>6, <1>7, <1>8 DEF u

-----------------------------------------------------------------------------
(***************************************************************************)
(* One round of a climb.                                                   *)
(***************************************************************************)

\* After a round at n that led to the tree u, x is above n where n was, and the
\* subtree at x is higher by d than the heights above take it to be.
Raised(t, S, n, u, s, d) ==
  \E T, x, f : /\ x \in Key
               /\ Good(u, T) /\ T[u.root] = S[t.root]
               /\ u.parent[n] = x /\ u.parent[x] = t.parent[n]
               /\ Reaches(Hand(u, s), Hand(u, ~ s), t.parent[n], x, d, f)

\* Heights are the same from both sides.
LEMMA HeightsView ==
  ASSUME NEW t, NEW S, Good(t, S), NEW s \in BOOLEAN
  PROVE  Levels(Hand(t, s), Hand(t, ~ s), Heights(t))
<1>1. Levels(t.left, t.right, Heights(t))
  BY HeightsAre, OrderFacts DEF Good
<1>2. CASE s
  BY <1>1, <1>2 DEF Hand
<1>3. CASE ~ s
  <2>1. \A k \in Key : t.left[k] \in Node /\ t.right[k] \in Node
    BY DEF Good, Shape, Pointers
  <2>2. ASSUME NEW k \in Key
        PROVE  Heights(t)[k] = Joined(Heights(t)[t.right[k]], Heights(t)[t.left[k]])
    <3>1. Heights(t)[t.right[k]] \in Nat /\ Heights(t)[t.left[k]] \in Nat
      BY <1>1, <2>1 DEF Levels
    <3>2. Heights(t)[k] = Joined(Heights(t)[t.left[k]], Heights(t)[t.right[k]])
      BY <1>1 DEF Levels
    <3> QED
      BY <3>1, <3>2 DEF Joined
  <2>3. Levels(t.right, t.left, Heights(t))
    BY <1>1, <2>2 DEF Levels
  <2> QED
    BY <1>3, <2>3 DEF Hand
<1> QED
  BY <1>2, <1>3

\* One rotation repairs a node that leans outwards.
LEMMA RaiseOnce ==
  ASSUME NEW t, NEW S, Good(t, S), NEW s \in BOOLEAN,
         NEW n \in S[t.root], NEW L, NEW R, L = Hand(t, s), R = Hand(t, ~ s),
         NEW g, Fit(L, R, g, {n}),
         g[R[n]] = g[L[n]] + 2, g[L[R[n]]] <= g[R[R[n]]]
  PROVE  Raised(t, S, n, Turn(t, s, n), s,
                IF g[L[R[n]]] < g[R[R[n]]] THEN g[L[n]] + 2 - g[n] ELSE g[L[n]] + 3 - g[n])
<1> USE KeyAssumption DEF Node
<1> DEFINE r == R[n]  u == Turn(t, s, n)
           T == SetsTurned(Hand(t, s), Hand(t, ~ s), S, n)
<1>1. /\ Shape(t.root, L, R, t.parent, S, Along(s))
      /\ Orders(Along(s)) /\ L \in [Key -> Node] /\ R \in [Key -> Node]
  BY Views
<1>2. n \in Key
  BY <1>1 DEF Shape, Pointers
<1>3. g \in [Node -> Nat] /\ g[Nil] = 0
  BY DEF Fit
<1>4. r \in Key
  BY <1>1, <1>2, <1>3
<1>5. r # n /\ EvenAt(L, R, g, r)
  <2>1. r # n
    BY <1>1, <1>2, ShapeFacts
  <2> QED
    BY <2>1, <1>4 DEF Fit
<1>6. g[L[n]] \in Nat /\ g[L[r]] \in Nat /\ g[R[r]] \in Nat /\ g[n] \in Nat
  BY <1>1, <1>2, <1>3, <1>4
<1> DEFINE v == Joined(g[L[n]], g[L[r]])
           w == Joined(v, g[R[r]])
<1>7. g[R[r]] = g[L[n]] + 1 /\ g[L[r]] \in {g[L[n]], g[L[n]] + 1}
  BY <1>5, <1>6 DEF EvenAt, Joined
<1>8. /\ v \in Nat /\ w \in Nat
      /\ g[L[n]] - g[L[r]] \in -1..1 /\ v - g[R[r]] \in -1..1
      /\ w = IF g[L[r]] < g[R[r]] THEN g[L[n]] + 2 ELSE g[L[n]] + 3
  BY <1>6, <1>7 DEF Joined
<1>9. /\ Turned(t.root, L, R, t.parent, n, u.root, Hand(u, s), Hand(u, ~ s), u.parent)
      /\ Good(u, T) /\ T[u.root] = S[t.root]
  BY <1>4, Turning
<1>10. Fit(L, R, g, {n, r})
  BY DEF Fit
<1> HIDE DEF u, v, w
<1>11. u.parent[n] = r /\ u.parent[r] = t.parent[n]
  BY <1>2, <1>4, <1>5, <1>9 DEF Turned
<1>11a. v = Joined(g[L[n]], g[L[R[n]]]) /\ w = Joined(v, g[R[R[n]]])
  BY DEF v, w
<1>12. Reaches(Hand(u, s), Hand(u, ~ s), t.parent[n], r, w - g[n], [g EXCEPT ![n] = v, ![r] = w])
  <2> DEFINE L2 == Hand(u, s)  R2 == Hand(u, ~ s)
  <2>1. Turned(t.root, L, R, t.parent, n, u.root, L2, R2, u.parent)
    BY <1>9
  <2>2. R[n] # Nil /\ Fit(L, R, g, {n, R[n]})
    BY <1>4, <1>10
  <2>3. v \in Nat /\ v = Joined(g[L[n]], g[L[R[n]]]) /\ g[L[n]] - g[L[R[n]]] \in -1..1
    BY <1>8, <1>11a
  <2>4. w \in Nat /\ w = Joined(v, g[R[R[n]]]) /\ v - g[R[R[n]]] \in -1..1
    BY <1>8, <1>11a
  <2>5. Shape(t.root, L, R, t.parent, S, Along(s)) /\ Orders(Along(s)) /\ n \in Key
    BY <1>1, <1>2
  <2> HIDE DEF L2, R2
  <2>6. Reaches(L2, R2, t.parent[n], R[n], w - g[n], [g EXCEPT ![n] = v, ![R[n]] = w])
    BY ONLY <2>1, <2>2, <2>3, <2>4, <2>5, TurnLast
  <2> QED
    BY <2>6 DEF L2, R2
<1>13. Raised(t, S, n, u, s, w - g[n])
  BY <1>4, <1>9, <1>11, <1>12 DEF Raised
<1>14. w - g[n] = IF g[L[r]] < g[R[r]] THEN g[L[n]] + 2 - g[n] ELSE g[L[n]] + 3 - g[n]
  BY <1>6, <1>8
<1> QED
  BY <1>13, <1>14 DEF u

\* Two rotations repair a node that leans inwards.
LEMMA RaiseTwice ==
  ASSUME NEW t, NEW S, Good(t, S), NEW s \in BOOLEAN,
         NEW n \in S[t.root], NEW L, NEW R, L = Hand(t, s), R = Hand(t, ~ s),
         NEW g, Fit(L, R, g, {n}),
         g[R[n]] = g[L[n]] + 2, g[L[R[n]]] > g[R[R[n]]]
  PROVE  Raised(t, S, n, Turn(Turn(t, ~ s, R[n]), s, n), s, g[L[n]] + 2 - g[n])
<1> USE KeyAssumption DEF Node
<1> DEFINE x == R[n]  y == L[x]
           t1 == Turn(t, ~ s, x)
           L1 == Hand(t1, s)  R1 == Hand(t1, ~ s)
           T1 == SetsTurned(R, L, S, x)
           u == Turn(t1, s, n)
           T2 == SetsTurned(L1, R1, T1, n)
<1>0. Hand(t, ~ ~ s) = L /\ (~ ~ s) = s
  BY DEF Hand
<1>1. /\ Shape(t.root, L, R, t.parent, S, Along(s))
      /\ Orders(Along(s)) /\ L \in [Key -> Node] /\ R \in [Key -> Node]
  BY Views
<1>1a. /\ Shape(t.root, R, L, t.parent, S, Along(~ s)) /\ Orders(Along(~ s))
  <2>1. (~ s) \in BOOLEAN
    OBVIOUS
  <2>2. /\ Shape(t.root, Hand(t, ~ s), Hand(t, ~ ~ s), t.parent, S, Along(~ s))
        /\ Orders(Along(~ s))
    BY <2>1, Views
  <2> QED
    BY <1>0, <2>2
<1>2. n \in Key /\ n # Nil
  BY <1>1 DEF Shape, Pointers
<1>3. g \in [Node -> Nat] /\ g[Nil] = 0
  BY DEF Fit
<1>4. x \in Key /\ x \in S[t.root] /\ t.parent[x] = n
  <2>1. x \in Key
    BY <1>1, <1>2, <1>3
  <2>2. x \in S[n]
    BY <2>1, <1>1, <1>2, ShapeFacts
  <2>3. t.root \in Key
    BY <1>1, <1>2 DEF Shape, Pointers
  <2>4. S[n] \subseteq S[t.root]
    BY <1>1, <2>3 DEF Shape
  <2>5. t.parent[x] = n
    BY <1>1, <1>2, <2>1 DEF Shape
  <2> QED
    BY <2>1, <2>2, <2>4, <2>5
<1>5. x # n /\ EvenAt(L, R, g, x)
  <2>1. x # n
    BY <1>1, <1>2, ShapeFacts
  <2> QED
    BY <2>1, <1>4 DEF Fit
<1>6. g[L[n]] \in Nat /\ g[L[x]] \in Nat /\ g[R[x]] \in Nat /\ g[n] \in Nat
  BY <1>1, <1>2, <1>3, <1>4
<1>7. g[y] = g[L[n]] + 1 /\ g[R[x]] = g[L[n]]
  BY <1>5, <1>6 DEF EvenAt, Joined
<1>8. y \in Key /\ y # x /\ y # n /\ t.parent[y] = x
  <2>1. y \in Key
    BY <1>1, <1>3, <1>4, <1>6, <1>7
  <2>2. t.parent[y] = x
    BY <2>1, <1>1, <1>4 DEF Shape
  <2>3. y # x
    BY <1>1, <1>4, ShapeFacts
  <2>4. y # n
    <3>1. t.parent[n] = x => t.parent[n] \notin S[n]
      BY <1>1, <1>2, <1>4, ShapeFacts
    <3>2. x \in S[n]
      BY <1>1, <1>2, <1>4, ShapeFacts
    <3> QED
      BY <2>2, <3>1, <3>2
  <2> QED
    BY <2>1, <2>2, <2>3, <2>4
<1>9. EvenAt(L, R, g, y) /\ g[L[y]] \in Nat /\ g[R[y]] \in Nat
  BY <1>1, <1>3, <1>8 DEF Fit
<1>10. /\ g[L[y]] \in {g[L[n]], g[L[n]] - 1} /\ g[R[y]] \in {g[L[n]], g[L[n]] - 1}
  <2>1. g[y] = Joined(g[L[y]], g[R[y]]) /\ g[L[y]] - g[R[y]] \in -1..1
    BY <1>9 DEF EvenAt
  <2> HIDE DEF x, y
  <2> QED
    BY <1>6, <1>7, <1>9, <2>1 DEF Joined
<1> DEFINE v1 == Joined(g[R[x]], g[R[y]])
<1>11. v1 = g[L[n]] + 1 /\ v1 \in Nat /\ g[R[x]] - g[R[y]] \in -1..1
  BY <1>6, <1>7, <1>9, <1>10 DEF Joined
<1> DEFINE g1 == [g EXCEPT ![x] = v1]
<1>12. /\ Turned(t.root, R, L, t.parent, x, t1.root, R1, L1, t1.parent)
       /\ Good(t1, T1) /\ T1[t1.root] = S[t.root]
  <2> DEFINE q == ~ s
  <2>1. q \in BOOLEAN /\ Hand(t, q) = R /\ Hand(t, ~ q) = L
    BY <1>0
  <2>2. Hand(t1, q) = R1 /\ Hand(t1, ~ q) = L1
    BY DEF Hand
  <2>3. t1 = Turn(t, q, x)
    OBVIOUS
  <2>4. x \in S[t.root] /\ Hand(t, ~ q)[x] # Nil
    BY <1>4, <1>8, <2>1
  <2> HIDE DEF q, t1, x, L1, R1
  <2>5. /\ Turned(t.root, Hand(t, q), Hand(t, ~ q), t.parent, x,
                  t1.root, Hand(t1, q), Hand(t1, ~ q), t1.parent)
        /\ Good(t1, SetsTurned(Hand(t, q), Hand(t, ~ q), S, x))
        /\ SetsTurned(Hand(t, q), Hand(t, ~ q), S, x)[t1.root] = S[t.root]
    BY <2>1, <2>3, <2>4, Turning
  <2> QED
    BY <2>1, <2>2, <2>5
<1>13. Fit(R1, L1, g1, {y, n})
  <2>1. Fit(R, L, g, {n})
    <3>1. \A k \in Key : L[k] \in Node /\ R[k] \in Node
      BY <1>1
    <3>2. ASSUME NEW k \in Key \ {n} PROVE EvenAt(R, L, g, k)
      <4>1. EvenAt(L, R, g, k) /\ g[L[k]] \in Nat /\ g[R[k]] \in Nat
        BY <1>3, <3>1 DEF Fit
      <4> QED
        BY <4>1 DEF EvenAt, Joined
    <3> QED
      BY <1>3, <3>2 DEF Fit
  <2> HIDE DEF t1, L1, R1, v1
  <2>2. v1 \in Nat /\ v1 = Joined(g[R[x]], g[R[L[x]]]) /\ g[R[x]] - g[R[L[x]]] \in -1..1
    BY <1>11 DEF v1
  <2>3. x \in Key /\ L[x] # Nil /\ Fit(R, L, g, {t.parent[x]})
    BY <1>4, <1>8, <2>1
  <2>4. Turned(t.root, R, L, t.parent, x, t1.root, R1, L1, t1.parent)
    BY <1>12
  <2>5. Shape(t.root, R, L, t.parent, S, Along(~ s)) /\ Orders(Along(~ s))
    BY <1>1a
  <2> DEFINE less == Along(~ s)
  <2>6. Shape(t.root, R, L, t.parent, S, less) /\ Orders(less)
    BY <2>5
  <2> HIDE DEF less, x
  <2>7. Fit(R1, L1, [g EXCEPT ![x] = v1], {L[x], t.parent[x]})
    BY ONLY <2>2, <2>3, <2>4, <2>6, TurnOnce
  <2> QED
    BY <1>4, <2>7 DEF x
<1> HIDE DEF t1, L1, R1, T1
<1>14. R1[n] = y /\ L1[n] = L[n] /\ L1[y] = L[y] /\ R1[y] = x
       /\ t1.parent[n] = t.parent[n]
  <2>1. R[n] = x /\ t.parent[x] = n
    BY <1>4
  <2>2. R1[n] = y
    BY <1>2, <1>4, <1>5, <1>8, <1>12 DEF Turned
  <2>3. L1[n] = L[n]
    <3>1. L[n] # x
      BY <1>1, <1>2, <1>4, ShapeFacts
    <3> QED
      BY <1>2, <1>4, <1>5, <1>8, <1>12, <3>1 DEF Turned
  <2>4. L1[y] = L[y] /\ R1[y] = x
    BY <1>4, <1>8, <1>12 DEF Turned
  <2>5. R[y] # n
    <3>1. R[y] = n => t.parent[n] = y
      BY <1>1, <1>2, <1>8 DEF Shape
    <3>2. t.parent[n] # Nil => t.parent[n] \notin S[n]
      BY <1>1, <1>2, ShapeFacts
    <3>3. y \in S[x] /\ x \in S[n]
      BY <1>1, <1>2, <1>4, <1>8, ShapeFacts
    <3>4. S[x] \subseteq S[n]
      BY <1>1, <1>2, <3>3 DEF Shape
    <3> QED
      BY <3>1, <3>2, <3>3, <3>4, <1>8
  <2>6. t1.parent[n] = t.parent[n]
    BY <1>2, <1>5, <1>8, <1>12, <2>5 DEF Turned
  <2> QED
    BY <2>2, <2>3, <2>4, <2>6
<1>15. g1 \in [Node -> Nat] /\ g1[x] = v1 /\ \A k \in Node : k # x => g1[k] = g[k]
  BY <1>3, <1>4, <1>11
<1> HIDE DEF g1
<1>16. L[n] # x /\ L[y] # x /\ L[n] \in Node /\ L[y] \in Node
  <2>1. L[n] # x
    BY <1>1, <1>2, <1>4, ShapeFacts
  <2>2. L[y] = x => t.parent[x] = y
    BY <1>1, <1>4, <1>8 DEF Shape
  <2> QED
    BY <2>1, <2>2, <1>1, <1>2, <1>4, <1>8
<1>17. g1[L1[n]] = g[L[n]] /\ g1[L1[R1[n]]] = g[L[y]] /\ g1[R1[R1[n]]] = v1 /\ g1[n] = g[n]
  BY <1>2, <1>5, <1>14, <1>15, <1>16
<1> DEFINE v == Joined(g[L[n]], g[L[y]])
           w == Joined(v, v1)
<1>18. /\ v = g[L[n]] + 1 /\ v \in Nat /\ w = g[L[n]] + 2 /\ w \in Nat
       /\ g[L[n]] - g[L[y]] \in -1..1 /\ v - v1 \in -1..1
  BY <1>6, <1>9, <1>10, <1>11 DEF Joined
<1>19. /\ Shape(t1.root, L1, R1, t1.parent, T1, Along(s))
       /\ Orders(Along(s)) /\ L1 \in [Key -> Node] /\ R1 \in [Key -> Node]
  BY <1>12, Views DEF L1, R1
<1>20. /\ Turned(t1.root, L1, R1, t1.parent, n, u.root, Hand(u, s), Hand(u, ~ s), u.parent)
       /\ Good(u, T2) /\ T2[u.root] = T1[t1.root]
  <2>1. n \in T1[t1.root]
    BY <1>12
  <2>2. Hand(t1, ~ s)[n] # Nil
    BY <1>8, <1>14 DEF R1
  <2> HIDE DEF u
  <2>3. u = Turn(t1, s, n)
    BY DEF u
  <2> QED
    BY <1>12, <2>1, <2>2, <2>3, Turning DEF L1, R1
<1> HIDE DEF u
<1>21. Fit(L1, R1, g1, {n, y})
  <2>1. \A k \in Key : L1[k] \in Node /\ R1[k] \in Node
    BY <1>19
  <2>2. ASSUME NEW k \in Key \ {n, y} PROVE EvenAt(L1, R1, g1, k)
    <3>1. EvenAt(R1, L1, g1, k) /\ g1[L1[k]] \in Nat /\ g1[R1[k]] \in Nat
      BY <1>13, <1>15, <2>1 DEF Fit
    <3> QED
      BY <3>1 DEF EvenAt, Joined
  <2> QED
    BY <1>13, <2>2 DEF Fit
<1>22. Reaches(Hand(u, s), Hand(u, ~ s), t1.parent[n], R1[n], w - g1[n],
               [g1 EXCEPT ![n] = v, ![R1[n]] = w])
  <2>1. v \in Nat /\ v = Joined(g1[L1[n]], g1[L1[R1[n]]]) /\ g1[L1[n]] - g1[L1[R1[n]]] \in -1..1
    BY <1>17, <1>18
  <2>2. w \in Nat /\ w = Joined(v, g1[R1[R1[n]]]) /\ v - g1[R1[R1[n]]] \in -1..1
    BY <1>17, <1>18
  <2>3. R1[n] # Nil /\ Fit(L1, R1, g1, {n, R1[n]})
    BY <1>8, <1>14, <1>21
  <2> HIDE DEF v, w
  <2> QED
    BY <1>2, <1>19, <1>20, <2>1, <2>2, <2>3, TurnLast, ZenonT(30)
<1>23. u.parent[n] = y /\ u.parent[y] = t1.parent[n]
  BY <1>2, <1>8, <1>14, <1>20 DEF Turned
<1>24. Raised(t, S, n, u, s, g[L[n]] + 2 - g[n])
  <2>1. Reaches(Hand(u, s), Hand(u, ~ s), t.parent[n], y, g[L[n]] + 2 - g[n],
                [g1 EXCEPT ![n] = v, ![R1[n]] = w])
    <3>1. w - g1[n] = g[L[n]] + 2 - g[n]
      <4> HIDE DEF v, w
      <4> QED
        BY <1>6, <1>17, <1>18
    <3>2. t1.parent[n] = t.parent[n] /\ R1[n] = y
      BY <1>14
    <3> HIDE DEF v, w, y
    <3> QED
      BY <1>22, <3>1, <3>2
  <2> HIDE DEF v, w
  <2> QED
    BY <1>8, <1>12, <1>14, <1>20, <1>23, <2>1 DEF Raised
<1> QED
  BY <1>24 DEF u, t1

-----------------------------------------------------------------------------
(***************************************************************************)
(* The climb after a removal.                                              *)
(***************************************************************************)

\* Some heights are right and even but for one subtree of a, off by d.
Slack(t, a, d) ==
  \E s \in BOOLEAN : \E g : NearBy(Hand(t, s), Hand(t, ~ s), a, d, g)

\* What a round leaves is a slack at the parent, or none when the height is the old
\* one.
LEMMA ReachSlack ==
  ASSUME NEW t, NEW S, Good(t, S), NEW s \in BOOLEAN, NEW x \in Key, NEW d \in Int, NEW f,
         Reaches(Hand(t, s), Hand(t, ~ s), t.parent[x], x, d, f)
  PROVE  /\ Slack(t, t.parent[x], d)
         /\ d = 0 => \A e : Slack(t, Nil, e)
<1> USE KeyAssumption DEF Node
<1> DEFINE L == Hand(t, s)  R == Hand(t, ~ s)  p == t.parent[x]
<1>1. /\ Shape(t.root, L, R, t.parent, S, Along(s)) /\ L \in [Key -> Node] /\ R \in [Key -> Node]
  BY Views
<1>2. (~ s) \in BOOLEAN /\ Hand(t, ~ ~ s) = L
  BY DEF Hand
<1>3. ASSUME NEW g, Fit(L, R, g, {Nil}) PROVE \A e : Slack(t, Nil, e)
  <2>1. \A e : NearBy(L, R, Nil, e, g)
    BY <1>3 DEF NearBy
  <2> QED
    BY <2>1 DEF Slack
<1>4. ASSUME NEW g, Fit(R, L, g, {Nil}) PROVE \A e : Slack(t, Nil, e)
  <2>1. \A e : NearBy(R, L, Nil, e, g)
    BY <1>4 DEF NearBy
  <2>2. \A e : NearBy(Hand(t, ~ s), Hand(t, ~ ~ s), Nil, e, g)
    BY <2>1, <1>2
  <2> QED
    BY <2>2, <1>2 DEF Slack
<1>5. CASE p = Nil
  <2>1. Fit(L, R, f, {Nil})
    BY <1>5 DEF Reaches, NearBy
  <2> QED
    BY <1>3, <1>5, <2>1
<1>6. ASSUME p # Nil, NEW A \in [Key -> Node], NEW B \in [Key -> Node], NearBy(A, B, p, 0, f)
      PROVE  Fit(A, B, f, {Nil})
  <2>1. p \in Key
    BY <1>1, <1>6 DEF Shape, Pointers
  <2>2. f[A[p]] \in Nat /\ f[B[p]] \in Nat
    BY <2>1, <1>6 DEF NearBy, Fit
  <2>3. EvenAt(A, B, f, p)
    <3>1. f[A[p]] - 0 = f[A[p]]
      BY <2>2
    <3> QED
      BY <1>6, <3>1 DEF NearBy, EvenAt
  <2> QED
    BY <1>6, <2>3 DEF NearBy, Fit
<1>7. CASE p # Nil /\ x = L[p]
  <2>1. NearBy(L, R, p, d, f)
    BY <1>7 DEF Reaches
  <2>2. Slack(t, p, d)
    BY <2>1 DEF Slack
  <2>3. d = 0 => \A e : Slack(t, Nil, e)
    <3> SUFFICES ASSUME d = 0 PROVE \A e : Slack(t, Nil, e)
      OBVIOUS
    <3>1. NearBy(L, R, p, 0, f)
      BY <2>1
    <3> HIDE DEF L, R
    <3>2. Fit(L, R, f, {Nil})
      BY <1>1, <1>6, <1>7, <3>1
    <3> QED
      BY <1>3, <3>2
  <2> QED
    BY <2>2, <2>3
<1>8. CASE p # Nil /\ x = R[p]
  <2>1. NearBy(R, L, p, d, f)
    BY <1>8 DEF Reaches
  <2>2. Slack(t, p, d)
    <3>1. NearBy(Hand(t, ~ s), Hand(t, ~ ~ s), p, d, f)
      BY <2>1, <1>2
    <3> QED
      BY <3>1, <1>2 DEF Slack
  <2>3. d = 0 => \A e : Slack(t, Nil, e)
    <3> SUFFICES ASSUME d = 0 PROVE \A e : Slack(t, Nil, e)
      OBVIOUS
    <3>1. NearBy(R, L, p, 0, f)
      BY <2>1
    <3> HIDE DEF L, R
    <3>2. Fit(R, L, f, {Nil})
      BY <1>1, <1>6, <1>8, <3>1
    <3> QED
      BY <1>4, <3>2
  <2> QED
    BY <2>2, <2>3
<1>9. p # Nil => x = L[p] \/ x = R[p]
  BY <1>1 DEF Shape
<1> QED
  BY <1>5, <1>7, <1>8, <1>9

\* Which rotation a round of remove does, from the heights.
LEMMA RaisedForRemoveForm ==
  ASSUME NEW t, NEW S, Good(t, S), NEW s \in BOOLEAN, NEW n \in Key,
         NEW L, NEW R, L = Hand(t, s), R = Hand(t, ~ s), NEW h, h = Heights(t)
  PROVE  /\ h[L[n]] - h[R[n]] \in -1..1 => RaisedForRemove(t, n) = t
         /\ h[R[n]] = h[L[n]] + 2 =>
              RaisedForRemove(t, n) = IF h[L[R[n]]] <= h[R[R[n]]] THEN Turn(t, s, n)
                                      ELSE Turn(Turn(t, ~ s, R[n]), s, n)
<1> USE KeyAssumption DEF Node
<1>1. /\ L \in [Key -> Node] /\ R \in [Key -> Node]
      /\ Levels(L, R, h)
  BY Views, HeightsView
<1>2. h[L[n]] \in Nat /\ h[R[n]] \in Nat /\ h[Nil] = 0 /\ h[n] = Joined(h[L[n]], h[R[n]])
  BY <1>1 DEF Levels
<1>3. Balance(t, n) = h[t.left[n]] - h[t.right[n]] /\ (Tall(t, n) <=> h[n] > 2)
  BY DEF Balance, Tall
<1>4. CASE s
  <2>1. L = t.left /\ R = t.right
    BY <1>4 DEF Hand
  <2>2. h[L[n]] - h[R[n]] \in -1..1 => RaisedForRemove(t, n) = t
    <3> SUFFICES ASSUME h[L[n]] - h[R[n]] \in -1..1 PROVE RaisedForRemove(t, n) = t
      OBVIOUS
    <3>1. ~ (Balance(t, n) > 1) /\ ~ (Balance(t, n) < -1)
      BY <1>2, <1>3, <2>1
    <3> QED
      BY <3>1 DEF RaisedForRemove
  <2>3. ASSUME h[R[n]] = h[L[n]] + 2
        PROVE  RaisedForRemove(t, n) = IF h[L[R[n]]] <= h[R[R[n]]] THEN Turn(t, s, n)
                                       ELSE Turn(Turn(t, ~ s, R[n]), s, n)
    <3>1. Tall(t, n) /\ Balance(t, n) < -1 /\ ~ (Balance(t, n) > 1)
      BY <1>2, <1>3, <2>1, <2>3 DEF Joined
    <3>2. R[n] \in Key
      BY <1>1, <1>2, <2>3
    <3>3. h[L[R[n]]] \in Nat /\ h[R[R[n]]] \in Nat
      BY <1>1, <3>2 DEF Levels
    <3>4. Balance(t, R[n]) <= 0 <=> h[L[R[n]]] <= h[R[R[n]]]
      BY <2>1, <3>3 DEF Balance
    <3>5. RaisedForRemove(t, n) = IF Balance(t, R[n]) <= 0 THEN RotateLeft(t, n)
                                  ELSE RotateLeft(RotateRight(t, R[n]), n)
      BY <2>1, <3>1 DEF RaisedForRemove
    <3> QED
      BY <1>4, <3>4, <3>5 DEF Turn
  <2> QED
    BY <2>2, <2>3
<1>5. CASE ~ s
  <2>1. L = t.right /\ R = t.left
    BY <1>5 DEF Hand
  <2>2. h[L[n]] - h[R[n]] \in -1..1 => RaisedForRemove(t, n) = t
    <3> SUFFICES ASSUME h[L[n]] - h[R[n]] \in -1..1 PROVE RaisedForRemove(t, n) = t
      OBVIOUS
    <3>1. ~ (Balance(t, n) > 1) /\ ~ (Balance(t, n) < -1)
      BY <1>2, <1>3, <2>1
    <3> QED
      BY <3>1 DEF RaisedForRemove
  <2>3. ASSUME h[R[n]] = h[L[n]] + 2
        PROVE  RaisedForRemove(t, n) = IF h[L[R[n]]] <= h[R[R[n]]] THEN Turn(t, s, n)
                                       ELSE Turn(Turn(t, ~ s, R[n]), s, n)
    <3>1. Tall(t, n) /\ Balance(t, n) > 1
      BY <1>2, <1>3, <2>1, <2>3 DEF Joined
    <3>2. R[n] \in Key
      BY <1>1, <1>2, <2>3
    <3>3. h[L[R[n]]] \in Nat /\ h[R[R[n]]] \in Nat
      BY <1>1, <3>2 DEF Levels
    <3>4. Balance(t, R[n]) >= 0 <=> h[L[R[n]]] <= h[R[R[n]]]
      BY <2>1, <3>3 DEF Balance
    <3>5. RaisedForRemove(t, n) = IF Balance(t, R[n]) >= 0 THEN RotateRight(t, n)
                                  ELSE RotateRight(RotateLeft(t, R[n]), n)
      BY <2>1, <3>1 DEF RaisedForRemove
    <3> QED
      BY <1>5, <3>4, <3>5 DEF Turn
  <2> QED
    BY <2>2, <2>3
<1> QED
  BY <1>4, <1>5

\* A round of remove at the node with the slack, or at a child of it, keeps the
\* search tree and hands the slack to the next node of the climb or its parent.
LEMMA RemoveRaise ==
  ASSUME NEW t, NEW S, Good(t, S), NEW n \in S[t.root],
         NEW a \in {Nil, n, t.parent[n]}, Slack(t, a, -1),
         NEW u, u = RaisedForRemove(t, n)
  PROVE  /\ \E T : Good(u, T) /\ T[u.root] = S[t.root]
         /\ u.parent[n] \in S[t.root] \cup {Nil}
         /\ \/ Slack(u, Nil, -1)
            \/ Slack(u, u.parent[n], -1)
            \/ u.parent[n] # Nil /\ Slack(u, u.parent[u.parent[n]], -1)
<1> USE KeyAssumption DEF Node
<1>0a. PICK s \in BOOLEAN : \E g : NearBy(Hand(t, s), Hand(t, ~ s), a, -1, g)
  BY DEF Slack
<1>0. PICK g : NearBy(Hand(t, s), Hand(t, ~ s), a, -1, g)
  BY <1>0a
<1> DEFINE L == Hand(t, s)  R == Hand(t, ~ s)  h == Heights(t)
<1>1. /\ Shape(t.root, L, R, t.parent, S, Along(s)) /\ Orders(Along(s))
      /\ L \in [Key -> Node] /\ R \in [Key -> Node]
      /\ Levels(L, R, h)
  BY Views, HeightsView
<1>2. n \in Key /\ t.parent[n] \in Node /\ t.root \in Node
  BY <1>1 DEF Shape, Pointers
<1>3. /\ h[L[n]] - h[R[n]] \in -1..1 => u = t
      /\ h[R[n]] = h[L[n]] + 2 =>
           u = IF h[L[R[n]]] <= h[R[R[n]]] THEN Turn(t, s, n)
               ELSE Turn(Turn(t, ~ s, R[n]), s, n)
  BY <1>2, RaisedForRemoveForm
<1> HIDE DEF h, L, R
<1>4. NearBy(L, R, a, -1, g) /\ Fit(L, R, g, {a}) /\ g \in [Node -> Nat] /\ g[Nil] = 0 /\ a \in Node
  BY <1>0, <1>2 DEF NearBy, Fit, L, R
<1>5. \A k \in Node : a \notin S[k] => g[k] = h[k]
  <2> DEFINE less == Along(s)
  <2>1. Shape(t.root, L, R, t.parent, S, less) /\ Orders(less)
    BY <1>1
  <2> DEFINE d == -1
  <2>2. Levels(L, R, h) /\ NearBy(L, R, a, d, g) /\ a \in Node
    BY <1>1, <1>4
  <2> HIDE DEF less, d, Node
  <2>3. \A k \in Node : a \notin S[k] => g[k] = h[k]
    BY ONLY <2>1, <2>2, TrueLevels
  <2> QED
    BY <2>3
<1>6. t.parent[n] \in S[t.root] \cup {Nil}
  BY <1>1, <1>2, ShapeFacts
<1>7. L[n] \in Node /\ R[n] \in Node /\ g[L[n]] \in Nat /\ g[R[n]] \in Nat /\ g[n] \in Nat
  BY <1>1, <1>2, <1>4
<1>8. a \notin S[L[n]] /\ a \notin S[R[n]]
  <2>1. n \notin S[L[n]] /\ n \notin S[R[n]]
    BY <1>1, <1>2, ShapeFacts
  <2>2. S[L[n]] \subseteq S[n] /\ S[R[n]] \subseteq S[n]
    BY <1>1, <1>2 DEF Shape
  <2>3. t.parent[n] # Nil => t.parent[n] \notin S[n]
    BY <1>1, <1>2, ShapeFacts
  <2>4. Nil \notin S[L[n]] /\ Nil \notin S[R[n]]
    BY <1>1, <1>7 DEF Shape, Pointers
  <2> QED
    BY <2>1, <2>2, <2>3, <2>4
<1>9. g[L[n]] = h[L[n]] /\ g[R[n]] = h[R[n]]
  BY <1>5, <1>7, <1>8
<1>10. CASE a # n
  <2>1. EvenAt(L, R, g, n)
    BY <1>2, <1>4, <1>10 DEF Fit
  <2>2. u = t
    BY <1>3, <1>9, <2>1 DEF EvenAt
  <2> QED
    BY <1>6, <1>10, <2>2
<1>11. CASE a = n
  <2>1. /\ g[n] = 1 + IF g[L[n]] + 1 > g[R[n]] THEN g[L[n]] + 1 ELSE g[R[n]]
        /\ g[L[n]] + 1 - g[R[n]] \in -1..1
    <3> DEFINE z == g[L[n]] - (-1)
    <3>1. z = g[L[n]] + 1
      BY <1>7
    <3>2. g[n] = Joined(z, g[R[n]]) /\ z - g[R[n]] \in -1..1
      BY <1>2, <1>4, <1>11 DEF NearBy
    <3> HIDE DEF z
    <3>3. g[n] = 1 + IF z > g[R[n]] THEN z ELSE g[R[n]]
      BY <3>2 DEF Joined
    <3> QED
      BY <1>7, <3>1, <3>2, <3>3
  <2>2. CASE g[L[n]] - g[R[n]] \in -1..1
    <3>1. u = t
      BY <1>3, <1>9, <2>2
    <3> DEFINE v == Joined(g[L[n]], g[R[n]])
               f == [g EXCEPT ![n] = v]
    <3>2. v \in Nat /\ v - g[n] \in {-1, 0}
      BY <1>7, <2>1, <2>2 DEF Joined
    <3>3. v = Joined(g[L[n]], g[R[n]])
      OBVIOUS
    <3> HIDE DEF v
    <3>4. Reaches(L, R, t.parent[n], n, v - g[n], f)
      BY <1>1, <1>2, <1>4, <1>11, <2>2, <3>2, <3>3, Refit
    <3> HIDE DEF f
    <3>5. v - g[n] \in Int
      BY <3>2
    <3> DEFINE d == v - g[n]
    <3>6. Reaches(Hand(t, s), Hand(t, ~ s), t.parent[n], n, d, f) /\ d \in Int /\ d \in {-1, 0}
      BY <3>2, <3>4, <3>5 DEF L, R
    <3> HIDE DEF d
    <3>7. Slack(t, t.parent[n], d) /\ (d = 0 => \A e : Slack(t, Nil, e))
      BY <1>2, <3>6, ReachSlack
    <3>8. d = -1 \/ d = 0
      BY <3>6
    <3> QED
      BY <1>6, <3>1, <3>7, <3>8
  <2>3. CASE ~ (g[L[n]] - g[R[n]] \in -1..1)
    <3>1. g[R[n]] = g[L[n]] + 2 /\ g[n] = g[L[n]] + 3
      BY <1>7, <2>1, <2>3 DEF Joined
    <3>2. R[n] \in Key /\ R[n] # Nil
      BY <1>4, <1>7, <3>1
    <3>3. a \notin S[L[R[n]]] /\ a \notin S[R[R[n]]]
      <4>1. S[R[n]] = {R[n]} \cup S[L[R[n]]] \cup S[R[R[n]]]
        BY <1>1, <3>2 DEF Shape
      <4> QED
        BY <1>8, <4>1
    <3>4. /\ L[R[n]] \in Node /\ R[R[n]] \in Node
          /\ g[L[R[n]]] = h[L[R[n]]] /\ g[R[R[n]]] = h[R[R[n]]]
          /\ g[L[R[n]]] \in Nat /\ g[R[R[n]]] \in Nat
      BY <1>1, <1>4, <1>5, <3>2, <3>3
    <3>5. \E d \in {-1, 0} : Raised(t, S, n, u, s, d)
      <4>1. CASE g[L[R[n]]] <= g[R[R[n]]]
        <5>1. u = Turn(t, s, n)
          BY <1>3, <1>9, <3>1, <3>4, <4>1
        <5>2. Raised(t, S, n, Turn(t, s, n), s,
                IF g[L[R[n]]] < g[R[R[n]]] THEN g[L[n]] + 2 - g[n] ELSE g[L[n]] + 3 - g[n])
          BY <1>4, <1>11, <3>1, <4>1, RaiseOnce, ZenonT(30) DEF L, R
        <5> DEFINE d == IF g[L[R[n]]] < g[R[R[n]]] THEN g[L[n]] + 2 - g[n] ELSE g[L[n]] + 3 - g[n]
        <5>3. d \in {-1, 0}
          BY <1>7, <3>1
        <5>4. Raised(t, S, n, u, s, d)
          BY <5>1, <5>2
        <5> HIDE DEF d
        <5> QED
          BY <5>3, <5>4
      <4>2. CASE ~ (g[L[R[n]]] <= g[R[R[n]]])
        <5>0. g[L[R[n]]] > g[R[R[n]]]
          BY <3>4, <4>2
        <5>1. u = Turn(Turn(t, ~ s, R[n]), s, n)
          BY <1>3, <1>9, <3>1, <3>4, <4>2
        <5>2. Raised(t, S, n, Turn(Turn(t, ~ s, R[n]), s, n), s, g[L[n]] + 2 - g[n])
          BY <1>4, <1>11, <3>1, <5>0, RaiseTwice DEF L, R
        <5>3. g[L[n]] + 2 - g[n] = -1
          BY <1>7, <3>1
        <5>4. Raised(t, S, n, u, s, -1)
          BY <5>1, <5>2, <5>3
        <5> QED
          BY <5>4
      <4> QED
        BY <4>1, <4>2
    <3>6. PICK d \in {-1, 0} : Raised(t, S, n, u, s, d)
      BY <3>5
    <3>7. PICK T, x, f : /\ x \in Key
               /\ Good(u, T) /\ T[u.root] = S[t.root]
               /\ u.parent[n] = x /\ u.parent[x] = t.parent[n]
               /\ Reaches(Hand(u, s), Hand(u, ~ s), t.parent[n], x, d, f)
      BY <3>6 DEF Raised
    <3>8. x \in S[t.root]
      <4>1. u.parent[n] # Nil => u.parent[n] \in T[u.root]
        BY <3>7, <1>2, OrderFacts, ShapeFacts DEF Good
      <4> QED
        BY <3>7, <4>1
    <3>9. d \in Int /\ (d = -1 \/ d = 0)
      BY <3>6
    <3>10. Slack(u, u.parent[x], d) /\ (d = 0 => \A e : Slack(u, Nil, e))
      BY <3>7, <3>9, ReachSlack
    <3> QED
      BY <3>7, <3>8, <3>9, <3>10
  <2> QED
    BY <2>2, <2>3
<1> QED
  BY <1>10, <1>11

-----------------------------------------------------------------------------
(***************************************************************************)
(* The climb after an insertion.                                           *)
(***************************************************************************)

\* The subtree at x has grown by the key k: it is k itself, or it is higher on the
\* side of k.
Leans(t, S, g, x, k) ==
  /\ k \in S[x]
  /\ x = k => t.left[k] = Nil /\ t.right[k] = Nil
  /\ x # k => \E q \in BOOLEAN : /\ k \in S[Hand(t, q)[x]]
                                 /\ g[Hand(t, q)[x]] = g[Hand(t, ~ q)[x]] + 1

\* The heights are right and even but for the subtree of a that has grown by k.
Grown(t, S, a, k) ==
  \E s \in BOOLEAN : \E g : /\ NearBy(Hand(t, s), Hand(t, ~ s), a, 1, g)
                            /\ a # Nil => Leans(t, S, g, Hand(t, s)[a], k)

\* Right and even from one side is right and even from the other.
LEMMA FitMirror ==
  ASSUME NEW L \in [Key -> Node], NEW R \in [Key -> Node], NEW g, NEW X, Fit(L, R, g, X)
  PROVE  Fit(R, L, g, X)
<1>1. ASSUME NEW k \in Key, k \notin X PROVE EvenAt(R, L, g, k)
  <2>1. EvenAt(L, R, g, k)
    BY <1>1 DEF Fit
  <2>2. g[L[k]] \in Nat /\ g[R[k]] \in Nat /\ g[k] \in Nat
    BY DEF Fit, Node
  <2> QED
    BY <2>1, <2>2 DEF EvenAt, Joined
<1> QED
  BY <1>1 DEF Fit

\* Which rotation a round of insert does, from the heights and the side of the key.
LEMMA RaisedForInsertForm ==
  ASSUME NEW t, NEW S, Good(t, S), NEW s \in BOOLEAN, NEW n \in Key,
         NEW L, NEW R, L = Hand(t, s), R = Hand(t, ~ s), NEW h, h = Heights(t),
         NEW k, k = item, k \in Key
  PROVE  /\ h[L[n]] - h[R[n]] \in -1..1 => RaisedForInsert(t, n) = t
         /\ h[R[n]] = h[L[n]] + 2 /\ <<R[n], k>> \in Along(s) =>
              RaisedForInsert(t, n) = Turn(t, s, n)
         /\ h[R[n]] = h[L[n]] + 2 /\ <<k, R[n]>> \in Along(s) =>
              RaisedForInsert(t, n) = Turn(Turn(t, ~ s, R[n]), s, n)
<1> USE KeyAssumption DEF Node
<1>1. /\ L \in [Key -> Node] /\ R \in [Key -> Node]
      /\ Levels(L, R, h)
  BY Views, HeightsView
<1>2. h[L[n]] \in Nat /\ h[R[n]] \in Nat /\ h[Nil] = 0 /\ h[n] = Joined(h[L[n]], h[R[n]])
  BY <1>1 DEF Levels
<1>3. Balance(t, n) = h[t.left[n]] - h[t.right[n]] /\ (Tall(t, n) <=> h[n] > 2)
  BY DEF Balance, Tall
<1>4. ASSUME h[L[n]] - h[R[n]] \in -1..1 PROVE RaisedForInsert(t, n) = t
  <2>1. ~ (Balance(t, n) > 1) /\ ~ (Balance(t, n) < -1)
    <3>1. CASE s
      BY <1>2, <1>3, <1>4, <3>1 DEF Hand
    <3>2. CASE ~ s
      BY <1>2, <1>3, <1>4, <3>2 DEF Hand
    <3> QED
      BY <3>1, <3>2
  <2> QED
    BY <2>1 DEF RaisedForInsert
<1>5. ASSUME h[R[n]] = h[L[n]] + 2
      PROVE  /\ R[n] \in Key /\ Tall(t, n)
             /\ s => Balance(t, n) < -1 /\ ~ (Balance(t, n) > 1)
             /\ ~ s => Balance(t, n) > 1
  <2>1. R[n] \in Key
    BY <1>1, <1>2, <1>5
  <2>2. Tall(t, n)
    BY <1>2, <1>3, <1>5 DEF Joined
  <2>3. s => Balance(t, n) < -1 /\ ~ (Balance(t, n) > 1)
    BY <1>2, <1>3, <1>5 DEF Hand
  <2>4. ~ s => Balance(t, n) > 1
    BY <1>2, <1>3, <1>5 DEF Hand
  <2> QED
    BY <2>1, <2>2, <2>3, <2>4
<1>6. \A r \in Key : /\ <<r, k>> \in Less <=> Diff(k, r) > 0
                     /\ <<k, r>> \in Less <=> Diff(k, r) < 0
                     /\ <<r, k>> \in More <=> Diff(k, r) < 0
                     /\ <<k, r>> \in More <=> Diff(k, r) > 0
                     /\ ~ (Diff(k, r) > 0 /\ Diff(k, r) < 0)
  <2>1. \A r \in Key : ~ (Diff(k, r) > 0 /\ Diff(k, r) < 0)
    BY DiffAssumption
  <2>2. \A r \in Key : Diff(k, r) > 0 <=> Diff(r, k) < 0
    BY DiffAssumption
  <2> QED
    BY <2>1, <2>2, OrderFacts
<1>7. CASE s
  <2>1. L = t.left /\ R = t.right /\ Along(s) = Less
    BY <1>7 DEF Hand, Along
  <2>2. ASSUME h[R[n]] = h[L[n]] + 2, <<R[n], k>> \in Less
        PROVE  RaisedForInsert(t, n) = RotateLeft(t, n)
    BY <1>5, <1>6, <1>7, <2>1, <2>2 DEF RaisedForInsert
  <2>3. ASSUME h[R[n]] = h[L[n]] + 2, <<k, R[n]>> \in Less
        PROVE  RaisedForInsert(t, n) = RotateLeft(RotateRight(t, R[n]), n)
    BY <1>5, <1>6, <1>7, <2>1, <2>3 DEF RaisedForInsert
  <2> QED
    BY <1>4, <1>7, <2>1, <2>2, <2>3 DEF Turn
<1>8. CASE ~ s
  <2>1. L = t.right /\ R = t.left /\ Along(s) = More
    BY <1>8 DEF Hand, Along
  <2>2. ASSUME h[R[n]] = h[L[n]] + 2, <<R[n], k>> \in More
        PROVE  RaisedForInsert(t, n) = RotateRight(t, n)
    BY <1>5, <1>6, <1>8, <2>1, <2>2 DEF RaisedForInsert
  <2>3. ASSUME h[R[n]] = h[L[n]] + 2, <<k, R[n]>> \in More
        PROVE  RaisedForInsert(t, n) = RotateRight(RotateLeft(t, R[n]), n)
    BY <1>5, <1>6, <1>8, <2>1, <2>3 DEF RaisedForInsert
  <2> QED
    BY <1>4, <1>8, <2>1, <2>2, <2>3 DEF Turn
<1> QED
  BY <1>7, <1>8

\* A round of insert at the node whose subtree has grown keeps the search tree and
\* hands the growth on to the parent, or ends it.  The tests on the key, and not on
\* the heights, choose the right rotation because that subtree leans towards it.
LEMMA InsertRaise ==
  ASSUME NEW t, NEW S, Good(t, S), NEW n \in S[t.root],
         NEW k, k = item, k \in Key,
         NEW a \in {Nil, n}, Grown(t, S, a, k),
         NEW u, u = RaisedForInsert(t, n)
  PROVE  /\ u.parent[n] \in S[t.root] \cup {Nil}
         /\ \E T, b : /\ Good(u, T) /\ T[u.root] = S[t.root]
                      /\ b \in {Nil, u.parent[n]} /\ Grown(u, T, b, k)
<1> USE KeyAssumption DEF Node
<1>0a. PICK q \in BOOLEAN : \E g : /\ NearBy(Hand(t, q), Hand(t, ~ q), a, 1, g)
                                   /\ a # Nil => Leans(t, S, g, Hand(t, q)[a], k)
  BY DEF Grown
<1>0. PICK g : /\ NearBy(Hand(t, q), Hand(t, ~ q), a, 1, g)
               /\ a # Nil => Leans(t, S, g, Hand(t, q)[a], k)
  BY <1>0a
<1> DEFINE s == ~ q  L == Hand(t, s)  R == Hand(t, ~ s)  h == Heights(t)
<1>1. /\ Shape(t.root, L, R, t.parent, S, Along(s)) /\ Orders(Along(s))
      /\ L \in [Key -> Node] /\ R \in [Key -> Node]
      /\ Levels(L, R, h) /\ s \in BOOLEAN
  <2>1. s \in BOOLEAN
    OBVIOUS
  <2> HIDE DEF s
  <2> QED
    BY <2>1, Views, HeightsView
<1>1a. R = Hand(t, q) /\ Hand(t, ~ s) = R /\ L = Hand(t, ~ q)
  BY DEF Hand
<1>2. n \in Key /\ t.parent[n] \in Node /\ t.root \in Node
  BY <1>1 DEF Shape, Pointers
<1>3. /\ h[L[n]] - h[R[n]] \in -1..1 => u = t
      /\ h[R[n]] = h[L[n]] + 2 /\ <<R[n], k>> \in Along(s) => u = Turn(t, s, n)
      /\ h[R[n]] = h[L[n]] + 2 /\ <<k, R[n]>> \in Along(s) =>
              u = Turn(Turn(t, ~ s, R[n]), s, n)
  <2> HIDE DEF s
  <2> QED
    BY <1>1, <1>2, RaisedForInsertForm
<1>4. /\ NearBy(R, L, a, 1, g) /\ (a # Nil => Leans(t, S, g, R[a], k))
      /\ Fit(R, L, g, {a}) /\ g \in [Node -> Nat] /\ g[Nil] = 0 /\ a \in Node
  <2> HIDE DEF s
  <2>1. NearBy(R, L, a, 1, g)
    BY <1>0, <1>1a
  <2>2. a # Nil => Leans(t, S, g, R[a], k)
    BY <1>0, <1>1a
  <2> QED
    BY <1>2, <2>1, <2>2 DEF NearBy, Fit
<1> HIDE DEF h, L, R, s
<1>5. Shape(t.root, R, L, t.parent, S, Along(q)) /\ Orders(Along(q)) /\ Levels(R, L, h)
  BY <1>1a, Views, HeightsView DEF h
<1>6. \A j \in Node : a \notin S[j] => g[j] = h[j]
  <2> DEFINE less == Along(q)  d == 1
  <2>1. Shape(t.root, R, L, t.parent, S, less) /\ Orders(less)
    BY <1>5
  <2>2. Levels(R, L, h) /\ NearBy(R, L, a, d, g) /\ a \in Node
    BY <1>5, <1>4
  <2> HIDE DEF less, d, Node
  <2>3. \A j \in Node : a \notin S[j] => g[j] = h[j]
    BY ONLY <2>1, <2>2, TrueLevels
  <2> QED
    BY <2>3
<1>7. L[n] \in Node /\ R[n] \in Node /\ g[L[n]] \in Nat /\ g[R[n]] \in Nat /\ g[n] \in Nat
  BY <1>1, <1>2, <1>4
<1>8. a \notin S[L[n]] /\ a \notin S[R[n]]
  <2>1. n \notin S[L[n]] /\ n \notin S[R[n]]
    BY <1>1, <1>2, ShapeFacts
  <2>2. Nil \notin S[L[n]] /\ Nil \notin S[R[n]]
    BY <1>1, <1>7 DEF Shape, Pointers
  <2> QED
    BY <2>1, <2>2
<1>9. g[L[n]] = h[L[n]] /\ g[R[n]] = h[R[n]]
  BY <1>6, <1>7, <1>8
<1>10. t.parent[n] \in S[t.root] \cup {Nil}
  BY <1>1, <1>2, ShapeFacts
<1>11. CASE a = Nil
  <2>1. EvenAt(R, L, g, n)
    BY <1>2, <1>4, <1>11 DEF Fit
  <2>2. u = t
    BY <1>3, <1>7, <1>9, <2>1 DEF EvenAt
  <2> QED
    BY <1>10, <1>11, <2>2
<1>12. CASE a = n
  <2>0. /\ g[n] = 1 + IF g[R[n]] - 1 > g[L[n]] THEN g[R[n]] - 1 ELSE g[L[n]]
        /\ g[R[n]] - 1 - g[L[n]] \in -1..1
    BY <1>2, <1>4, <1>12 DEF NearBy, Joined
  <2>1. Leans(t, S, g, R[n], k) /\ R[n] \in Key
    <3>1. Leans(t, S, g, R[n], k)
      BY <1>2, <1>4, <1>12
    <3>2. R[n] # Nil
      BY <3>1, <1>1 DEF Leans, Shape
    <3> QED
      BY <3>1, <3>2, <1>7
  <2>2. CASE g[R[n]] - g[L[n]] \in -1..1
    <3>1. u = t
      BY <1>3, <1>7, <1>9, <2>2
    <3> DEFINE v == Joined(g[R[n]], g[L[n]])
               f == [g EXCEPT ![n] = v]
               d == v - g[n]
    <3>2. v \in Nat /\ (d = 0 \/ (d = 1 /\ g[R[n]] = g[L[n]] + 1)) /\ d \in Int
      <4>1. v = 1 + IF g[R[n]] > g[L[n]] THEN g[R[n]] ELSE g[L[n]]
        BY DEF Joined
      <4> HIDE DEF v
      <4>2. CASE g[R[n]] = g[L[n]] + 1
        <5>1. v = 2 + g[L[n]]
          BY <1>7, <4>1, <4>2
        <5>2. g[n] = 1 + g[L[n]]
          BY <1>7, <2>0, <4>2
        <5> QED
          BY <1>7, <4>2, <5>1, <5>2
      <4>3. CASE g[R[n]] = g[L[n]]
        BY <1>7, <2>0, <4>1, <4>3
      <4> QED
        BY <1>7, <2>0, <2>2, <4>2, <4>3
    <3>3. v = Joined(g[R[n]], g[L[n]])
      OBVIOUS
    <3>3a. \A j \in Node : j # n => f[j] = g[j]
      BY <1>4
    <3> HIDE DEF v
    <3>4. Reaches(R, L, t.parent[n], n, v - g[n], f)
      <4> DEFINE less == Along(q)
      <4>1. Shape(t.root, R, L, t.parent, S, less) /\ Orders(less)
        BY <1>5
      <4>2. Fit(R, L, g, {n})
        BY <1>4, <1>12
      <4> HIDE DEF less
      <4> QED
        BY <1>2, <2>2, <3>2, <3>3, <4>1, <4>2, Refit
    <3>5. Reaches(R, L, t.parent[n], n, d, f)
      BY <3>4
    <3> HIDE DEF f, d
    <3>6. CASE d = 0
      <4>1. Reaches(Hand(t, q), Hand(t, ~ q), t.parent[n], n, 0, f)
        BY <3>5, <3>6, <1>1a
      <4>2. \A e : Slack(t, Nil, e)
        <5> DEFINE z == 0
        <5>1. Reaches(Hand(t, q), Hand(t, ~ q), t.parent[n], n, z, f) /\ z \in Int /\ z = 0
          BY <4>1
        <5> HIDE DEF z
        <5> QED
          BY <1>2, <5>1, ReachSlack
      <4>3. Grown(t, S, Nil, k)
        BY <4>2 DEF Slack, Grown
      <4> QED
        BY <3>1, <4>3, <1>10
    <3>7. CASE d = 1 /\ g[R[n]] = g[L[n]] + 1
      <4>1. Leans(t, S, f, n, k)
        <5>1. n \notin S[R[n]] /\ S[R[n]] \subseteq S[n] /\ R[n] # n /\ L[n] # n
          BY <1>1, <1>2, ShapeFacts DEF Shape
        <5>2. k \in S[R[n]] /\ k \in S[n] /\ n # k
          BY <2>1, <5>1 DEF Leans
        <5>3. f[R[n]] = g[R[n]] /\ f[L[n]] = g[L[n]]
          BY <1>7, <3>3a, <5>1
        <5>4. k \in S[Hand(t, q)[n]] /\ f[Hand(t, q)[n]] = f[Hand(t, ~ q)[n]] + 1
          BY <1>1a, <3>7, <5>2, <5>3
        <5> QED
          BY <5>2, <5>4 DEF Leans
      <4>2. CASE t.parent[n] = Nil
        <5>1. NearBy(R, L, Nil, 0, f)
          BY <3>5, <4>2 DEF Reaches
        <5>2. NearBy(R, L, Nil, 1, f)
          BY <5>1 DEF NearBy
        <5>3. Grown(t, S, Nil, k)
          BY <5>2, <1>1a DEF Grown
        <5> QED
          BY <3>1, <5>3, <1>10
      <4>3. CASE t.parent[n] # Nil /\ n = R[t.parent[n]]
        <5>1. NearBy(R, L, t.parent[n], 1, f)
          BY <3>5, <3>7, <4>3 DEF Reaches
        <5>2. Grown(t, S, t.parent[n], k)
          BY <5>1, <1>1a, <4>1, <4>3 DEF Grown
        <5> QED
          BY <3>1, <5>2, <1>10
      <4>4. CASE t.parent[n] # Nil /\ n = L[t.parent[n]]
        <5>1. NearBy(L, R, t.parent[n], 1, f)
          BY <3>5, <3>7, <4>4 DEF Reaches
        <5>2. Grown(t, S, t.parent[n], k)
          BY <1>1, <5>1, <4>1, <4>4 DEF Grown, L, R
        <5> QED
          BY <3>1, <5>2, <1>10
      <4>5. t.parent[n] # Nil => n = L[t.parent[n]] \/ n = R[t.parent[n]]
        BY <1>1, <1>2 DEF Shape
      <4> QED
        BY <4>2, <4>3, <4>4, <4>5
    <3> QED
      BY <3>2, <3>6, <3>7 DEF d
  <2>3. CASE ~ (g[R[n]] - g[L[n]] \in -1..1)
    <3> DEFINE r == R[n]
    <3>1. g[R[n]] = g[L[n]] + 2 /\ g[n] = g[L[n]] + 2
      BY <1>7, <2>0, <2>3
    <3>2. r # n /\ EvenAt(R, L, g, r) /\ L[r] \in Node /\ R[r] \in Node /\ r \in Key
      <4>1. r # n
        BY <1>1, <1>2, ShapeFacts
      <4> QED
        BY <4>1, <1>1, <1>4, <1>12, <2>1 DEF Fit
    <3>3. g[L[r]] \in Nat /\ g[R[r]] \in Nat /\ g[r] \in Nat
      BY <1>4, <3>2
    <3>4. r # k
      <4> SUFFICES ASSUME r = k PROVE FALSE
        OBVIOUS
      <4>1. t.left[r] = Nil /\ t.right[r] = Nil
        BY <2>1 DEF Leans
      <4>2. L[r] = Nil /\ R[r] = Nil
        BY <4>1 DEF L, R, Hand
      <4>3. g[r] = 1
        BY <1>4, <3>2, <4>2 DEF EvenAt, Joined
      <4> QED
        BY <4>3, <3>1, <1>7
    <3>5. \/ k \in S[R[r]] /\ g[R[r]] = g[L[r]] + 1
          \/ k \in S[L[r]] /\ g[L[r]] = g[R[r]] + 1
      <4>1. PICK e \in BOOLEAN : k \in S[Hand(t, e)[r]] /\ g[Hand(t, e)[r]] = g[Hand(t, ~ e)[r]] + 1
        BY <2>1, <3>4 DEF Leans
      <4>2. CASE e = q
        BY <4>1, <4>2, <1>1a
      <4>3. CASE e # q
        <5>1. Hand(t, e) = L /\ Hand(t, ~ e) = R
          BY <4>3, <1>1a DEF Hand
        <5> QED
          BY <4>1, <5>1
      <4> QED
        BY <4>2, <4>3
    <3>6. Fit(L, R, g, {n})
      BY <1>1, <1>4, <1>12, FitMirror
    <3>7. Raised(t, S, n, u, s, 0)
      <4>1. CASE k \in S[R[r]] /\ g[R[r]] = g[L[r]] + 1
        <5>1. <<R[n], k>> \in Along(s)
          BY <4>1, <3>2, <1>1 DEF Shape
        <5>2. u = Turn(t, s, n)
          BY <1>3, <1>9, <3>1, <5>1
        <5>3. Raised(t, S, n, Turn(t, s, n), s,
                IF g[L[R[n]]] < g[R[R[n]]] THEN g[L[n]] + 2 - g[n] ELSE g[L[n]] + 3 - g[n])
          <6>1. g[L[R[n]]] <= g[R[R[n]]]
            BY <3>3, <4>1
          <6>2. s \in BOOLEAN
            BY <1>1
          <6> HIDE DEF r
          <6> QED
            BY <6>2, <3>1, <3>6, <6>1, RaiseOnce DEF L, R
        <5>4. (IF g[L[R[n]]] < g[R[R[n]]] THEN g[L[n]] + 2 - g[n] ELSE g[L[n]] + 3 - g[n]) = 0
          BY <1>7, <3>1, <3>3, <4>1
        <5> QED
          BY <5>2, <5>3, <5>4
      <4>2. CASE k \in S[L[r]] /\ g[L[r]] = g[R[r]] + 1
        <5>1. <<k, R[n]>> \in Along(s)
          BY <4>2, <3>2, <1>1 DEF Shape
        <5>2. u = Turn(Turn(t, ~ s, R[n]), s, n)
          BY <1>3, <1>9, <3>1, <5>1
        <5>3. Raised(t, S, n, Turn(Turn(t, ~ s, R[n]), s, n), s, g[L[n]] + 2 - g[n])
          <6>1. g[L[r]] > g[R[r]]
            BY <3>3, <4>2
          <6> QED
            BY <1>1, <3>1, <3>6, <6>1, RaiseTwice DEF L, R
        <5>4. g[L[n]] + 2 - g[n] = 0
          BY <1>7, <3>1
        <5> QED
          BY <5>2, <5>3, <5>4
      <4> QED
        BY <3>5, <4>1, <4>2
    <3>8. PICK T, x, f : /\ x \in Key
               /\ Good(u, T) /\ T[u.root] = S[t.root]
               /\ u.parent[n] = x /\ u.parent[x] = t.parent[n]
               /\ Reaches(Hand(u, s), Hand(u, ~ s), t.parent[n], x, 0, f)
      BY <3>7 DEF Raised
    <3>9. x \in S[t.root]
      <4>1. u.parent[n] # Nil => u.parent[n] \in T[u.root]
        BY <3>8, <1>2, OrderFacts, ShapeFacts DEF Good
      <4> QED
        BY <3>8, <4>1
    <3>10. \A e : Slack(u, Nil, e)
      <4> DEFINE z == 0
      <4>1. Reaches(Hand(u, s), Hand(u, ~ s), u.parent[x], x, z, f) /\ z \in Int /\ z = 0
        BY <3>8
      <4> HIDE DEF z
      <4> QED
        BY <1>1, <3>8, <4>1, ReachSlack
    <3>11. Grown(u, T, Nil, k)
      BY <3>10 DEF Slack, Grown
    <3> QED
      BY <3>8, <3>9, <3>11
  <2> QED
    BY <2>2, <2>3
<1> QED
  BY <1>11, <1>12

-----------------------------------------------------------------------------
(***************************************************************************)
(* Searches.                                                               *)
(***************************************************************************)

\* A set that has every node whose children it has, has every node.
LEMMA TreeInduction ==
  ASSUME NEW L \in [Key -> Node], NEW R \in [Key -> Node], NEW rank, Descending(L, R, rank),
         NEW D \in SUBSET Key,
         \A k \in Key : L[k] \in D \cup {Nil} /\ R[k] \in D \cup {Nil} => k \in D
  PROVE  D = Key
<1> USE KeyAssumption DEF Node
<1> DEFINE Off == Key \ D
<1>1. ASSUME Off # {} PROVE FALSE
  <2>1. \A y \in Off : rank[y] \in Nat
    BY DEF Descending
  <2>2. PICK k \in Off : \A y \in Off : rank[k] <= rank[y]
    <3> HIDE DEF Off
    <3> QED
      BY <1>1, <2>1, Lowest
  <2>3. rank[L[k]] < rank[k] /\ rank[R[k]] < rank[k] /\ rank[k] \in Nat
        /\ rank[L[k]] \in Nat /\ rank[R[k]] \in Nat
    BY DEF Descending
  <2>4. L[k] \notin Off /\ R[k] \notin Off
    BY <2>2, <2>3
  <2> QED
    BY <2>4
<1> QED
  BY <1>1

\* The end of the spine on one side is the first key of the subtree.
LEMMA EndOfSpine ==
  ASSUME NEW root, NEW L, NEW R, NEW P, NEW S, NEW less,
         Shape(root, L, R, P, S, less), Orders(less),
         NEW e, \A k \in Key : e[k] = IF L[k] = Nil THEN k ELSE e[L[k]]
  PROVE  \A k \in Key : /\ e[k] \in S[k] /\ e[k] \in Key /\ L[e[k]] = Nil
                        /\ \A x \in S[k] : x # e[k] => <<e[k], x>> \in less
<1> USE KeyAssumption DEF Node
<1> DEFINE D == {k \in Key : /\ e[k] \in S[k] /\ L[e[k]] = Nil
                             /\ \A x \in S[k] : x # e[k] => <<e[k], x>> \in less}
           rank == [x \in Node |-> Cardinality(S[x])]
<1>1. /\ L \in [Key -> Node] /\ R \in [Key -> Node]
      /\ \A k \in Key : S[k] \subseteq Key
  BY DEF Shape, Pointers
<1>2. Descending(L, R, rank)
  BY Sizes
<1>3. ASSUME NEW k \in Key, L[k] \in D \cup {Nil} PROVE k \in D
  <2>0. S[k] = {k} \cup S[L[k]] \cup S[R[k]] /\ S[Nil] = {}
    BY DEF Shape
  <2>1. CASE L[k] = Nil
    <3>1. e[k] = k
      BY <2>1
    <3>2. \A x \in S[k] : x # k => <<k, x>> \in less
      BY <2>0, <2>1 DEF Shape
    <3> QED
      BY <2>0, <2>1, <3>1, <3>2
  <2>2. CASE L[k] # Nil
    <3> DEFINE c == L[k]
    <3>1. c \in D /\ e[k] = e[c]
      BY <1>3, <2>2
    <3>2. e[c] \in S[c] /\ L[e[c]] = Nil /\ e[c] \in Key
      BY <3>1, <1>1
    <3>3. \A x \in S[c] : x # e[c] => <<e[c], x>> \in less
      BY <3>1
    <3>4. <<e[c], k>> \in less
      BY <3>2 DEF Shape
    <3>5. \A x \in S[R[k]] : <<e[c], x>> \in less
      BY <3>2, ShapeFacts
    <3>6. \A x \in S[k] : x # e[k] => <<e[k], x>> \in less
      BY <2>0, <3>1, <3>3, <3>4, <3>5
    <3> QED
      BY <2>0, <3>1, <3>2, <3>6
  <2> QED
    BY <2>1, <2>2
<1>4. D = Key
  <2>1. D \in SUBSET Key
    OBVIOUS
  <2> HIDE DEF D, rank
  <2> QED
    BY <1>1, <1>2, <1>3, <2>1, TreeInduction
<1> QED
  BY <1>1, <1>4

\* The walk along a spine is well defined.
LEMMA SpineExists ==
  ASSUME NEW root, NEW L, NEW R, NEW P, NEW S, NEW less,
         Shape(root, L, R, P, S, less), Orders(less)
  PROVE  \E e : e = [k \in Key |-> IF L[k] = Nil THEN k ELSE e[L[k]]]
<1> USE KeyAssumption
<1> DEFINE rank == [x \in Node |-> Cardinality(S[x])]
           V == Node
           G == [q \in Key \X V \X V |-> IF L[q[1]] = Nil THEN q[1] ELSE q[2]]
<1>1. L \in [Key -> Node] /\ R \in [Key -> Node]
  BY DEF Shape, Pointers
<1>2. Descending(L, R, rank)
  BY Sizes
<1>3. Rule(V, G)
  BY DEF Rule, Node
<1>4. Nil \in V
  BY DEF Node
<1>5. \A k \in Key, x, y \in V : G[<<k, x, y>>] = IF L[k] = Nil THEN k ELSE x
  OBVIOUS
<1>6. Solutions(L, R, V, Nil, G) # {}
  <2> HIDE DEF rank, G, V
  <2> QED
    BY ONLY <1>1, <1>2, <1>3, <1>4, TreeRecursion
<1>7. PICK f : /\ f \in [Node -> V]
               /\ \A k \in Key : f[k] = G[<<k, f[L[k]], f[R[k]]>>]
  BY <1>6 DEF Solutions
<1> HIDE DEF G
<1>8. ASSUME NEW k \in Key PROVE f[k] = IF L[k] = Nil THEN k ELSE f[L[k]]
  <2> HIDE DEF V
  <2>1. f[L[k]] \in V /\ f[R[k]] \in V
    BY <1>1, <1>7
  <2> QED
    BY <1>5, <1>7, <2>1
<1> DEFINE e == [k \in Key |-> f[k]]
<1>9. \A k \in Key : e[k] = IF L[k] = Nil THEN k ELSE e[L[k]]
  <2> SUFFICES ASSUME NEW k \in Key PROVE e[k] = IF L[k] = Nil THEN k ELSE e[L[k]]
    OBVIOUS
  <2>1. L[k] # Nil => L[k] \in Key
    BY <1>1 DEF Node
  <2> QED
    BY <1>8, <2>1
<1>10. e = [k \in Key |-> IF L[k] = Nil THEN k ELSE e[L[k]]]
  BY <1>9
<1> HIDE DEF e
<1> QED
  BY <1>10

\* getMinimum returns the least key of the subtree, which has no left child.
LEMMA MinimumIs ==
  ASSUME NEW t, NEW S, Good(t, S), NEW n \in Key
  PROVE  /\ Minimum(t, n) \in S[n] /\ Minimum(t, n) \in Key
         /\ t.left[Minimum(t, n)] = Nil
         /\ \A x \in S[n] : x # Minimum(t, n) => <<Minimum(t, n), x>> \in Less
<1> DEFINE Is(e) == e = [k \in Key |-> IF t.left[k] = Nil THEN k ELSE e[t.left[k]]]
           m == CHOOSE e : Is(e)
<1>1. Shape(t.root, t.left, t.right, t.parent, S, Less) /\ Orders(Less)
  BY OrderFacts DEF Good
<1>2. Minimum(t, n) = m[n]
  BY DEF Minimum
<1>3. \E e : Is(e)
  BY <1>1, SpineExists
<1>4. Is(m)
  <2> HIDE DEF Is
  <2> QED
    BY <1>3
<1>5. m = [k \in Key |-> IF t.left[k] = Nil THEN k ELSE m[t.left[k]]]
  BY <1>4
<1> HIDE DEF m
<1>6. \A k \in Key : m[k] = IF t.left[k] = Nil THEN k ELSE m[t.left[k]]
  BY <1>5
<1>7. \A k \in Key : /\ m[k] \in S[k] /\ m[k] \in Key /\ t.left[m[k]] = Nil
                     /\ \A x \in S[k] : x # m[k] => <<m[k], x>> \in Less
  <2> DEFINE L == t.left  less == Less
  <2>1. Shape(t.root, L, t.right, t.parent, S, less) /\ Orders(less)
    BY <1>1
  <2>2. \A k \in Key : m[k] = IF L[k] = Nil THEN k ELSE m[L[k]]
    BY <1>6
  <2> HIDE DEF L, less
  <2>3. \A k \in Key : /\ m[k] \in S[k] /\ m[k] \in Key /\ L[m[k]] = Nil
                       /\ \A x \in S[k] : x # m[k] => <<m[k], x>> \in less
    BY ONLY <2>1, <2>2, EndOfSpine
  <2> QED
    BY <2>3 DEF L, less
<1> QED
  BY <1>2, <1>7

\* getMaximum returns a key of the subtree.
LEMMA MaximumIs ==
  ASSUME NEW t, NEW S, Good(t, S), NEW n \in Key
  PROVE  Maximum(t, n) \in S[n] /\ Maximum(t, n) \in Key
<1> DEFINE Is(e) == e = [k \in Key |-> IF t.right[k] = Nil THEN k ELSE e[t.right[k]]]
           m == CHOOSE e : Is(e)
<1>1. Shape(t.root, t.right, t.left, t.parent, S, More) /\ Orders(More)
  BY OrderFacts, MirrorShape DEF Good
<1>2. Maximum(t, n) = m[n]
  BY DEF Maximum
<1>3. \E e : Is(e)
  BY <1>1, SpineExists
<1>4. Is(m)
  <2> HIDE DEF Is
  <2> QED
    BY <1>3
<1>5. m = [k \in Key |-> IF t.right[k] = Nil THEN k ELSE m[t.right[k]]]
  BY <1>4
<1> HIDE DEF m
<1>6. \A k \in Key : m[k] = IF t.right[k] = Nil THEN k ELSE m[t.right[k]]
  BY <1>5
<1>7. \A k \in Key : m[k] \in S[k] /\ m[k] \in Key
  <2> DEFINE L == t.right  less == More
  <2>1. Shape(t.root, L, t.left, t.parent, S, less) /\ Orders(less)
    BY <1>1
  <2>2. \A k \in Key : m[k] = IF L[k] = Nil THEN k ELSE m[L[k]]
    BY <1>6
  <2> HIDE DEF L, less
  <2> QED
    BY ONLY <2>1, <2>2, EndOfSpine
<1> QED
  BY <1>2, <1>7

\* contains finds a key iff it is below the root.
LEMMA FoundIs ==
  ASSUME NEW S, Good(tree, S), NEW k \in Key
  PROVE  Found(k) = IF k \in S[tree.root] THEN k ELSE Nil
<1> USE KeyAssumption
<1> DEFINE L == tree.left  R == tree.right
           Is(h) == h = [n \in Node |->
                          IF n = Nil \/ k = n THEN n
                          ELSE IF Diff(k, n) = 0 THEN Nil
                          ELSE IF Diff(k, n) < 0 THEN h[tree.left[n]] ELSE h[tree.right[n]]]
           at == CHOOSE h : Is(h)
           rank == [x \in Node |-> Cardinality(S[x])]
           V == Node
           G == [q \in Key \X V \X V |-> IF k = q[1] THEN q[1]
                                         ELSE IF Diff(k, q[1]) = 0 THEN Nil
                                         ELSE IF Diff(k, q[1]) < 0 THEN q[2] ELSE q[3]]
<1>1. /\ Shape(tree.root, L, R, tree.parent, S, Less) /\ Orders(Less)
      /\ L \in [Key -> Node] /\ R \in [Key -> Node] /\ tree.root \in Node
  BY OrderFacts DEF Good, Shape, Pointers
<1>2. Descending(L, R, rank)
  BY <1>1, Sizes
<1>3. Rule(V, G)
  BY DEF Rule, Node
<1>4. Nil \in V
  BY DEF Node
<1>5. \A n \in Key, x, y \in V : G[<<n, x, y>>] = IF k = n THEN n
                                         ELSE IF Diff(k, n) = 0 THEN Nil
                                         ELSE IF Diff(k, n) < 0 THEN x ELSE y
  OBVIOUS
<1>6. Solutions(L, R, V, Nil, G) # {}
  <2> HIDE DEF rank, G, V, L, R
  <2> QED
    BY ONLY <1>1, <1>2, <1>3, <1>4, TreeRecursion
<1>7. PICK f : /\ f \in [Node -> V] /\ f[Nil] = Nil
               /\ \A n \in Key : f[n] = G[<<n, f[L[n]], f[R[n]]>>]
  BY <1>6 DEF Solutions
<1> HIDE DEF G
<1>8. ASSUME NEW n \in Key
      PROVE  f[n] = IF k = n THEN n
                    ELSE IF Diff(k, n) = 0 THEN Nil
                    ELSE IF Diff(k, n) < 0 THEN f[L[n]] ELSE f[R[n]]
  <2> HIDE DEF V, L, R
  <2>1. f[L[n]] \in V /\ f[R[n]] \in V
    BY <1>1, <1>7
  <2> QED
    BY <1>5, <1>7, <2>1
<1>9. Is(f)
  BY <1>7, <1>8 DEF Node
<1>10. Found(k) = at[tree.root]
  BY DEF Found
<1>11. Is(at)
  <2> HIDE DEF Is
  <2> QED
    BY <1>9
<1>12. at = [n \in Node |-> IF n = Nil \/ k = n THEN n
                          ELSE IF Diff(k, n) = 0 THEN Nil
                          ELSE IF Diff(k, n) < 0 THEN at[L[n]] ELSE at[R[n]]]
  BY <1>11
<1> HIDE DEF at
<1>13. /\ at[Nil] = Nil
       /\ \A n \in Key : at[n] = IF k = n THEN n
                            ELSE IF Diff(k, n) = 0 THEN Nil
                            ELSE IF Diff(k, n) < 0 THEN at[L[n]] ELSE at[R[n]]
  BY <1>12 DEF Node
<1> DEFINE D == {n \in Key : at[n] = IF k \in S[n] THEN k ELSE Nil}
<1>14. S[Nil] = {} /\ \A n \in Key : S[n] \subseteq Key
  BY <1>1 DEF Shape, Pointers, Node
<1>15. ASSUME NEW n \in Key, L[n] \in D \cup {Nil}, R[n] \in D \cup {Nil} PROVE n \in D
  <2>1. S[n] = {n} \cup S[L[n]] \cup S[R[n]]
    BY <1>1 DEF Shape
  <2>2. /\ at[L[n]] = IF k \in S[L[n]] THEN k ELSE Nil
        /\ at[R[n]] = IF k \in S[R[n]] THEN k ELSE Nil
    BY <1>13, <1>14, <1>15
  <2>3. /\ k \in S[L[n]] => Diff(k, n) < 0
        /\ k \in S[R[n]] => Diff(n, k) < 0
    BY <1>1, OrderFacts DEF Shape
  <2>4. /\ Diff(k, n) \in Int /\ Diff(n, k) \in Int
        /\ Diff(n, k) < 0 <=> Diff(k, n) > 0
    BY DiffAssumption
  <2>5. CASE k = n
    BY <1>13, <2>1, <2>5
  <2>6. CASE k # n /\ Diff(k, n) = 0
    <3>1. k \notin S[n] /\ at[n] = Nil
      BY <1>13, <2>1, <2>3, <2>4, <2>6
    <3> QED
      BY <3>1
  <2>7. CASE k # n /\ Diff(k, n) < 0
    <3>1. (k \in S[n] <=> k \in S[L[n]]) /\ at[n] = at[L[n]]
      BY <1>13, <2>1, <2>3, <2>4, <2>7
    <3> QED
      BY <2>2, <3>1
  <2>8. CASE k # n /\ Diff(k, n) > 0
    <3>1. (k \in S[n] <=> k \in S[R[n]]) /\ at[n] = at[R[n]]
      BY <1>13, <2>1, <2>3, <2>4, <2>8
    <3> QED
      BY <2>2, <3>1
  <2> QED
    BY <2>4, <2>5, <2>6, <2>7, <2>8
<1>16. D = Key
  <2>1. D \in SUBSET Key
    OBVIOUS
  <2> HIDE DEF D, rank, L, R
  <2> QED
    BY <1>1, <1>2, <1>15, <2>1, TreeInduction
<1> QED
  BY <1>1, <1>10, <1>13, <1>14, <1>16 DEF Node

-----------------------------------------------------------------------------
(***************************************************************************)
(* remove of a node with at most one child.                                *)
(***************************************************************************)

\* The pointers that remove writes for a node with at most one child.
LEMMA BypassPointers ==
  ASSUME NEW t \in Trees, NEW n \in Key, NEW c \in Node,
         c = IF t.left[n] # Nil THEN t.left[n] ELSE t.right[n],
         t.parent[n] # n, c # n,
         NEW u, u = Bypass(t, n)
  PROVE  /\ u \in Trees
         /\ u.root = IF t.parent[n] = Nil THEN c ELSE t.root
         /\ \A k \in Key :
              /\ u.left[k] = IF k = n THEN Nil
                             ELSE IF k = t.parent[n] /\ t.left[k] = n THEN c ELSE t.left[k]
              /\ u.right[k] = IF k = n THEN Nil
                              ELSE IF k = t.parent[n] /\ t.left[k] # n THEN c ELSE t.right[k]
              /\ u.parent[k] = IF k = n THEN Nil ELSE IF k = c THEN t.parent[n] ELSE t.parent[k]
<1> USE KeyAssumption DEF Node
<1> DEFINE p == t.parent[n]
           x == Replace(t, p, n, c)
           y == WithParent(x, c, p)
<1>1. p \in Node
  BY DEF Trees
<1>2. /\ x \in Trees
      /\ x.root = IF p = Nil THEN c ELSE t.root
      /\ x.parent = t.parent
      /\ \A k \in Key : x.left[k] = IF k = p /\ t.left[p] = n THEN c ELSE t.left[k]
      /\ \A k \in Key : x.right[k] = IF k = p /\ t.left[p] # n THEN c ELSE t.right[k]
  <2>1. CASE p = Nil
    <3>1. x = [t EXCEPT !.root = c]
      BY <2>1 DEF Replace
    <3> QED
      BY <2>1, <3>1 DEF Trees
  <2>2. CASE p # Nil /\ t.left[p] = n
    <3>1. x = [t EXCEPT !.left[p] = c]
      BY <2>2 DEF Replace
    <3> QED
      BY <1>1, <2>2, <3>1 DEF Trees
  <2>3. CASE p # Nil /\ t.left[p] # n
    <3>1. x = [t EXCEPT !.right[p] = c]
      BY <2>3 DEF Replace
    <3> QED
      BY <1>1, <2>3, <3>1 DEF Trees
  <2> QED
    BY <2>1, <2>2, <2>3
<1>3. u = Forgotten(y, n)
  BY DEF Bypass
<1> HIDE DEF x
<1>4. /\ y \in Trees
      /\ y.root = x.root /\ y.left = x.left /\ y.right = x.right
      /\ \A k \in Key : y.parent[k] = IF k = c THEN p ELSE t.parent[k]
  <2>1. CASE c = Nil
    BY <1>2, <2>1 DEF WithParent, Trees
  <2>2. CASE c # Nil
    BY <1>1, <1>2, <2>2 DEF WithParent, Trees
  <2> QED
    BY <2>1, <2>2
<1> HIDE DEF y
<1>5. /\ u \in Trees
      /\ u.root = y.root
      /\ \A k \in Key : u.left[k] = IF k = n THEN Nil ELSE y.left[k]
      /\ \A k \in Key : u.right[k] = IF k = n THEN Nil ELSE y.right[k]
      /\ \A k \in Key : u.parent[k] = IF k = n THEN Nil ELSE y.parent[k]
  <2>1. y \in Trees
    BY <1>4
  <2>2. /\ u \in Trees
        /\ u.root = y.root
        /\ u.left = [y.left EXCEPT ![n] = Nil]
        /\ u.right = [y.right EXCEPT ![n] = Nil]
        /\ u.parent = [y.parent EXCEPT ![n] = Nil]
    <3>1. u = [y EXCEPT !.left[n] = Nil, !.right[n] = Nil, !.parent[n] = Nil]
      BY <1>3 DEF Forgotten
    <3>2. y = [root |-> y.root, left |-> y.left, right |-> y.right, parent |-> y.parent]
      BY <2>1 DEF Trees
    <3>3. u = [root |-> y.root, left |-> [y.left EXCEPT ![n] = Nil],
               right |-> [y.right EXCEPT ![n] = Nil], parent |-> [y.parent EXCEPT ![n] = Nil]]
      BY <2>1, <3>1, <3>2 DEF Trees
    <3>4. /\ [y.left EXCEPT ![n] = Nil] \in [Key -> Node]
          /\ [y.right EXCEPT ![n] = Nil] \in [Key -> Node]
          /\ [y.parent EXCEPT ![n] = Nil] \in [Key -> Node]
      BY <2>1 DEF Trees
    <3> QED
      BY <2>1, <3>3, <3>4 DEF Trees
  <2> QED
    BY <2>1, <2>2 DEF Trees
<1>6. ASSUME NEW k \in Key
      PROVE  u.left[k] = IF k = n THEN Nil ELSE IF k = p /\ t.left[k] = n THEN c ELSE t.left[k]
  BY <1>2, <1>4, <1>5
<1>7. ASSUME NEW k \in Key
      PROVE  u.right[k] = IF k = n THEN Nil ELSE IF k = p /\ t.left[k] # n THEN c ELSE t.right[k]
  BY <1>2, <1>4, <1>5
<1>8. ASSUME NEW k \in Key
      PROVE  u.parent[k] = IF k = n THEN Nil ELSE IF k = c THEN p ELSE t.parent[k]
  BY <1>4, <1>5
<1> QED
  BY <1>2, <1>4, <1>5, <1>6, <1>7, <1>8

\* It keeps a search tree of the other keys.
LEMMA Bypassing ==
  ASSUME NEW t, NEW S, Good(t, S), NEW n \in S[t.root],
         NEW s \in BOOLEAN, Hand(t, s)[n] = Nil,
         NEW u, u = Bypass(t, n)
  PROVE  /\ Unlinked(t.root, Hand(t, s), Hand(t, ~ s), t.parent, n,
                     u.root, Hand(u, s), Hand(u, ~ s), u.parent)
         /\ Good(u, SetsWithout(S, n))
         /\ SetsWithout(S, n)[u.root] = S[t.root] \ {n}
<1> USE KeyAssumption
<1>1. /\ Shape(t.root, Hand(t, s), Hand(t, ~ s), t.parent, S, Along(s))
      /\ Orders(Along(s)) /\ Hand(t, s) \in [Key -> Node] /\ Hand(t, ~ s) \in [Key -> Node]
  BY Views
<1>2. /\ Shape(t.root, t.left, t.right, t.parent, S, Less) /\ Orders(Less)
      /\ t.left \in [Key -> Node] /\ t.right \in [Key -> Node] /\ t \in Trees
  BY OrderFacts DEF Good, Shape, Pointers
<1>3. n \in Key /\ t.parent[n] \in Node
  BY <1>2 DEF Shape, Pointers
<1> DEFINE c == Hand(t, ~ s)[n]  p == t.parent[n]
<1>4. c = (IF t.left[n] # Nil THEN t.left[n] ELSE t.right[n]) /\ c \in Node
  <2>1. CASE s
    BY <1>2, <1>3, <2>1 DEF Hand
  <2>2. CASE ~ s
    BY <1>2, <1>3, <2>2 DEF Hand
  <2> QED
    BY <2>1, <2>2
<1>5. p # n /\ c # n
  BY <1>1, <1>3, ShapeFacts
<1>6. p # Nil => (t.left[p] = n \/ t.right[p] = n) /\ ~ (t.left[p] = n /\ t.right[p] = n)
  <2> SUFFICES ASSUME p # Nil
               PROVE  (t.left[p] = n \/ t.right[p] = n) /\ ~ (t.left[p] = n /\ t.right[p] = n)
    OBVIOUS
  <2>1. p \in Key
    BY <1>3 DEF Node
  <2>2. t.left[p] = n \/ t.right[p] = n
    BY <1>2, <1>3 DEF Shape
  <2>3. ~ (t.left[p] = n /\ t.right[p] = n)
    BY <1>2, <1>3, <2>1, ShapeFacts
  <2> QED
    BY <2>2, <2>3
<1>7. /\ u \in Trees
      /\ u.root = IF p = Nil THEN c ELSE t.root
      /\ \A k \in Key :
           /\ u.left[k] = IF k = n THEN Nil ELSE IF k = p /\ t.left[k] = n THEN c ELSE t.left[k]
           /\ u.right[k] = IF k = n THEN Nil ELSE IF k = p /\ t.left[k] # n THEN c ELSE t.right[k]
           /\ u.parent[k] = IF k = n THEN Nil ELSE IF k = c THEN p ELSE t.parent[k]
  <2> HIDE DEF c
  <2> QED
    BY <1>2, <1>3, <1>4, <1>5, BypassPointers
<1>8. u.left \in [Key -> Node] /\ u.right \in [Key -> Node] /\ u.parent \in [Key -> Node]
  BY <1>7 DEF Trees
<1>9. \A k \in Key : k = p => k # Nil
  BY <1>3
<1>10. Unlinked(t.root, Hand(t, s), Hand(t, ~ s), t.parent, n,
                u.root, Hand(u, s), Hand(u, ~ s), u.parent)
  <2>1. CASE s
    <3>1. /\ Hand(t, s) = t.left /\ Hand(t, ~ s) = t.right
          /\ Hand(u, s) = u.left /\ Hand(u, ~ s) = u.right /\ c = t.right[n]
      BY <2>1 DEF Hand
    <3> QED
      BY <1>6, <1>7, <1>8, <1>9, <3>1 DEF Unlinked
  <2>2. CASE ~ s
    <3>1. /\ Hand(t, s) = t.right /\ Hand(t, ~ s) = t.left
          /\ Hand(u, s) = u.right /\ Hand(u, ~ s) = u.left /\ c = t.left[n]
      BY <2>2 DEF Hand
    <3> QED
      BY <1>6, <1>7, <1>8, <1>9, <3>1 DEF Unlinked
  <2> QED
    BY <2>1, <2>2
<1>11. /\ Shape(u.root, Hand(u, s), Hand(u, ~ s), u.parent, SetsWithout(S, n), Along(s))
       /\ SetsWithout(S, n)[u.root] = S[t.root] \ {n}
  BY <1>1, <1>10, UnlinkKeepsShape
<1>12. Good(u, SetsWithout(S, n))
  BY <1>7, <1>11, FromView
<1> QED
  BY <1>10, <1>11, <1>12

\* The subtree where a node was bypassed is lower by one.
LEMMA UnlinkHeights ==
  ASSUME NEW root, NEW L, NEW R, NEW P, NEW S, NEW less,
         Shape(root, L, R, P, S, less), Orders(less),
         NEW n \in Key, L[n] = Nil,
         NEW root2, NEW L2, NEW R2, NEW P2,
         Unlinked(root, L, R, P, n, root2, L2, R2, P2),
         NEW h, Fit(L, R, h, {Nil}), NEW g, g = [h EXCEPT ![n] = 1]
  PROVE  /\ P[n] # Nil /\ n = L[P[n]] => NearBy(L2, R2, P[n], -1, g)
         /\ P[n] # Nil /\ n = R[P[n]] => NearBy(R2, L2, P[n], -1, g)
         /\ P[n] = Nil => NearBy(L2, R2, Nil, -1, g)
<1> USE KeyAssumption DEF Node
<1> DEFINE p == P[n]  c == R[n]
<1>0. h \in [Node -> Nat] /\ h[Nil] = 0 /\ \A k \in Key : EvenAt(L, R, h, k)
  BY DEF Fit
<1>1. g \in [Node -> Nat] /\ g[Nil] = 0 /\ g[n] = 1 /\ \A k \in Node : k # n => g[k] = h[k]
  BY <1>0
<1>2. \A k \in Key : L[k] \in Node /\ R[k] \in Node
  BY DEF Shape, Pointers
<1>3. p \in Node /\ p # n /\ c # n /\ c \in Node
  <2>1. p \in Node
    BY DEF Shape, Pointers
  <2> QED
    BY <1>2, <2>1, ShapeFacts
<1>4. \A k \in Key : L2[k] \in Node /\ R2[k] \in Node
  BY DEF Unlinked
<1>5. ASSUME NEW k \in Key, k # p PROVE EvenAt(L2, R2, g, k)
  <2>1. CASE k = n
    <3>1. L2[n] = Nil /\ R2[n] = Nil
      BY DEF Unlinked
    <3> QED
      BY <1>1, <2>1, <3>1 DEF EvenAt, Joined
  <2>2. CASE k # n
    <3>1. L[k] # n /\ R[k] # n
      BY <1>5 DEF Shape
    <3>2. L2[k] = L[k] /\ R2[k] = R[k]
      BY <1>5, <2>2 DEF Unlinked
    <3>3. g[L[k]] = h[L[k]] /\ g[R[k]] = h[R[k]] /\ g[k] = h[k]
      BY <1>1, <1>2, <2>2, <3>1
    <3> QED
      BY <1>0, <3>2, <3>3 DEF EvenAt
  <2> QED
    BY <2>1, <2>2
<1>6. Fit(L2, R2, g, {p})
  BY <1>1, <1>5 DEF Fit
<1>7. Fit(R2, L2, g, {p})
  <2>1. L2 \in [Key -> Node] /\ R2 \in [Key -> Node]
    BY DEF Unlinked
  <2> QED
    BY <1>6, <2>1, FitMirror
<1>8. h[n] = g[c] + 1 /\ g[c] \in Nat
  <2>1. h[n] = Joined(h[Nil], h[c]) /\ h[c] \in Nat
    BY <1>0, <1>3 DEF EvenAt
  <2> QED
    BY <1>0, <1>1, <1>3, <2>1 DEF Joined
<1>9. ASSUME p # Nil
      PROVE  /\ n = L[p] => g[p] = Joined(g[L2[p]] - (-1), g[R2[p]])
                            /\ g[L2[p]] - (-1) - g[R2[p]] \in -1..1
             /\ n = R[p] => g[p] = Joined(g[R2[p]] - (-1), g[L2[p]])
                            /\ g[R2[p]] - (-1) - g[L2[p]] \in -1..1
  <2>1. p \in Key /\ EvenAt(L, R, h, p) /\ g[p] = h[p] /\ h[L[p]] \in Nat /\ h[R[p]] \in Nat
    BY <1>0, <1>1, <1>2, <1>3, <1>9
  <2>2. L[p] # n \/ R[p] # n
    BY <2>1, ShapeFacts
  <2>3. g[c] - (-1) = h[n]
    BY <1>8
  <2>4. ASSUME n = L[p] PROVE g[p] = Joined(g[L2[p]] - (-1), g[R2[p]]) /\ g[L2[p]] - (-1) - g[R2[p]] \in -1..1
    <3>1. L2[p] = c /\ R2[p] = R[p] /\ R[p] # n
      BY <1>3, <2>1, <2>2, <2>4 DEF Unlinked
    <3>2. g[R2[p]] = h[R[p]]
      BY <1>1, <1>2, <2>1, <3>1
    <3>3. g[p] = Joined(h[n], h[R[p]]) /\ h[n] - h[R[p]] \in -1..1
      BY <2>1, <2>4 DEF EvenAt
    <3> QED
      BY <2>3, <3>1, <3>2, <3>3
  <2>5. ASSUME n = R[p] PROVE g[p] = Joined(g[R2[p]] - (-1), g[L2[p]]) /\ g[R2[p]] - (-1) - g[L2[p]] \in -1..1
    <3>1. R2[p] = c /\ L2[p] = L[p] /\ L[p] # n
      BY <1>3, <2>1, <2>2, <2>5 DEF Unlinked
    <3>2. g[L2[p]] = h[L[p]] /\ h[n] \in Nat
      BY <1>0, <1>1, <1>2, <2>1, <3>1
    <3>3. g[p] = Joined(h[n], h[L[p]]) /\ h[n] - h[L[p]] \in -1..1
      BY <2>1, <2>5, <3>2 DEF EvenAt, Joined
    <3> QED
      BY <2>3, <3>1, <3>2, <3>3
  <2> QED
    BY <2>4, <2>5
<1>10. p = Nil => NearBy(L2, R2, Nil, -1, g)
  BY <1>6 DEF NearBy
<1> QED
  BY <1>6, <1>7, <1>9, <1>10 DEF NearBy

\* So the slack is at the parent, where the climb comes by.
LEMMA BypassSlack ==
  ASSUME NEW t, NEW S, Good(t, S), Slack(t, Nil, -1), NEW n \in S[t.root],
         NEW s \in BOOLEAN, Hand(t, s)[n] = Nil,
         NEW u, u = Bypass(t, n)
  PROVE  Slack(u, t.parent[n], -1)
<1> USE KeyAssumption
<1>1a. PICK q \in BOOLEAN : \E h : NearBy(Hand(t, q), Hand(t, ~ q), Nil, -1, h)
  BY DEF Slack
<1>1. PICK h : NearBy(Hand(t, q), Hand(t, ~ q), Nil, -1, h)
  BY <1>1a
<1> DEFINE L == Hand(t, s)  R == Hand(t, ~ s)  L2 == Hand(u, s)  R2 == Hand(u, ~ s)
           p == t.parent[n]  g == [h EXCEPT ![n] = 1]
<1>2. /\ Shape(t.root, L, R, t.parent, S, Along(s)) /\ Orders(Along(s))
      /\ L \in [Key -> Node] /\ R \in [Key -> Node]
      /\ Unlinked(t.root, L, R, t.parent, n, u.root, L2, R2, u.parent)
  BY Views, Bypassing
<1>3. n \in Key /\ p \in Node
  BY <1>2 DEF Shape, Pointers
<1>4. Fit(L, R, h, {Nil})
  <2>1. Fit(Hand(t, q), Hand(t, ~ q), h, {Nil})
    BY <1>1 DEF NearBy
  <2>2. CASE q = s
    BY <2>1, <2>2
  <2>3. CASE q # s
    <3>1. Hand(t, q) = R /\ Hand(t, ~ q) = L
      BY <2>3 DEF Hand
    <3> HIDE DEF L, R
    <3> QED
      BY <1>2, <2>1, <3>1, FitMirror
  <2> QED
    BY <2>2, <2>3
<1>5. (~ s) \in BOOLEAN /\ Hand(u, ~ ~ s) = L2
  BY DEF Hand
<1> HIDE DEF L2, R2, L, R
<1>6. /\ p # Nil /\ n = L[p] => NearBy(L2, R2, p, -1, g)
      /\ p # Nil /\ n = R[p] => NearBy(R2, L2, p, -1, g)
      /\ p = Nil => NearBy(L2, R2, Nil, -1, g)
  <2> DEFINE less == Along(s)
  <2>1. Shape(t.root, L, R, t.parent, S, less) /\ Orders(less)
    BY <1>2
  <2>2. L[n] = Nil
    BY DEF L
  <2> HIDE DEF less
  <2> QED
    BY <1>2, <1>3, <1>4, <2>1, <2>2, UnlinkHeights, SMTT(20)
<1>7. p # Nil => n = L[p] \/ n = R[p]
  BY <1>2, <1>3 DEF Shape
<1> HIDE DEF g
<1>8. CASE NearBy(L2, R2, p, -1, g)
  BY <1>8 DEF Slack, L2, R2
<1>9. CASE NearBy(R2, L2, p, -1, g)
  <2>1. NearBy(Hand(u, ~ s), Hand(u, ~ ~ s), p, -1, g)
    BY <1>5, <1>9 DEF R2
  <2> QED
    BY <1>5, <2>1 DEF Slack
<1> QED
  BY <1>6, <1>7, <1>8, <1>9

-----------------------------------------------------------------------------
(***************************************************************************)
(* remove of a node with two children.                                     *)
(***************************************************************************)

\* The pointers that remove writes for a node with two children, in all the cases
\* of who becomes the child of whom.
LEMMA SucceedPointers ==
  ASSUME NEW t \in Trees, NEW n \in Key, NEW m \in Key,
         NEW l \in Key, l = t.left[n], NEW r \in Key, r = t.right[n],
         NEW p \in Node, p = t.parent[n],
         NEW pm \in Key, pm = t.parent[m], NEW rm \in Node, rm = t.right[m],
         m # n, p # n, p # m, p # Nil => p # pm,
         NEW u, u = Succeed(t, n, m)
  PROVE  /\ u \in Trees
         /\ u.root = IF p = Nil THEN m ELSE t.root
         /\ \A k \in Key :
              /\ u.left[k] = IF k = n THEN Nil ELSE IF k = m THEN l
                             ELSE IF k = p /\ t.left[k] = n THEN m
                             ELSE IF m # r /\ k = pm THEN rm ELSE t.left[k]
              /\ u.right[k] = IF k = n THEN Nil
                              ELSE IF k = p /\ t.left[k] # n THEN m
                              ELSE IF m # r /\ k = m THEN r ELSE t.right[k]
              /\ u.parent[k] = IF k = n THEN Nil ELSE IF k = m THEN p ELSE IF k = l THEN m
                               ELSE IF m # r /\ k = rm THEN pm
                               ELSE IF m # r /\ k = r THEN m ELSE t.parent[k]
<1> USE KeyAssumption DEF Node
<1> DEFINE w == [t EXCEPT !.left[pm] = rm, !.right[m] = r, !.parent[r] = m]
           x == IF m = r THEN t ELSE WithParent(w, rm, pm)
           y == Replace(x, p, n, m)
           z == [y EXCEPT !.left[m] = l, !.parent[l] = m, !.parent[m] = p]
<1>1. u = Forgotten(z, n)
  BY DEF Succeed
<1>2. /\ w \in Trees /\ w.root = t.root
      /\ w.left = [t.left EXCEPT ![pm] = rm]
      /\ w.right = [t.right EXCEPT ![m] = r]
      /\ w.parent = [t.parent EXCEPT ![r] = m]
  BY DEF Trees
<1> HIDE DEF w
<1>3. /\ x \in Trees /\ x.root = t.root
      /\ \A k \in Key : x.left[k] = IF m # r /\ k = pm THEN rm ELSE t.left[k]
      /\ \A k \in Key : x.right[k] = IF m # r /\ k = m THEN r ELSE t.right[k]
      /\ \A k \in Key : x.parent[k] = IF m # r /\ k = rm THEN pm
                                      ELSE IF m # r /\ k = r THEN m ELSE t.parent[k]
  <2>1. CASE m = r
    BY <2>1
  <2>2. CASE m # r /\ rm = Nil
    <3>1. x = w
      BY <2>2 DEF WithParent
    <3> QED
      BY <1>2, <2>2, <3>1 DEF Trees
  <2>3. CASE m # r /\ rm # Nil
    <3>1. x = [w EXCEPT !.parent[rm] = pm]
      BY <2>3 DEF WithParent
    <3>2. /\ x \in Trees /\ x.root = w.root /\ x.left = w.left /\ x.right = w.right
          /\ x.parent = [w.parent EXCEPT ![rm] = pm]
      BY <1>2, <2>3, <3>1 DEF Trees
    <3>3. w.parent \in [Key -> Node] /\ t.parent \in [Key -> Node]
      BY <1>2 DEF Trees
    <3>4. \A k \in Key : x.parent[k] = IF k = rm THEN pm ELSE IF k = r THEN m ELSE t.parent[k]
      BY <1>2, <3>2, <3>3
    <3>5. \A k \in Key : x.left[k] = IF k = pm THEN rm ELSE t.left[k]
      BY <1>2, <3>2 DEF Trees
    <3>6. \A k \in Key : x.right[k] = IF k = m THEN r ELSE t.right[k]
      BY <1>2, <3>2 DEF Trees
    <3> QED
      BY <1>2, <2>3, <3>2, <3>4, <3>5, <3>6
  <2> QED
    BY <2>1, <2>2, <2>3
<1> HIDE DEF x
<1>4. p # Nil => x.left[p] = t.left[p]
  BY <1>3
<1>5. /\ y \in Trees
      /\ y.root = IF p = Nil THEN m ELSE x.root
      /\ y.parent = x.parent
      /\ \A k \in Key : y.left[k] = IF k = p /\ t.left[k] = n THEN m ELSE x.left[k]
      /\ \A k \in Key : y.right[k] = IF k = p /\ t.left[k] # n THEN m ELSE x.right[k]
  <2>1. CASE p = Nil
    <3>1. y = [x EXCEPT !.root = m]
      BY <2>1 DEF Replace
    <3> QED
      BY <1>3, <2>1, <3>1 DEF Trees
  <2>2. CASE p # Nil /\ t.left[p] = n
    <3>1. y = [x EXCEPT !.left[p] = m]
      BY <1>4, <2>2 DEF Replace
    <3> QED
      BY <1>3, <2>2, <3>1 DEF Trees
  <2>3. CASE p # Nil /\ t.left[p] # n
    <3>1. y = [x EXCEPT !.right[p] = m]
      BY <1>4, <2>3 DEF Replace
    <3> QED
      BY <1>3, <2>3, <3>1 DEF Trees
  <2> QED
    BY <2>1, <2>2, <2>3
<1> HIDE DEF y
<1>6. /\ z \in Trees /\ z.root = y.root /\ z.right = y.right
      /\ z.left = [y.left EXCEPT ![m] = l]
      /\ z.parent = [[y.parent EXCEPT ![l] = m] EXCEPT ![m] = p]
  BY <1>5 DEF Trees
<1> HIDE DEF z
<1>7. /\ u \in Trees
      /\ u.root = z.root
      /\ u.left = [z.left EXCEPT ![n] = Nil]
      /\ u.right = [z.right EXCEPT ![n] = Nil]
      /\ u.parent = [z.parent EXCEPT ![n] = Nil]
  <2>1. u = [z EXCEPT !.left[n] = Nil, !.right[n] = Nil, !.parent[n] = Nil]
    BY <1>1 DEF Forgotten
  <2>2. z = [root |-> z.root, left |-> z.left, right |-> z.right, parent |-> z.parent]
    BY <1>6 DEF Trees
  <2>3. u = [root |-> z.root, left |-> [z.left EXCEPT ![n] = Nil],
             right |-> [z.right EXCEPT ![n] = Nil], parent |-> [z.parent EXCEPT ![n] = Nil]]
    BY <1>6, <2>1, <2>2 DEF Trees
  <2>4. /\ [z.left EXCEPT ![n] = Nil] \in [Key -> Node]
        /\ [z.right EXCEPT ![n] = Nil] \in [Key -> Node]
        /\ [z.parent EXCEPT ![n] = Nil] \in [Key -> Node]
    BY <1>6 DEF Trees
  <2> QED
    BY <1>6, <2>3, <2>4 DEF Trees
<1>8. /\ y.left \in [Key -> Node] /\ y.right \in [Key -> Node] /\ y.parent \in [Key -> Node]
      /\ z.left \in [Key -> Node] /\ z.right \in [Key -> Node] /\ z.parent \in [Key -> Node]
  BY <1>5, <1>6 DEF Trees
<1>9. ASSUME NEW k \in Key
      PROVE  u.left[k] = IF k = n THEN Nil ELSE IF k = m THEN l
                         ELSE IF k = p /\ t.left[k] = n THEN m
                         ELSE IF m # r /\ k = pm THEN rm ELSE t.left[k]
  BY <1>3, <1>5, <1>6, <1>7, <1>8
<1>10. ASSUME NEW k \in Key
       PROVE  u.right[k] = IF k = n THEN Nil
                           ELSE IF k = p /\ t.left[k] # n THEN m
                           ELSE IF m # r /\ k = m THEN r ELSE t.right[k]
  BY <1>3, <1>5, <1>6, <1>7, <1>8
<1>11. ASSUME NEW k \in Key
       PROVE  u.parent[k] = IF k = n THEN Nil ELSE IF k = m THEN p ELSE IF k = l THEN m
                            ELSE IF m # r /\ k = rm THEN pm
                            ELSE IF m # r /\ k = r THEN m ELSE t.parent[k]
  <2>1. z.parent[k] = IF k = m THEN p ELSE IF k = l THEN m ELSE y.parent[k]
    BY <1>6, <1>8
  <2>2. u.parent[k] = IF k = n THEN Nil ELSE z.parent[k]
    BY <1>7, <1>8
  <2>3. y.parent[k] = IF m # r /\ k = rm THEN pm
                      ELSE IF m # r /\ k = r THEN m ELSE t.parent[k]
    BY <1>3, <1>5
  <2> QED
    BY <2>1, <2>2, <2>3
<1> QED
  BY <1>3, <1>5, <1>6, <1>7, <1>9, <1>10, <1>11

\* They are those of a bypass of the successor, which then takes the place of n; the
\* result is a search tree of the other keys.
LEMMA Succeeding ==
  ASSUME NEW t, NEW S, Good(t, S), NEW n \in S[t.root],
         t.left[n] # Nil, t.right[n] # Nil,
         NEW m, m = Minimum(t, t.right[n]), NEW u, u = Succeed(t, n, m)
  PROVE  \E root1, L1, R1, P1 :
           /\ Unlinked(t.root, t.left, t.right, t.parent, m, root1, L1, R1, P1)
           /\ Succeeded(root1, L1, R1, P1, n, m, u.root, u.left, u.right, u.parent)
           /\ n \in SetsWithout(S, m)[root1]
           /\ m \in S[t.root] /\ m # n /\ t.left[m] = Nil /\ t.parent[m] \in Key
           /\ (m = t.right[n] <=> t.parent[m] = n)
           /\ Good(u, SetsSucceeded(SetsWithout(S, m), n, m))
           /\ SetsSucceeded(SetsWithout(S, m), n, m)[u.root] = S[t.root] \ {n}
<1> USE KeyAssumption
<1> DEFINE L == t.left  R == t.right  P == t.parent
           l == L[n]  r == R[n]  p == P[n]  pm == P[m]  rm == R[m]
           root1 == IF pm = Nil THEN rm ELSE t.root
           L1 == [k \in Key |-> IF k = m THEN Nil ELSE IF k = pm /\ L[pm] = m THEN rm ELSE L[k]]
           R1 == [k \in Key |-> IF k = m THEN Nil ELSE IF k = pm /\ R[pm] = m THEN rm ELSE R[k]]
           P1 == [k \in Key |-> IF k = m THEN Nil ELSE IF k = rm THEN pm ELSE P[k]]
           S1 == SetsWithout(S, m)
<1>1. /\ Shape(t.root, L, R, P, S, Less) /\ Orders(Less) /\ t \in Trees
      /\ L \in [Key -> Node] /\ R \in [Key -> Node] /\ P \in [Key -> Node]
      /\ S \in [Node -> SUBSET Key] /\ t.root \in Node
  BY OrderFacts DEF Good, Shape, Pointers
<1>2. n \in Key /\ l \in Key /\ r \in Key /\ p \in Node
  BY <1>1 DEF Node
<1>3. /\ m \in S[r] /\ m \in Key /\ L[m] = Nil
      /\ \A x \in S[r] : x # m => <<m, x>> \in Less
  BY <1>2, MinimumIs
<1>4. /\ n \in S[n] /\ n \notin S[l] /\ n \notin S[r] /\ S[l] \cap S[r] = {}
      /\ l \in S[l] /\ r \in S[r] /\ S[n] = {n} \cup S[l] \cup S[r] /\ S[n] \subseteq S[t.root]
      /\ p # n /\ p \notin S[n] /\ l # r
  <2>1. S[n] \subseteq S[t.root]
    <3>1. t.root \in Key
      BY <1>1 DEF Shape, Node
    <3> QED
      BY <1>1, <3>1 DEF Shape
  <2>2. p \notin S[n]
    <3>1. p # Nil => p \notin S[n]
      BY <1>1, <1>2, ShapeFacts
    <3>2. S[n] \subseteq Key
      BY <1>1, <1>2 DEF Node
    <3> QED
      BY <3>1, <3>2
  <2>3. S[n] = {n} \cup S[l] \cup S[r]
    BY <1>1, <1>2 DEF Shape
  <2> QED
    BY <1>1, <1>2, <2>1, <2>2, <2>3, ShapeFacts
<1>5. /\ m # n /\ m # l /\ m \in S[t.root] /\ m \in S[n] /\ p # m
      /\ rm \in Node /\ (rm # Nil => P[rm] = m /\ rm \in S[r] /\ rm # m)
  <2>1. m # n /\ m # l /\ m \in S[t.root] /\ m \in S[n] /\ p # m
    BY <1>3, <1>4
  <2>2. rm # Nil => P[rm] = m
    BY <1>1, <1>3 DEF Shape
  <2>3. S[m] \subseteq S[r]
    BY <1>1, <1>2, <1>3 DEF Shape
  <2>4. rm # Nil => rm \in S[m] /\ rm # m
    BY <1>1, <1>3, ShapeFacts
  <2> QED
    BY <1>1, <1>3, <2>1, <2>2, <2>3, <2>4
<1>6. P[r] = n /\ P[l] = n
  BY <1>1, <1>2 DEF Shape
<1>7. /\ m = r => pm = n
      /\ m # r => pm \in S[r] /\ pm # n /\ pm \in Key
  <2>1. m # r => pm \in S[r]
    BY <1>1, <1>2, <1>3 DEF Shape
  <2> QED
    BY <1>1, <1>2, <1>4, <1>6, <2>1
<1>8. pm \in Key /\ (p # Nil => p # pm) /\ pm # m
  <2>1. CASE m = r
    BY <1>2, <1>4, <1>5, <1>7, <2>1
  <2>2. CASE m # r
    <3>1. pm # m
      BY <1>1, <1>3, ShapeFacts
    <3> QED
      BY <1>4, <1>7, <2>2, <3>1
  <2> QED
    BY <2>1, <2>2
<1>9. m = L[pm] \/ m = R[pm]
  BY <1>1, <1>3, <1>8 DEF Shape
<1>10. m # r => L[pm] = m /\ R[pm] # m
  <2> SUFFICES ASSUME m # r PROVE L[pm] = m /\ R[pm] # m
    OBVIOUS
  <2>1. R[pm] # m
    <3> SUFFICES ASSUME R[pm] = m PROVE FALSE
      OBVIOUS
    <3>1. m \in S[R[pm]]
      BY <1>1, <1>3, ShapeFacts
    <3>2. <<pm, m>> \in Less
      BY <1>1, <1>8, <3>1 DEF Shape
    <3>3. <<m, pm>> \in Less
      BY <1>3, <1>7, <1>8
    <3> QED
      <4>1. Orders(Less)
        BY <1>1
      <4>2. <<m, m>> \in Less
        BY <1>3, <1>8, <3>2, <3>3, <4>1 DEF Orders
      <4> QED
        BY <1>3, <4>1, <4>2 DEF Orders
  <2> QED
    BY <1>9, <2>1
<1>11. m = r => L[pm] # m /\ R[pm] = m
  BY <1>5, <1>7
<1>12. Unlinked(t.root, L, R, P, m, root1, L1, R1, P1)
  <2>1. L1 \in [Key -> Node] /\ R1 \in [Key -> Node] /\ P1 \in [Key -> Node]
    BY <1>1, <1>5, <1>8 DEF Node
  <2> QED
    BY <2>1 DEF Unlinked
<1>13. /\ root1 = t.root /\ root1 \in Node
       /\ \A k \in Key :
            /\ L1[k] = IF k = m THEN Nil ELSE IF k = pm /\ L[pm] = m THEN rm ELSE L[k]
            /\ R1[k] = IF k = m THEN Nil ELSE IF k = pm /\ R[pm] = m THEN rm ELSE R[k]
            /\ P1[k] = IF k = m THEN Nil ELSE IF k = rm THEN pm ELSE P[k]
  BY <1>1, <1>8
<1>14. Shape(root1, L1, R1, P1, S1, Less) /\ S1[root1] = S[t.root] \ {m}
  <2> HIDE DEF L1, R1, P1, root1
  <2> QED
    BY <1>1, <1>3, <1>5, <1>12, UnlinkKeepsShape
<1> HIDE DEF root1, L1, R1, P1
<1>15. n \in S1[root1] /\ m \notin S1[root1]
  BY <1>5, <1>14
<1>16. /\ u \in Trees
       /\ u.root = IF p = Nil THEN m ELSE t.root
       /\ \A k \in Key :
            /\ u.left[k] = IF k = n THEN Nil ELSE IF k = m THEN l
                           ELSE IF k = p /\ L[k] = n THEN m
                           ELSE IF m # r /\ k = pm THEN rm ELSE L[k]
            /\ u.right[k] = IF k = n THEN Nil
                            ELSE IF k = p /\ L[k] # n THEN m
                            ELSE IF m # r /\ k = m THEN r ELSE R[k]
            /\ u.parent[k] = IF k = n THEN Nil ELSE IF k = m THEN p ELSE IF k = l THEN m
                             ELSE IF m # r /\ k = rm THEN pm
                             ELSE IF m # r /\ k = r THEN m ELSE P[k]
  BY <1>1, <1>2, <1>3, <1>4, <1>5, <1>8, SucceedPointers
<1>17. p # Nil => (L[p] = n \/ R[p] = n) /\ ~ (L[p] = n /\ R[p] = n) /\ p \in Key
  <2> SUFFICES ASSUME p # Nil PROVE (L[p] = n \/ R[p] = n) /\ ~ (L[p] = n /\ R[p] = n) /\ p \in Key
    OBVIOUS
  <2>1. p \in Key
    BY <1>2 DEF Node
  <2>2. L[p] = n \/ R[p] = n
    BY <1>1, <1>2 DEF Shape
  <2>3. ~ (L[p] = n /\ R[p] = n)
    BY <1>1, <1>2, <2>1, ShapeFacts
  <2> QED
    BY <2>1, <2>2, <2>3
<1>18. rm # n /\ rm # m
  BY <1>2, <1>4, <1>5, <1>3
<1>19. \A k \in Key : /\ L[k] = n => k = p
                      /\ R[k] = n => k = p
                      /\ P[k] = n <=> k = l \/ k = r
  <2>1. \A k \in Key : (L[k] = n => k = p) /\ (R[k] = n => k = p)
    BY <1>1, <1>2 DEF Shape, Node
  <2>2. \A k \in Key : P[k] = n => k = l \/ k = r
    BY <1>1, <1>2 DEF Shape
  <2> QED
    BY <1>6, <2>1, <2>2
<1>20. ASSUME NEW k \in Key
       PROVE  u.left[k] = IF k = m THEN L1[n] ELSE IF k = n THEN Nil ELSE IF L1[k] = n THEN m ELSE L1[k]
  <2>1. L1[n] = l
    BY <1>2, <1>5, <1>7, <1>11, <1>13
  <2>2. CASE k = m \/ k = n
    BY <1>5, <1>16, <2>1, <2>2
  <2>3. CASE k # m /\ k # n /\ m = r
    BY <1>2, <1>11, <1>13, <1>16, <1>17, <1>19, <2>3
  <2>4. CASE k # m /\ k # n /\ m # r
    BY <1>2, <1>8, <1>10, <1>13, <1>16, <1>17, <1>18, <1>19, <2>4
  <2> QED
    BY <2>2, <2>3, <2>4
<1>21. ASSUME NEW k \in Key
       PROVE  u.right[k] = IF k = m THEN R1[n] ELSE IF k = n THEN Nil ELSE IF R1[k] = n THEN m ELSE R1[k]
  <2>1. R1[n] = IF m = r THEN rm ELSE r
    BY <1>2, <1>5, <1>7, <1>11, <1>13
  <2>2. CASE k = m \/ k = n
    BY <1>5, <1>16, <2>1, <2>2
  <2>3. CASE k # m /\ k # n /\ m = r
    BY <1>2, <1>7, <1>11, <1>13, <1>16, <1>17, <1>19, <2>3
  <2>4. CASE k # m /\ k # n /\ m # r
    BY <1>2, <1>8, <1>10, <1>13, <1>16, <1>17, <1>18, <1>19, <2>4
  <2> QED
    BY <2>2, <2>3, <2>4
<1>22. ASSUME NEW k \in Key
       PROVE  u.parent[k] = IF k = m THEN P1[n] ELSE IF k = n THEN Nil ELSE IF P1[k] = n THEN m ELSE P1[k]
  <2>1. P1[n] = p
    BY <1>2, <1>5, <1>13, <1>18
  <2>2. CASE k = m \/ k = n
    BY <1>5, <1>16, <2>1, <2>2
  <2>3. CASE k # m /\ k # n /\ m = r
    <3>1. k = rm => P[k] = m /\ k # l
      <4>1. rm # Nil => rm \notin S[l]
        BY <1>4, <1>5
      <4> QED
        BY <1>4, <1>5, <4>1
    <3> QED
      BY <1>2, <1>7, <1>13, <1>16, <1>19, <2>3, <3>1
  <2>4. CASE k # m /\ k # n /\ m # r
    <3>1. k = rm => k # l
      <4>1. rm # Nil => rm \notin S[l]
        BY <1>4, <1>5
      <4> QED
        BY <1>4, <1>5, <4>1
    <3> QED
      BY <1>2, <1>7, <1>13, <1>16, <1>19, <2>4, <3>1
  <2> QED
    BY <2>2, <2>3, <2>4
<1>23. Succeeded(root1, L1, R1, P1, n, m, u.root, u.left, u.right, u.parent)
  <2>1. P1[n] = p
    BY <1>2, <1>5, <1>13, <1>18
  <2>2. u.left \in [Key -> Node] /\ u.right \in [Key -> Node] /\ u.parent \in [Key -> Node]
    BY <1>16 DEF Trees
  <2>3. u.root = IF P1[n] = Nil THEN m ELSE root1
    BY <1>13, <1>16, <2>1
  <2> QED
    BY <1>20, <1>21, <1>22, <2>2, <2>3 DEF Succeeded
<1>24. /\ \A k \in Key : n \in S1[L1[k]] => <<m, k>> \in Less
       /\ \A k \in Key : n \in S1[R1[k]] => <<k, m>> \in Less
       /\ \A x \in S1[L1[n]] : <<x, m>> \in Less
       /\ \A x \in S1[R1[n]] : <<m, x>> \in Less
  <2>0. \A k \in Node : S1[k] = IF k = m THEN {m} ELSE S[k] \ {m}
    BY DEF SetsWithout
  <2>1. ASSUME NEW k \in Key, n \in S1[L1[k]] PROVE <<m, k>> \in Less
    <3>1. L1[k] \in Node /\ L1[k] # m
      <4>1. L1[k] \in Node
        BY <1>14 DEF Shape, Pointers
      <4>2. S1[m] = {m}
        BY <1>3, <2>0 DEF Node
      <4> QED
        BY <1>5, <2>1, <4>1, <4>2
    <3>2. n \in S[L1[k]]
      BY <2>0, <2>1, <3>1
    <3>3. n \in S[L[k]]
      <4>1. CASE L1[k] = L[k]
        BY <3>2, <4>1
      <4>2. CASE L1[k] # L[k]
        <5>1. L1[k] = Nil \/ L1[k] = rm
          BY <1>13, <4>2
        <5>2. S[Nil] = {}
          BY <1>1 DEF Shape
        <5>3. rm # Nil => S[rm] \subseteq S[r]
          BY <1>1, <1>2, <1>5 DEF Shape
        <5> QED
          BY <1>4, <3>2, <5>1, <5>2, <5>3
      <4> QED
        BY <4>1, <4>2
    <3>4. m \in S[L[k]]
      <4>1. L[k] \in Key
        BY <1>1, <3>3 DEF Shape, Node
      <4>2. S[n] \subseteq S[L[k]]
        BY <1>1, <3>3, <4>1 DEF Shape
      <4> QED
        BY <1>5, <4>2
    <3> QED
      BY <1>1, <3>4 DEF Shape
  <2>2. ASSUME NEW k \in Key, n \in S1[R1[k]] PROVE <<k, m>> \in Less
    <3>1. R1[k] \in Node /\ R1[k] # m
      <4>1. R1[k] \in Node
        BY <1>14 DEF Shape, Pointers
      <4>2. S1[m] = {m}
        BY <1>3, <2>0 DEF Node
      <4> QED
        BY <1>5, <2>2, <4>1, <4>2
    <3>2. n \in S[R1[k]]
      BY <2>0, <2>2, <3>1
    <3>3. n \in S[R[k]]
      <4>1. CASE R1[k] = R[k]
        BY <3>2, <4>1
      <4>2. CASE R1[k] # R[k]
        <5>1. R1[k] = Nil \/ R1[k] = rm
          BY <1>13, <4>2
        <5>2. S[Nil] = {}
          BY <1>1 DEF Shape
        <5>3. rm # Nil => S[rm] \subseteq S[r]
          BY <1>1, <1>2, <1>5 DEF Shape
        <5> QED
          BY <1>4, <3>2, <5>1, <5>2, <5>3
      <4> QED
        BY <4>1, <4>2
    <3>4. m \in S[R[k]]
      <4>1. R[k] \in Key
        BY <1>1, <3>3 DEF Shape, Node
      <4>2. S[n] \subseteq S[R[k]]
        BY <1>1, <3>3, <4>1 DEF Shape
      <4> QED
        BY <1>5, <4>2
    <3> QED
      BY <1>1, <3>4 DEF Shape
  <2>3. ASSUME NEW x \in S1[L1[n]] PROVE <<x, m>> \in Less
    <3>1. L1[n] = l
      BY <1>2, <1>5, <1>7, <1>11, <1>13
    <3>2. x \in S[l]
      BY <1>2, <1>5, <2>0, <2>3, <3>1 DEF Node
    <3> QED
      BY <1>1, <1>2, <1>3, <3>2, ShapeFacts
  <2>4. ASSUME NEW x \in S1[R1[n]] PROVE <<m, x>> \in Less
    <3>1. R1[n] = IF m = r THEN rm ELSE r
      BY <1>2, <1>5, <1>7, <1>11, <1>13
    <3>2. rm = Nil => S[rm] = {}
      BY <1>1 DEF Shape
    <3>3. rm # Nil => S[rm] \subseteq S[r]
      BY <1>1, <1>2, <1>5 DEF Shape
    <3>4. x \in S[r] /\ x # m
      <4>1. CASE m = r
        <5>1. x \in S[rm] \ {m}
          BY <1>5, <1>18, <2>0, <2>4, <3>1, <4>1
        <5> QED
          BY <3>2, <3>3, <5>1
      <4>2. CASE m # r
        <5>1. x \in S[r] \ {m}
          BY <1>2, <2>0, <2>4, <3>1, <4>2 DEF Node
        <5> QED
          BY <5>1
      <4> QED
        BY <4>1, <4>2
    <3> QED
      BY <1>3, <3>4
  <2> QED
    BY <2>1, <2>2, <2>3, <2>4
<1> DEFINE S2 == SetsSucceeded(S1, n, m)
<1>25. Shape(u.root, u.left, u.right, u.parent, S2, Less) /\ S2[u.root] = (S1[root1] \ {n}) \cup {m}
  <2> HIDE DEF S1
  <2> QED
    BY <1>1, <1>3, <1>14, <1>15, <1>23, <1>24, SuccessorKeepsShape
<1>26. Good(u, S2) /\ S2[u.root] = S[t.root] \ {n}
  BY <1>5, <1>14, <1>16, <1>25 DEF Good
<1> QED
  BY <1>3, <1>5, <1>7, <1>8, <1>12, <1>15, <1>23, <1>26

\* The successor inherits the height of the node it replaces.
Handed(g, n, m) == [g EXCEPT ![m] = g[n], ![n] = 1]

\* Heights stay right when the place of a node is taken over.
LEMMA SucceedHeights ==
  ASSUME NEW root, NEW L, NEW R, NEW P, NEW S, NEW less,
         Shape(root, L, R, P, S, less), Orders(less),
         NEW n \in S[root], NEW m \in Key, m \notin S[root],
         NEW root2, NEW L2, NEW R2, NEW P2,
         Succeeded(root, L, R, P, n, m, root2, L2, R2, P2),
         NEW a \in Node, a # m, NEW b, b = IF a = n THEN m ELSE a,
         NEW d, NEW g, NearBy(L, R, a, d, g),
         NEW f, f = Handed(g, n, m)
  PROVE  NearBy(L2, R2, b, d, f)
<1> USE KeyAssumption DEF Node
<1>0. g \in [Node -> Nat] /\ g[Nil] = 0 /\ \A k \in Key : k # a => EvenAt(L, R, g, k)
  BY DEF NearBy, Fit
<1>1. n \in Key /\ n # m /\ \A k \in Key : L[k] \in Node /\ R[k] \in Node
  BY DEF Shape, Pointers
<1>2. \A k \in Key : L[k] # m /\ R[k] # m
  BY DEF Shape
<1>3. L[n] # n /\ R[n] # n
  BY <1>1, ShapeFacts
<1>4. /\ f \in [Node -> Nat] /\ f[Nil] = 0 /\ f[m] = g[n] /\ f[n] = 1
      /\ \A k \in Node : k # n /\ k # m => f[k] = g[k]
  BY <1>0, <1>1 DEF Handed
<1>5. \A k \in Key :
        /\ L2[k] = IF k = m THEN L[n] ELSE IF k = n THEN Nil ELSE IF L[k] = n THEN m ELSE L[k]
        /\ R2[k] = IF k = m THEN R[n] ELSE IF k = n THEN Nil ELSE IF R[k] = n THEN m ELSE R[k]
  BY DEF Succeeded
<1>6. ASSUME NEW k \in Key, k # n, k # m
      PROVE  f[L2[k]] = g[L[k]] /\ f[R2[k]] = g[R[k]] /\ f[k] = g[k]
  BY <1>1, <1>2, <1>4, <1>5, <1>6
<1>7. f[L2[m]] = g[L[n]] /\ f[R2[m]] = g[R[n]] /\ f[m] = g[n]
  BY <1>1, <1>2, <1>3, <1>4, <1>5
<1>8. EvenAt(L2, R2, f, n)
  BY <1>1, <1>4, <1>5 DEF EvenAt, Joined
<1>9. ASSUME NEW k \in Key, k # b PROVE EvenAt(L2, R2, f, k)
  <2>1. CASE k = n
    BY <1>8, <2>1
  <2>2. CASE k = m
    <3>1. EvenAt(L, R, g, n)
      BY <1>0, <1>1, <1>9, <2>2
    <3> QED
      BY <1>7, <2>2, <3>1 DEF EvenAt
  <2>3. CASE k # n /\ k # m
    <3>1. EvenAt(L, R, g, k)
      BY <1>0, <1>9, <2>3
    <3> QED
      BY <1>6, <2>3, <3>1 DEF EvenAt
  <2> QED
    BY <2>1, <2>2, <2>3
<1>10. Fit(L2, R2, f, {b})
  BY <1>4, <1>9 DEF Fit
<1>11. ASSUME b # Nil PROVE f[b] = Joined(f[L2[b]] - d, f[R2[b]]) /\ f[L2[b]] - d - f[R2[b]] \in -1..1
  <2>1. a # Nil /\ a \in Key
    BY <1>1, <1>11
  <2>2. g[a] = Joined(g[L[a]] - d, g[R[a]]) /\ g[L[a]] - d - g[R[a]] \in -1..1
    BY <2>1 DEF NearBy
  <2>3. f[L2[b]] = g[L[a]] /\ f[R2[b]] = g[R[a]] /\ f[b] = g[a]
    BY <1>6, <1>7, <2>1
  <2> QED
    BY <2>2, <2>3
<1> QED
  BY <1>10, <1>11 DEF NearBy

\* The slack after such a removal is where the climb starts (remove): at the old
\* parent of the successor, or at the successor when that was n.
LEMMA SucceedSlack ==
  ASSUME NEW t, NEW S, Good(t, S), Slack(t, Nil, -1), NEW n \in S[t.root],
         t.left[n] # Nil, t.right[n] # Nil,
         NEW u, u = Succeed(t, n, Minimum(t, t.right[n]))
  PROVE  /\ \E T : Good(u, T) /\ T[u.root] = S[t.root] \ {n}
         /\ Slack(u, Start(t, n), -1)
         /\ Start(t, n) \in S[t.root] \ {n}
<1> USE KeyAssumption
<1> DEFINE m == Minimum(t, t.right[n])
<1>1. u = Succeed(t, n, m)
  OBVIOUS
<1> HIDE DEF m
<1>2. PICK root1, L1, R1, P1 :
           /\ Unlinked(t.root, t.left, t.right, t.parent, m, root1, L1, R1, P1)
           /\ Succeeded(root1, L1, R1, P1, n, m, u.root, u.left, u.right, u.parent)
           /\ n \in SetsWithout(S, m)[root1]
           /\ m \in S[t.root] /\ m # n /\ t.left[m] = Nil /\ t.parent[m] \in Key
           /\ (m = t.right[n] <=> t.parent[m] = n)
           /\ Good(u, SetsSucceeded(SetsWithout(S, m), n, m))
           /\ SetsSucceeded(SetsWithout(S, m), n, m)[u.root] = S[t.root] \ {n}
  <2>1. m = Minimum(t, t.right[n])
    BY DEF m
  <2> QED
    BY <1>1, <2>1, Succeeding
<1> DEFINE a == t.parent[m]  b == IF a = n THEN m ELSE a
           S1 == SetsWithout(S, m)
<1>3. /\ Shape(t.root, t.left, t.right, t.parent, S, Less) /\ Orders(Less)
      /\ Orders(More) /\ \A x, y \in Key : <<x, y>> \in Less <=> <<y, x>> \in More
      /\ t.left \in [Key -> Node] /\ t.right \in [Key -> Node] /\ S \in [Node -> SUBSET Key]
      /\ t.root \in Node
  BY OrderFacts DEF Good, Shape, Pointers
<1>4. m \in Key /\ n \in Key
  BY <1>2, <1>3
<1>5. Start(t, n) = b
  <2>1. m = Minimum(t, t.right[n])
    BY DEF m
  <2> QED
    BY <1>2, <2>1 DEF Start
<1>6. b \in S[t.root] \ {n}
  <2>1. a \in S[t.root]
    BY <1>2, <1>3, <1>4, ShapeFacts
  <2> QED
    BY <1>2, <2>1
<1>7. PICK h : Fit(t.left, t.right, h, {Nil})
  <2>1a. PICK q \in BOOLEAN : \E h : NearBy(Hand(t, q), Hand(t, ~ q), Nil, -1, h)
    BY DEF Slack
  <2>1. PICK h : NearBy(Hand(t, q), Hand(t, ~ q), Nil, -1, h)
    BY <2>1a
  <2>2. Fit(Hand(t, q), Hand(t, ~ q), h, {Nil})
    BY <2>1 DEF NearBy
  <2>3. CASE q
    BY <2>2, <2>3 DEF Hand
  <2>4. CASE ~ q
    <3>1. Fit(t.right, t.left, h, {Nil})
      BY <2>2, <2>4 DEF Hand
    <3>2. Fit(t.left, t.right, h, {Nil})
      BY <1>3, <3>1, FitMirror
    <3> QED
      BY <3>2
  <2> QED
    BY <2>3, <2>4
<1> DEFINE g == [h EXCEPT ![m] = 1]  f == Handed(g, n, m)  d == -1
<1>8. NearBy(L1, R1, a, -1, g) \/ NearBy(R1, L1, a, -1, g)
  <2> DEFINE L == t.left  R == t.right  P == t.parent  less == Less
  <2>1. /\ Shape(t.root, L, R, P, S, less) /\ Orders(less) /\ L[m] = Nil
        /\ Unlinked(t.root, L, R, P, m, root1, L1, R1, P1) /\ Fit(L, R, h, {Nil})
    BY <1>2, <1>3, <1>7
  <2>2. m = L[P[m]] \/ m = R[P[m]]
    BY <1>2, <1>3, <1>4 DEF Shape
  <2>3. P[m] # Nil
    BY <1>2
  <2>4. a = P[m]
    OBVIOUS
  <2> HIDE DEF L, R, P, less, a
  <2>5. g = [h EXCEPT ![m] = 1]
    BY DEF g
  <2>6. /\ P[m] # Nil /\ m = L[P[m]] => NearBy(L1, R1, P[m], -1, g)
        /\ P[m] # Nil /\ m = R[P[m]] => NearBy(R1, L1, P[m], -1, g)
    BY <1>4, <2>1, <2>5, UnlinkHeights
  <2> QED
    BY <2>2, <2>3, <2>4, <2>6
<1>9. /\ Shape(root1, L1, R1, P1, S1, Less) /\ S1[root1] = S[t.root] \ {m}
      /\ Shape(root1, R1, L1, P1, S1, More)
  <2>1. Shape(root1, L1, R1, P1, S1, Less) /\ S1[root1] = S[t.root] \ {m}
    BY <1>2, <1>3, UnlinkKeepsShape
  <2>2. Shape(root1, R1, L1, P1, S1, More)
    <3> HIDE DEF S1
    <3> QED
      BY <1>3, <2>1, MirrorShape
  <2> QED
    BY <2>1, <2>2
<1>10. /\ Succeeded(root1, L1, R1, P1, n, m, u.root, u.left, u.right, u.parent)
       /\ Succeeded(root1, R1, L1, P1, n, m, u.root, u.right, u.left, u.parent)
       /\ n \in S1[root1] /\ m \notin S1[root1]
  BY <1>2, <1>9 DEF Succeeded
<1>11. a \in Node /\ a # m
  <2>1. a # m
    BY <1>3, <1>4, ShapeFacts
  <2> QED
    BY <1>2, <2>1 DEF Node
<1>12. CASE NearBy(L1, R1, a, -1, g)
  <2> DEFINE less == Less
  <2>1. /\ Shape(root1, L1, R1, P1, S1, less) /\ Orders(less)
        /\ NearBy(L1, R1, a, d, g) /\ b = (IF a = n THEN m ELSE a) /\ f = Handed(g, n, m)
    BY <1>3, <1>9, <1>12
  <2> HIDE DEF less, a, b, d, f, g, S1
  <2>2. NearBy(u.left, u.right, b, d, f)
    BY ONLY <1>4, <1>10, <1>11, <2>1, SucceedHeights
  <2>3. Hand(u, TRUE) = u.left /\ Hand(u, ~ TRUE) = u.right
    BY DEF Hand
  <2>4. Slack(u, b, d)
    BY <2>2, <2>3 DEF Slack
  <2> QED
    BY <1>2, <1>5, <1>6, <2>4 DEF d
<1>13. CASE NearBy(R1, L1, a, -1, g)
  <2> DEFINE less == More
  <2>1. /\ Shape(root1, R1, L1, P1, S1, less) /\ Orders(less)
        /\ NearBy(R1, L1, a, d, g) /\ b = (IF a = n THEN m ELSE a) /\ f = Handed(g, n, m)
    BY <1>3, <1>9, <1>13
  <2> HIDE DEF less, a, b, d, f, g, S1
  <2>2. NearBy(u.right, u.left, b, d, f)
    BY ONLY <1>4, <1>10, <1>11, <2>1, SucceedHeights
  <2>3. Hand(u, FALSE) = u.right /\ Hand(u, ~ FALSE) = u.left
    BY DEF Hand
  <2>4. Slack(u, b, d)
    BY <2>2, <2>3 DEF Slack
  <2> QED
    BY <1>2, <1>5, <1>6, <2>4 DEF d
<1> QED
  BY <1>8, <1>12, <1>13

\* The slack is at c, at the parent of c, or nowhere.
Loose(t, c) ==
  \E a \in {Nil, c} \cup {t.parent[k] : k \in {c} \ {Nil}} : Slack(t, a, -1)

\* A removal, before its climb: a search tree of the other keys, and the slack near
\* to where the climb starts.
LEMMA RemoveNodeKeeps ==
  ASSUME NEW t, NEW S, Good(t, S), Slack(t, Nil, -1), NEW n \in S[t.root],
         NEW u, u = IF t.left[n] # Nil /\ t.right[n] # Nil
                    THEN Succeed(t, n, Minimum(t, t.right[n])) ELSE Bypass(t, n),
         NEW c, c = Start(t, n)
  PROVE  /\ \E T : Good(u, T) /\ T[u.root] = S[t.root] \ {n}
         /\ c \in (S[t.root] \ {n}) \cup {Nil}
         /\ Loose(u, c)
<1> USE KeyAssumption
<1>1. CASE t.left[n] # Nil /\ t.right[n] # Nil
  <2>1. u = Succeed(t, n, Minimum(t, t.right[n]))
    BY <1>1
  <2>2. /\ \E T : Good(u, T) /\ T[u.root] = S[t.root] \ {n}
        /\ Slack(u, c, -1)
        /\ c \in S[t.root] \ {n}
    BY <1>1, <2>1, SucceedSlack
  <2> QED
    BY <2>2 DEF Loose
<1>2. ASSUME NEW s \in BOOLEAN, Hand(t, s)[n] = Nil, ~ (t.left[n] # Nil /\ t.right[n] # Nil),
             c = IF Hand(t, ~ s)[n] # Nil THEN Hand(t, ~ s)[n] ELSE t.parent[n]
      PROVE  /\ \E T : Good(u, T) /\ T[u.root] = S[t.root] \ {n}
             /\ c \in (S[t.root] \ {n}) \cup {Nil}
             /\ Loose(u, c)
  <2>1. u = Bypass(t, n)
    BY <1>2
  <2> DEFINE L == Hand(t, s)  R == Hand(t, ~ s)
  <2>2. /\ Good(u, SetsWithout(S, n)) /\ SetsWithout(S, n)[u.root] = S[t.root] \ {n}
        /\ Unlinked(t.root, L, R, t.parent, n,
                     u.root, Hand(u, s), Hand(u, ~ s), u.parent)
    BY <1>2, <2>1, Bypassing
  <2>3. Slack(u, t.parent[n], -1)
    BY <1>2, <2>1, BypassSlack
  <2>4. Shape(t.root, L, R, t.parent, S, Along(s)) /\ Orders(Along(s)) /\ R \in [Key -> Node]
        /\ S \in [Node -> SUBSET Key] /\ t.root \in Node /\ t.parent \in [Key -> Node]
    <3>1. Shape(t.root, L, R, t.parent, S, Along(s)) /\ Orders(Along(s))
      BY Views
    <3> QED
      BY <3>1 DEF Shape, Pointers
  <2> HIDE DEF L, R
  <2>5. n \in Key
    BY <2>4
  <2>6. CASE R[n] # Nil
    <3>1. c = R[n] /\ R[n] \in Key
      BY <1>2, <2>4, <2>5, <2>6 DEF R, Node
    <3>2. u.parent[c] = t.parent[n]
      <4>1. R[n] # n
        BY <2>4, <2>5, ShapeFacts
      <4> QED
        BY <2>2, <3>1, <4>1 DEF Unlinked
    <3>3. c \in S[t.root] \ {n}
      <4>1. R[n] # n /\ R[n] \in S[n]
        BY <2>4, <2>5, <2>6, ShapeFacts
      <4>2. S[n] \subseteq S[t.root]
        <5>1. t.root \in Key
          BY <2>4, <2>5 DEF Shape, Node
        <5> QED
          BY <2>4, <5>1 DEF Shape
      <4> QED
        BY <3>1, <4>1, <4>2
    <3>4. c # Nil
      BY <3>1
    <3> QED
      BY <2>2, <2>3, <3>2, <3>3, <3>4 DEF Loose
  <2>7. CASE R[n] = Nil
    <3>1. c = t.parent[n]
      BY <1>2, <2>7 DEF R
    <3>2. t.parent[n] # Nil => t.parent[n] \in S[t.root] /\ t.parent[n] # n
      BY <2>4, <2>5, ShapeFacts
    <3> QED
      BY <2>2, <2>3, <3>1, <3>2 DEF Loose
  <2> QED
    BY <2>6, <2>7
<1>3. CASE t.left[n] = Nil
  <2>1. Hand(t, TRUE) = t.left /\ Hand(t, ~ TRUE) = t.right
    BY DEF Hand
  <2>2. c = IF t.right[n] # Nil THEN t.right[n] ELSE t.parent[n]
    BY <1>3 DEF Start
  <2> QED
    BY <1>2, <1>3, <2>1, <2>2
<1>4. CASE t.left[n] # Nil /\ t.right[n] = Nil
  <2>1. Hand(t, FALSE) = t.right /\ Hand(t, ~ FALSE) = t.left
    BY DEF Hand
  <2>2. c = IF t.left[n] # Nil THEN t.left[n] ELSE t.parent[n]
    BY <1>4 DEF Start
  <2> DEFINE s == FALSE
  <2>3. /\ s \in BOOLEAN /\ Hand(t, s)[n] = Nil
        /\ c = IF Hand(t, ~ s)[n] # Nil THEN Hand(t, ~ s)[n] ELSE t.parent[n]
    BY <1>4, <2>1, <2>2
  <2> HIDE DEF s
  <2> QED
    BY <1>2, <1>4, <2>3
<1> QED
  BY <1>1, <1>3, <1>4

-----------------------------------------------------------------------------
(***************************************************************************)
(* What holds when no climb is under way, and how one begins.              *)
(***************************************************************************)

\* Without a slack the tree is balanced.
LEMMA EvenTree ==
  ASSUME NEW t, NEW S, Good(t, S), Slack(t, Nil, -1)
  PROVE  \A k \in Key : Balance(t, k) \in -1..1
<1> USE KeyAssumption
<1>1a. PICK s \in BOOLEAN : \E g : NearBy(Hand(t, s), Hand(t, ~ s), Nil, -1, g)
  BY DEF Slack
<1>1. PICK g : NearBy(Hand(t, s), Hand(t, ~ s), Nil, -1, g)
  BY <1>1a
<1> DEFINE L == Hand(t, s)  R == Hand(t, ~ s)  h == Heights(t)  less == Along(s)  d == -1
<1>2. /\ Shape(t.root, L, R, t.parent, S, less) /\ Orders(less)
      /\ L \in [Key -> Node] /\ R \in [Key -> Node] /\ Levels(L, R, h)
      /\ NearBy(L, R, Nil, d, g) /\ Nil \in Node
  BY <1>1, Views, HeightsView DEF Node
<1>3. Fit(L, R, g, {Nil})
  BY <1>1 DEF NearBy
<1> HIDE DEF L, R, h, less, d
<1>4. \A k \in Node : Nil \notin S[k] => g[k] = h[k]
  BY ONLY <1>2, TrueLevels
<1>5. \A k \in Node : Nil \notin S[k]
  BY <1>2 DEF Shape, Pointers
<1>6. ASSUME NEW k \in Key PROVE Balance(t, k) \in -1..1
  <2>1. g[L[k]] - g[R[k]] \in -1..1
    BY <1>3 DEF Fit, EvenAt
  <2>2. L[k] \in Node /\ R[k] \in Node
    BY <1>2
  <2>3. h[L[k]] - h[R[k]] \in -1..1 /\ h[L[k]] \in Nat /\ h[R[k]] \in Nat
    BY <1>2, <1>4, <1>5, <2>1, <2>2 DEF Levels
  <2>4. CASE s
    <3>1. Balance(t, k) = h[L[k]] - h[R[k]]
      BY <2>4 DEF Balance, h, L, R, Hand
    <3> QED
      BY <2>3, <3>1
  <2>5. CASE ~ s
    <3>1. Balance(t, k) = h[R[k]] - h[L[k]]
      BY <2>5 DEF Balance, h, L, R, Hand
    <3> QED
      BY <2>3, <3>1
  <2> QED
    BY <2>4, <2>5
<1> QED
  BY <1>6

\* The nodes that are linked are those below the root.
LEMMA LinkedIs ==
  ASSUME NEW t, NEW S, Good(t, S)
  PROVE  Linked(t) = S[t.root]
<1> USE KeyAssumption
<1>1. /\ Shape(t.root, t.left, t.right, t.parent, S, Less) /\ Orders(Less)
      /\ S \in [Node -> SUBSET Key] /\ t.root \in Node
  BY OrderFacts DEF Good, Shape, Pointers
<1>2. \A k \in Key : k \in S[t.root] <=> k = t.root \/ t.parent[k] # Nil
  <2> SUFFICES ASSUME NEW k \in Key PROVE k \in S[t.root] <=> k = t.root \/ t.parent[k] # Nil
    OBVIOUS
  <2> QED
    BY <1>1, ShapeFacts
<1>3. S[t.root] \subseteq Key
  BY <1>1
<1> QED
  BY <1>2, <1>3 DEF Linked

\* What the last step of the descent of insert writes.
HangAt(t, s, a, x) ==
  IF s THEN [t EXCEPT !.left[a] = x, !.parent[x] = a]
  ELSE [t EXCEPT !.right[a] = x, !.parent[x] = a]

\* It keeps a search tree, and the subtree of a has grown.
LEMMA Hanging ==
  ASSUME NEW t, NEW S, Good(t, S), Slack(t, Nil, -1), NEW s \in BOOLEAN,
         NEW a \in S[t.root], Hand(t, s)[a] = Nil,
         NEW x \in Key, x \in S[t.root] => x \in S[a], x # a,
         <<x, a>> \in Along(s),
         \A k \in Key : /\ a \in S[t.left[k]] => <<x, k>> \in Less
                        /\ a \in S[t.right[k]] => <<k, x>> \in Less,
         NEW u, u = HangAt(t, s, a, x)
  PROVE  \E T : Good(u, T) /\ T[u.root] = S[t.root] \cup {x} /\ Grown(u, T, a, x)
<1> USE KeyAssumption
<1>1a. PICK q \in BOOLEAN : \E g : NearBy(Hand(t, q), Hand(t, ~ q), Nil, -1, g)
  BY DEF Slack
<1>1. PICK g : NearBy(Hand(t, q), Hand(t, ~ q), Nil, -1, g)
  BY <1>1a
<1> DEFINE L == Hand(t, s)  R == Hand(t, ~ s)  L2 == Hand(u, s)  R2 == Hand(u, ~ s)
           T == SetsWith(S, a, x)
<1>2. /\ Shape(t.root, L, R, t.parent, S, Along(s)) /\ Orders(Along(s))
      /\ L \in [Key -> Node] /\ R \in [Key -> Node] /\ t \in Trees
      /\ S \in [Node -> SUBSET Key] /\ t.root \in Node
  BY Views DEF Good, Shape, Pointers
<1>3. Fit(L, R, g, {Nil})
  <2>1. Fit(Hand(t, q), Hand(t, ~ q), g, {Nil})
    BY <1>1 DEF NearBy
  <2>2. CASE q = s
    BY <2>1, <2>2
  <2>3. CASE q # s
    <3>1. Hand(t, q) = R /\ Hand(t, ~ q) = L
      BY <2>3 DEF Hand
    <3> HIDE DEF L, R
    <3> QED
      BY <1>2, <2>1, <3>1, FitMirror
  <2> QED
    BY <2>2, <2>3
<1>4. a \in Key
  BY <1>2
<1>5. /\ u \in Trees /\ u.root = t.root
      /\ Hung(L, R, t.parent, a, x, L2, R2, u.parent)
  <2>1. CASE s
    <3>1. u = [t EXCEPT !.left[a] = x, !.parent[x] = a]
      BY <2>1 DEF HangAt
    <3>2. /\ u \in Trees /\ u.root = t.root /\ u.left = [t.left EXCEPT ![a] = x] /\ u.right = t.right
          /\ u.parent = [t.parent EXCEPT ![x] = a]
      <4>1. t = [root |-> t.root, left |-> t.left, right |-> t.right, parent |-> t.parent]
            /\ t.left \in [Key -> Node] /\ t.right \in [Key -> Node] /\ t.parent \in [Key -> Node]
        BY <1>2 DEF Trees
      <4>2. u = [[t EXCEPT !.left = [t.left EXCEPT ![a] = x]] EXCEPT !.parent = [t.parent EXCEPT ![x] = a]]
        BY <3>1, <4>1
      <4>3. [t.left EXCEPT ![a] = x] \in [Key -> Node] /\ [t.parent EXCEPT ![x] = a] \in [Key -> Node]
        BY <1>4, <4>1 DEF Node
      <4> QED
        BY <1>2, <4>1, <4>2, <4>3 DEF Trees
    <3> QED
      BY <2>1, <3>2 DEF Hand, Hung
  <2>2. CASE ~ s
    <3>1. u = [t EXCEPT !.right[a] = x, !.parent[x] = a]
      BY <2>2 DEF HangAt
    <3>2. /\ u \in Trees /\ u.root = t.root /\ u.right = [t.right EXCEPT ![a] = x] /\ u.left = t.left
          /\ u.parent = [t.parent EXCEPT ![x] = a]
      <4>1. t = [root |-> t.root, left |-> t.left, right |-> t.right, parent |-> t.parent]
            /\ t.right \in [Key -> Node] /\ t.left \in [Key -> Node] /\ t.parent \in [Key -> Node]
        BY <1>2 DEF Trees
      <4>2. u = [[t EXCEPT !.right = [t.right EXCEPT ![a] = x]] EXCEPT !.parent = [t.parent EXCEPT ![x] = a]]
        BY <3>1, <4>1
      <4>3. [t.right EXCEPT ![a] = x] \in [Key -> Node] /\ [t.parent EXCEPT ![x] = a] \in [Key -> Node]
        BY <1>4, <4>1 DEF Node
      <4> QED
        BY <1>2, <4>1, <4>2, <4>3 DEF Trees
    <3> QED
      BY <2>2, <3>2 DEF Hand, Hung
  <2> QED
    BY <2>1, <2>2
<1>6. /\ \A k \in Key : a \in S[L[k]] => <<x, k>> \in Along(s)
      /\ \A k \in Key : a \in S[R[k]] => <<k, x>> \in Along(s)
  <2>1. CASE s
    BY <2>1 DEF Hand, Along
  <2>2. CASE ~ s
    BY <2>2, OrderFacts DEF Hand, Along
  <2> QED
    BY <2>1, <2>2
<1> HIDE DEF L2, R2, L, R
<1>7. L[a] = Nil
  BY DEF L
<1>8. x \notin S[t.root]
  <2> SUFFICES ASSUME x \in S[a] PROVE FALSE
    OBVIOUS
  <2>1. S[a] = {a} \cup S[L[a]] \cup S[R[a]] /\ S[Nil] = {}
    BY <1>2, <1>4 DEF Shape
  <2>2. x \in S[R[a]]
    BY <1>7, <2>1
  <2>3. <<a, x>> \in Along(s)
    BY <1>2, <1>4, <2>2 DEF Shape
  <2> QED
    BY <1>2, <1>4, <2>3 DEF Orders
<1>9. /\ Shape(t.root, L2, R2, u.parent, T, Along(s))
      /\ T[t.root] = S[t.root] \cup {x}
  <2> DEFINE less == Along(s)  P == t.parent  P2 == u.parent
  <2>1. /\ Shape(t.root, L, R, P, S, less) /\ Orders(less)
        /\ a \in S[t.root] /\ x \in Key /\ x \notin S[t.root]
        /\ Fits(L, R, S, less, a, x)
        /\ Hung(L, R, P, a, x, L2, R2, P2)
    BY <1>2, <1>5, <1>6, <1>7, <1>8 DEF Fits
  <2> HIDE DEF less, P, P2
  <2>2. /\ Shape(t.root, L2, R2, P2, SetsWith(S, a, x), less)
        /\ SetsWith(S, a, x)[t.root] = S[t.root] \cup {x}
    BY ONLY <2>1, HangingKeepsShape
  <2> QED
    BY <2>2 DEF less, P2
<1>10. Good(u, T) /\ T[u.root] = S[t.root] \cup {x}
  <2> HIDE DEF T
  <2> QED
    BY <1>5, <1>9, FromView DEF L2, R2
<1>11. /\ L[x] = Nil /\ R[x] = Nil /\ S[x] = {x}
  <2>1. L[x] = Nil /\ R[x] = Nil /\ S[Nil] = {}
    BY <1>2, <1>8 DEF Shape
  <2>2. S[x] = {x} \cup S[L[x]] \cup S[R[x]]
    BY <1>2 DEF Shape
  <2> QED
    BY <2>1, <2>2
<1>12. L2 = [L EXCEPT ![a] = x] /\ R2 = R
  BY <1>5 DEF Hung
<1>13. g[x] = 1 /\ g \in [Node -> Nat] /\ g[Nil] = 0
  <2>1. EvenAt(L, R, g, x) /\ g \in [Node -> Nat] /\ g[Nil] = 0
    BY <1>3 DEF Fit
  <2> QED
    BY <1>11, <2>1 DEF EvenAt, Joined
<1>14. NearBy(L2, R2, a, 1, g)
  <2>1. \A k \in Key : k # a => EvenAt(L2, R2, g, k)
    <3> SUFFICES ASSUME NEW k \in Key, k # a PROVE EvenAt(L2, R2, g, k)
      OBVIOUS
    <3>1. L2[k] = L[k] /\ R2[k] = R[k]
      BY <1>2, <1>12
    <3>2. EvenAt(L, R, g, k)
      BY <1>3 DEF Fit
    <3> QED
      BY <3>1, <3>2 DEF EvenAt
  <2>2. Fit(L2, R2, g, {a})
    BY <1>13, <2>1 DEF Fit
  <2>3. L2[a] = x /\ R2[a] = R[a]
    BY <1>2, <1>4, <1>12
  <2>4. EvenAt(L, R, g, a)
    BY <1>3, <1>4 DEF Fit
  <2>5. g[L2[a]] - 1 = 0
    BY <1>13, <2>3
  <2>6. g[a] = Joined(0, g[R[a]]) /\ 0 - g[R[a]] \in -1..1
    BY <1>7, <1>13, <2>4 DEF EvenAt
  <2>7. g[a] = Joined(g[L2[a]] - 1, g[R2[a]]) /\ g[L2[a]] - 1 - g[R2[a]] \in -1..1
    BY <2>3, <2>5, <2>6
  <2> QED
    BY <2>2, <2>7 DEF NearBy
<1>15. Leans(u, T, g, L2[a], x)
  <2>1. L2[a] = x
    BY <1>2, <1>4, <1>12
  <2>2. x \in T[x]
    BY <1>11 DEF SetsWith, Node
  <2>3. L2[x] = Nil /\ R2[x] = Nil
    BY <1>2, <1>11, <1>12
  <2>4. u.left[x] = Nil /\ u.right[x] = Nil
    BY <2>3 DEF L2, R2, Hand
  <2> QED
    BY <2>1, <2>2, <2>4 DEF Leans
<1>16. Grown(u, T, a, x)
  <2> HIDE DEF T
  <2> QED
    BY <1>14, <1>15 DEF Grown, L2, R2
<1> QED
  BY <1>10, <1>16

\* The empty tree.
NoTree == [root |-> Nil, left |-> [k \in Key |-> Nil],
           right |-> [k \in Key |-> Nil], parent |-> [k \in Key |-> Nil]]

\* The empty tree is a balanced search tree of no key.
LEMMA EmptyTree ==
  \E S : Good(NoTree, S) /\ S[NoTree.root] = {} /\ Slack(NoTree, Nil, -1)
<1> USE KeyAssumption DEF Node
<1> DEFINE S == [x \in Node |-> {x} \ {Nil}]
           t == NoTree
           g == [x \in Node |-> IF x = Nil THEN 0 ELSE 1]
<1>1. /\ t \in Trees /\ t.root = Nil
      /\ \A k \in Key : t.left[k] = Nil /\ t.right[k] = Nil /\ t.parent[k] = Nil
  BY DEF NoTree, Trees
<1>2. t.left \in [Key -> Node] /\ t.right \in [Key -> Node] /\ t.parent \in [Key -> Node]
  BY <1>1 DEF Trees
<1> HIDE DEF t
<1>3. S \in [Node -> SUBSET Key] /\ S[Nil] = {} /\ \A k \in Key : S[k] = {k}
  OBVIOUS
<1>4. \A k \in Key : IsFiniteSet(S[k])
  BY <1>3, FS_Singleton
<1> HIDE DEF S
<1>5. Shape(t.root, t.left, t.right, t.parent, S, Less)
  BY <1>1, <1>2, <1>3, <1>4 DEF Shape, Pointers
<1>6. g \in [Node -> Nat] /\ g[Nil] = 0 /\ \A k \in Key : g[k] = 1
  OBVIOUS
<1> HIDE DEF g
<1>7. \A k \in Key : EvenAt(t.left, t.right, g, k)
  BY <1>1, <1>6 DEF EvenAt, Joined
<1>8. NearBy(t.left, t.right, Nil, -1, g)
  BY <1>6, <1>7 DEF NearBy, Fit
<1>9. Hand(t, TRUE) = t.left /\ Hand(t, ~ TRUE) = t.right
  BY DEF Hand
<1>10. Slack(t, Nil, -1)
  BY <1>8, <1>9 DEF Slack
<1> QED
  BY <1>1, <1>3, <1>5, <1>10 DEF Good, t

\* What insert writes into an empty tree.
Rooted(t, x) == [t EXCEPT !.root = x]

\* It leaves a balanced search tree of one key.
LEMMA FirstNode ==
  ASSUME NEW t, NEW S, Good(t, S), Slack(t, Nil, -1), t.root = Nil, NEW x \in Key,
         NEW u, u = Rooted(t, x)
  PROVE  Good(u, S) /\ S[u.root] = {x} /\ S[t.root] = {} /\ Slack(u, Nil, -1)
<1> USE KeyAssumption DEF Node
<1>1. Shape(t.root, t.left, t.right, t.parent, S, Less) /\ t \in Trees
  BY DEF Good
<1>2. u \in Trees /\ u.root = x /\ u.left = t.left /\ u.right = t.right /\ u.parent = t.parent
  BY <1>1 DEF Trees, Rooted
<1>3. S[t.root] = {} /\ S \in [Node -> SUBSET Key]
  BY <1>1 DEF Shape, Pointers
<1>4. \A k \in Key : t.left[k] = Nil /\ t.right[k] = Nil /\ t.parent[k] = Nil
  BY <1>1, <1>3 DEF Shape
<1>5. S[x] = {x}
  <2>1. S[x] = {x} \cup S[t.left[x]] \cup S[t.right[x]] /\ S[Nil] = {}
    BY <1>1 DEF Shape
  <2> QED
    BY <1>4, <2>1
<1>6. Pointers(u.root, u.left, u.right, u.parent, S)
  BY <1>1, <1>2 DEF Shape, Pointers
<1>7. Shape(u.root, u.left, u.right, u.parent, S, Less)
  BY <1>1, <1>2, <1>4, <1>6 DEF Shape
<1>8. Hand(u, TRUE) = Hand(t, TRUE) /\ Hand(u, FALSE) = Hand(t, FALSE)
  BY <1>2 DEF Hand
<1>9. Slack(u, Nil, -1)
  <2>1a. PICK s \in BOOLEAN : \E g : NearBy(Hand(t, s), Hand(t, ~ s), Nil, -1, g)
    BY DEF Slack
  <2>1. PICK g : NearBy(Hand(t, s), Hand(t, ~ s), Nil, -1, g)
    BY <2>1a
  <2>2. Hand(u, s) = Hand(t, s) /\ Hand(u, ~ s) = Hand(t, ~ s)
    BY <1>2 DEF Hand
  <2> QED
    BY <2>1, <2>2 DEF Slack
<1> QED
  BY <1>2, <1>3, <1>5, <1>7, <1>9 DEF Good

-----------------------------------------------------------------------------
(***************************************************************************)
(* The stack of an iterator.                                               *)
(***************************************************************************)

\* What a stack q stands for: the keys on it and those in their subtrees R.
Rest(R, S, q) == UNION {{q[i]} \cup S[R[q[i]]] : i \in 1..Len(q)}

\* What is on the stack, with its subtrees, comes before all that lies under it.
Piled(R, S, less, q) ==
  /\ q \in Seq(Key)
  /\ \A j \in 1..Len(q) : \A i \in 1..j - 1 :
       \A x \in {q[j]} \cup S[R[q[j]]] : <<x, q[i]>> \in less

\* What q stands for comes before what is on p.
Above(R, S, less, p, q) ==
  \A i \in 1..Len(p) : \A x \in Rest(R, S, q) : <<x, p[i]>> \in less

\* Such stacks may be pushed on each other.
LEMMA PileOnPile ==
  ASSUME NEW R, NEW S, NEW less, NEW p, NEW q,
         Piled(R, S, less, p), Piled(R, S, less, q), Above(R, S, less, p, q)
  PROVE  /\ Piled(R, S, less, p \o q)
         /\ Rest(R, S, p \o q) = Rest(R, S, p) \cup Rest(R, S, q)
<1> DEFINE w == p \o q
<1>0. p \in Seq(Key) /\ q \in Seq(Key)
  BY DEF Piled
<1>1. /\ Len(p) \in Nat /\ Len(q) \in Nat
      /\ w \in Seq(Key) /\ Len(w) = Len(p) + Len(q)
      /\ \A i \in 1..Len(p) + Len(q) : w[i] = IF i <= Len(p) THEN p[i] ELSE q[i - Len(p)]
  BY <1>0, LenProperties, ConcatProperties
<1> HIDE DEF w
<1>2. \A i \in 1..Len(p) : i \in 1..Len(w) /\ w[i] = p[i]
  BY <1>1
<1>3. \A i \in 1..Len(q) : i + Len(p) \in 1..Len(w) /\ w[i + Len(p)] = q[i]
  BY <1>1
<1>4. \A i \in 1..Len(w) : \/ i \in 1..Len(p) /\ w[i] = p[i]
                           \/ i - Len(p) \in 1..Len(q) /\ w[i] = q[i - Len(p)] /\ i > Len(p)
  BY <1>1
<1>5. Rest(R, S, w) = Rest(R, S, p) \cup Rest(R, S, q)
  <2>1. Rest(R, S, w) \subseteq Rest(R, S, p) \cup Rest(R, S, q)
    <3> SUFFICES ASSUME NEW i \in 1..Len(w), NEW x \in {w[i]} \cup S[R[w[i]]]
                 PROVE  x \in Rest(R, S, p) \cup Rest(R, S, q)
      BY DEF Rest
    <3> QED
      BY <1>4, ZenonT(30) DEF Rest
  <2>2. Rest(R, S, p) \subseteq Rest(R, S, w)
    BY <1>2 DEF Rest
  <2>3. Rest(R, S, q) \subseteq Rest(R, S, w)
    <3> SUFFICES ASSUME NEW i \in 1..Len(q), NEW x \in {q[i]} \cup S[R[q[i]]]
                 PROVE  x \in Rest(R, S, w)
      BY DEF Rest
    <3>1. i + Len(p) \in 1..Len(w) /\ x \in {w[i + Len(p)]} \cup S[R[w[i + Len(p)]]]
      BY <1>3
    <3> QED
      BY <3>1 DEF Rest
  <2> QED
    BY <2>1, <2>2, <2>3
<1>6. ASSUME NEW j \in 1..Len(w), NEW i \in 1..j - 1, NEW x \in {w[j]} \cup S[R[w[j]]]
      PROVE  <<x, w[i]>> \in less
  <2>0. i \in 1..Len(w)
    BY <1>1
  <2>1. CASE j \in 1..Len(p)
    <3>1. i \in 1..Len(p) /\ w[i] = p[i] /\ w[j] = p[j]
      BY <1>1, <1>2, <2>1
    <3> QED
      BY <1>6, <2>1, <3>1 DEF Piled
  <2>2. CASE j \notin 1..Len(p)
    <3> DEFINE jq == j - Len(p)
    <3>1. jq \in 1..Len(q) /\ w[j] = q[jq]
      BY <1>4, <2>2
    <3>2. CASE i \in 1..Len(p)
      <4>1. w[i] = p[i]
        BY <1>2, <3>2
      <4>2. x \in Rest(R, S, q)
        BY <1>6, <3>1 DEF Rest
      <4> QED
        BY <3>2, <4>1, <4>2 DEF Above
    <3>3. CASE i \notin 1..Len(p)
      <4> DEFINE iq == i - Len(p)
      <4>1. iq \in 1..jq - 1 /\ w[i] = q[iq]
        BY <1>1, <1>4, <2>0, <3>3
      <4> HIDE DEF iq, jq
      <4> QED
        BY <1>6, <3>1, <4>1 DEF Piled
    <3> QED
      BY <3>2, <3>3
  <2> QED
    BY <2>1, <2>2
<1> QED
  BY <1>1, <1>5, <1>6 DEF Piled, w

\* The empty stack and the stack of one key.
LEMMA SmallPiles ==
  ASSUME NEW R, NEW S, NEW less
  PROVE  /\ Piled(R, S, less, <<>>) /\ Rest(R, S, <<>>) = {}
         /\ \A k \in Key : /\ Piled(R, S, less, <<k>>)
                           /\ Rest(R, S, <<k>>) = {k} \cup S[R[k]]
<1>1. Piled(R, S, less, <<>>) /\ Rest(R, S, <<>>) = {}
  <2>1. Len(<<>>) = 0 /\ <<>> \in Seq(Key)
    BY EmptySeq
  <2> DEFINE q == <<>>
  <2>2. Len(q) = 0 /\ q \in Seq(Key)
    BY <2>1
  <2> HIDE DEF q
  <2>3. 1..Len(q) = {}
    BY <2>2
  <2>4. Piled(R, S, less, q) /\ Rest(R, S, q) = {}
    BY <2>2, <2>3 DEF Piled, Rest
  <2> QED
    BY <2>4 DEF q
<1>2. ASSUME NEW k \in Key
      PROVE  Piled(R, S, less, <<k>>) /\ Rest(R, S, <<k>>) = {k} \cup S[R[k]]
  <2> DEFINE q == <<k>>
  <2>1. q \in Seq(Key) /\ Len(q) = 1 /\ q[1] = k
    OBVIOUS
  <2> HIDE DEF q
  <2>2. 1..Len(q) = {1}
    BY <2>1
  <2>3. Rest(R, S, q) = {k} \cup S[R[k]]
    BY <2>1, <2>2 DEF Rest
  <2>4. Piled(R, S, less, q)
    <3>1. \A j \in 1..Len(q) : 1..j - 1 = {}
      BY <2>2
    <3> QED
      BY <2>1, <3>1 DEF Piled
  <2> QED
    BY <2>3, <2>4 DEF q
<1> QED
  BY <1>1, <1>2

\* q is such a stack for the keys of W below n, and holds keys of W only.
Laid(R, S, less, W, n, q) ==
  /\ Piled(R, S, less, q)
  /\ Rest(R, S, q) \subseteq S[n]
  /\ S[n] \cap W \subseteq Rest(R, S, q)
  /\ \A i \in 1..Len(q) : q[i] \in W

\* A walk down the tree, N being the next node, that misses no key of W.
Course(L, R, S, W, N) ==
  /\ W \subseteq Key
  /\ N \in [Key -> Node]
  /\ \A k \in Key : N[k] \in {L[k], R[k], Nil}
  /\ \A k \in W : N[k] \in {L[k], Nil} /\ S[L[k]] \cap W \subseteq S[N[k]]
  /\ \A k \in Key \ W : S[k] \cap W \subseteq S[N[k]]

\* e collects the keys of W along the walk.
Strand(W, N, e) ==
  /\ e[Nil] = <<>>
  /\ \A k \in W : e[k] = <<k>> \o e[N[k]]
  /\ \A k \in Key \ W : e[N[k]] \in Seq(Key) => e[k] = e[N[k]]

\* What the walk collects is a stack for the keys of W.
LEMMA StrandIsLaid ==
  ASSUME NEW root, NEW L, NEW R, NEW P, NEW S, NEW less,
         Shape(root, L, R, P, S, less), Orders(less),
         NEW W, NEW N, Course(L, R, S, W, N), NEW e, Strand(W, N, e)
  PROVE  \A k \in Node : Laid(R, S, less, W, k, e[k])
<1> USE KeyAssumption DEF Node
<1> DEFINE D == {k \in Key : Laid(R, S, less, W, k, e[k])}
           rank == [x \in Node |-> Cardinality(S[x])]
<1>1. /\ L \in [Key -> Node] /\ R \in [Key -> Node] /\ S[Nil] = {}
  BY DEF Shape, Pointers
<1>2. Descending(L, R, rank)
  BY Sizes
<1>3. Laid(R, S, less, W, Nil, e[Nil])
  <2>1. e[Nil] = <<>>
    BY DEF Strand
  <2>2. Piled(R, S, less, <<>>) /\ Rest(R, S, <<>>) = {} /\ Len(<<>>) = 0
    BY SmallPiles, EmptySeq
  <2>3. \A i \in 1..Len(<<>>) : <<>>[i] \in W
    BY <2>2
  <2> QED
    BY <1>1, <2>1, <2>2, <2>3 DEF Laid
<1>4. ASSUME NEW k \in Key, L[k] \in D \cup {Nil}, R[k] \in D \cup {Nil} PROVE k \in D
  <2> DEFINE c == N[k]
  <2>1. c \in {L[k], R[k], Nil} /\ Laid(R, S, less, W, c, e[c])
    <3>1. c \in {L[k], R[k], Nil}
      BY DEF Course
    <3> QED
      BY <1>3, <1>4, <3>1
  <2>2. /\ Piled(R, S, less, e[c]) /\ Rest(R, S, e[c]) \subseteq S[c]
        /\ S[c] \cap W \subseteq Rest(R, S, e[c])
        /\ \A i \in 1..Len(e[c]) : e[c][i] \in W
        /\ e[c] \in Seq(Key)
    BY <2>1 DEF Laid, Piled
  <2>3. S[k] = {k} \cup S[L[k]] \cup S[R[k]]
    BY DEF Shape
  <2>4. CASE k \in W
    <3>1. c \in {L[k], Nil} /\ S[L[k]] \cap W \subseteq S[c] /\ e[k] = <<k>> \o e[c]
      BY <2>4 DEF Course, Strand
    <3>2. Piled(R, S, less, <<k>>) /\ Rest(R, S, <<k>>) = {k} \cup S[R[k]]
          /\ <<k>> \in Seq(Key) /\ Len(<<k>>) = 1 /\ <<k>>[1] = k
      <4>1. <<k>> \in Seq(Key) /\ Len(<<k>>) = 1 /\ <<k>>[1] = k
        OBVIOUS
      <4>2. Piled(R, S, less, <<k>>) /\ Rest(R, S, <<k>>) = {k} \cup S[R[k]]
        BY SmallPiles
      <4> QED
        BY <4>1, <4>2
    <3>3. S[c] \subseteq S[L[k]]
      BY <1>1, <3>1
    <3>4. Above(R, S, less, <<k>>, e[c])
      <4>1. \A x \in Rest(R, S, e[c]) : <<x, k>> \in less
        BY <2>2, <3>3 DEF Shape
      <4> DEFINE q == <<k>>
      <4>2. Len(q) = 1 /\ q[1] = k
        BY <3>2
      <4> HIDE DEF q
      <4>3. Above(R, S, less, q, e[c])
        BY <4>1, <4>2 DEF Above
      <4> QED
        BY <4>3 DEF q
    <3>5. Piled(R, S, less, e[k]) /\ Rest(R, S, e[k]) = {k} \cup S[R[k]] \cup Rest(R, S, e[c])
      <4> DEFINE q == <<k>>
      <4>1. Piled(R, S, less, q) /\ Above(R, S, less, q, e[c]) /\ Rest(R, S, q) = {k} \cup S[R[k]]
            /\ e[k] = q \o e[c]
        BY <3>1, <3>2, <3>4
      <4> HIDE DEF q, c
      <4>2. Piled(R, S, less, q \o e[c]) /\ Rest(R, S, q \o e[c]) = Rest(R, S, q) \cup Rest(R, S, e[c])
        BY ONLY <2>2, <4>1, PileOnPile
      <4> QED
        BY <4>1, <4>2
    <3>6. Rest(R, S, e[k]) \subseteq S[k] /\ S[k] \cap W \subseteq Rest(R, S, e[k])
      BY <2>2, <2>3, <3>1, <3>3, <3>5
    <3>7. \A i \in 1..Len(e[k]) : e[k][i] \in W
      <4> DEFINE q == <<k>>
      <4>1. q \in Seq(Key) /\ Len(q) = 1 /\ q[1] = k /\ e[k] = q \o e[c]
        BY <3>1, <3>2
      <4> HIDE DEF q, c
      <4>2. /\ Len(e[k]) = 1 + Len(e[c]) /\ Len(e[c]) \in Nat
            /\ \A i \in 1..1 + Len(e[c]) : e[k][i] = IF i <= 1 THEN q[i] ELSE e[c][i - 1]
        <5> DEFINE z == e[c]
        <5>1. z \in Seq(Key) /\ e[k] = q \o z
          BY <2>2, <4>1
        <5> HIDE DEF z
        <5>2. /\ Len(q \o z) = Len(q) + Len(z) /\ Len(z) \in Nat
              /\ \A i \in 1..Len(q) + Len(z) : (q \o z)[i] = IF i <= Len(q) THEN q[i] ELSE z[i - Len(q)]
          BY <4>1, <5>1, ConcatProperties, LenProperties
        <5>3. /\ Len(e[k]) = 1 + Len(z) /\ Len(z) \in Nat
              /\ \A i \in 1..1 + Len(z) : e[k][i] = IF i <= 1 THEN q[i] ELSE z[i - 1]
          BY <4>1, <5>1, <5>2
        <5> QED
          BY <5>3 DEF z
      <4>3. ASSUME NEW i \in 1..Len(e[k]) PROVE e[k][i] \in W
        <5>1. CASE i = 1
          BY <2>4, <4>1, <4>2, <5>1
        <5>2. CASE i # 1
          <6>1. i - 1 \in 1..Len(e[c]) /\ e[k][i] = e[c][i - 1]
            BY <4>2, <5>2
          <6> QED
            BY <2>2, <6>1
        <5> QED
          BY <5>1, <5>2
      <4> QED
        BY <4>3
    <3> QED
      BY <3>5, <3>6, <3>7 DEF Laid
  <2>5. CASE k \notin W
    <3>1. S[k] \cap W \subseteq S[c] /\ e[k] = e[c]
      BY <2>2, <2>5 DEF Course, Strand
    <3>2. S[c] \subseteq S[k]
      BY <1>1, <2>1, <2>3
    <3>3. Rest(R, S, e[k]) \subseteq S[k] /\ S[k] \cap W \subseteq Rest(R, S, e[k])
      BY <2>2, <3>1, <3>2
    <3> QED
      BY <2>2, <3>1, <3>3 DEF Laid
  <2> QED
    BY <2>4, <2>5
<1>5. D = Key
  <2>1. D \in SUBSET Key
    OBVIOUS
  <2> HIDE DEF D, rank
  <2> QED
    BY <1>1, <1>2, <1>4, <2>1, TreeInduction
<1> QED
  BY <1>3, <1>5

\* The functions that collect along the walk.
Strands(W, N) ==
  {e \in [Node -> Seq(Key)] :
     /\ e[Nil] = <<>>
     /\ \A k \in W : e[k] = <<k>> \o e[N[k]]
     /\ \A k \in Key \ W : e[k] = e[N[k]]}

\* There is one: the recursive walks of the model are well defined.
LEMMA StrandExists ==
  ASSUME NEW root, NEW L, NEW R, NEW P, NEW S, NEW less,
         Shape(root, L, R, P, S, less), Orders(less),
         NEW W, NEW N, Course(L, R, S, W, N)
  PROVE  Strands(W, N) # {}
<1> USE KeyAssumption
<1> DEFINE rank == [x \in Node |-> Cardinality(S[x])]
           V == Seq(Key)
           v0 == <<>>
           Step(k, x, y) == IF N[k] = L[k] THEN x ELSE IF N[k] = R[k] THEN y ELSE <<>>
           G == [q \in Key \X V \X V |->
                   IF q[1] \in W THEN <<q[1]>> \o Step(q[1], q[2], q[3]) ELSE Step(q[1], q[2], q[3])]
<1>1. L \in [Key -> Node] /\ R \in [Key -> Node]
  BY DEF Shape, Pointers
<1>2. Descending(L, R, rank)
  BY Sizes
<1>3. ASSUME NEW k \in Key, NEW x \in V, NEW y \in V
      PROVE  Step(k, x, y) \in V /\ <<k>> \o Step(k, x, y) \in V
  <2>1. Step(k, x, y) \in V
    BY EmptySeq
  <2>2. <<k>> \in V
    OBVIOUS
  <2> DEFINE q == <<k>>  z == Step(k, x, y)
  <2>3. q \in Seq(Key) /\ z \in Seq(Key)
    BY <2>1, <2>2
  <2> HIDE DEF q, z
  <2>4. q \o z \in Seq(Key)
    BY <2>3, ConcatProperties
  <2> QED
    BY <2>1, <2>4 DEF q, z
<1>4. v0 \in V
  BY EmptySeq
<1> HIDE DEF V, Step, v0
<1>5. Rule(V, G)
  BY <1>3 DEF Rule
<1>6. \A k \in Key, x, y \in V :
        G[<<k, x, y>>] = IF k \in W THEN <<k>> \o Step(k, x, y) ELSE Step(k, x, y)
  OBVIOUS
<1>7. Solutions(L, R, V, v0, G) # {}
  <2> HIDE DEF rank, G
  <2> QED
    BY ONLY <1>1, <1>2, <1>4, <1>5, TreeRecursion
<1>8. PICK f : /\ f \in [Node -> V] /\ f[Nil] = v0
               /\ \A k \in Key : f[k] = G[<<k, f[L[k]], f[R[k]]>>]
  BY <1>7 DEF Solutions
<1> HIDE DEF G
<1>9. ASSUME NEW k \in Key
      PROVE  f[k] = IF k \in W THEN <<k>> \o f[N[k]] ELSE f[N[k]]
  <2>1. f[L[k]] \in V /\ f[R[k]] \in V
    BY <1>1, <1>8
  <2>2. Step(k, f[L[k]], f[R[k]]) = f[N[k]]
    <3>1. N[k] \in {L[k], R[k], Nil}
      BY DEF Course
    <3> QED
      BY <1>8, <3>1 DEF Step, v0
  <2> QED
    BY <1>6, <1>8, <2>1, <2>2
<1>10. W \subseteq Key
  BY DEF Course
<1>11. f \in Strands(W, N)
  BY <1>8, <1>9, <1>10 DEF V, v0, Strands
<1> QED
  BY <1>11

-----------------------------------------------------------------------------
(***************************************************************************)
(* pushLeft, its mirror image, and pushLeftFrom.                           *)
(***************************************************************************)

\* The keys that are not beyond `to`.
UpTo(to) == {k \in Key : to = Nil \/ Diff(to, k) >= 0}

\* The keys that are not before `from`.
Onward(from) == {k \in Key : Diff(from, k) <= 0}

\* compareTo at the ends of a range, ties included.
LEMMA DiffFacts ==
  ASSUME NEW a \in Key, NEW b \in Key
  PROVE  /\ Diff(a, b) \in Int /\ Diff(a, a) = 0
         /\ Diff(a, b) < 0 <=> Diff(b, a) > 0
         /\ \A c \in Key : /\ Diff(a, b) <= 0 /\ Diff(b, c) < 0 => Diff(a, c) < 0
                           /\ Diff(a, b) < 0 /\ Diff(b, c) <= 0 => Diff(a, c) < 0
                           /\ Diff(a, b) <= 0 /\ Diff(b, c) <= 0 => Diff(a, c) <= 0
<1>1. /\ Diff(a, b) \in Int /\ Diff(a, a) \in Int
      /\ Diff(a, b) < 0 <=> Diff(b, a) > 0
      /\ Diff(a, a) < 0 <=> Diff(a, a) > 0
  BY DiffAssumption
<1>2. ASSUME NEW c \in Key
      PROVE  /\ Diff(a, b) <= 0 /\ Diff(b, c) < 0 => Diff(a, c) < 0
             /\ Diff(a, b) < 0 /\ Diff(b, c) <= 0 => Diff(a, c) < 0
             /\ Diff(a, b) <= 0 /\ Diff(b, c) <= 0 => Diff(a, c) <= 0
  <2>1. Diff(a, b) <= 0 /\ Diff(b, c) < 0 => Diff(a, c) < 0
    BY DiffAssumption
  <2>2. /\ Diff(a, c) \in Int /\ Diff(c, a) \in Int /\ Diff(b, a) \in Int
        /\ Diff(b, c) \in Int /\ Diff(c, b) \in Int
        /\ Diff(a, c) < 0 <=> Diff(c, a) > 0
        /\ Diff(c, a) < 0 <=> Diff(a, c) > 0
        /\ Diff(a, b) < 0 <=> Diff(b, a) > 0
        /\ Diff(c, b) < 0 <=> Diff(b, c) > 0
        /\ Diff(b, c) < 0 <=> Diff(c, b) > 0
        /\ Diff(b, a) < 0 <=> Diff(a, b) > 0
    BY DiffAssumption
  <2>3. /\ Diff(c, a) <= 0 /\ Diff(a, b) < 0 => Diff(c, b) < 0
        /\ Diff(b, c) <= 0 /\ Diff(c, a) < 0 => Diff(b, a) < 0
    BY DiffAssumption
  <2> QED
    BY <1>1, <2>1, <2>2, <2>3
<1> QED
  BY <1>1, <1>2

\* pushLeft piles up the keys up to `to`, in order.
LEMMA LeftSpineIs ==
  ASSUME NEW S, Good(tree, S), NEW n \in Node, NEW to \in Node
  PROVE  Laid(tree.right, S, Less, UpTo(to), n, LeftSpine(n, to))
<1> USE KeyAssumption
<1> DEFINE L == tree.left  R == tree.right  W == UpTo(to)
           Is(e) == e = [k \in Node |->
                           IF k = Nil THEN <<>>
                           ELSE (IF to = Nil \/ Diff(to, k) >= 0 THEN <<k>> ELSE <<>>)
                                  \o e[tree.left[k]]]
           spine == CHOOSE e : Is(e)
<1>1. /\ Shape(tree.root, L, R, tree.parent, S, Less) /\ Orders(Less)
      /\ L \in [Key -> Node] /\ R \in [Key -> Node] /\ S \in [Node -> SUBSET Key]
  BY OrderFacts DEF Good, Shape, Pointers
<1>2. LeftSpine(n, to) = spine[n]
  BY DEF LeftSpine
<1>3. W \subseteq Key /\ \A k \in Key : k \in W <=> to = Nil \/ Diff(to, k) >= 0
  BY DEF UpTo
<1>4. ASSUME NEW k \in Key, k \notin W PROVE S[k] \cap W \subseteq S[L[k]]
  <2> SUFFICES ASSUME NEW x \in S[k], x \in W PROVE x \in S[L[k]]
    OBVIOUS
  <2>0. to \in Key /\ ~ (Diff(to, k) >= 0) /\ x \in Key /\ Diff(to, x) >= 0
    BY <1>3, <1>4 DEF Node
  <2>1. S[k] = {k} \cup S[L[k]] \cup S[R[k]]
    BY <1>1 DEF Shape
  <2>2. x \notin S[R[k]]
    <3> SUFFICES ASSUME x \in S[R[k]] PROVE FALSE
      OBVIOUS
    <3>1. Diff(k, x) < 0
      BY <1>1, <2>0, OrderFacts DEF Shape
    <3>2. Diff(to, k) < 0 /\ Diff(to, x) \in Int
      BY <2>0, DiffFacts
    <3>3. Diff(to, x) < 0
      <4>1. Diff(to, k) <= 0
        BY <2>0, <3>2, DiffFacts
      <4> QED
        BY <2>0, <3>1, <4>1, DiffAssumption
    <3> QED
      BY <2>0, <3>2, <3>3
  <2> QED
    BY <1>4, <2>1, <2>2
<1>5. Course(L, R, S, W, L)
  <2> HIDE DEF W, L, R
  <2> QED
    BY <1>1, <1>3, <1>4 DEF Course
<1>5a. Strands(W, L) # {}
  <2> HIDE DEF W, L, R
  <2> DEFINE P == tree.parent  root == tree.root  order == Less
  <2>1. Shape(root, L, R, P, S, order) /\ Orders(order) /\ Course(L, R, S, W, L)
    BY <1>1, <1>5
  <2> HIDE DEF P, root, order
  <2> QED
    BY ONLY <2>1, StrandExists
<1>6. PICK f : /\ f \in [Node -> Seq(Key)] /\ f[Nil] = <<>>
               /\ \A k \in W : f[k] = <<k>> \o f[L[k]]
               /\ \A k \in Key \ W : f[k] = f[L[k]]
  <2> HIDE DEF W, L, R
  <2>1. PICK e : e \in Strands(W, L)
    BY <1>5a
  <2> QED
    BY <2>1 DEF Strands
<1>7. Is(f)
  <2>1. ASSUME NEW k \in Key
        PROVE  f[k] = (IF to = Nil \/ Diff(to, k) >= 0 THEN <<k>> ELSE <<>>) \o f[tree.left[k]]
    <3>1. CASE k \in W
      BY <1>3, <1>6, <3>1
    <3>2. CASE k \notin W
      <4>1. f[k] = f[L[k]] /\ f[L[k]] \in Seq(Key)
        BY <1>1, <1>6, <3>2
      <4>2. f[L[k]] = <<>> \o f[L[k]]
        BY <4>1, ConcatEmptySeq
      <4> QED
        BY <1>3, <3>2, <4>1, <4>2
    <3> QED
      BY <3>1, <3>2
  <2>2. f = [k \in Node |-> f[k]]
    BY <1>6
  <2>3. \A k \in Node : f[k] = IF k = Nil THEN <<>>
                           ELSE (IF to = Nil \/ Diff(to, k) >= 0 THEN <<k>> ELSE <<>>)
                                  \o f[tree.left[k]]
    BY <1>6, <2>1 DEF Node
  <2> QED
    BY <2>2, <2>3
<1>8. Is(spine)
  <2> HIDE DEF Is
  <2> QED
    BY <1>7
<1>9. spine = [k \in Node |-> IF k = Nil THEN <<>>
                           ELSE (IF to = Nil \/ Diff(to, k) >= 0 THEN <<k>> ELSE <<>>)
                                  \o spine[tree.left[k]]]
  BY <1>8
<1> HIDE DEF spine
<1>10. Strand(W, L, spine)
  <2>1. spine[Nil] = <<>>
    BY <1>9 DEF Node
  <2>2. ASSUME NEW k \in W PROVE spine[k] = <<k>> \o spine[L[k]]
    <3>1. k \in Key /\ k # Nil /\ k \in Node /\ (to = Nil \/ Diff(to, k) >= 0)
      BY <1>3 DEF Node
    <3> QED
      BY <1>9, <3>1
  <2>3. ASSUME NEW k \in Key \ W, spine[L[k]] \in Seq(Key) PROVE spine[k] = spine[L[k]]
    <3>1. spine[k] = <<>> \o spine[L[k]]
      <4>1. k \in Key /\ k # Nil /\ k \in Node /\ ~ (to = Nil \/ Diff(to, k) >= 0)
        BY <1>3, <2>3 DEF Node
      <4> QED
        BY <1>9, <4>1
    <3> QED
      BY <2>3, <3>1, ConcatEmptySeq
  <2> HIDE DEF W, L
  <2> QED
    BY <2>1, <2>2, <2>3 DEF Strand
<1>11. Laid(R, S, Less, W, n, spine[n])
  <2> HIDE DEF W, L, R
  <2> QED
    BY <1>1, <1>5, <1>10, StrandIsLaid
<1> QED
  BY <1>2, <1>11

\* Its mirror image piles up all keys, in reverse order.
LEMMA RightSpineIs ==
  ASSUME NEW S, Good(tree, S), NEW n \in Node
  PROVE  Laid(tree.left, S, More, Key, n, RightSpine(n))
<1> USE KeyAssumption
<1> DEFINE L == tree.right  R == tree.left  W == Key
           Is(e) == e = [k \in Node |-> IF k = Nil THEN <<>> ELSE <<k>> \o e[tree.right[k]]]
           spine == CHOOSE e : Is(e)
<1>1. /\ Shape(tree.root, L, R, tree.parent, S, More) /\ Orders(More)
      /\ L \in [Key -> Node] /\ R \in [Key -> Node] /\ S \in [Node -> SUBSET Key]
  <2>1. Shape(tree.root, tree.left, tree.right, tree.parent, S, Less)
    BY DEF Good
  <2>2. Shape(tree.root, L, R, tree.parent, S, More)
    BY <2>1, OrderFacts, MirrorShape
  <2>3. Orders(More)
    BY OrderFacts
  <2> QED
    BY <2>2, <2>3 DEF Shape, Pointers
<1>2. RightSpine(n) = spine[n]
  BY DEF RightSpine
<1>3. W \subseteq Key /\ \A k \in Key : k \in W
  OBVIOUS
<1>5. Course(L, R, S, W, L)
  <2> HIDE DEF W, L, R
  <2> QED
    BY <1>1, <1>3 DEF Course
<1>5a. Strands(W, L) # {}
  <2> HIDE DEF W, L, R
  <2> DEFINE P == tree.parent  root == tree.root  order == More
  <2>1. Shape(root, L, R, P, S, order) /\ Orders(order) /\ Course(L, R, S, W, L)
    BY <1>1, <1>5
  <2> HIDE DEF P, root, order
  <2> QED
    BY ONLY <2>1, StrandExists
<1>6. PICK f : /\ f \in [Node -> Seq(Key)] /\ f[Nil] = <<>>
               /\ \A k \in W : f[k] = <<k>> \o f[L[k]]
               /\ \A k \in Key \ W : f[k] = f[L[k]]
  <2> HIDE DEF W, L, R
  <2>1. PICK e : e \in Strands(W, L)
    BY <1>5a
  <2> QED
    BY <2>1 DEF Strands
<1>7. Is(f)
  <2>2. f = [k \in Node |-> f[k]]
    BY <1>6
  <2>3. \A k \in Node : f[k] = IF k = Nil THEN <<>> ELSE <<k>> \o f[tree.right[k]]
    BY <1>3, <1>6 DEF Node
  <2> QED
    BY <2>2, <2>3
<1>8. Is(spine)
  <2> HIDE DEF Is
  <2> QED
    BY <1>7
<1>9. spine = [k \in Node |-> IF k = Nil THEN <<>> ELSE <<k>> \o spine[tree.right[k]]]
  BY <1>8
<1> HIDE DEF spine
<1>10. Strand(W, L, spine)
  <2>1. spine[Nil] = <<>>
    BY <1>9 DEF Node
  <2>2. ASSUME NEW k \in W PROVE spine[k] = <<k>> \o spine[L[k]]
    <3>1. k \in Key /\ k # Nil /\ k \in Node
      BY DEF Node
    <3> QED
      BY <1>9, <3>1
  <2> HIDE DEF W, L
  <2> QED
    BY <1>3, <2>1, <2>2 DEF Strand
<1>11. Laid(R, S, More, W, n, spine[n])
  <2> HIDE DEF W, L, R
  <2> QED
    BY <1>1, <1>5, <1>10, StrandIsLaid
<1> QED
  BY <1>2, <1>11

\* pushLeftFrom piles up the keys from `from` on, in order.
LEMMA PathFromIs ==
  ASSUME NEW S, Good(tree, S), NEW from \in Key
  PROVE  Laid(tree.right, S, Less, Onward(from), tree.root, PathFrom(from))
<1> USE KeyAssumption
<1> DEFINE L == tree.left  R == tree.right  W == Onward(from)
           N == [k \in Key |-> IF Diff(from, k) = 0 THEN Nil
                               ELSE IF Diff(from, k) < 0 THEN L[k] ELSE R[k]]
           Is(e) == e = [k \in Node |->
                           IF k = Nil THEN <<>>
                           ELSE IF k = from \/ Diff(from, k) = 0 THEN <<k>>
                           ELSE IF Diff(from, k) < 0 THEN <<k>> \o e[tree.left[k]]
                           ELSE e[tree.right[k]]]
           path == CHOOSE e : Is(e)
<1>1. /\ Shape(tree.root, L, R, tree.parent, S, Less) /\ Orders(Less)
      /\ L \in [Key -> Node] /\ R \in [Key -> Node] /\ S \in [Node -> SUBSET Key]
      /\ tree.root \in Node /\ S[Nil] = {}
  BY OrderFacts DEF Good, Shape, Pointers
<1>2. PathFrom(from) = path[tree.root]
  BY DEF PathFrom
<1>3. W \subseteq Key /\ \A k \in Key : k \in W <=> Diff(from, k) <= 0
  BY DEF Onward
<1>3a. \A k \in Key : Diff(from, k) \in Int /\ (k = from => Diff(from, k) = 0)
  BY DiffFacts
<1>3b. ASSUME NEW k \in Key
       PROVE  /\ \A x \in S[L[k]] : x \in Key /\ Diff(x, k) < 0
              /\ S[k] = {k} \cup S[L[k]] \cup S[R[k]]
  <2>1. S[L[k]] \subseteq Key
    BY <1>1
  <2> QED
    BY <1>1, <2>1, OrderFacts DEF Shape
<1>4. ASSUME NEW k \in Key, Diff(from, k) >= 0, NEW x \in S[L[k]] PROVE x \notin W
  <2>1. x \in Key /\ Diff(x, k) < 0
    BY <1>3b
  <2>2. SUFFICES ASSUME Diff(from, x) <= 0 PROVE FALSE
    BY <1>3, <2>1
  <2>3. Diff(from, k) < 0
    BY <2>1, <2>2, DiffFacts
  <2> QED
    BY <1>3a, <1>4, <2>3
<1>4a. N \in [Key -> Node] /\ \A k \in Key : N[k] \in {L[k], R[k], Nil}
  BY <1>1 DEF Node
<1>4b. \A k \in Key : N[k] = IF Diff(from, k) = 0 THEN Nil
                             ELSE IF Diff(from, k) < 0 THEN L[k] ELSE R[k]
  OBVIOUS
<1> HIDE DEF N
<1>4c. ASSUME NEW k \in W PROVE N[k] \in {L[k], Nil} /\ S[L[k]] \cap W \subseteq S[N[k]]
  <2>0. k \in Key /\ Diff(from, k) <= 0
    BY <1>3
  <2>1. CASE Diff(from, k) = 0
    <3>1. Diff(from, k) >= 0
      BY <2>1
    <3>2. S[L[k]] \cap W = {}
      BY <1>4, <2>0, <3>1
    <3> QED
      BY <1>4b, <2>0, <2>1, <3>2
  <2>2. CASE Diff(from, k) < 0
    BY <1>3a, <1>4b, <2>0, <2>2
  <2> QED
    BY <1>3a, <2>0, <2>1, <2>2
<1>4d. ASSUME NEW k \in Key \ W PROVE S[k] \cap W \subseteq S[N[k]]
  <2>1. Diff(from, k) > 0
    BY <1>3, <1>3a
  <2>2. N[k] = R[k]
    BY <1>3a, <1>4b, <2>1
  <2>3. S[L[k]] \cap W = {}
    <3>1. Diff(from, k) >= 0
      BY <1>3a, <2>1
    <3> QED
      BY <1>4, <3>1
  <2> QED
    BY <1>3b, <2>2, <2>3
<1>5. Course(L, R, S, W, N)
  <2> HIDE DEF W, L, R
  <2> QED
    BY <1>3, <1>4a, <1>4c, <1>4d DEF Course
<1>5a. Strands(W, N) # {}
  <2> HIDE DEF W, L, R
  <2> DEFINE P == tree.parent  root == tree.root  order == Less
  <2>1. Shape(root, L, R, P, S, order) /\ Orders(order) /\ Course(L, R, S, W, N)
    BY <1>1, <1>5
  <2> HIDE DEF P, root, order
  <2> QED
    BY ONLY <2>1, StrandExists
<1>6. PICK f : /\ f \in [Node -> Seq(Key)] /\ f[Nil] = <<>>
               /\ \A k \in W : f[k] = <<k>> \o f[N[k]]
               /\ \A k \in Key \ W : f[k] = f[N[k]]
  <2> HIDE DEF W, L, R
  <2>1. PICK e : e \in Strands(W, N)
    BY <1>5a
  <2> QED
    BY <2>1 DEF Strands
<1>6a. ASSUME NEW k \in Key PROVE <<k>> \o <<>> = <<k>>
  <2>1. <<k>> \in Seq(Key)
    OBVIOUS
  <2> QED
    BY <2>1, ConcatEmptySeq
<1>7. Is(f)
  <2>1. ASSUME NEW k \in Key
        PROVE  f[k] = IF k = from \/ Diff(from, k) = 0 THEN <<k>>
                      ELSE IF Diff(from, k) < 0 THEN <<k>> \o f[tree.left[k]]
                      ELSE f[tree.right[k]]
    <3>1. CASE Diff(from, k) = 0
      <4>0. k \in W /\ N[k] = Nil
        BY <1>3, <1>3a, <1>4b, <3>1
      <4>1. f[k] = <<k>> \o f[Nil]
        BY <1>6, <4>0
      <4> QED
        BY <1>6, <1>6a, <3>1, <4>1
    <3>2. CASE Diff(from, k) < 0
      <4>1. k \in W /\ N[k] = L[k] /\ k # from /\ Diff(from, k) # 0
        BY <1>3, <1>3a, <1>4b, <3>2
      <4> QED
        BY <1>6, <3>2, <4>1
    <3>3. CASE Diff(from, k) > 0
      <4>1. k \notin W /\ N[k] = R[k] /\ k # from /\ Diff(from, k) # 0 /\ ~ (Diff(from, k) < 0)
        BY <1>3, <1>3a, <1>4b, <3>3
      <4> QED
        BY <1>6, <4>1
    <3> QED
      BY <1>3a, <3>1, <3>2, <3>3
  <2>2. f = [k \in Node |-> f[k]]
    BY <1>6
  <2>3. \A k \in Node : f[k] = IF k = Nil THEN <<>>
                           ELSE IF k = from \/ Diff(from, k) = 0 THEN <<k>>
                           ELSE IF Diff(from, k) < 0 THEN <<k>> \o f[tree.left[k]]
                           ELSE f[tree.right[k]]
    BY <1>6, <2>1 DEF Node
  <2> QED
    BY <2>2, <2>3
<1>8. Is(path)
  <2> HIDE DEF Is
  <2> QED
    BY <1>7
<1>9. path = [k \in Node |-> IF k = Nil THEN <<>>
                           ELSE IF k = from \/ Diff(from, k) = 0 THEN <<k>>
                           ELSE IF Diff(from, k) < 0 THEN <<k>> \o path[tree.left[k]]
                           ELSE path[tree.right[k]]]
  BY <1>8
<1> HIDE DEF path
<1>10. Strand(W, N, path)
  <2>1. path[Nil] = <<>>
    BY <1>9 DEF Node
  <2>2. ASSUME NEW k \in W PROVE path[k] = <<k>> \o path[N[k]]
    <3>1. k \in Key /\ k # Nil /\ k \in Node /\ Diff(from, k) <= 0 /\ Diff(from, k) \in Int
      BY <1>3, <1>3a DEF Node
    <3>2. CASE Diff(from, k) = 0
      <4>1. path[k] = <<k>>
        BY <1>9, <3>1, <3>2
      <4>2. N[k] = Nil
        BY <1>4b, <3>1, <3>2
      <4> QED
        BY <1>6a, <2>1, <3>1, <4>1, <4>2
    <3>3. CASE Diff(from, k) < 0
      <4>1. N[k] = L[k] /\ k # from /\ Diff(from, k) # 0
        BY <1>3a, <1>4b, <3>1, <3>3
      <4> QED
        BY <1>9, <3>1, <3>3, <4>1
    <3> QED
      BY <3>1, <3>2, <3>3
  <2>3. ASSUME NEW k \in Key \ W PROVE path[k] = path[N[k]]
    <3>1. k \in Key /\ k # Nil /\ k \in Node /\ Diff(from, k) > 0 /\ Diff(from, k) \in Int
      BY <1>3, <1>3a DEF Node
    <3>2. N[k] = R[k] /\ k # from /\ Diff(from, k) # 0 /\ ~ (Diff(from, k) < 0)
      BY <1>3a, <1>4b, <3>1
    <3> QED
      BY <1>9, <3>1, <3>2
  <2> HIDE DEF W
  <2> QED
    BY <2>1, <2>2, <2>3 DEF Strand
<1>11. Laid(R, S, Less, W, tree.root, path[tree.root])
  <2> HIDE DEF W, L, R
  <2> QED
    BY <1>1, <1>5, <1>10, StrandIsLaid
<1> QED
  BY <1>2, <1>11

-----------------------------------------------------------------------------
(***************************************************************************)
(* The descent of insert.                                                  *)
(***************************************************************************)

\* The search for x has come to a, on the right side of every node above it.
Sought(t, S, a, x) ==
  /\ x \in Key /\ a \in S[t.root]
  /\ x \in S[t.root] => x \in S[a]
  /\ \A k \in Key : \A q \in BOOLEAN : a \in S[Hand(t, q)[k]] => <<x, k>> \in Along(q)

\* What the other proofs need of a search tree of the model.
LEMMA GoodFacts ==
  ASSUME NEW t, NEW S, Good(t, S)
  PROVE  /\ t \in Trees /\ S \in [Node -> SUBSET Key] /\ S[Nil] = {}
         /\ t.root \in Node
         /\ t.root # Nil => t.root \in S[t.root] /\ t.parent[t.root] = Nil
         /\ t.left \in [Key -> Node] /\ t.right \in [Key -> Node] /\ t.parent \in [Key -> Node]
         /\ \A k \in Key : /\ k \in S[k] /\ k \notin S[t.left[k]] /\ k \notin S[t.right[k]]
                           /\ S[k] = {k} \cup S[t.left[k]] \cup S[t.right[k]]
                           /\ t.left[k] # Nil => t.parent[t.left[k]] = k
                           /\ t.right[k] # Nil => t.parent[t.right[k]] = k
                           /\ \A x \in S[k] : S[x] \subseteq S[k]
<1>1. Shape(t.root, t.left, t.right, t.parent, S, Less) /\ t \in Trees /\ Orders(Less)
  BY OrderFacts DEF Good
<1>2. \A k \in Key : k \in S[k] /\ k \notin S[t.left[k]] /\ k \notin S[t.right[k]]
  BY <1>1, ShapeFacts
<1> QED
  BY <1>1, <1>2 DEF Shape, Pointers, Node

\* A search begins at the root.
LEMMA SoughtAtRoot ==
  ASSUME NEW t, NEW S, Good(t, S), t.root # Nil, NEW x \in Key
  PROVE  Sought(t, S, t.root, x)
<1> USE KeyAssumption
<1>1. t.root \in Key /\ t.root \in S[t.root] /\ S \in [Node -> SUBSET Key] /\ S[Nil] = {}
  BY GoodFacts DEF Node
<1>2. ASSUME NEW k \in Key, NEW q \in BOOLEAN PROVE t.root \notin S[Hand(t, q)[k]]
  <2> DEFINE c == Hand(t, q)[k]
  <2>1. c \in {t.left[k], t.right[k]} /\ c \in Node
    BY GoodFacts DEF Hand
  <2>2. k \notin S[c] /\ \A j \in Key : \A y \in S[j] : S[y] \subseteq S[j]
    BY GoodFacts, <2>1
  <2> HIDE DEF c
  <2>3. SUFFICES ASSUME t.root \in S[c] PROVE FALSE
    BY DEF c
  <2>4. c \in Key
    BY <1>1, <2>1, <2>3 DEF Node
  <2>5. S[t.root] \subseteq S[c]
    BY <2>2, <2>3, <2>4
  <2>6. k \in S[t.root]
    <3>1. t.parent[c] = k
      BY GoodFacts, <2>1, <2>4
    <3>2. t.parent[c] # Nil
      BY <3>1
    <3>3. Shape(t.root, t.left, t.right, t.parent, S, Less) /\ Orders(Less)
      BY OrderFacts DEF Good
    <3> QED
      BY <2>4, <3>1, <3>2, <3>3, ShapeFacts
  <2> QED
    BY <2>2, <2>5, <2>6
<1> QED
  BY <1>1, <1>2 DEF Sought

\* It goes on below a, on the side that compareTo tells.
LEMMA SoughtBelow ==
  ASSUME NEW t, NEW S, Good(t, S), NEW s \in BOOLEAN, NEW a, NEW x, Sought(t, S, a, x),
         NEW b, b = Hand(t, s)[a], b # Nil, x # a, <<x, a>> \in Along(s)
  PROVE  Sought(t, S, b, x)
<1> USE KeyAssumption
<1> DEFINE L == Hand(t, s)  R == Hand(t, ~ s)  P == t.parent
<1>1. /\ Shape(t.root, L, R, P, S, Along(s)) /\ Orders(Along(s))
      /\ L \in [Key -> Node] /\ R \in [Key -> Node] /\ S \in [Node -> SUBSET Key]
      /\ t.root \in Node /\ S[Nil] = {}
  BY Views, GoodFacts
<1>2. a \in S[t.root] /\ x \in Key /\ (x \in S[t.root] => x \in S[a])
  BY DEF Sought
<1>3. a \in Key /\ t.root \in Key
  BY <1>1, <1>2 DEF Node
<1>4. /\ b = L[a] /\ b \in Key /\ b # R[a] /\ b \in S[a] /\ P[b] = a
      /\ S[a] = {a} \cup S[L[a]] \cup S[R[a]]
  <2>1. b = L[a]
    OBVIOUS
  <2>2. b \in Key
    BY <1>1, <1>3, <2>1 DEF Node
  <2> HIDE DEF L, R, P
  <2>3. L[a] # R[a] /\ L[a] \in S[a]
    BY <1>1, <1>3, <2>1, ShapeFacts
  <2>4. P[L[a]] = a /\ S[a] = {a} \cup S[L[a]] \cup S[R[a]]
    BY <1>1, <1>3, <2>1 DEF Shape
  <2> QED
    BY <2>1, <2>2, <2>3, <2>4
<1>5. b \in S[t.root]
  <2>1. S[a] \subseteq S[t.root]
    BY <1>1, <1>2, <1>3 DEF Shape
  <2> QED
    BY <1>4, <2>1
<1>6. x \in S[t.root] => x \in S[b]
  <2>1. ASSUME x \in S[R[a]] PROVE FALSE
    <3> HIDE DEF L, R
    <3>1. <<a, x>> \in Along(s)
      BY <1>1, <1>3, <2>1 DEF Shape
    <3> QED
      BY <1>1, <1>2, <1>3, <3>1 DEF Orders
  <2> QED
    BY <1>2, <1>4, <2>1
<1>7. ASSUME NEW k \in Key, b \in S[L[k]] PROVE <<x, k>> \in Along(s)
  <2>1. CASE b = L[k]
    <3>1. P[b] = k
      BY <1>1, <1>4, <2>1 DEF Shape
    <3> QED
      BY <1>4, <3>1
  <2>2. CASE b # L[k]
    <3>1. L[k] \in Key
      BY <1>1, <1>7 DEF Node
    <3>2. P[b] \in S[L[k]]
      BY <1>1, <1>7, <2>2, <3>1 DEF Shape
    <3> QED
      BY <1>4, <3>2 DEF Sought
  <2> QED
    BY <2>1, <2>2
<1>8. ASSUME NEW k \in Key, b \in S[R[k]] PROVE <<x, k>> \in Along(~ s)
  <2>1. CASE b = R[k]
    <3>1. P[b] = k
      BY <1>1, <1>4, <2>1 DEF Shape
    <3> QED
      BY <1>4, <2>1, <3>1
  <2>2. CASE b # R[k]
    <3>1. R[k] \in Key
      BY <1>1, <1>8 DEF Node
    <3>2. P[b] \in S[R[k]]
      BY <1>1, <1>8, <2>2, <3>1 DEF Shape
    <3> DEFINE q == ~ s
    <3>3. q \in BOOLEAN /\ a \in S[Hand(t, q)[k]]
      BY <1>4, <3>2
    <3> HIDE DEF q
    <3>4. <<x, k>> \in Along(q)
      BY <3>3 DEF Sought
    <3> QED
      BY <3>4 DEF q
  <2> QED
    BY <2>1, <2>2
<1>9. ASSUME NEW k \in Key, NEW q \in BOOLEAN, b \in S[Hand(t, q)[k]] PROVE <<x, k>> \in Along(q)
  <2>1. CASE q = s
    BY <1>7, <1>9, <2>1
  <2>2. CASE q = (~ s)
    BY <1>8, <1>9, <2>2
  <2> QED
    BY <2>1, <2>2
<1> QED
  BY <1>2, <1>5, <1>6, <1>9 DEF Sought

\* Where it falls out of the tree, the new key fits.
LEMMA SoughtHangs ==
  ASSUME NEW t, NEW S, Good(t, S), Slack(t, Nil, -1), NEW s \in BOOLEAN,
         NEW a, NEW x, Sought(t, S, a, x), Hand(t, s)[a] = Nil, x # a, <<x, a>> \in Along(s),
         NEW u, u = HangAt(t, s, a, x)
  PROVE  \E T : Good(u, T) /\ T[u.root] = S[t.root] \cup {x} /\ Grown(u, T, a, x)
<1>1. a \in S[t.root] /\ x \in Key /\ (x \in S[t.root] => x \in S[a])
  BY DEF Sought
<1>2. ASSUME NEW k \in Key
      PROVE  /\ a \in S[t.left[k]] => <<x, k>> \in Less
             /\ a \in S[t.right[k]] => <<k, x>> \in Less
  <2> DEFINE y == TRUE  z == FALSE
  <2>1. /\ y \in BOOLEAN /\ Hand(t, y) = t.left /\ Along(y) = Less
        /\ z \in BOOLEAN /\ Hand(t, z) = t.right /\ Along(z) = More
    BY DEF Hand, Along
  <2> HIDE DEF y, z
  <2>2. /\ a \in S[t.left[k]] => <<x, k>> \in Less
        /\ a \in S[t.right[k]] => <<x, k>> \in More
    BY <2>1 DEF Sought
  <2> QED
    BY <1>1, <2>2, OrderFacts
<1> QED
  BY <1>1, <1>2, Hanging

-----------------------------------------------------------------------------
(***************************************************************************)
(* What an iterator has returned and what it has still to return.          *)
(***************************************************************************)

\* With the stack q and the output o: o is in order and comes before all that q
\* stands for; together they have all of Z; and what is on q or o, but for Y, is of
\* Z.  W is the bound that the pushes obey.
Underway(R, S, less, W, q, o, Z, Y) ==
  /\ Piled(R, S, less, q) /\ o \in Seq(Key)
  /\ \A j \in 1..Len(o) : \A i \in 1..j - 1 : <<o[i], o[j]>> \in less
  /\ \A i \in 1..Len(o) : o[i] \in Z \cup Y /\ \A x \in Rest(R, S, q) : <<o[i], x>> \in less
  /\ \A i \in 1..Len(q) : q[i] \in Z \cup Y
  /\ Rest(R, S, q) \cap W \subseteq Z
  /\ \A x \in Z : x \in Rest(R, S, q) \/ \E i \in 1..Len(o) : x = o[i]

\* How an iteration begins.
LEMMA Setout ==
  ASSUME NEW R, NEW S, NEW less, NEW W, NEW q, NEW Z, NEW Y,
         Piled(R, S, less, q), Rest(R, S, q) \cap W \subseteq Z, Z \subseteq Rest(R, S, q),
         \A i \in 1..Len(q) : q[i] \in Z \cup Y
  PROVE  Underway(R, S, less, W, q, <<>>, Z, Y)
<1> DEFINE o == <<>>
<1>1. o \in Seq(Key) /\ Len(o) = 0
  BY EmptySeq
<1> HIDE DEF o
<1>2. 1..Len(o) = {}
  BY <1>1
<1>3. Underway(R, S, less, W, q, o, Z, Y)
  BY <1>1, <1>2 DEF Underway
<1> QED
  BY <1>3 DEF o

\* The top of a stack and the stack below it.
LEMMA Popped ==
  ASSUME NEW q \in Seq(Key), q # <<>>, NEW p, p = SubSeq(q, 1, Len(q) - 1)
  PROVE  /\ Len(q) \in Nat /\ Len(q) >= 1 /\ q[Len(q)] \in Key
         /\ p \in Seq(Key) /\ Len(p) = Len(q) - 1
         /\ \A i \in 1..Len(q) - 1 : p[i] = q[i]
<1>1. Len(q) \in Nat /\ Len(q) # 0
  BY EmptySeq, LenProperties
<1>2. Len(q) >= 1 /\ Len(q) - 1 <= Len(q) /\ Len(q) - 1 \in Nat /\ Len(q) - 1 + 1 - 1 = Len(q) - 1
  BY <1>1
<1>3. q[Len(q)] \in Key
  BY <1>1, <1>2, ElementOfSeq
<1>4. p \in Seq(Key) /\ Len(p) = Len(q) - 1 /\ \A i \in 1..Len(q) - 1 : p[i] = q[i]
  BY <1>1, <1>2
<1> QED
  BY <1>1, <1>2, <1>3, <1>4

\* One call of next: the top goes to the output, and what is in its subtree R and
\* of W takes its place.
LEMMA OneOn ==
  ASSUME NEW root, NEW L, NEW R, NEW P, NEW S, NEW less,
         Shape(root, L, R, P, S, less), Orders(less),
         NEW W, NEW Z, NEW Y, Z \subseteq W, NEW q, NEW o, Underway(R, S, less, W, q, o, Z, Y),
         q # <<>>, NEW n, n = q[Len(q)], NEW p, p = SubSeq(q, 1, Len(q) - 1),
         NEW e, Laid(R, S, less, W, R[n], e)
  PROVE  Underway(R, S, less, W, p \o e, Append(o, n), Z, Y)
<1>0. /\ Piled(R, S, less, q) /\ q \in Seq(Key) /\ o \in Seq(Key)
      /\ Piled(R, S, less, e) /\ e \in Seq(Key) /\ Rest(R, S, e) \subseteq S[R[n]]
      /\ S[R[n]] \cap W \subseteq Rest(R, S, e) /\ \A i \in 1..Len(e) : e[i] \in W
  BY DEF Underway, Laid, Piled
<1> DEFINE m == Len(q)
<1>1. /\ m \in Nat /\ m >= 1 /\ n \in Key /\ p \in Seq(Key) /\ Len(p) = m - 1
      /\ \A i \in 1..m - 1 : p[i] = q[i]
  BY <1>0, Popped
<1>2. m \in 1..m /\ n = q[m] /\ \A i \in 1..Len(p) : i \in 1..m - 1 /\ i \in 1..m /\ p[i] = q[i]
  BY <1>1
<1>2a. Len(q) = m
  OBVIOUS
<1> HIDE DEF m
<1>3. Piled(R, S, less, p)
  <2>1. \A j \in 1..Len(p) : \A i \in 1..j - 1 : i \in 1..Len(p)
    BY <1>1
  <2> QED
    BY <1>0, <1>1, <1>2, <1>2a, <2>1 DEF Piled
<1>4. Rest(R, S, p) \subseteq Rest(R, S, q) /\ n \in Rest(R, S, q) /\ S[R[n]] \subseteq Rest(R, S, q)
  BY <1>2, <1>2a DEF Rest
<1>5. Rest(R, S, q) = Rest(R, S, p) \cup {n} \cup S[R[n]]
  <2>1. \A i \in 1..m : i = m \/ i \in 1..Len(p)
    BY <1>1
  <2>2. Rest(R, S, q) \subseteq Rest(R, S, p) \cup {n} \cup S[R[n]]
    BY <1>2, <1>2a, <2>1 DEF Rest
  <2> QED
    BY <1>4, <2>2
<1>6. \A i \in 1..Len(p) : \A x \in {n} \cup S[R[n]] : <<x, p[i]>> \in less
  BY <1>0, <1>2, <1>2a DEF Piled
<1>7. Above(R, S, less, p, e)
  BY <1>0, <1>6 DEF Above
<1>8. Piled(R, S, less, p \o e) /\ Rest(R, S, p \o e) = Rest(R, S, p) \cup Rest(R, S, e)
  BY <1>0, <1>3, <1>7, PileOnPile
<1> DEFINE w == p \o e  v == Append(o, n)
<1>9. Len(w) = Len(p) + Len(e) /\ \A i \in 1..Len(w) : \/ i \in 1..Len(p) /\ w[i] = p[i]
                                                       \/ i - Len(p) \in 1..Len(e) /\ w[i] = e[i - Len(p)]
  <2>1. /\ Len(p) \in Nat /\ Len(e) \in Nat /\ Len(w) = Len(p) + Len(e)
        /\ \A i \in 1..Len(p) + Len(e) : w[i] = IF i <= Len(p) THEN p[i] ELSE e[i - Len(p)]
    BY <1>0, <1>1, LenProperties, ConcatProperties
  <2> HIDE DEF w
  <2> QED
    BY <2>1
<1>10. /\ v \in Seq(Key) /\ Len(o) \in Nat /\ Len(v) = Len(o) + 1 /\ v[Len(o) + 1] = n
       /\ \A i \in 1..Len(o) : v[i] = o[i]
  BY <1>0, <1>1, AppendProperties, LenProperties
<1> HIDE DEF w, v
<1>11. Rest(R, S, w) \subseteq Rest(R, S, q) /\ Rest(R, S, w) = Rest(R, S, p) \cup Rest(R, S, e)
       /\ Piled(R, S, less, w)
  BY <1>0, <1>4, <1>8 DEF w
<1>12. \A i \in 1..Len(v) : \/ i \in 1..Len(o) /\ v[i] = o[i]
                            \/ v[i] = n
  <2>1. \A i \in 1..Len(o) + 1 : i \in 1..Len(o) \/ i = Len(o) + 1
    BY <1>10
  <2> QED
    BY <1>10, <2>1
<1>13. \A i \in 1..Len(o) : o[i] \in Key /\ <<o[i], n>> \in less
  <2>1. \A i \in 1..Len(o) : o[i] \in Key
    BY <1>0, ElementOfSeq
  <2> QED
    BY <1>4, <2>1 DEF Underway
<1>14. \A j \in 1..Len(v) : \A i \in 1..j - 1 : <<v[i], v[j]>> \in less
  <2> SUFFICES ASSUME NEW j \in 1..Len(v), NEW i \in 1..j - 1 PROVE <<v[i], v[j]>> \in less
    OBVIOUS
  <2>1. i \in 1..Len(o) /\ v[i] = o[i]
    BY <1>10
  <2>2. CASE j \in 1..Len(o) /\ v[j] = o[j]
    BY <2>1, <2>2 DEF Underway
  <2>3. CASE v[j] = n
    BY <1>13, <2>1, <2>3
  <2> QED
    BY <1>12, <2>2, <2>3
<1>15. \A x \in Rest(R, S, w) : <<n, x>> \in less
  <2>1. \A x \in S[R[n]] : <<n, x>> \in less
    BY <1>1 DEF Shape
  <2>2. ASSUME NEW i \in 1..Len(p), NEW x \in {p[i]} \cup S[R[p[i]]] PROVE <<n, x>> \in less
    <3>1. <<n, p[i]>> \in less /\ p[i] \in Key
      BY <1>1, <1>6, ElementOfSeq
    <3>2. CASE x \in S[R[p[i]]]
      <4>1. <<p[i], x>> \in less
        BY <3>1, <3>2 DEF Shape
      <4>2. x \in Key
        BY <3>1, <3>2 DEF Shape, Pointers
      <4> QED
        BY <1>1, <3>1, <4>1, <4>2 DEF Orders
    <3> QED
      BY <2>2, <3>1, <3>2
  <2>3. \A x \in Rest(R, S, p) : <<n, x>> \in less
    BY <2>2 DEF Rest
  <2> QED
    BY <1>0, <1>11, <2>1, <2>3
<1>16. n \in Z \cup Y
  BY <1>2, <1>2a DEF Underway
<1>17. \A i \in 1..Len(v) : v[i] \in Z \cup Y /\ \A x \in Rest(R, S, w) : <<v[i], x>> \in less
  <2>1. \A i \in 1..Len(o) : o[i] \in Z \cup Y /\ \A x \in Rest(R, S, w) : <<o[i], x>> \in less
    BY <1>11 DEF Underway
  <2> QED
    BY <1>12, <1>15, <1>16, <2>1
<1>18. Rest(R, S, w) \cap W \subseteq Z
  BY <1>11 DEF Underway
<1>19. \A i \in 1..Len(w) : w[i] \in Z \cup Y
  <2>1. \A i \in 1..Len(p) : p[i] \in Z \cup Y
    BY <1>2, <1>2a DEF Underway
  <2>2. \A i \in 1..Len(e) : e[i] \in Z
    <3>1. \A i \in 1..Len(e) : e[i] \in Rest(R, S, e)
      BY DEF Rest
    <3> QED
      BY <1>0, <1>11, <1>18, <3>1
  <2> QED
    BY <1>9, <2>1, <2>2
<1>20. ASSUME NEW x \in Z PROVE x \in Rest(R, S, w) \/ \E i \in 1..Len(v) : x = v[i]
  <2>1. CASE x = n
    <3>1. Len(o) + 1 \in 1..Len(v)
      BY <1>10
    <3> QED
      BY <1>10, <2>1, <3>1
  <2>2. CASE x \in Rest(R, S, p) \cup S[R[n]]
    BY <1>0, <1>11, <2>2
  <2>3. CASE \E i \in 1..Len(o) : x = o[i]
    <3>1. \A i \in 1..Len(o) : i \in 1..Len(v)
      BY <1>10
    <3> QED
      BY <1>10, <2>3, <3>1
  <2>4. x \in Rest(R, S, q) \/ \E i \in 1..Len(o) : x = o[i]
    BY DEF Underway
  <2> QED
    BY <1>5, <2>1, <2>2, <2>3, <2>4
<1>21. Underway(R, S, less, W, w, v, Z, Y)
  BY <1>10, <1>11, <1>14, <1>17, <1>18, <1>19, <1>20 DEF Underway
<1> QED
  BY <1>21 DEF w, v

-----------------------------------------------------------------------------
(***************************************************************************)
(* The inductive invariant of the tree.                                    *)
(***************************************************************************)

\* What an iterator with two ends may return beyond its end.
Strays ==
  IF Nil \in {range.from, range.to} THEN {}
  ELSE {PathFrom(range.from)[i] : i \in DOMAIN PathFrom(range.from)}

\* The iterator that is alive has returned a first part of its range.
Iterating(S) ==
  /\ range.inOrder \/ (range.from = Nil /\ range.to = Nil)
  /\ Underway(Hand(tree, ~ range.inOrder), S, Along(range.inOrder), UpTo(range.to),
              stack, out, InRange, Strays)

\* The inductive invariant, S being the subtrees: the tree is a search tree of the
\* members and balanced, but for what a climb under way has still to repair, and it
\* says where that is; a descent under way is where its key belongs.
Sound(S) ==
  /\ Good(tree, S) /\ S[tree.root] = members
  /\ phase \in {"idle", "descend", "iterate"} => Slack(tree, Nil, -1)
  /\ phase = "descend" => Sought(tree, S, cursor, item)
  /\ phase = "insertUp" => /\ item \in Key /\ cursor \in members \cup {Nil}
                           /\ \E a \in {Nil, cursor} : Grown(tree, S, a, item)
  /\ phase = "removeUp" => cursor \in members \cup {Nil} /\ Loose(tree, cursor)
  /\ phase = "iterate" => Iterating(S)

\* With the types.
TreeInv == TreeTypeOK /\ \E S : Sound(S)

\* A growth that has come to its end leaves a balanced tree.
LEMMA LevelSlack ==
  ASSUME NEW t, NEW S, NEW k, Grown(t, S, Nil, k)
  PROVE  Slack(t, Nil, -1)
<1>1a. PICK s \in BOOLEAN : \E g : NearBy(Hand(t, s), Hand(t, ~ s), Nil, 1, g)
  BY DEF Grown
<1>1. PICK g : NearBy(Hand(t, s), Hand(t, ~ s), Nil, 1, g)
  BY <1>1a
<1>2. NearBy(Hand(t, s), Hand(t, ~ s), Nil, -1, g)
  BY <1>1 DEF NearBy
<1> QED
  BY <1>2 DEF Slack

\* The invariant holds at first.
LEMMA TreeStarts ==
  ASSUME TreeInit PROVE TreeInv
<1> USE KeyAssumption
<1>1. PICK S : Good(NoTree, S) /\ S[NoTree.root] = {} /\ Slack(NoTree, Nil, -1)
  BY EmptyTree
<1>2. tree = NoTree /\ members = {} /\ phase = "idle"
  BY DEF TreeInit, NoTree
<1>3. Sound(S)
  BY <1>1, <1>2 DEF Sound
<1>4. tree \in Trees
  BY <1>1, <1>2 DEF Good
<1>5. TreeTypeOK
  BY <1>4, EmptySeq DEF TreeInit, TreeTypeOK, Trees, Everything, Node
<1> QED
  BY <1>3, <1>5 DEF TreeInv

\* insert begins.
LEMMA InsertKeyKeeps ==
  ASSUME TreeInv, NEW k \in Key, InsertKey(k)
  PROVE  TreeInv'
<1> USE KeyAssumption
<1>1. PICK S : Sound(S)
  BY DEF TreeInv
<1>2. /\ Good(tree, S) /\ S[tree.root] = members /\ Slack(tree, Nil, -1) /\ phase = "idle"
  BY <1>1 DEF InsertKey, Sound
<1>3. CASE tree.root = Nil
  <2>1. tree' = [tree EXCEPT !.root = k] /\ members' = members \cup {k} /\ phase' = "idle"
        /\ item' = k /\ cursor' = cursor /\ iteration' = iteration
    BY <1>2, <1>3 DEF InsertKey
  <2> DEFINE u == [tree EXCEPT !.root = k]
  <2>2. Good(tree', S) /\ S[tree'.root] = {k} /\ S[tree.root] = {} /\ Slack(tree', Nil, -1)
    <3>1. u = Rooted(tree, k) /\ tree' = u
      BY <2>1 DEF Rooted
    <3> HIDE DEF u
    <3>2. Good(u, S) /\ S[u.root] = {k} /\ S[tree.root] = {} /\ Slack(u, Nil, -1)
      <4>1. Good(tree, S) /\ Slack(tree, Nil, -1) /\ tree.root = Nil /\ k \in Key
        BY <1>2, <1>3
      <4> QED
        BY ONLY <3>1, <4>1, FirstNode
    <3> QED
      BY <3>1, <3>2
  <2>3. S[tree'.root] = members'
    BY <1>2, <2>1, <2>2
  <2>4. Sound(S)'
    BY <2>1, <2>2, <2>3 DEF Sound
  <2>5. tree' \in Trees
    BY <2>2 DEF Good
  <2>6. TreeTypeOK'
    BY <2>1, <2>5 DEF TreeInv, TreeTypeOK, Trees, iteration, Node
  <2> QED
    BY <2>4, <2>6 DEF TreeInv
<1>4. CASE tree.root # Nil
  <2>1. tree' = tree /\ members' = members /\ phase' = "descend"
        /\ item' = k /\ cursor' = tree.root /\ iteration' = iteration
    BY <1>4 DEF InsertKey
  <2>2. Sought(tree, S, tree.root, k)
    BY <1>2, <1>4, SoughtAtRoot
  <2>3. Sound(S)'
    BY <1>2, <2>1, <2>2 DEF Sound
  <2>4. tree.root \in Node
    BY <1>2, GoodFacts
  <2>5. TreeTypeOK'
    BY <2>1, <2>4 DEF TreeInv, TreeTypeOK, iteration, Node
  <2> QED
    BY <2>3, <2>5 DEF TreeInv
<1> QED
  BY <1>3, <1>4

\* insert refuses a key.
LEMMA RefuseKeeps ==
  ASSUME TreeInv, Refuse
  PROVE  TreeInv'
<1>1. PICK S : Sound(S)
  BY DEF TreeInv
<1>2. /\ tree' = tree /\ members' = members /\ phase = "descend" /\ phase' = "idle"
      /\ item' = item /\ cursor' = cursor /\ iteration' = iteration
  BY DEF Refuse
<1>3. Sound(S)'
  BY <1>1, <1>2 DEF Sound
<1>4. TreeTypeOK'
  BY <1>2 DEF TreeInv, TreeTypeOK, iteration
<1> QED
  BY <1>3, <1>4 DEF TreeInv

\* insert goes down one node, or hangs the key.
LEMMA DescendKeeps ==
  ASSUME TreeInv, Descend
  PROVE  TreeInv'
<1> USE KeyAssumption
<1>1. PICK S : Sound(S)
  BY DEF TreeInv
<1>2. /\ Good(tree, S) /\ S[tree.root] = members /\ Slack(tree, Nil, -1)
      /\ phase = "descend" /\ Sought(tree, S, cursor, item)
      /\ item # cursor /\ Diff(item, cursor) # 0
      /\ item' = item /\ iteration' = iteration
  BY <1>1 DEF Descend, Sound
<1>3. item \in Key /\ cursor \in Key /\ cursor \in members
  <2>1. S \in [Node -> SUBSET Key] /\ tree.root \in Node
    BY <1>2, GoodFacts
  <2> QED
    BY <1>2, <2>1 DEF Sought
<1> DEFINE s == Diff(item, cursor) < 0
           b == IF s THEN tree.left[cursor] ELSE tree.right[cursor]
           u == HangAt(tree, s, cursor, item)
<1>4. s \in BOOLEAN /\ b = Hand(tree, s)[cursor] /\ b \in Node
  <2>1. tree.left \in [Key -> Node] /\ tree.right \in [Key -> Node]
    BY <1>2, GoodFacts
  <2> QED
    BY <1>3, <2>1 DEF Hand
<1>5. <<item, cursor>> \in Along(s)
  <2>1. Diff(item, cursor) \in Int
    BY <1>3, DiffAssumption
  <2>2. CASE s
    BY <1>3, <2>2, OrderFacts DEF Along
  <2>3. CASE ~ s
    <3>1. <<item, cursor>> \in More
      <4>1. Diff(item, cursor) > 0
        BY <1>2, <2>1, <2>3
      <4> QED
        BY <1>3, <4>1, OrderFacts
    <3> HIDE DEF s
    <3>2. Along(s) = More
      BY <2>3 DEF Along
    <3> QED
      BY <3>1, <3>2
  <2> QED
    BY <2>2, <2>3
<1>6. /\ b # Nil => cursor' = b /\ tree' = tree /\ members' = members /\ phase' = phase
      /\ b = Nil => tree' = u /\ members' = members \cup {item} /\ phase' = "insertUp" /\ cursor' = cursor
  BY DEF Descend, HangAt
<1>6a. u = HangAt(tree, s, cursor, item)
  OBVIOUS
<1> HIDE DEF s, b, u
<1>7. CASE b # Nil
  <2>1. Sought(tree, S, b, item)
    BY <1>2, <1>4, <1>5, <1>7, SoughtBelow
  <2>2. Sound(S)'
    BY <1>2, <1>6, <1>7, <2>1 DEF Sound
  <2>3. TreeTypeOK'
    BY <1>2, <1>4, <1>6, <1>7 DEF TreeInv, TreeTypeOK, iteration
  <2> QED
    BY <2>2, <2>3 DEF TreeInv
<1>8. CASE b = Nil
  <2>0. /\ Good(tree, S) /\ Slack(tree, Nil, -1) /\ s \in BOOLEAN /\ Sought(tree, S, cursor, item)
        /\ Hand(tree, s)[cursor] = Nil /\ item # cursor /\ <<item, cursor>> \in Along(s)
        /\ u = HangAt(tree, s, cursor, item)
    BY <1>2, <1>4, <1>5, <1>6a, <1>8
  <2>1a. \E T : Good(u, T) /\ T[u.root] = S[tree.root] \cup {item} /\ Grown(u, T, cursor, item)
    BY ONLY <2>0, SoughtHangs
  <2>1. PICK T : Good(u, T) /\ T[u.root] = S[tree.root] \cup {item} /\ Grown(u, T, cursor, item)
    BY <2>1a
  <2>2. Sound(T)'
    BY <1>2, <1>3, <1>6, <1>8, <2>1 DEF Sound
  <2>3. tree' \in Trees
    BY <1>6, <1>8, <2>1 DEF Good
  <2>4. TreeTypeOK'
    BY <1>2, <1>3, <1>6, <1>8, <2>3 DEF TreeInv, TreeTypeOK, Trees, iteration, Node
  <2> QED
    BY <2>2, <2>4 DEF TreeInv
<1> QED
  BY <1>7, <1>8

\* One round of the climb of insert.
LEMMA InsertUpKeeps ==
  ASSUME TreeInv, InsertUp
  PROVE  TreeInv'
<1> USE KeyAssumption
<1>1. PICK S : Sound(S)
  BY DEF TreeInv
<1>2. /\ Good(tree, S) /\ S[tree.root] = members /\ phase = "insertUp"
      /\ item \in Key /\ cursor \in members \cup {Nil}
      /\ \E a \in {Nil, cursor} : Grown(tree, S, a, item)
      /\ item' = item /\ members' = members /\ iteration' = iteration
  BY <1>1 DEF InsertUp, Sound
<1>3. CASE cursor = Nil
  <2>1. tree' = tree /\ phase' = "idle" /\ cursor' = cursor
    BY <1>3 DEF InsertUp
  <2>2. Slack(tree, Nil, -1)
    BY <1>2, <1>3, LevelSlack
  <2>3. Sound(S)'
    BY <1>2, <2>1, <2>2 DEF Sound
  <2>4. TreeTypeOK'
    BY <1>2, <2>1 DEF TreeInv, TreeTypeOK, iteration
  <2> QED
    BY <2>3, <2>4 DEF TreeInv
<1>4. CASE cursor # Nil
  <2>1. tree' = RaisedForInsert(tree, cursor) /\ cursor' = tree'.parent[cursor] /\ phase' = phase
    BY <1>4 DEF InsertUp
  <2>2. cursor \in S[tree.root]
    BY <1>2, <1>4
  <2>3. PICK a \in {Nil, cursor} : Grown(tree, S, a, item)
    BY <1>2
  <2> DEFINE u == RaisedForInsert(tree, cursor)
  <2>4. u = RaisedForInsert(tree, cursor) /\ tree' = u
    BY <2>1
  <2> HIDE DEF u
  <2>5. /\ u.parent[cursor] \in S[tree.root] \cup {Nil}
        /\ \E T, b : /\ Good(u, T) /\ T[u.root] = S[tree.root]
                     /\ b \in {Nil, u.parent[cursor]} /\ Grown(u, T, b, item)
    BY <1>2, <2>2, <2>3, <2>4, InsertRaise
  <2>6. PICK T, b : /\ Good(u, T) /\ T[u.root] = S[tree.root]
                    /\ b \in {Nil, u.parent[cursor]} /\ Grown(u, T, b, item)
    BY <2>5
  <2>7. Sound(T)'
    BY <1>2, <2>1, <2>4, <2>5, <2>6 DEF Sound
  <2>8. tree' \in Trees /\ cursor' \in Node
    <3>1. S \in [Node -> SUBSET Key] /\ tree.root \in Node
      BY <1>2, GoodFacts
    <3> QED
      BY <2>1, <2>4, <2>5, <2>6, <3>1 DEF Good, Node
  <2>9. TreeTypeOK'
    BY <1>2, <2>1, <2>8 DEF TreeInv, TreeTypeOK, Trees, iteration
  <2> QED
    BY <2>7, <2>9 DEF TreeInv
<1> QED
  BY <1>3, <1>4

\* One round of the climb of remove.
LEMMA RemoveUpKeeps ==
  ASSUME TreeInv, RemoveUp
  PROVE  TreeInv'
<1> USE KeyAssumption
<1>1. PICK S : Sound(S)
  BY DEF TreeInv
<1>2. /\ Good(tree, S) /\ S[tree.root] = members /\ phase = "removeUp"
      /\ cursor \in members \cup {Nil} /\ Loose(tree, cursor)
      /\ item' = item /\ members' = members /\ iteration' = iteration
  BY <1>1 DEF RemoveUp, Sound
<1>3. CASE cursor = Nil
  <2>1. tree' = tree /\ phase' = "idle" /\ cursor' = cursor
    BY <1>3 DEF RemoveUp
  <2>2. Slack(tree, Nil, -1)
    BY <1>2, <1>3 DEF Loose
  <2>3. Sound(S)'
    BY <1>2, <2>1, <2>2 DEF Sound
  <2>4. TreeTypeOK'
    BY <1>2, <2>1 DEF TreeInv, TreeTypeOK, iteration
  <2> QED
    BY <2>3, <2>4 DEF TreeInv
<1>4. CASE cursor # Nil
  <2>1. tree' = RaisedForRemove(tree, cursor) /\ cursor' = tree'.parent[cursor] /\ phase' = phase
    BY <1>4 DEF RemoveUp
  <2>2. cursor \in S[tree.root]
    BY <1>2, <1>4
  <2>3. PICK a \in {Nil, cursor, tree.parent[cursor]} : Slack(tree, a, -1)
    BY <1>2, <1>4 DEF Loose
  <2> DEFINE u == RaisedForRemove(tree, cursor)
  <2>4. u = RaisedForRemove(tree, cursor) /\ tree' = u
    BY <2>1
  <2> HIDE DEF u
  <2>5. /\ \E T : Good(u, T) /\ T[u.root] = S[tree.root]
        /\ u.parent[cursor] \in S[tree.root] \cup {Nil}
        /\ \/ Slack(u, Nil, -1)
           \/ Slack(u, u.parent[cursor], -1)
           \/ u.parent[cursor] # Nil /\ Slack(u, u.parent[u.parent[cursor]], -1)
    BY <1>2, <2>2, <2>3, <2>4, RemoveRaise
  <2>6. PICK T : Good(u, T) /\ T[u.root] = S[tree.root]
    BY <2>5
  <2>7. Loose(u, u.parent[cursor])
    BY <2>5 DEF Loose
  <2>8. Sound(T)'
    BY <1>2, <2>1, <2>4, <2>5, <2>6, <2>7 DEF Sound
  <2>9. tree' \in Trees /\ cursor' \in Node
    <3>1. S \in [Node -> SUBSET Key] /\ tree.root \in Node
      BY <1>2, GoodFacts
    <3> QED
      BY <2>1, <2>4, <2>5, <2>6, <3>1 DEF Good, Node
  <2>10. TreeTypeOK'
    BY <1>2, <2>1, <2>9 DEF TreeInv, TreeTypeOK, Trees, iteration
  <2> QED
    BY <2>8, <2>10 DEF TreeInv
<1> QED
  BY <1>3, <1>4

\* remove unlinks a node.
LEMMA RemoveNodeKeepsInv ==
  ASSUME TreeInv, phase = "idle", NEW n \in members, RemoveNode(n), members' = members \ {n},
         item' = item, iteration' = iteration
  PROVE  TreeInv'
<1> USE KeyAssumption
<1>1. PICK S : Sound(S)
  BY DEF TreeInv
<1>2. Good(tree, S) /\ S[tree.root] = members /\ Slack(tree, Nil, -1)
  BY <1>1 DEF Sound
<1> DEFINE u == IF tree.left[n] # Nil /\ tree.right[n] # Nil
                THEN Succeed(tree, n, Minimum(tree, tree.right[n])) ELSE Bypass(tree, n)
           c == Start(tree, n)
<1>3. tree' = u /\ cursor' = c /\ phase' = "removeUp"
  BY DEF RemoveNode
<1>4. n \in S[tree.root]
  BY <1>2
<1>5. /\ \E T : Good(u, T) /\ T[u.root] = S[tree.root] \ {n}
      /\ c \in (S[tree.root] \ {n}) \cup {Nil}
      /\ Loose(u, c)
  <2>1. /\ u = IF tree.left[n] # Nil /\ tree.right[n] # Nil
               THEN Succeed(tree, n, Minimum(tree, tree.right[n])) ELSE Bypass(tree, n)
        /\ c = Start(tree, n)
    OBVIOUS
  <2> HIDE DEF u, c
  <2> QED
    BY <1>2, <1>4, <2>1, RemoveNodeKeeps
<1> HIDE DEF u, c
<1>6. PICK T : Good(u, T) /\ T[u.root] = S[tree.root] \ {n}
  BY <1>5
<1>7. Sound(T)'
  BY <1>2, <1>3, <1>5, <1>6 DEF Sound
<1>8. tree' \in Trees /\ cursor' \in Node
  <2>1. S \in [Node -> SUBSET Key] /\ tree.root \in Node
    BY <1>2, GoodFacts
  <2> QED
    BY <1>3, <1>5, <1>6, <2>1 DEF Good, Node
<1>9. TreeTypeOK'
  BY <1>3, <1>8 DEF TreeInv, TreeTypeOK, Trees, iteration
<1> QED
  BY <1>7, <1>9 DEF TreeInv

\* remove of a key, removeMinimum and removeMaximum.
LEMMA RemoveKeeps ==
  ASSUME TreeInv, NEW k \in Key, RemoveKey(k) \/ RemoveExtreme(k)
  PROVE  TreeInv'
<1> USE KeyAssumption
<1>1. PICK S : Sound(S)
  BY DEF TreeInv
<1>2. phase = "idle" /\ Good(tree, S) /\ S[tree.root] = members
      /\ item' = item /\ iteration' = iteration
  BY <1>1 DEF Sound, RemoveKey, RemoveExtreme
<1>3. CASE RemoveKey(k)
  <2>1. k \in members /\ Found(k) = k /\ k # Nil
    BY <1>2, <1>3, FoundIs DEF RemoveKey
  <2>2. RemoveNode(k) /\ members' = members \ {k}
    BY <1>3, <2>1 DEF RemoveKey
  <2> QED
    BY <1>2, <2>1, <2>2, RemoveNodeKeepsInv
<1>4. CASE RemoveExtreme(k)
  <2>1. k \in members /\ tree.root \in Key
    <3>1. k \in S[tree.root] /\ tree.root \in Node /\ S[Nil] = {}
      BY <1>2, <1>4, LinkedIs, GoodFacts DEF RemoveExtreme
    <3> QED
      BY <1>2, <3>1 DEF Node
  <2>2. S[k] \subseteq members
    BY <1>2, <2>1, GoodFacts
  <2>3. PICK n \in {Minimum(tree, k), Maximum(tree, k)} : members' = members \ {n} /\ RemoveNode(n)
    BY <1>4 DEF RemoveExtreme
  <2>4. n \in members
    BY <1>2, <2>2, <2>3, MinimumIs, MaximumIs
  <2> QED
    BY <1>2, <2>3, <2>4, RemoveNodeKeepsInv
<1> QED
  BY <1>3, <1>4

\* clear.
LEMMA ClearKeeps ==
  ASSUME TreeInv, ClearTree
  PROVE  TreeInv'
<1>1. PICK S : Good(NoTree, S) /\ S[NoTree.root] = {} /\ Slack(NoTree, Nil, -1)
  BY EmptyTree
<1>2. /\ tree' = NoTree /\ members' = {} /\ phase' = "idle"
      /\ item' = item /\ cursor' = cursor /\ iteration' = iteration
  BY DEF ClearTree, NoTree
<1>3. Sound(S)'
  BY <1>1, <1>2 DEF Sound
<1>4. tree' \in Trees
  BY <1>1, <1>2 DEF Good
<1>5. TreeTypeOK'
  BY <1>2, <1>4 DEF TreeInv, TreeTypeOK, Trees, iteration
<1> QED
  BY <1>3, <1>5 DEF TreeInv

-----------------------------------------------------------------------------
(***************************************************************************)
(* Iterations keep the invariant.                                          *)
(***************************************************************************)

\* The stacks are sequences of keys.
LEMMA SpineTypes ==
  ASSUME NEW S, Good(tree, S)
  PROVE  /\ \A n, to \in Node : LeftSpine(n, to) \in Seq(Key)
         /\ \A n \in Node : RightSpine(n) \in Seq(Key)
         /\ \A from \in Key : PathFrom(from) \in Seq(Key)
<1>1. ASSUME NEW n \in Node, NEW to \in Node PROVE LeftSpine(n, to) \in Seq(Key)
  BY LeftSpineIs DEF Laid, Piled
<1>2. ASSUME NEW n \in Node PROVE RightSpine(n) \in Seq(Key)
  BY RightSpineIs DEF Laid, Piled
<1>3. ASSUME NEW from \in Key PROVE PathFrom(from) \in Seq(Key)
  BY PathFromIs DEF Laid, Piled
<1> QED
  BY <1>1, <1>2, <1>3

\* Every kind of iterator begins with a stack for its range.
LEMMA SetsOut ==
  ASSUME NEW S, Good(tree, S), S[tree.root] = members,
         NEW from \in Node, NEW to \in Node, NEW s \in BOOLEAN, s \/ (from = Nil /\ to = Nil),
         NEW q, q = IF ~ s THEN RightSpine(tree.root)
                    ELSE IF from = Nil THEN LeftSpine(tree.root, to) ELSE PathFrom(from),
         NEW Z, Z = {k \in members : /\ from = Nil \/ Diff(from, k) <= 0
                                     /\ to = Nil \/ Diff(to, k) >= 0},
         NEW Y, Y = IF Nil \in {from, to} THEN {} ELSE {PathFrom(from)[i] : i \in DOMAIN PathFrom(from)}
  PROVE  Underway(Hand(tree, ~ s), S, Along(s), UpTo(to), q, <<>>, Z, Y)
<1> USE KeyAssumption
<1>0. /\ S \in [Node -> SUBSET Key] /\ tree.root \in Node /\ members \subseteq Key
      /\ \A k \in Key : k \in UpTo(to) <=> (to = Nil \/ Diff(to, k) >= 0)
      /\ UpTo(to) \subseteq Key
  BY GoodFacts DEF UpTo
<1>1. CASE ~ s
  <2>1. /\ Hand(tree, ~ s) = tree.left /\ Along(s) = More /\ q = RightSpine(tree.root)
        /\ UpTo(to) = Key /\ Z = members
    BY <1>0, <1>1 DEF Hand, Along
  <2>2. Laid(tree.left, S, More, Key, tree.root, q)
    BY <1>0, <2>1, RightSpineIs
  <2>3. /\ Piled(tree.left, S, More, q) /\ Rest(tree.left, S, q) = members
        /\ \A i \in 1..Len(q) : q[i] \in Rest(tree.left, S, q)
    BY <1>0, <2>2 DEF Laid, Rest
  <2>4. /\ Rest(tree.left, S, q) \cap Key \subseteq Z /\ Z \subseteq Rest(tree.left, S, q)
        /\ \A i \in 1..Len(q) : q[i] \in Z \cup Y
    BY <2>1, <2>3
  <2> DEFINE R == tree.left  less == More  W == Key
  <2>5. /\ Piled(R, S, less, q) /\ Rest(R, S, q) \cap W \subseteq Z /\ Z \subseteq Rest(R, S, q)
        /\ \A i \in 1..Len(q) : q[i] \in Z \cup Y
    BY <2>3, <2>4
  <2> HIDE DEF R, less, W
  <2>6. Underway(R, S, less, W, q, <<>>, Z, Y)
    BY ONLY <2>5, Setout
  <2> QED
    BY <2>1, <2>6 DEF R, less, W
<1>2. CASE s /\ from = Nil
  <2>1. /\ Hand(tree, ~ s) = tree.right /\ Along(s) = Less /\ q = LeftSpine(tree.root, to)
        /\ Z = members \cap UpTo(to)
    BY <1>0, <1>2 DEF Hand, Along
  <2>2. Laid(tree.right, S, Less, UpTo(to), tree.root, q)
    BY <1>0, <2>1, LeftSpineIs
  <2> DEFINE R == tree.right  less == Less  W == UpTo(to)
  <2>3. /\ Piled(R, S, less, q) /\ Rest(R, S, q) \subseteq members
        /\ members \cap W \subseteq Rest(R, S, q)
        /\ \A i \in 1..Len(q) : q[i] \in W
    BY <2>2 DEF Laid
  <2>4. Z = members \cap W
    BY <2>1
  <2>4a. \A i \in 1..Len(q) : q[i] \in Rest(R, S, q)
    BY DEF Rest
  <2> HIDE DEF R, less, W
  <2>5. /\ Piled(R, S, less, q) /\ Rest(R, S, q) \cap W \subseteq Z /\ Z \subseteq Rest(R, S, q)
        /\ \A i \in 1..Len(q) : q[i] \in Z \cup Y
    BY <2>3, <2>4, <2>4a
  <2>6. Underway(R, S, less, W, q, <<>>, Z, Y)
    BY ONLY <2>5, Setout
  <2> QED
    BY <2>1, <2>6 DEF R, less, W
<1>3. CASE s /\ from # Nil
  <2>1. /\ Hand(tree, ~ s) = tree.right /\ Along(s) = Less /\ q = PathFrom(from) /\ from \in Key
    BY <1>3 DEF Hand, Along, Node
  <2>2. Laid(tree.right, S, Less, Onward(from), tree.root, q)
    BY <2>1, PathFromIs
  <2> DEFINE R == tree.right  less == Less  W == UpTo(to)  U == Onward(from)
  <2>3. /\ Piled(R, S, less, q) /\ q \in Seq(Key) /\ Rest(R, S, q) \subseteq members
        /\ members \cap U \subseteq Rest(R, S, q)
        /\ \A i \in 1..Len(q) : q[i] \in U
    BY <2>2 DEF Laid, Piled
  <2>4. U \subseteq Key /\ \A k \in Key : k \in U <=> Diff(from, k) <= 0
    BY DEF Onward
  <2>5. Z = members \cap U \cap W
    BY <1>0, <1>3, <2>4
  <2>6. ASSUME NEW i \in 1..Len(q), NEW x \in {q[i]} \cup S[R[q[i]]] PROVE x \in U
    <3>1. q[i] \in Key /\ Diff(from, q[i]) <= 0
      BY <2>3, <2>4
    <3>2. CASE x \in S[R[q[i]]]
      <4>1. Shape(tree.root, tree.left, tree.right, tree.parent, S, Less)
        BY DEF Good
      <4>2. x \in Key
        BY <1>0, <3>2, <2>3, <2>6, GoodFacts
      <4>3. Diff(q[i], x) < 0
        BY <3>1, <3>2, <4>1, <4>2, OrderFacts DEF Shape
      <4>4. Diff(from, x) < 0 /\ Diff(from, x) \in Int
        BY <2>1, <3>1, <4>2, <4>3, DiffAssumption
      <4> QED
        BY <2>4, <4>2, <4>4
    <3> QED
      BY <2>3, <2>6, <3>2
  <2>7. Rest(R, S, q) \subseteq U
    BY <2>6 DEF Rest
  <2>8. \A i \in 1..Len(q) : q[i] \in Z \cup Y
    <3> SUFFICES ASSUME NEW i \in 1..Len(q) PROVE q[i] \in Z \cup Y
      OBVIOUS
    <3>1. CASE to = Nil
      <4>1. q[i] \in Rest(R, S, q)
        BY DEF Rest
      <4>2. W = Key
        BY <3>1 DEF UpTo
      <4> QED
        BY <1>0, <2>3, <2>5, <2>7, <4>1, <4>2
    <3>2. CASE to # Nil
      <4>1. Y = {q[j] : j \in DOMAIN q}
        BY <1>3, <2>1, <3>2
      <4>2. DOMAIN q = 1..Len(q)
        BY <2>3, LenProperties
      <4> QED
        BY <4>1, <4>2
    <3> QED
      BY <3>1, <3>2
  <2> HIDE DEF R, less, W, U
  <2>9. /\ Piled(R, S, less, q) /\ Rest(R, S, q) \cap W \subseteq Z /\ Z \subseteq Rest(R, S, q)
        /\ \A i \in 1..Len(q) : q[i] \in Z \cup Y
    BY <2>3, <2>5, <2>7, <2>8
  <2>10. Underway(R, S, less, W, q, <<>>, Z, Y)
    BY ONLY <2>9, Setout
  <2> QED
    BY <2>1, <2>10 DEF R, less, W
<1> QED
  BY <1>1, <1>2, <1>3

\* An iteration begins.
LEMMA BeginKeeps ==
  ASSUME TreeInv, NEW from \in Node, NEW to \in Node, NEW s \in BOOLEAN,
         BeginIteration(from, to, s)
  PROVE  TreeInv'
<1> USE KeyAssumption
<1>1. PICK S : Sound(S)
  BY DEF TreeInv
<1>2. /\ Good(tree, S) /\ S[tree.root] = members /\ Slack(tree, Nil, -1) /\ phase = "idle"
      /\ s \/ (from = Nil /\ to = Nil)
      /\ tree' = tree /\ members' = members /\ item' = item /\ cursor' = cursor
      /\ phase' = "iterate" /\ out' = <<>>
      /\ range' = [from |-> from, to |-> to, inOrder |-> s]
  BY <1>1 DEF BeginIteration, Sound
<1> DEFINE q == IF ~ s THEN RightSpine(tree.root)
                ELSE IF from = Nil THEN LeftSpine(tree.root, to) ELSE PathFrom(from)
           Z == {k \in members : /\ from = Nil \/ Diff(from, k) <= 0
                                 /\ to = Nil \/ Diff(to, k) >= 0}
           Y == IF Nil \in {from, to} THEN {} ELSE {PathFrom(from)[i] : i \in DOMAIN PathFrom(from)}
<1>3. stack' = q
  BY DEF BeginIteration
<1>4. range'.from = from /\ range'.to = to /\ range'.inOrder = s
  BY <1>2
<1>5. InRange' = Z
  BY <1>2, <1>4 DEF InRange
<1>6. Strays' = Y
  BY <1>2, <1>4 DEF Strays, PathFrom
<1>7. Underway(Hand(tree, ~ s), S, Along(s), UpTo(to), q, <<>>, Z, Y)
  BY <1>2, SetsOut
<1>8. q \in Seq(Key)
  <2> HIDE DEF q, Z, Y
  <2> QED
    BY <1>7 DEF Underway, Piled
<1> HIDE DEF q, Z, Y
<1>9. Iterating(S)'
  BY <1>2, <1>3, <1>4, <1>5, <1>6, <1>7 DEF Iterating
<1>10. Sound(S)'
  BY <1>2, <1>9 DEF Sound
<1>11. TreeTypeOK'
  BY <1>2, <1>3, <1>8, EmptySeq DEF TreeInv, TreeTypeOK
<1> QED
  BY <1>10, <1>11 DEF TreeInv

\* Its range stays while the tree stays.
LEMMA SameRange ==
  ASSUME tree' = tree, range' = range, members' = members
  PROVE  InRange' = InRange /\ Strays' = Strays
BY DEF InRange, Strays, PathFrom

\* next.
LEMMA AdvanceKeeps ==
  ASSUME TreeInv, Advance
  PROVE  TreeInv'
<1> USE KeyAssumption
<1>1. PICK S : Sound(S)
  BY DEF TreeInv
<1> DEFINE n == stack[Len(stack)]
           p == SubSeq(stack, 1, Len(stack) - 1)
           s == range.inOrder
           e == IF s THEN LeftSpine(tree.right[n], range.to) ELSE RightSpine(tree.left[n])
<1>2. /\ Good(tree, S) /\ S[tree.root] = members /\ Slack(tree, Nil, -1)
      /\ phase = "iterate" /\ phase' = phase /\ Iterating(S) /\ stack # <<>>
      /\ tree' = tree /\ members' = members /\ item' = item /\ cursor' = cursor /\ range' = range
      /\ out' = Append(out, n) /\ stack' = p \o e
  BY <1>1 DEF Advance, Sound
<1>3. /\ range.from \in Node /\ range.to \in Node /\ s \in BOOLEAN
      /\ stack \in Seq(Key) /\ out \in Seq(Key) /\ TreeTypeOK
  BY DEF TreeInv, TreeTypeOK
<1>4. n \in Key
  BY <1>2, <1>3, Popped
<1> DEFINE L == Hand(tree, s)  R == Hand(tree, ~ s)  P == tree.parent  less == Along(s)
           W == UpTo(range.to)  Z == InRange  Y == Strays  root == tree.root
<1>5. Shape(root, L, R, P, S, less) /\ Orders(less) /\ R \in [Key -> Node]
  <2>1. (~ s) \in BOOLEAN /\ s \in BOOLEAN
    BY <1>3
  <2>2. Shape(root, L, R, P, S, less) /\ Orders(less)
    BY <1>2, <2>1, Views
  <2>3. R \in [Key -> Node]
    BY <1>2, <2>1, Views
  <2> QED
    BY <2>2, <2>3
<1>6. Underway(R, S, less, W, stack, out, Z, Y)
  BY <1>2 DEF Iterating
<1>7. Z \subseteq W
  <2>1. members \subseteq Key
    BY <1>3 DEF TreeTypeOK
  <2> QED
    BY <2>1 DEF InRange, UpTo
<1>8. Laid(R, S, less, W, R[n], e)
  <2>1. R[n] \in Node
    BY <1>4, <1>5
  <2>2. CASE s
    <3>1. R = tree.right /\ less = Less /\ e = LeftSpine(R[n], range.to)
      BY <2>2 DEF Hand, Along
    <3> QED
      BY <1>2, <1>3, <2>1, <3>1, LeftSpineIs
  <2>3. CASE ~ s
    <3>1. R = tree.left /\ less = More /\ e = RightSpine(R[n])
      BY <2>3 DEF Hand, Along
    <3>2. W = Key
      BY <1>2, <2>3 DEF Iterating, UpTo
    <3> QED
      BY <1>2, <1>3, <2>1, <3>1, <3>2, RightSpineIs
  <2> QED
    BY <2>2, <2>3
<1>9. Underway(R, S, less, W, p \o e, Append(out, n), Z, Y)
  <2>1. n = stack[Len(stack)] /\ p = SubSeq(stack, 1, Len(stack) - 1)
    OBVIOUS
  <2> HIDE DEF n, p, e, L, R, P, less, W, Z, Y, root, s
  <2> QED
    BY ONLY <1>2, <1>5, <1>6, <1>7, <1>8, <2>1, OneOn
<1>10. InRange' = InRange /\ Strays' = Strays
  BY <1>2, SameRange
<1>11. Iterating(S)'
  <2>1. s \/ (range.from = Nil /\ range.to = Nil)
    BY <1>2 DEF Iterating
  <2> QED
    BY <1>2, <1>9, <1>10, <2>1 DEF Iterating
<1>12. Sound(S)'
  BY <1>2, <1>11 DEF Sound
<1>13. stack' \in Seq(Key) /\ out' \in Seq(Key)
  <2> HIDE DEF n, p, e, L, R, P, less, W, Z, Y, root, s
  <2>1. p \o e \in Seq(Key) /\ Append(out, n) \in Seq(Key)
    BY <1>9 DEF Underway, Piled
  <2> QED
    BY <1>2, <2>1
<1>14. TreeTypeOK'
  BY <1>2, <1>3, <1>13 DEF TreeTypeOK
<1> QED
  BY <1>12, <1>14 DEF TreeInv

\* The iterator is dropped.
LEMMA EndKeeps ==
  ASSUME TreeInv, EndIteration
  PROVE  TreeInv'
<1>1. PICK S : Sound(S)
  BY DEF TreeInv
<1>2. /\ tree' = tree /\ members' = members /\ phase = "iterate" /\ phase' = "idle"
      /\ item' = item /\ cursor' = cursor /\ stack' = stack /\ range' = Everything /\ out' = <<>>
  BY DEF EndIteration
<1>3. Sound(S)'
  BY <1>1, <1>2 DEF Sound
<1>4. TreeTypeOK'
  BY <1>2, EmptySeq DEF TreeInv, TreeTypeOK, Everything, Node
<1> QED
  BY <1>3, <1>4 DEF TreeInv

\* Nothing happens.
LEMMA TreeRests ==
  ASSUME TreeInv, UNCHANGED treeVars
  PROVE  TreeInv'
<1>1. PICK S : Sound(S)
  BY DEF TreeInv
<1>2. /\ tree' = tree /\ members' = members /\ phase' = phase /\ item' = item /\ cursor' = cursor
      /\ range' = range /\ stack' = stack /\ out' = out
  BY DEF treeVars
<1>3. InRange' = InRange /\ Strays' = Strays
  BY <1>2, SameRange
<1>4. Iterating(S) => Iterating(S)'
  BY <1>2, <1>3 DEF Iterating
<1>5. Sound(S)'
  BY <1>1, <1>2, <1>4 DEF Sound
<1>6. TreeTypeOK'
  BY <1>2 DEF TreeInv, TreeTypeOK
<1> QED
  BY <1>5, <1>6 DEF TreeInv

\* The invariant implies what isValid, isBalanced and contains ask for.
LEMMA TreeInvIsConsistent ==
  ASSUME TreeInv PROVE TreeConsistent
<1> USE KeyAssumption
<1>1. PICK S : Sound(S)
  BY DEF TreeInv
<1>2. Good(tree, S) /\ S[tree.root] = members /\ members \subseteq Key /\ TreeTypeOK
  BY <1>1 DEF Sound, TreeInv, TreeTypeOK
<1>3. ASSUME phase = "idle" PROVE Slack(tree, Nil, -1)
  BY <1>1, <1>3 DEF Sound
<1>4. Balanced
  BY <1>2, <1>3, EvenTree DEF Balanced
<1>5. \A k \in Key : Found(k) = IF k \in members THEN k ELSE Nil
  BY <1>2, FoundIs
<1>6. {k \in Key : Found(k) = k} = members
  BY <1>2, <1>5
<1>7. Linked(tree) = members
  BY <1>2, LinkedIs
<1>8. /\ tree.root # Nil => tree.parent[tree.root] = Nil
      /\ \A k \in members : /\ tree.left[k] # Nil => tree.parent[tree.left[k]] = k
                            /\ tree.right[k] # Nil => tree.parent[tree.right[k]] = k
  BY <1>2, GoodFacts
<1> QED
  BY <1>2, <1>4, <1>6, <1>7, <1>8 DEF TreeConsistent, Searchable

\* And what an iterator returns.
LEMMA TreeInvIsExact ==
  ASSUME TreeInv PROVE IterationIsExact
<1> SUFFICES ASSUME phase = "iterate"
             PROVE  /\ \A i, j \in DOMAIN out :
                         i < j => IF range.inOrder THEN Diff(out[i], out[j]) < 0
                                  ELSE Diff(out[i], out[j]) > 0
                    /\ {out[i] : i \in DOMAIN out} \ InRange \subseteq Strays
                    /\ stack = <<>> => InRange \subseteq {out[i] : i \in DOMAIN out}
  BY DEF IterationIsExact, Strays
<1>1. PICK S : Sound(S)
  BY DEF TreeInv
<1>2. Iterating(S) /\ out \in Seq(Key) /\ range.inOrder \in BOOLEAN
  BY <1>1 DEF Sound, TreeInv, TreeTypeOK
<1> DEFINE s == range.inOrder  R == Hand(tree, ~ s)  W == UpTo(range.to)
<1>3. Underway(R, S, Along(s), W, stack, out, InRange, Strays)
  BY <1>2 DEF Iterating
<1>4. DOMAIN out = 1..Len(out) /\ Len(out) \in Nat /\ \A i \in 1..Len(out) : out[i] \in Key
  BY <1>2, LenProperties, ElementOfSeq
<1> HIDE DEF s, R, W
<1>5. ASSUME NEW i \in 1..Len(out), NEW j \in 1..Len(out), i < j
      PROVE  IF s THEN Diff(out[i], out[j]) < 0 ELSE Diff(out[i], out[j]) > 0
  <2>1. i \in 1..j - 1
    BY <1>4, <1>5
  <2>2. <<out[i], out[j]>> \in Along(s)
    BY <1>3, <2>1 DEF Underway
  <2>3. <<out[i], out[j]>> \in IF s THEN Less ELSE More
    BY <2>2 DEF Along
  <2> QED
    BY <1>4, <2>3, OrderFacts
<1>6. \A i \in 1..Len(out) : out[i] \in InRange \cup Strays
  BY <1>3 DEF Underway
<1>7. ASSUME stack = <<>>, NEW x \in InRange PROVE \E i \in 1..Len(out) : x = out[i]
  <2>1. Len(stack) = 0
    BY <1>7, EmptySeq
  <2>2. Rest(R, S, stack) = {}
    <3>1. 1..Len(stack) = {}
      BY <2>1
    <3> QED
      BY <3>1 DEF Rest
  <2> QED
    BY <1>3, <2>2 DEF Underway
<1> QED
  BY <1>4, <1>5, <1>6, <1>7 DEF s

\* Every step keeps the invariant.
LEMMA TreeSteps ==
  ASSUME TreeInv, [TreeNext]_treeVars
  PROVE  TreeInv'
<1>1. ASSUME NEW k \in Key, InsertKey(k) \/ RemoveKey(k) \/ RemoveExtreme(k) PROVE TreeInv'
  BY <1>1, InsertKeyKeeps, RemoveKeeps
<1>2. ASSUME NEW from \in Node, NEW to \in Node, NEW inOrder \in BOOLEAN,
             BeginIteration(from, to, inOrder)
      PROVE  TreeInv'
  BY <1>2, BeginKeeps
<1>3. CASE TreeOperation
  BY <1>1, <1>2, <1>3, ClearKeeps DEF TreeOperation
<1>4. CASE Loop
  BY <1>4, RefuseKeeps, DescendKeeps, InsertUpKeeps, RemoveUpKeeps, AdvanceKeeps, EndKeeps DEF Loop
<1>5. CASE UNCHANGED treeVars
  BY <1>5, TreeRests
<1> QED
  BY <1>3, <1>4, <1>5 DEF TreeNext

\* Whatever is inserted and removed, in whatever order and for every set of keys that
\* compareTo orders: between operations the search from the root finds exactly the
\* members, parents agree with children and no node has subtrees whose heights
\* differ by more than one; the types hold always (isValid, isBalanced, contains).
THEOREM TreeStaysConsistent == TreeSpec => []TreeConsistent
<1>1. TreeInit => TreeInv
  BY TreeStarts
<1>2. TreeInv /\ [TreeNext]_treeVars => TreeInv'
  BY TreeSteps
<1>3. TreeInv => TreeConsistent
  BY TreeInvIsConsistent
<1> QED
  BY <1>1, <1>2, <1>3, PTL DEF TreeSpec

\* Every iterator returns the members in its range, each once and in order, and no
\* other, but for keys on the path to its beginning when it has two ends
\* (BinarySearchTreeIterator).
THEOREM IterationStaysExact == TreeSpec => []IterationIsExact
<1>1. TreeInit => TreeInv
  BY TreeStarts
<1>2. TreeInv /\ [TreeNext]_treeVars => TreeInv'
  BY TreeSteps
<1>3. TreeInv => IterationIsExact
  BY TreeInvIsExact
<1> QED
  BY <1>1, <1>2, <1>3, PTL DEF TreeSpec

-----------------------------------------------------------------------------
(***************************************************************************)
(* The order of the proxies.                                               *)
(***************************************************************************)

LEMMA FatBoxes ==
  /\ \A b \in Fat \cup Box : b \in Seq(Int) /\ Len(b) = 4 /\ b[1] \in Int /\ b[3] \in Int
  /\ None \notin Fat
  /\ \A b \in Box : Expand(b) \in Fat
<1>1. \A b \in Fat \cup Box : b \in Seq(Int) /\ Len(b) = 4
  BY ItemAssumption DEF Fat
<1>2. ASSUME NEW b \in Fat \cup Box
      PROVE  b[1] \in Int /\ b[3] \in Int
  BY <1>1, ElementOfSeq
<1> QED
  BY <1>1, <1>2, ItemAssumption DEF Fat

LEMMA Keys ==
  ASSUME NEW f, NEW i \in Item, f[i] \in Fat
  PROVE  /\ \A k \in 1..4 : SortKey(f, i)[k] = f[i][k]
         /\ SortKey(f, i)[5] = Hash(i)
         /\ \A k \in 1..5 : SortKey(f, i)[k] \in Int
<1>1. f[i] \in Seq(Int) /\ Len(f[i]) = 4 /\ Hash(i) \in Int
  BY FatBoxes, ItemAssumption
<1>2. \A k \in 1..4 : f[i][k] \in Int
  BY <1>1, ElementOfSeq
<1> DEFINE key == Append(f[i], Hash(i))
<1>3. /\ \A k \in 1..Len(f[i]) : key[k] = f[i][k]
      /\ key[Len(f[i]) + 1] = Hash(i)
  <2>1. PICK s \in Seq(Int) : s = f[i]
    BY <1>1
  <2>2. PICK h \in Int : h = Hash(i)
    BY <1>1
  <2>3. (\A k \in 1..Len(s) : Append(s, h)[k] = s[k]) /\ Append(s, h)[Len(s) + 1] = h
    BY AppendProperties
  <2> QED
    BY <2>1, <2>2, <2>3
<1> HIDE DEF key
<1>4. (\A k \in 1..4 : key[k] = f[i][k]) /\ key[5] = Hash(i)
  BY <1>1, <1>3
<1>5. SortKey(f, i) = key
  BY DEF SortKey, key
<1> QED
  BY <1>1, <1>2, <1>4, <1>5

\* The order is strict, and its first key is where a box begins.
LEMMA ByMinX ==
  ASSUME NEW i \in Item, NEW j \in Item, box[i] \in Fat, box[j] \in Fat
  PROVE  /\ ~ Precedes(box, i, i)
         /\ Precedes(box, i, j) => MinX(box[i]) <= MinX(box[j])
<1>1. /\ \A k \in 1..5 : SortKey(box, i)[k] \in Int /\ SortKey(box, j)[k] \in Int
      /\ SortKey(box, i)[1] = MinX(box[i]) /\ SortKey(box, j)[1] = MinX(box[j])
  BY Keys DEF MinX
<1>2. ~ Precedes(box, i, i)
  BY <1>1 DEF Precedes
<1>3. ASSUME Precedes(box, i, j)
      PROVE  MinX(box[i]) <= MinX(box[j])
  <2>1. PICK k \in 1..5 :
          /\ SortKey(box, i)[k] < SortKey(box, j)[k]
          /\ \A m \in 1..k - 1 : SortKey(box, i)[m] = SortKey(box, j)[m]
    BY <1>3 DEF Precedes
  <2>2. CASE k = 1
    BY <1>1, <2>1, <2>2
  <2>3. CASE k # 1
    BY <1>1, <2>1, <2>3
  <2> QED
    BY <2>2, <2>3
<1> QED
  BY <1>2, <1>3

\* Two proxies that compare equal have one hash code.
LEMMA TiesShareHash ==
  ASSUME NEW f, NEW i \in Item, NEW j \in Item, f[i] \in Fat, f[j] \in Fat, Ties(f, i, j)
  PROVE  Hash(i) = Hash(j)
BY Keys DEF Ties

\* Two boxes that overlap begin before either ends.
LEMMA OverlapsX ==
  ASSUME NEW b, NEW c
  PROVE  Overlaps(b, c) => MinX(c) <= MaxX(b) /\ MinX(b) <= MaxX(c)
BY DEF Overlaps, MinX, MaxX

-----------------------------------------------------------------------------
(***************************************************************************)
(* Sequences.                                                              *)
(***************************************************************************)

LEMMA Pop ==
  ASSUME NEW S, NEW s \in Seq(S), s # <<>>
  PROVE  /\ Head(s) = s[1] /\ Head(s) \in S /\ Len(s) \in Nat \ {0} /\ DOMAIN s = 1..Len(s)
         /\ Tail(s) \in Seq(S) /\ Len(Tail(s)) = Len(s) - 1
         /\ DOMAIN Tail(s) = 1..Len(s) - 1
         /\ \A n \in 1..Len(s) - 1 : Tail(s)[n] = s[n + 1]
         /\ Range(s) = {Head(s)} \cup Range(Tail(s))
<1>1. /\ Head(s) = s[1] /\ Head(s) \in S /\ Len(s) \in Nat \ {0} /\ DOMAIN s = 1..Len(s)
      /\ Tail(s) \in Seq(S) /\ Len(Tail(s)) = Len(s) - 1
      /\ DOMAIN Tail(s) = 1..Len(s) - 1
      /\ \A n \in 1..Len(s) - 1 : Tail(s)[n] = s[n + 1]
  BY EmptySeq, HeadTailProperties, LenProperties
<1>2. \A n \in DOMAIN s : n = 1 \/ (n - 1 \in DOMAIN Tail(s) /\ Tail(s)[n - 1] = s[n])
  BY <1>1
<1>3. \A n \in DOMAIN Tail(s) : n + 1 \in DOMAIN s /\ Tail(s)[n] = s[n + 1]
  BY <1>1
<1>4. 1 \in DOMAIN s
  BY <1>1
<1>5. Range(s) \subseteq {Head(s)} \cup Range(Tail(s))
  BY <1>1, <1>2 DEF Range
<1>6. {Head(s)} \cup Range(Tail(s)) \subseteq Range(s)
  BY <1>1, <1>3, <1>4 DEF Range
<1> QED
  BY <1>1, <1>5, <1>6

LEMMA Put ==
  ASSUME NEW S, NEW s \in Seq(S), IsInjective(s), NEW x \in S, ~ Contains(s, x)
  PROVE  Append(s, x) \in Seq(S) /\ IsInjective(Append(s, x))
<1>1. /\ Append(s, x) \in Seq(S) /\ Len(Append(s, x)) = Len(s) + 1 /\ Len(s) \in Nat
      /\ DOMAIN Append(s, x) = 1..Len(s) + 1 /\ DOMAIN s = 1..Len(s)
      /\ \A n \in 1..Len(s) : Append(s, x)[n] = s[n]
      /\ Append(s, x)[Len(s) + 1] = x
  BY AppendProperties, LenProperties
<1>2. ASSUME NEW m \in 1..Len(s) + 1, NEW n \in 1..Len(s) + 1, Append(s, x)[m] = Append(s, x)[n]
      PROVE  m = n
  BY <1>1, <1>2 DEF IsInjective, Contains
<1> QED
  BY <1>1, <1>2 DEF IsInjective

LEMMA Take ==
  ASSUME NEW S, NEW s \in Seq(S), IsInjective(s), NEW x
  PROVE  RemoveFirst(s, x) \in Seq(S) /\ IsInjective(RemoveFirst(s, x))
<1>1. CASE ~ \E n \in 1..Len(s) : s[n] = x
  BY <1>1 DEF RemoveFirst
<1>2. CASE \E n \in 1..Len(s) : s[n] = x
  <2> DEFINE I == {n \in 1..Len(s) : s[n] = x}
  <2>0. Len(s) \in Nat /\ DOMAIN s = 1..Len(s)
    BY LenProperties
  <2>1. PICK n \in 1..Len(s) : s[n] = x
    BY <1>2
  <2>2. I = {n}
    BY <2>0, <2>1 DEF IsInjective
  <2>3. SelectInSeq(s, LAMBDA v : v = x) = n
    BY <2>0, <2>1, <2>2 DEF SelectInSeq, Min
  <2> DEFINE t == SubSeq(s, 1, n - 1)
             u == SubSeq(s, n + 1, Len(s))
  <2>4. RemoveFirst(s, x) = t \o u
    BY <1>2, <2>3 DEF RemoveFirst, RemoveAt
  <2>5. /\ t \in Seq(S) /\ Len(t) = n - 1 /\ \A m \in 1..n - 1 : t[m] = s[m]
        /\ u \in Seq(S) /\ Len(u) = Len(s) - n /\ \A m \in 1..Len(s) - n : u[m] = s[m + n]
    OBVIOUS
  <2> HIDE DEF t, u
  <2>6. /\ t \o u \in Seq(S) /\ Len(t \o u) = Len(s) - 1
        /\ \A m \in 1..Len(s) - 1 : (t \o u)[m] = IF m < n THEN s[m] ELSE s[m + 1]
    <3>1. /\ t \o u \in Seq(S) /\ Len(t \o u) = Len(t) + Len(u)
          /\ \A m \in 1..Len(t) + Len(u) :
               (t \o u)[m] = IF m <= Len(t) THEN t[m] ELSE u[m - Len(t)]
      BY <2>5, ConcatProperties
    <3> DEFINE w == t \o u
    <3>2. /\ w \in Seq(S) /\ Len(w) = Len(t) + Len(u)
          /\ \A m \in 1..Len(t) + Len(u) : w[m] = IF m <= Len(t) THEN t[m] ELSE u[m - Len(t)]
      BY <3>1
    <3> HIDE DEF w
    <3>3. Len(w) = Len(s) - 1
      BY <2>0, <2>5, <3>2
    <3>4. ASSUME NEW m \in 1..Len(s) - 1
          PROVE  w[m] = IF m < n THEN s[m] ELSE s[m + 1]
      <4>0. m \in 1..Len(t) + Len(u) /\ Len(t) = n - 1
        BY <2>0, <2>5
      <4>1. CASE m < n
        <5>1. m <= Len(t) /\ m \in 1..n - 1
          BY <4>0, <4>1
        <5> QED
          BY <2>5, <3>2, <4>0, <4>1, <5>1
      <4>2. CASE ~ m < n
        <5>1. m - (n - 1) \in 1..Len(s) - n /\ m - (n - 1) + n = m + 1
          BY <2>0, <4>2
        <5>2. ~ m <= Len(t)
          BY <4>0, <4>2
        <5>3. w[m] = u[m - (n - 1)]
          BY <3>2, <4>0, <5>2
        <5> QED
          BY <2>5, <4>2, <5>1, <5>3
      <4> QED
        BY <4>1, <4>2
    <3> QED
      BY <3>2, <3>3, <3>4 DEF w
  <2> DEFINE w == t \o u
  <2>7. IsInjective(w)
    <3>1. \A i, j \in 1..Len(s) : s[i] = s[j] => i = j
      BY <2>0 DEF IsInjective
    <3>2. DOMAIN w = 1..Len(s) - 1
      BY <2>6, LenProperties
    <3>3. \A m \in 1..Len(s) - 1 : w[m] = IF m < n THEN s[m] ELSE s[m + 1]
      BY <2>6
    <3> HIDE DEF w
    <3>4. ASSUME NEW l \in 1..Len(s) - 1, NEW m \in 1..Len(s) - 1, w[l] = w[m]
          PROVE  l = m
      <4>1. PICK i \in {l, l + 1} : w[l] = s[i] /\ i = IF l < n THEN l ELSE l + 1
        BY <3>3
      <4>2. PICK j \in {m, m + 1} : w[m] = s[j] /\ j = IF m < n THEN m ELSE m + 1
        BY <3>3
      <4>3. i \in 1..Len(s) /\ j \in 1..Len(s)
        BY <2>0
      <4>4. i = j
        BY <3>1, <3>4, <4>1, <4>2, <4>3, Zenon
      <4> QED
        BY <2>0, <4>1, <4>2, <4>4
    <3> QED
      BY <3>2, <3>4 DEF IsInjective
  <2> QED
    BY <2>4, <2>6, <2>7
<1> QED
  BY <1>1, <1>2

-----------------------------------------------------------------------------
(***************************************************************************)
(* What a search has still to take, and what it has found.                 *)
(***************************************************************************)

Sorted(s) == \A m, n \in DOMAIN s : m < n => Precedes(box, s[m], s[n])

\* A walk of the whole order: the rest of it.
Walk(rest) == rest \in Seq(ordered) /\ Sorted(rest)

\* The items that a search for a box has come to are found if they overlap.
Scanned ==
  /\ query \in Box
  /\ Walk(outer)
  /\ found = {i \in ordered \ Range(outer) : Overlaps(query, box[i])}

Answered == query \in Box /\ found = {i \in ordered : Overlaps(query, box[i])}

\* A full detection has the pairs of the items it took.
Swept ==
  /\ Walk(outer) /\ tested = ordered \ Range(outer)
  /\ found = {p \in OverlappingPairs(ordered) : p \cap tested # {}}

\* The incremental one took the first k marks, and goes on with the next one
\* unless the detector lacks its item.
Taken(k) ==
  /\ k \in 0..Len(updated)
  /\ tested = {updated[m] : m \in 1..k} /\ tested \subseteq nodes
  /\ \/ Len(outer) = Len(updated) - k /\ \A n \in 1..Len(outer) : outer[n] = updated[n + k]
     \/ outer = <<>> /\ k < Len(updated) /\ updated[k + 1] \notin nodes

FoundAhead ==
  /\ found \subseteq OverlappingPairs(nodes)
  /\ \A m \in DOMAIN updated : \A j \in ordered :
       updated[m] \in ordered \cap tested /\ Precedes(box, updated[m], j)
         /\ {updated[m], j} \in OverlappingPairs(ordered)
         /\ ~ MarkedBefore(j, updated[m]) => {updated[m], j} \in found

Searched ==
  /\ pc = "scan" => Scanned
  /\ pc = "done" => Answered
  /\ pc = "pairs" => IF full THEN Swept ELSE (\E k \in Nat : Taken(k)) /\ FoundAhead
  /\ pc \in {"idle", "pairs"} => query = None
  /\ pc = "idle" => found = {}

Inv == Consistent /\ Searched
-----------------------------------------------------------------------------
(***************************************************************************)
(* The map, the tree and the marks.                                        *)
(***************************************************************************)

LEMMA WalkStarts ==
  ASSUME TypeOK, NEW s \in InOrder(ordered)
  PROVE  Walk(s) /\ Range(s) = ordered /\ s \in Seq(Item)
<1>1. ordered \subseteq Item
  BY DEF TypeOK
<1>2. Cardinality(ordered) \in Nat
  BY <1>1, ItemAssumption, FS_Subset, FS_CardinalityType
<1>3. s \in [1..Cardinality(ordered) -> ordered]
  BY DEF InOrder
<1>4. s \in Seq(ordered)
  BY <1>2, <1>3, SeqDef
<1>5. s \in Seq(Item)
  BY <1>1, <1>4, SeqMonotonic
<1> QED
  BY <1>4, <1>5 DEF InOrder, Walk, Sorted

LEMMA Marking ==
  ASSUME TypeOK, NEW i \in Item
  PROVE  Mark(i) \in Seq(Item) /\ IsInjective(Mark(i))
BY Put DEF Mark, TypeOK

LEMMA NoMarks == <<>> \in Seq(Item) /\ IsInjective(<<>>)
BY EmptySeq DEF IsInjective

\* A proxy enters the tree unless another one there compares equal to it.
LEMMA Placed ==
  ASSUME Consistent, NEW i \in Item, NEW b \in Box, Place(i, b)
  PROVE  /\ box' \in [Item -> Fat \cup {None}] /\ Expand(b) \in Fat
         /\ box'[i] = Expand(b) /\ \A j \in Item \ {i} : box'[j] = box[j]
         /\ \A j \in Item \ {i} : j \in ordered' <=> j \in ordered
         /\ ordered' \subseteq ordered \cup {i}
         /\ i \notin ordered' => \E j \in Item \ {i} : Hash(j) = Hash(i)
<1>1. /\ box' \in [Item -> Fat \cup {None}] /\ Expand(b) \in Fat
      /\ box'[i] = Expand(b) /\ \A j \in Item \ {i} : box'[j] = box[j]
  BY FatBoxes DEF Place, Consistent, TypeOK
<1>2. ordered' = InTree(ordered \ {i}, box', i)
  BY DEF Place
<1>3. ASSUME NEW j \in ordered \ {i}, Ties(box', i, j)
      PROVE  Hash(j) = Hash(i)
  <2>1. j \in Item /\ box'[j] \in Fat
    BY <1>1 DEF Consistent, TypeOK
  <2> QED
    BY <1>1, <1>3, <2>1, TiesShareHash
<1>4. ordered \subseteq Item
  BY DEF Consistent, TypeOK
<1>5. ordered' = ordered \ {i} \/ ordered' = (ordered \ {i}) \cup {i}
  BY <1>2 DEF InTree
<1>6. i \notin ordered' => \E j \in ordered \ {i} : Ties(box', i, j)
  BY <1>2 DEF InTree
<1> QED
  BY <1>1, <1>3, <1>4, <1>5, <1>6

LEMMA ConsistentStep ==
  ASSUME Consistent, [Next]_vars
  PROVE  Consistent'
<1>0. TypeOK
  BY DEF Consistent
<1>1. CASE UNCHANGED vars
  BY <1>1 DEF vars, Consistent, TypeOK, LostOnlyByTie, nodes
<1>2. ASSUME NEW i \in Item, NEW b \in Box, Place(i, b)
      PROVE  Consistent'
  <2>1. LostOnlyByTie'
    BY <1>2, Placed, FatBoxes DEF Consistent, LostOnlyByTie, nodes
  <2>2. ordered' \subseteq {j \in Item : box'[j] # None}
    <3>1. ordered \subseteq {j \in Item : box[j] # None} /\ None \notin Fat
      BY <1>0, FatBoxes DEF TypeOK
    <3>2. /\ Expand(b) \in Fat /\ box'[i] = Expand(b) /\ ordered' \subseteq ordered \cup {i}
          /\ \A j \in Item \ {i} : box'[j] = box[j]
      BY <1>2, Placed
    <3> QED
      BY <3>1, <3>2
  <2>3. updated' \in Seq(Item) /\ IsInjective(updated')
    BY <1>0, <1>2, Marking DEF Place
  <2> QED
    BY <1>0, <1>2, <2>1, <2>2, <2>3, Placed DEF Place, Consistent, TypeOK, search
<1>3. ASSUME NEW i \in Item, RemoveItem(i)
      PROVE  Consistent'
  <2>1. updated' \in Seq(Item) /\ IsInjective(updated')
    BY <1>0, <1>3, Take DEF RemoveItem, TypeOK
  <2>2. box' \in [Item -> Fat \cup {None}]
    BY <1>0, <1>3 DEF RemoveItem, TypeOK
  <2>3. ordered' \subseteq {j \in Item : box'[j] # None}
    BY <1>0, <1>3 DEF RemoveItem, TypeOK
  <2>4. LostOnlyByTie'
    BY <1>0, <1>3 DEF RemoveItem, TypeOK, Consistent, LostOnlyByTie, nodes
  <2> QED
    BY <1>0, <1>3, <2>1, <2>2, <2>3, <2>4 DEF RemoveItem, Consistent, TypeOK, search
<1>4. CASE Clear
  BY <1>0, <1>4, NoMarks DEF Clear, Consistent, TypeOK, LostOnlyByTie, nodes, search
<1>5. ASSUME NEW i \in Item, SetUpdated(i)
      PROVE  Consistent'
  BY <1>0, <1>5, Marking DEF SetUpdated, Consistent, TypeOK, LostOnlyByTie, nodes, search
<1>6. CASE ClearUpdates
  BY <1>0, <1>6, NoMarks DEF ClearUpdates, Consistent, TypeOK, LostOnlyByTie, nodes, search
<1>7. ASSUME NEW flag \in BOOLEAN, SetUpdateTrackingEnabled(flag)
      PROVE  Consistent'
  BY <1>0, <1>7, NoMarks DEF SetUpdateTrackingEnabled, Consistent, TypeOK, LostOnlyByTie, nodes,
    search
<1>8. ASSUME NEW flag \in BOOLEAN, BeginPairs(flag)
      PROVE  Consistent'
  <2>1. outer' \in Seq(Item)
    BY <1>0, <1>8, WalkStarts DEF BeginPairs, TypeOK
  <2>2. full' \in BOOLEAN
    BY <1>0, <1>8 DEF BeginPairs, TypeOK
  <2> QED
    BY <1>0, <1>8, <2>1, <2>2 DEF BeginPairs, Consistent, TypeOK, LostOnlyByTie, nodes, index
<1>9. ASSUME NEW b \in Box, BeginQuery(b)
      PROVE  Consistent'
  <2>1. outer' \in Seq(Item)
    BY <1>0, <1>9, WalkStarts DEF BeginQuery
  <2> QED
    BY <1>0, <1>9, <2>1 DEF BeginQuery, Consistent, TypeOK, LostOnlyByTie, nodes, index
<1>10. CASE Sweep
  <2> DEFINE i == Head(outer)
  <2>1. i \in Item /\ Tail(outer) \in Seq(Item) /\ <<>> \in Seq(Item)
    BY <1>0, <1>10, Pop, EmptySeq DEF Sweep, TypeOK
  <2>2. {{i, j} : j \in Partners(i)} \subseteq SUBSET Item
    BY <1>0, <2>1 DEF Partners, Considered, From, TypeOK
  <2>3. outer' \in Seq(Item) /\ tested' \subseteq Item /\ found' \subseteq SUBSET Item /\ pc' = "pairs"
    BY <1>0, <1>10, <2>1, <2>2 DEF Sweep, TypeOK
  <2> QED
    BY <1>0, <1>10, <2>3 DEF Sweep, Consistent, TypeOK, LostOnlyByTie, nodes, index
<1>11. CASE EndPairs
  BY <1>0, <1>11 DEF EndPairs, Consistent, TypeOK, LostOnlyByTie, nodes, index
<1>12. CASE Scan
  <2>1. outer # <<>> => Head(outer) \in Item /\ Tail(outer) \in Seq(Item)
    BY <1>0, Pop DEF TypeOK
  <2>2. outer' \in Seq(Item) /\ found' \subseteq Item /\ pc' \in {"scan", "done"}
    BY <1>0, <1>12, <2>1, EmptySeq DEF Scan, TypeOK
  <2> QED
    BY <1>0, <1>12, <2>2 DEF Scan, Consistent, TypeOK, LostOnlyByTie, nodes, index
<1>13. CASE EndQuery
  BY <1>0, <1>13 DEF EndQuery, Consistent, TypeOK, LostOnlyByTie, nodes, index
<1> QED
  BY <1>1, <1>2, <1>3, <1>4, <1>5, <1>6, <1>7, <1>8, <1>9, <1>10, <1>11, <1>12, <1>13
    DEF Next, Operation, Search

LEMMA ConsistentInit ==
  ASSUME Init
  PROVE  Consistent
BY NoMarks DEF Init, Consistent, TypeOK, LostOnlyByTie, nodes

\* The map, the tree and the marks agree after any sequence of calls, but for
\* items the tree refused because another one has their hash code.
THEOREM MapAndTreeAgree == Spec => []Consistent
<1>1. Consistent /\ [Next]_vars => Consistent'
  BY ConsistentStep
<1> QED
  BY <1>1, ConsistentInit, PTL DEF Spec
-----------------------------------------------------------------------------
(***************************************************************************)
(* The searches.                                                           *)
(***************************************************************************)

\* A walk gives its first item up, and the others come after it.
LEMMA WalkOn ==
  ASSUME Consistent, NEW s, Walk(s), s # <<>>
  PROVE  /\ Walk(Tail(s)) /\ Head(s) \in ordered /\ Head(s) \notin Range(Tail(s))
         /\ Range(s) = {Head(s)} \cup Range(Tail(s))
         /\ \A j \in Range(Tail(s)) : j \in ordered /\ Precedes(box, Head(s), j)
<1>1. s \in Seq(ordered) /\ ordered \subseteq Item /\ \A i \in ordered : box[i] \in Fat
  BY FatBoxes DEF Walk, Consistent, TypeOK
<1>2. /\ Head(s) = s[1] /\ Head(s) \in ordered /\ Len(s) \in Nat \ {0} /\ DOMAIN s = 1..Len(s)
      /\ Tail(s) \in Seq(ordered) /\ DOMAIN Tail(s) = 1..Len(s) - 1
      /\ \A n \in 1..Len(s) - 1 : Tail(s)[n] = s[n + 1]
      /\ Range(s) = {Head(s)} \cup Range(Tail(s))
  BY <1>1, Pop
<1>3. \A n \in DOMAIN Tail(s) : /\ Tail(s)[n] \in ordered
                                /\ 1 \in DOMAIN s /\ n + 1 \in DOMAIN s /\ 1 < n + 1
                                /\ Tail(s)[n] = s[n + 1]
  BY <1>2, ElementOfSeq
<1>4. \A n \in DOMAIN Tail(s) : Precedes(box, Head(s), Tail(s)[n])
  BY <1>2, <1>3 DEF Walk, Sorted
<1>5. Sorted(Tail(s))
  <2> SUFFICES ASSUME NEW m \in DOMAIN Tail(s), NEW n \in DOMAIN Tail(s), m < n
               PROVE  Precedes(box, Tail(s)[m], Tail(s)[n])
    BY DEF Sorted
  <2>1. m + 1 < n + 1
    BY <1>2
  <2> QED
    BY <1>3, <2>1 DEF Walk, Sorted
<1>6. \A j \in Range(Tail(s)) : j \in ordered /\ Precedes(box, Head(s), j)
  BY <1>3, <1>4 DEF Range
<1>7. ~ Precedes(box, Head(s), Head(s))
  BY <1>1, <1>2, ByMinX
<1> QED
  BY <1>2, <1>5, <1>6, <1>7 DEF Walk

\* A partner is an item considered that overlaps: the walk never stops before
\* one.
LEMMA PartnersAreExact ==
  ASSUME Consistent, NEW i \in nodes
  PROVE  Partners(i) = {j \in Considered(i) : Overlaps(box[i], box[j])}
<1>1. \A j \in ordered : j \in Item /\ box[j] \in Fat
  BY FatBoxes DEF Consistent, TypeOK
<1>2. Considered(i) \subseteq ordered
  BY DEF Considered, From
<1>3. ASSUME NEW j \in Considered(i), Overlaps(box[i], box[j]),
             NEW k \in Considered(i), Precedes(box, k, j)
      PROVE  ~ MinX(box[k]) > MaxX(box[i])
  <2>1. MinX(box[k]) <= MinX(box[j])
    BY <1>1, <1>2, <1>3, ByMinX
  <2>2. MinX(box[j]) <= MaxX(box[i])
    BY <1>3, OverlapsX
  <2>3. MinX(box[k]) \in Int /\ MinX(box[j]) \in Int /\ MaxX(box[i]) \in Int
    BY <1>1, <1>2, FatBoxes DEF Consistent, TypeOK, nodes, MinX, MaxX
  <2> QED
    BY <2>1, <2>2, <2>3
<1> QED
  BY <1>3 DEF Partners

LEMMA WalkStays ==
  ASSUME UNCHANGED <<box, ordered>>, NEW s, Walk(s), outer' = s
  PROVE  Walk(outer)'
<1>1. \A i, j : Precedes(box, i, j)' = Precedes(box, i, j)
  BY DEF Precedes, SortKey
<1> QED
  BY <1>1 DEF Walk, Sorted

LEMMA ScanStep ==
  ASSUME Consistent, Scanned, pc = "scan", Scan
  PROVE  IF pc' = "done" THEN Answered' ELSE pc' = "scan" /\ Scanned'
<1> DEFINE h == Head(outer)
<1>0. /\ UNCHANGED <<query, box, ordered>> /\ query \in Box /\ MaxX(query) \in Int
      /\ \A j \in ordered : j \in Item /\ box[j] \in Fat /\ MinX(box[j]) \in Int
  BY FatBoxes DEF Scan, Scanned, Consistent, TypeOK, index, MinX, MaxX
<1>1. CASE outer = <<>>
  <2>1. Range(outer) = {}
    BY <1>1 DEF Range
  <2> QED
    BY <1>0, <1>1, <2>1 DEF Scan, Scanned, Answered
<1>2. ASSUME outer # <<>>
      PROVE  /\ h \in ordered /\ Walk(Tail(outer)) /\ h \notin Range(Tail(outer))
             /\ Range(outer) = {h} \cup Range(Tail(outer))
             /\ \A j \in Range(Tail(outer)) : j \in ordered /\ Precedes(box, h, j)
  BY <1>2, WalkOn DEF Scanned
<1>3. CASE outer # <<>> /\ Beyond(h)
  <2>1. \A j \in Range(outer) : MinX(box[h]) <= MinX(box[j])
    BY <1>0, <1>2, <1>3, ByMinX
  <2>2. \A j \in Range(outer) : ~ Overlaps(query, box[j])
    BY <1>0, <1>2, <1>3, <2>1, OverlapsX DEF Beyond
  <2>3. pc' = "done" /\ found' = found
    BY <1>3 DEF Scan
  <2> QED
    BY <1>0, <2>2, <2>3 DEF Scanned, Answered
<1>4. CASE outer # <<>> /\ ~ Beyond(h)
  <2>1. /\ found' = IF Overlaps(query, box[h]) THEN found \cup {h} ELSE found
        /\ outer' = Tail(outer) /\ pc' = "scan"
    BY <1>4 DEF Scan
  <2>2. found' = {j \in ordered \ Range(Tail(outer)) : Overlaps(query, box[j])}
    BY <1>2, <1>4, <2>1 DEF Scanned
  <2>3. Walk(outer)'
    BY <1>0, <1>2, <1>4, <2>1, WalkStays
  <2> QED
    BY <1>0, <2>1, <2>2, <2>3 DEF Scanned
<1> QED
  BY <1>1, <1>3, <1>4

LEMMA PairOf ==
  ASSUME NEW S \in SUBSET Item, NEW p \in OverlappingPairs(S), NEW i \in p
  PROVE  \E j \in S : p = {i, j} /\ Allowed(i, j) /\ Overlaps(box[i], box[j])
<1>1. PICK a \in p, b \in p : p = {a, b} /\ Allowed(a, b) /\ Overlaps(box[a], box[b])
  BY DEF OverlappingPairs
<1>2. p \in SUBSET S
  BY DEF OverlappingPairs
<1>3. Allowed(b, a) /\ Overlaps(box[b], box[a])
  BY <1>1, <1>2, ItemAssumption DEF Overlaps
<1> QED
  BY <1>1, <1>2, <1>3

LEMMA PairIn ==
  ASSUME NEW S, NEW i \in S, NEW j \in S, Allowed(i, j), Overlaps(box[i], box[j])
  PROVE  {i, j} \in OverlappingPairs(S)
BY DEF OverlappingPairs

\* What the detection does with the item it has come to.
LEMMA SweepDoes ==
  ASSUME Consistent, Sweep, NEW i \in nodes, i = Head(outer)
  PROVE  /\ outer' = Tail(outer) /\ tested' = tested \cup {i}
         /\ found' = found \cup
              {{i, j} : j \in {k \in Considered(i) : Overlaps(box[i], box[k])}}
BY PartnersAreExact DEF Sweep

LEMMA SweptStep ==
  ASSUME Consistent, Swept, Sweep
  PROVE  Swept'
<1> DEFINE i == Head(outer)
           rest == Tail(outer)
<1>0. /\ outer # <<>> /\ UNCHANGED <<box, ordered>>
      /\ ordered \subseteq Item /\ ordered \subseteq nodes
  BY DEF Sweep, index, Consistent, TypeOK, nodes
<1>1. /\ Walk(rest) /\ i \in ordered /\ i \notin Range(rest)
      /\ Range(outer) = {i} \cup Range(rest)
      /\ \A j \in Range(rest) : j \in ordered /\ Precedes(box, i, j)
  BY <1>0, WalkOn DEF Swept
<1>2. Considered(i) = {j \in ordered \ tested : Allowed(i, j)}
  BY <1>1 DEF Considered, From, Swept
<1>3. /\ outer' = rest /\ tested' = tested \cup {i}
      /\ found' = found \cup {{i, j} : j \in {k \in Considered(i) : Overlaps(box[i], box[k])}}
  BY <1>0, <1>1, SweepDoes
<1>4. Walk(outer)'
  BY <1>0, <1>1, <1>3, WalkStays
<1>5. tested' = ordered \ Range(rest)
  BY <1>1, <1>3 DEF Swept
<1>6. ASSUME NEW p \in found'
      PROVE  p \in OverlappingPairs(ordered) /\ p \cap tested' # {}
  <2>1. CASE p \in found
    BY <1>3, <2>1 DEF Swept
  <2>2. CASE p \notin found
    <3>1. PICK j \in Considered(i) : p = {i, j} /\ Overlaps(box[i], box[j])
      BY <1>3, <1>6, <2>2
    <3>2. p \in OverlappingPairs(ordered)
      BY <1>1, <1>2, <3>1, PairIn
    <3> QED
      BY <1>3, <3>1, <3>2
  <2> QED
    BY <2>1, <2>2
<1>7. ASSUME NEW p \in OverlappingPairs(ordered), p \cap tested' # {}
      PROVE  p \in found'
  <2>1. CASE p \cap tested # {}
    BY <1>3, <2>1 DEF Swept
  <2>2. CASE p \cap tested = {}
    <3>1. i \in p
      BY <1>3, <1>7, <2>2
    <3>2. PICK j \in ordered : p = {i, j} /\ Allowed(i, j) /\ Overlaps(box[i], box[j])
      BY <1>0, <3>1, PairOf
    <3>3. j \notin tested
      BY <2>2, <3>2
    <3> QED
      BY <1>2, <1>3, <3>2, <3>3
  <2> QED
    BY <2>1, <2>2
<1>8. found' = {p \in OverlappingPairs(ordered) : p \cap tested' # {}}
  BY <1>6, <1>7
<1>9. OverlappingPairs(ordered)' = OverlappingPairs(ordered)
  BY <1>0 DEF OverlappingPairs
<1> QED
  BY <1>0, <1>3, <1>4, <1>5, <1>8, <1>9 DEF Swept
LEMMA PairWith ==
  ASSUME NEW i \in Item, NEW j \in Item, {i, j} \in OverlappingPairs(ordered),
         ordered \subseteq Item
  PROVE  Allowed(i, j) /\ Overlaps(box[i], box[j])
<1>1. PICK l \in ordered : {i, j} = {i, l} /\ Allowed(i, l) /\ Overlaps(box[i], box[l])
  BY PairOf
<1>2. l # i
  BY <1>1, ItemAssumption
<1> QED
  BY <1>1, <1>2

LEMMA TakenStep ==
  ASSUME Consistent, NEW k \in Nat, Taken(k), FoundAhead, Sweep
  PROVE  (Taken(k) \/ Taken(k + 1))' /\ FoundAhead'
<1> DEFINE i == Head(outer)
<1>0. /\ UNCHANGED <<box, ordered, updated>> /\ outer # <<>>
      /\ ordered \subseteq Item /\ ordered \subseteq nodes /\ nodes' = nodes
      /\ updated \in Seq(Item) /\ outer \in Seq(Item) /\ Len(updated) \in Nat
      /\ DOMAIN updated = 1..Len(updated)
  BY LenProperties DEF Sweep, index, Consistent, TypeOK, nodes
<1>1. /\ i = outer[1] /\ Len(outer) \in Nat \ {0} /\ Tail(outer) \in Seq(Item)
      /\ Len(Tail(outer)) = Len(outer) - 1
      /\ \A n \in 1..Len(outer) - 1 : Tail(outer)[n] = outer[n + 1]
  BY <1>0, Pop
<1>2. /\ k \in 0..Len(updated) /\ Len(outer) = Len(updated) - k
      /\ \A n \in 1..Len(outer) : outer[n] = updated[n + k]
      /\ tested = {updated[m] : m \in 1..k} /\ tested \subseteq nodes
  BY <1>0 DEF Taken
<1>3. k + 1 \in 1..Len(updated) /\ i = updated[k + 1]
  <2>1. Len(updated) \in Nat /\ Len(outer) \in Nat \ {0} /\ Len(outer) = Len(updated) - k
    BY <1>0, <1>1, <1>2
  <2>2. 1 \in 1..Len(outer) /\ k + 1 \in 1..Len(updated) /\ 1 + k = k + 1
    BY <2>1
  <2>3. outer[1] = updated[1 + k]
    BY <1>2, <2>2
  <2> QED
    BY <1>1, <2>2, <2>3
<1>4. OverlappingPairs(ordered)' = OverlappingPairs(ordered)
        /\ OverlappingPairs(nodes)' = OverlappingPairs(nodes)
        /\ (\A a, b : Precedes(box, a, b)' = Precedes(box, a, b))
        /\ (\A a, b : MarkedBefore(a, b)' = MarkedBefore(a, b))
  BY <1>0 DEF OverlappingPairs, Precedes, SortKey, MarkedBefore
<1>5. CASE i \notin nodes
  <2>1. outer' = <<>> /\ UNCHANGED <<tested, found>>
    BY <1>5 DEF Sweep
  <2>2. Taken(k)'
    <3>1. k < Len(updated) /\ updated[k + 1] \notin nodes
      BY <1>0, <1>3, <1>5
    <3> QED
      BY <1>0, <1>2, <2>1, <3>1 DEF Taken
  <2>3. FoundAhead'
    BY <1>0, <1>4, <2>1 DEF FoundAhead
  <2> QED
    BY <2>2, <2>3
<1>6. CASE i \in nodes
  <2>1. /\ outer' = Tail(outer) /\ tested' = tested \cup {i}
        /\ found' = found \cup
             {{i, j} : j \in {l \in Considered(i) : Overlaps(box[i], box[l])}}
    BY <1>6, SweepDoes
  <2>2. Taken(k + 1)'
    <3>1. tested' = {updated[m] : m \in 1..k + 1}
      <4>1. 1..k + 1 = 1..k \cup {k + 1}
        BY <1>2
      <4> QED
        BY <1>2, <1>3, <2>1, <4>1
    <3>2. Len(outer') = Len(updated) - (k + 1)
      <4>1. Len(Tail(outer)) = Len(updated) - k - 1
        BY <1>1, <1>2
      <4>2. Len(updated) - k - 1 = Len(updated) - (k + 1)
        BY <1>0
      <4> QED
        BY <2>1, <4>1, <4>2
    <3>3. ASSUME NEW n \in 1..Len(outer')
          PROVE  outer'[n] = updated[n + (k + 1)]
      <4>1. n \in 1..Len(outer) - 1 /\ n + 1 \in 1..Len(outer) /\ n + 1 + k = n + (k + 1)
        <5>1. Len(outer') = Len(outer) - 1 /\ Len(outer) \in Nat
          BY <1>1, <2>1
        <5> QED
          BY <5>1
      <4>2. outer'[n] = outer[n + 1]
        BY <1>1, <2>1, <4>1
      <4> QED
        BY <1>2, <4>1, <4>2
    <3>4. k + 1 \in 0..Len(updated)
      BY <1>3
    <3>5. tested' \subseteq nodes
      BY <1>2, <1>6, <2>1
    <3> QED
      BY <1>0, <3>1, <3>2, <3>3, <3>4, <3>5 DEF Taken
  <2>3. found' \subseteq OverlappingPairs(nodes)
    <3> SUFFICES ASSUME NEW p \in found', p \notin found
                 PROVE  p \in OverlappingPairs(nodes)
      BY DEF FoundAhead
    <3>1. PICK j \in Considered(i) : p = {i, j} /\ Overlaps(box[i], box[j])
      BY <2>1
    <3> QED
      BY <1>0, <1>6, <3>1, PairIn DEF Considered, From
  <2>4. ASSUME NEW m \in DOMAIN updated, NEW j \in ordered,
               updated[m] \in ordered \cap tested', Precedes(box, updated[m], j),
               {updated[m], j} \in OverlappingPairs(ordered), ~ MarkedBefore(j, updated[m])
        PROVE  {updated[m], j} \in found'
    <3>1. CASE updated[m] \in tested
      BY <2>1, <2>4, <3>1 DEF FoundAhead
    <3>2. CASE updated[m] = i
      <4>1. i \in Item /\ j \in Item
        BY <1>0, <2>4, <3>2
      <4>2. Allowed(i, j) /\ Overlaps(box[i], box[j])
        BY <1>0, <2>4, <3>2, <4>1, PairWith
      <4>3. ASSUME NEW l \in 1..k
            PROVE  j # updated[l]
        <5>1. l \in DOMAIN updated /\ k + 1 \in DOMAIN updated /\ l < k + 1
          BY <1>0, <1>2, <1>3
        <5> QED
          BY <1>3, <2>4, <3>2, <5>1 DEF MarkedBefore
      <4>4. j \in Considered(i)
        BY <1>2, <2>4, <3>2, <4>2, <4>3 DEF Considered, From
      <4> QED
        BY <2>1, <3>2, <4>2, <4>4
    <3> QED
      BY <2>1, <2>4, <3>1, <3>2
  <2>5. FoundAhead'
    BY <1>0, <1>4, <2>3, <2>4 DEF FoundAhead
  <2> QED
    BY <2>2, <2>5
<1> QED
  BY <1>5, <1>6

LEMMA SearchedStep ==
  ASSUME Inv, [Next]_vars
  PROVE  Searched'
<1>0. Consistent /\ TypeOK /\ Searched
  BY DEF Inv, Consistent
<1>1. CASE UNCHANGED vars
  <2>1. \A i, j : Precedes(box, i, j)' = Precedes(box, i, j)
                  /\ MarkedBefore(i, j)' = MarkedBefore(i, j)
    BY <1>1 DEF vars, Precedes, SortKey, MarkedBefore
  <2> QED
    <3>1. /\ Walk(outer)' = Walk(outer) /\ nodes' = nodes
          /\ OverlappingPairs(ordered)' = OverlappingPairs(ordered)
          /\ OverlappingPairs(nodes)' = OverlappingPairs(nodes)
      BY <1>1, <2>1 DEF vars, Walk, Sorted, OverlappingPairs, nodes
    <3>2. (\E k \in Nat : Taken(k))' = (\E k \in Nat : Taken(k))
      BY <1>1, <3>1 DEF vars, Taken
    <3>3. FoundAhead' = FoundAhead
      BY <1>1, <2>1, <3>1 DEF vars, FoundAhead
    <3>4. Swept' = Swept /\ Scanned' = Scanned /\ Answered' = Answered
      BY <1>1, <3>1 DEF vars, Swept, Scanned, Answered
    <3> QED
      BY <1>0, <1>1, <3>2, <3>3, <3>4 DEF vars, Searched
<1>2. ASSUME pc = "idle", UNCHANGED search
      PROVE  Searched'
  BY <1>0, <1>2 DEF Searched, search
<1>3. ASSUME NEW flag \in BOOLEAN, BeginPairs(flag)
      PROVE  Searched'
  <2>1. /\ pc' = "pairs" /\ tested' = {} /\ found' = {} /\ query' = None
        /\ UNCHANGED <<box, ordered, updated>>
    BY <1>0, <1>3 DEF BeginPairs, Searched, index
  <2>2. CASE full'
    <3>1. PICK s \in InOrder(ordered) : outer' = s
      BY <1>3, <2>2 DEF BeginPairs
    <3>2. Walk(outer)' /\ Range(outer') = ordered
      BY <1>0, <2>1, <3>1, WalkStarts, WalkStays
    <3> QED
      BY <2>1, <2>2, <3>2 DEF Searched, Swept
  <2>3. CASE ~ full'
    <3>1. outer' = updated
      BY <1>3, <2>3 DEF BeginPairs
    <3>2. Len(updated) \in Nat
      BY <1>0, LenProperties DEF TypeOK
    <3>3. Taken(0)'
      BY <2>1, <3>1, <3>2 DEF Taken
    <3>4. FoundAhead'
      BY <2>1 DEF FoundAhead
    <3> QED
      BY <2>1, <2>3, <3>3, <3>4 DEF Searched
  <2> QED
    BY <2>2, <2>3
<1>4. ASSUME NEW b \in Box, BeginQuery(b)
      PROVE  Searched'
  <2>1. /\ pc' = "scan" /\ query' = b /\ found' = {} /\ outer' \in InOrder(ordered)
        /\ UNCHANGED <<box, ordered>>
    BY <1>4 DEF BeginQuery, index
  <2>2. Walk(outer)' /\ Range(outer') = ordered
    BY <1>0, <2>1, WalkStarts, WalkStays
  <2> QED
    BY <2>1, <2>2 DEF Searched, Scanned
<1>5. CASE Sweep
  <2>1. pc = "pairs" /\ UNCHANGED <<pc, full, query>>
    BY <1>5 DEF Sweep
  <2>2. CASE full
    BY <1>0, <1>5, <2>1, <2>2, SweptStep DEF Searched
  <2>3. CASE ~ full
    <3>1. PICK k \in Nat : Taken(k)
      BY <1>0, <2>1, <2>3 DEF Searched
    <3>2. (Taken(k) \/ Taken(k + 1))' /\ FoundAhead' /\ k + 1 \in Nat
      BY <1>0, <1>5, <2>1, <2>3, <3>1, TakenStep DEF Searched
    <3> QED
      BY <1>0, <2>1, <2>3, <3>2 DEF Searched
  <2> QED
    BY <2>2, <2>3
<1>6. CASE EndPairs
  BY <1>0, <1>6 DEF EndPairs, Searched
<1>7. CASE Scan
  <2>1. pc = "scan" /\ Scanned
    BY <1>0, <1>7 DEF Scan, Searched
  <2>2. IF pc' = "done" THEN Answered' ELSE pc' = "scan" /\ Scanned'
    BY <1>0, <1>7, <2>1, ScanStep
  <2> QED
    BY <2>2 DEF Searched
<1>8. CASE EndQuery
  BY <1>8 DEF EndQuery, Searched
<1> QED
  BY <1>1, <1>2, <1>3, <1>4, <1>5, <1>6, <1>7, <1>8
    DEF Next, Operation, Search, Place, RemoveItem, Clear, SetUpdated, ClearUpdates,
      SetUpdateTrackingEnabled

LEMMA Inductive ==
  /\ Init => Inv
  /\ Inv /\ [Next]_vars => Inv'
<1>1. Init => Inv
  BY ConsistentInit DEF Inv, Init, Searched
<1>2. Inv /\ [Next]_vars => Inv'
  BY ConsistentStep, SearchedStep DEF Inv
<1> QED
  BY <1>1, <1>2

\* A full detection finds exactly the overlapping pairs although it looks only
\* ahead and stops early, and the incremental one finds those of the marks it
\* gets to, but for the items that come before them in the order.
THEOREM DetectionFindsPairs == Spec => []PairsAreFound
<1>1. Inv => PairsAreFound
  <2> SUFFICES ASSUME Inv, PairsDone
               PROVE  /\ full => found = OverlappingPairs(ordered)
                      /\ ~ full => IncrementalFindsAhead
    BY DEF PairsAreFound, FullDetectionIsExact, IncrementalFindsAhead
  <2>1. pc = "pairs" /\ outer = <<>> /\ Consistent /\ TypeOK /\ Searched
    BY DEF Inv, PairsDone, Consistent
  <2>2. CASE full
    <3>1. Swept /\ Range(outer) = {}
      BY <2>1, <2>2 DEF Searched, Range
    <3>2. tested = ordered
      BY <3>1 DEF Swept
    <3>3. \A p \in OverlappingPairs(ordered) : p \cap ordered # {}
      BY DEF OverlappingPairs
    <3> QED
      BY <2>2, <3>1, <3>2, <3>3 DEF Swept
  <2>3. CASE ~ full
    <3>1. PICK k \in Nat : Taken(k)
      BY <2>1, <2>3 DEF Searched
    <3>2. FoundAhead
      BY <2>1, <2>3 DEF Searched
    <3>3. DOMAIN updated = 1..Len(updated) /\ Len(updated) \in Nat
      BY <2>1, LenProperties DEF TypeOK
    <3>4. \/ k = Len(updated)
          \/ k < Len(updated) /\ updated[k + 1] \notin nodes
      <4>1. k \in 0..Len(updated) /\ (Len(outer) = Len(updated) - k
              \/ (k < Len(updated) /\ updated[k + 1] \notin nodes))
        BY <3>1 DEF Taken
      <4>2. Len(outer) = 0
        BY <2>1
      <4> QED
        <5>1. \A l, m \in Nat : 0 = l - m => m = l
          OBVIOUS
        <5> QED
          BY <3>1, <3>3, <4>1, <4>2, <5>1
    <3>5. ASSUME NEW n \in DOMAIN updated, \A m \in 1..n : updated[m] \in nodes
          PROVE  updated[n] \in tested
      <4>1. n \in 1..k
        <5>1. CASE k = Len(updated)
          BY <3>3, <5>1
        <5>2. CASE k < Len(updated) /\ updated[k + 1] \notin nodes
          <6>1. k + 1 \notin 1..n
            BY <3>5, <5>2
          <6> QED
            BY <3>3, <6>1
        <5> QED
          BY <3>4, <5>1, <5>2
      <4> QED
        BY <3>1, <4>1 DEF Taken
    <3> QED
      <4>1. ASSUME NEW i \in ordered, NEW j \in ordered, Reached(i), Precedes(box, i, j),
                   {i, j} \in OverlappingPairs(ordered), ~ MarkedBefore(j, i)
            PROVE  {i, j} \in found
        <5>1. PICK n \in DOMAIN updated : updated[n] = i /\ i \in tested
          BY <3>5, <4>1 DEF Reached
        <5> QED
          BY <3>2, <4>1, <5>1 DEF FoundAhead
      <4>2. found \subseteq OverlappingPairs(nodes)
        BY <3>2 DEF FoundAhead
      <4> QED
        BY <2>3, <4>1, <4>2 DEF IncrementalFindsAhead
  <2> QED
    BY <2>2, <2>3
<1> QED
  BY <1>1, Inductive, PTL DEF Spec
-----------------------------------------------------------------------------
(***************************************************************************)
(* The promise of a detector.                                              *)
(***************************************************************************)

\* What the promise sees of the detector.
Held == [i \in Item |-> IF i \in ordered THEN box[i] ELSE None]
Phase == CASE pc = "scan" -> "asked" [] pc = "done" -> "answered" [] OTHER -> "idle"
Answer == IF pc = "done" THEN found ELSE {}

LEMMA NotAsked ==
  ASSUME pc = "idle", UNCHANGED search
  PROVE  Promise!Unasked
BY DEF search, Promise!Unasked

LEMMA PlaceKeepsPromise ==
  ASSUME Inv, NEW i \in Item, NEW b \in Box, Place(i, b)
  PROVE  Promise!Next
<1>1. /\ \A j \in Item \ {i} : box'[j] = box[j] /\ (j \in ordered' <=> j \in ordered)
      /\ box'[i] = Expand(b) /\ Expand(b) \in Fat \cup Box
  BY Placed DEF Inv
<1>2. pc = "idle" /\ UNCHANGED search
  BY DEF Place
<1>3. CASE i \in ordered'
  <2>1. Held' = [Held EXCEPT ![i] = Expand(b)]
    BY <1>1, <1>3 DEF Held
  <2>2. Promise!Place(i, Expand(b))
    BY <1>2, <2>1, NotAsked DEF Promise!Place, Held
  <2> QED
    BY <1>1, <2>2 DEF Promise!Next
<1>4. CASE i \notin ordered'
  <2>1. Held' = [Held EXCEPT ![i] = None]
    BY <1>1, <1>4 DEF Held
  <2>2. Promise!Remove(i)
    BY <1>2, <2>1, NotAsked DEF Promise!Remove, Held
  <2> QED
    BY <2>2 DEF Promise!Next
<1> QED
  BY <1>3, <1>4

LEMMA StepKeepsPromise ==
  ASSUME Inv, [Next]_vars
  PROVE  [Promise!Next]_(Promise!vars)
<1>1. ASSUME UNCHANGED <<box, ordered, query>>, Phase' = Phase, Answer' = Answer
      PROVE  UNCHANGED Promise!vars
  BY <1>1 DEF Promise!vars, Phase, Answer
<1>2. CASE UNCHANGED vars
  BY <1>1, <1>2 DEF vars, Phase, Answer
<1>3. CASE \E i \in Item, b \in Box : Place(i, b)
  BY <1>3, PlaceKeepsPromise
<1>4. ASSUME NEW i \in Item, RemoveItem(i)
      PROVE  Promise!Next
  <2>1. Held' = [Held EXCEPT ![i] = None]
    BY <1>4 DEF RemoveItem, Held, Inv, Consistent, TypeOK
  <2>2. Promise!Remove(i)
    BY <1>4, <2>1, NotAsked DEF RemoveItem, Promise!Remove, Held
  <2> QED
    BY <2>2 DEF Promise!Next
<1>5. CASE Clear
  <2>1. Promise!Clear
    BY <1>5, NotAsked DEF Clear, Promise!Clear
  <2> QED
    BY <2>1 DEF Promise!Next
<1>6. CASE \/ \E i \in Item : SetUpdated(i)
           \/ ClearUpdates
           \/ \E flag \in BOOLEAN : SetUpdateTrackingEnabled(flag)
  BY <1>1, <1>6 DEF SetUpdated, ClearUpdates, SetUpdateTrackingEnabled, search, Phase, Answer
<1>7. CASE (\E flag \in BOOLEAN : BeginPairs(flag)) \/ Sweep \/ EndPairs
  BY <1>1, <1>7 DEF BeginPairs, Sweep, EndPairs, index, Phase, Answer
<1>8. ASSUME NEW b \in Box, BeginQuery(b)
      PROVE  Promise!Next
  <2>1. Promise!Ask(b)
    BY <1>8 DEF BeginQuery, index, Promise!Ask
  <2> QED
    BY <2>1 DEF Promise!Next
<1>9. CASE Scan
  <2>1. pc = "scan" /\ Scanned /\ UNCHANGED <<box, ordered, query>>
    BY <1>9 DEF Scan, index, Inv, Searched
  <2>2. CASE pc' = "done"
    <3>1. found' = {i \in ordered : Overlaps(query, box[i])}
      BY <1>9, <2>1, <2>2, ScanStep DEF Answered, Inv
    <3>2. ordered \subseteq Item /\ \A i \in ordered : box[i] # None
      BY DEF Inv, Consistent, TypeOK
    <3>3. found' = {i \in {j \in Item : Held[j] # None} : Overlaps(query, Held[i])}
      BY <3>1, <3>2 DEF Held
    <3>4. Promise!Answer
      BY <2>1, <2>2, <3>3 DEF Promise!Answer, Promise!Held, Held
    <3> QED
      BY <3>4 DEF Promise!Next
  <2>3. CASE pc' # "done"
    <3>1. pc' = "scan"
      BY <1>9, <2>1, <2>3 DEF Scan
    <3> QED
      BY <1>1, <2>1, <3>1 DEF Phase, Answer
  <2> QED
    BY <2>2, <2>3
<1>10. CASE EndQuery
  <2>1. Promise!Forget
    BY <1>10 DEF EndQuery, index, Promise!Forget
  <2> QED
    BY <2>1 DEF Promise!Next
<1> QED
  BY <1>2, <1>3, <1>4, <1>5, <1>6, <1>7, <1>8, <1>9, <1>10 DEF Next, Operation, Search

\* Whatever the program does with it, the detector holds what it was given,
\* but for items refused by the tree, and answers a search for a box with
\* exactly the items that overlap it.
THEOREM KeepsPromise == Spec => Promise!Safety
<1>1. Init => Promise!Init
  BY DEF Init, Promise!Init
<1>2. Inv /\ [Next]_vars => [Promise!Next]_(Promise!vars)
  BY StepKeepsPromise
<1> QED
  BY <1>1, <1>2, Inductive, PTL DEF Spec, Promise!Safety
=============================================================================
