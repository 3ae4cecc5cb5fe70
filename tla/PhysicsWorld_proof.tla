-------------------------- MODULE PhysicsWorld_proof --------------------------
(***************************************************************************)
(* Proofs about the physics world: for all bodies, joints and contacts.    *)
(***************************************************************************)
EXTENDS PhysicsWorld, FiniteSetTheorems, SequenceTheorems, WellFoundedInduction, TLAPS

(***************************************************************************)
(* Lists.                                                                  *)
(***************************************************************************)

LEMMA AppendDoes ==
  ASSUME NEW S, NEW s \in Seq(S), NEW e \in S
  PROVE  /\ Append(s, e) \in Seq(S)
         /\ ToSet(Append(s, e)) = ToSet(s) \cup {e}
         /\ IsInjective(s) /\ e \notin ToSet(s) => IsInjective(Append(s, e))
<1> DEFINE a == Append(s, e)
<1>1. /\ a \in Seq(S) /\ DOMAIN a = 1..Len(s) + 1 /\ DOMAIN s = 1..Len(s) /\ Len(s) \in Nat
      /\ a[Len(s) + 1] = e /\ \A i \in 1..Len(s) : a[i] = s[i]
  BY AppendProperties
<1> HIDE DEF a
<1>2. ToSet(a) = ToSet(s) \cup {e}
  BY <1>1 DEF ToSet
<1>3. IsInjective(s) /\ e \notin ToSet(s) => IsInjective(a)
  BY <1>1 DEF ToSet, IsInjective
<1> QED
  BY <1>1, <1>2, <1>3 DEF a

LEMMA Least ==
  ASSUME NEW S \in SUBSET Nat, S # {}
  PROVE  Min(S) \in S
<1> DEFINE Less == {ss \in Nat \X Nat : ss[1] < ss[2]}
<1>1. IsWellFoundedOn(Less, Nat)
  BY NatLessThanWellFounded DEF OpToRel
<1>2. \E d \in S : \A e \in S : ~ (<<e, d>> \in Less)
  <2> HIDE DEF Less
  <2> QED
    BY <1>1, WFMin
<1>3. \E d \in S : \A e \in S : d <= e
  <2>1. PICK d \in S : \A e \in S : ~ (<<e, d>> \in Less)
    BY <1>2
  <2>2. \A e \in S : ~ (e < d)
    BY <2>1
  <2> QED
    BY <2>1, <2>2
<1> QED
  BY <1>3 DEF Min

LEMMA RemoveFirstDoes ==
  ASSUME NEW S, NEW s \in Seq(S), NEW e
  PROVE  /\ RemoveFirst(s, e) \in Seq(S)
         /\ IsInjective(s) => /\ ToSet(RemoveFirst(s, e)) = ToSet(s) \ {e}
                              /\ IsInjective(RemoveFirst(s, e))
<1>1. CASE ~ \E i \in 1..Len(s) : s[i] = e
  <2>1. RemoveFirst(s, e) = s /\ e \notin ToSet(s)
    BY <1>1 DEF RemoveFirst, ToSet
  <2> QED
    BY <2>1
<1>2. CASE \E i \in 1..Len(s) : s[i] = e
  <2> DEFINE I == {i \in 1..Len(s) : s[i] = e}
             m == Min(I)
             r == SubSeq(s, 1, m - 1) \o SubSeq(s, m + 1, Len(s))
  <2>1. RemoveFirst(s, e) = r
    BY <1>2 DEF RemoveFirst, SelectInSeq, RemoveAt
  <2>2. m \in 1..Len(s) /\ s[m] = e /\ Len(s) \in Nat
    <3>1. I \in SUBSET Nat /\ I # {}
      BY <1>2
    <3>2. m \in I
      <4> HIDE DEF I
      <4> QED
        BY <3>1, Least
    <3> QED
      BY <3>2
  <2> HIDE DEF m
  <2>3. /\ r \in Seq(S) /\ Len(r) = Len(s) - 1
        /\ \A i \in 1..Len(r) : r[i] = IF i < m THEN s[i] ELSE s[i + 1]
    <3> DEFINE u == SubSeq(s, 1, m - 1)
               v == SubSeq(s, m + 1, Len(s))
    <3>1. /\ u \in Seq(S) /\ Len(u) = m - 1
          /\ \A i \in 1..m - 1 : u[i] = s[i]
      <4>1. \A i \in 1..m - 1 : s[i] \in S
        BY <2>2
      <4>2. 1 \in Int /\ m - 1 \in Int
        BY <2>2
      <4> QED
        BY <2>2, <4>1, <4>2, SubSeqProperties
    <3>2. /\ v \in Seq(S) /\ Len(v) = Len(s) - m
          /\ \A i \in 1..Len(s) - m : v[i] = s[m + i]
      <4>1. \A i \in m + 1..Len(s) : s[i] \in S
        BY <2>2
      <4>2. m + 1 \in Int /\ Len(s) \in Int
        BY <2>2
      <4>3. /\ v \in Seq(S) /\ Len(v) = IF m + 1 <= Len(s) THEN Len(s) - (m + 1) + 1 ELSE 0
            /\ \A i \in 1..Len(s) - (m + 1) + 1 : v[i] = s[(m + 1) + i - 1]
        BY <4>1, <4>2, SubSeqProperties
      <4> HIDE DEF v
      <4> QED
        BY <2>2, <4>3
    <3> HIDE DEF u, v
    <3>3. /\ u \o v \in Seq(S) /\ Len(u \o v) = Len(u) + Len(v)
          /\ \A i \in 1..Len(u) + Len(v) :
               (u \o v)[i] = IF i <= Len(u) THEN u[i] ELSE v[i - Len(u)]
      BY <3>1, <3>2, ConcatProperties
    <3>4. r = u \o v
      BY DEF u, v
    <3> HIDE DEF r
    <3>5. r \in Seq(S) /\ Len(r) = Len(s) - 1
      BY <2>2, <3>1, <3>2, <3>3, <3>4
    <3>6. ASSUME NEW i \in 1..Len(s) - 1
          PROVE  r[i] = IF i < m THEN s[i] ELSE s[i + 1]
      <4>1. r[i] = IF i <= m - 1 THEN u[i] ELSE v[i - (m - 1)]
        BY <2>2, <3>1, <3>2, <3>3, <3>4
      <4>2. CASE i < m
        BY <2>2, <3>1, <4>1, <4>2
      <4>3. CASE ~ (i < m)
        <5>1. i - (m - 1) \in 1..Len(s) - m /\ m + (i - (m - 1)) = i + 1 /\ ~ (i <= m - 1)
          BY <2>2, <4>3
        <5> QED
          BY <3>2, <4>1, <4>3, <5>1
      <4> QED
        BY <4>2, <4>3
    <3> QED
      BY <3>5, <3>6
  <2> HIDE DEF r
  <2>4. DOMAIN r = 1..Len(s) - 1 /\ DOMAIN s = 1..Len(s)
    BY <2>3
  <2>5. ASSUME IsInjective(s)
        PROVE  ToSet(r) = ToSet(s) \ {e} /\ IsInjective(r)
    <3>1. \A i \in 1..Len(s) : i # m => s[i] # e
      BY <2>2, <2>4, <2>5 DEF IsInjective
    <3>2. ToSet(r) \subseteq ToSet(s) \ {e}
      <4>1. ASSUME NEW i \in 1..Len(s) - 1
            PROVE  r[i] \in {s[k] : k \in 1..Len(s)} /\ r[i] # e
        <5>1. CASE i < m
          BY <2>2, <2>3, <3>1, <5>1
        <5>2. CASE ~ (i < m)
          <6>1. r[i] = s[i + 1] /\ i + 1 \in 1..Len(s) /\ i + 1 # m
            BY <2>2, <2>3, <5>2
          <6> QED
            BY <3>1, <6>1
        <5> QED
          BY <5>1, <5>2
      <4> QED
        BY <2>4, <4>1 DEF ToSet
    <3>3. ASSUME NEW i \in 1..Len(s), s[i] # e
          PROVE  s[i] \in ToSet(r)
      <4>1. CASE i < m
        BY <2>2, <2>3, <2>4, <4>1 DEF ToSet
      <4>2. CASE i > m
        <5>1. i - 1 \in 1..Len(s) - 1 /\ r[i - 1] = s[i]
          BY <2>2, <2>3, <4>2
        <5> QED
          BY <2>4, <5>1 DEF ToSet
      <4> QED
        BY <2>2, <3>3, <4>1, <4>2
    <3>4. ToSet(s) \ {e} \subseteq ToSet(r)
      BY <2>4, <3>3 DEF ToSet
    <3>5. IsInjective(r)
      <4>1. ASSUME NEW i \in 1..Len(s) - 1, NEW j \in 1..Len(s) - 1, i < j
            PROVE  r[i] # r[j]
        <5>1. CASE j < m
          <6>1. /\ r[i] = s[i] /\ r[j] = s[j] /\ i # j
                /\ i \in 1..Len(s) /\ j \in 1..Len(s)
            BY <2>2, <2>3, <4>1, <5>1
          <6> QED
            BY <2>4, <2>5, <6>1 DEF IsInjective
        <5>2. CASE ~ (j < m)
          <6>1. r[j] = s[j + 1] /\ j + 1 \in 1..Len(s)
            BY <2>2, <2>3, <5>2
          <6>2. PICK k \in 1..j : r[i] = s[k] /\ k \in 1..Len(s) /\ k # j + 1
            BY <2>2, <2>3, <4>1
          <6> QED
            BY <2>4, <2>5, <6>1, <6>2 DEF IsInjective
        <5> QED
          BY <5>1, <5>2
      <4>2. \A i, j \in 1..Len(s) - 1 : i # j => i < j \/ j < i
        BY <2>2
      <4> QED
        BY <2>4, <4>1, <4>2 DEF IsInjective
    <3> QED
      BY <3>2, <3>4, <3>5
  <2> QED
    BY <2>1, <2>3, <2>5
<1> QED
  BY <1>1, <1>2

LEMMA WithoutDoes ==
  ASSUME NEW S, NEW s \in Seq(S), NEW T
  PROVE  /\ Without(s, T) \in Seq(S)
         /\ ToSet(Without(s, T)) = ToSet(s) \ T
         /\ IsInjective(s) => IsInjective(Without(s, T))
<1> DEFINE kept == {i \in DOMAIN s : s[i] \notin T}
           upto(i) == {k \in kept : k <= i}
           place == [i \in kept |-> Cardinality(upto(i))]
           n == Cardinality(kept)
           at(k) == CHOOSE i \in kept : place[i] = k
           w == Without(s, T)
<1>1. kept \in SUBSET (1..Len(s)) /\ Len(s) \in Nat
  OBVIOUS
<1>2. IsFiniteSet(kept) /\ n \in Nat
  <2>1. IsFiniteSet(1..Len(s))
    BY <1>1, FS_Interval
  <2> QED
    BY <1>1, <2>1, FS_Subset, FS_CardinalityType
<1>3. ASSUME NEW i \in kept
      PROVE  upto(i) \in SUBSET kept /\ IsFiniteSet(upto(i)) /\ place[i] \in 1..n
  <2>1. upto(i) \in SUBSET kept /\ i \in upto(i)
    BY <1>1
  <2>2. IsFiniteSet(upto(i)) /\ Cardinality(upto(i)) <= n /\ Cardinality(upto(i)) \in Nat
    BY <1>2, <2>1, FS_Subset, FS_CardinalityType
  <2>3. Cardinality(upto(i)) # 0
    BY <2>1, <2>2, FS_EmptySet
  <2> QED
    BY <1>2, <2>1, <2>2, <2>3
<1>4. ASSUME NEW i \in kept, NEW k \in kept, i < k
      PROVE  place[i] # place[k]
  <2>1. upto(i) \in SUBSET upto(k) /\ k \in upto(k) \ upto(i)
    BY <1>1, <1>4
  <2>2. Cardinality(upto(i)) # Cardinality(upto(k))
    BY <1>3, <2>1, FS_Subset
  <2> QED
    BY <2>2
<1>5. place \in Injection(kept, 1..n)
  <2>1. place \in [kept -> 1..n]
    BY <1>3
  <2>2. \A i, k \in kept : place[i] = place[k] => i = k
    <3> HIDE DEF place, kept
    <3> QED
      BY <1>1, <1>4
  <2> QED
    BY <2>1, <2>2 DEF Injection, IsInjective
<1>6. place \in Surjection(kept, 1..n)
  <2>1. IsFiniteSet(1..n) /\ Cardinality(1..n) = n
    BY <1>2, FS_Interval
  <2> HIDE DEF place
  <2> QED
    BY <1>5, <2>1, FS_Injection
<1>7. \A i \in kept : place[i] = Cardinality(upto(i))
  OBVIOUS
<1> HIDE DEF place, n
<1>8. \A k \in 1..n : at(k) \in kept /\ place[at(k)] = k
  BY <1>6 DEF Surjection
<1>9. w = [k \in 1..n |-> s[CHOOSE i \in kept : Cardinality(upto(i)) = k]]
  BY DEF Without, n
<1>10. \A k \in 1..n : (CHOOSE i \in kept : Cardinality(upto(i)) = k) = at(k)
  BY <1>7
<1>11. w = [k \in 1..n |-> s[at(k)]]
  BY <1>9, <1>10
<1> HIDE DEF w, at
<1>12. w \in Seq(S) /\ DOMAIN w = 1..n
  <2>1. w \in [1..n -> S]
    BY <1>1, <1>8, <1>11
  <2> QED
    BY <1>2, <2>1
<1>13. ToSet(w) \subseteq ToSet(s) \ T
  BY <1>8, <1>11, <1>12 DEF ToSet
<1>14. \A i \in kept : at(place[i]) = i /\ place[i] \in 1..n
  BY <1>3, <1>5, <1>8 DEF Injection, IsInjective
<1>15. ToSet(s) \ T \subseteq ToSet(w)
  <2>1. ASSUME NEW i \in kept
        PROVE  s[i] \in ToSet(w)
    BY <1>11, <1>12, <1>14 DEF ToSet
  <2> QED
    BY <2>1 DEF ToSet
<1>16. IsInjective(s) => IsInjective(w)
  BY <1>8, <1>11, <1>12 DEF IsInjective
<1> QED
  BY <1>12, <1>13, <1>15, <1>16 DEF w

-----------------------------------------------------------------------------
(***************************************************************************)
(* What the changes do to the parts of a world.                            *)
(***************************************************************************)

LEMMA Kinds ==
  /\ Contact \subseteq SUBSET Body /\ Joint \subseteq Item /\ Contact \subseteq Item
  /\ Item = Joint \cup Contact /\ Joint \cap Contact = {} /\ Item \cap Body = {}
  /\ None \notin Item /\ None \notin Body /\ Solid \subseteq Contact
  /\ \A j \in Joint : Members[j] \subseteq Body /\ Members[j] # {}
  /\ \A p \in Contact : p # {}
<1>1. /\ Joint \subseteq Item /\ Contact \subseteq Item
      /\ Item = Joint \cup Contact /\ Joint \cap Contact = {} /\ Item \cap Body = {}
      /\ None \notin Item /\ None \notin Body /\ Solid \subseteq Contact
  BY WorldAssumption DEF Item
<1>2. \A j \in Joint : Members[j] \subseteq Body /\ Members[j] # {}
  <2>1. Members \in [Joint -> (SUBSET Body) \ {{}}]
    BY WorldAssumption
  <2> QED
    BY <2>1
<1>3. Contact \subseteq SUBSET Body /\ \A p \in Contact : p # {}
  BY DEF Contact
<1> QED
  BY <1>1, <1>2, <1>3

LEMMA WithBodyDoes ==
  ASSUME NEW w \in World, NEW b \in Body, NEW v, v = WithBody(w, b)
  PROVE  /\ v \in World
         /\ v.bodies = Append(w.bodies, b) /\ v.joints = w.joints
         /\ v.owned = w.owned \cup {b} /\ v.nodes = w.nodes \cup {b}
         /\ v.broadphase = w.broadphase \cup {b} /\ v.ccdBroadphase = w.ccdBroadphase \cup {b}
         /\ v.edges = w.edges /\ v.collisionData = w.collisionData /\ v.rest = w.rest
BY AppendDoes DEF WithBody, World

LEMMA WithJointDoes ==
  ASSUME NEW w \in World, NEW j \in Joint, NEW v, v = WithJoint(w, j)
  PROVE  /\ v \in World
         /\ v.bodies = w.bodies /\ v.joints = Append(w.joints, j)
         /\ v.owned = w.owned \cup {j} /\ v.nodes = w.nodes \cup Members[j]
         /\ v.broadphase = w.broadphase /\ v.ccdBroadphase = w.ccdBroadphase
         /\ \A b \in Members[j] : v.edges[b] = w.edges[b] \cup {j}
         /\ \A b \in Body \ Members[j] : v.edges[b] = w.edges[b]
         /\ v.collisionData = w.collisionData /\ v.rest = w.rest
<1>1. Append(w.joints, j) \in Seq(Joint) /\ Members[j] \subseteq Body /\ j \in Item
  BY AppendDoes, Kinds DEF World
<1> QED
  BY <1>1 DEF WithJoint, World

LEMMA WithoutJointDoes ==
  ASSUME NEW w \in World, NEW j \in Joint, NEW v, v = WithoutJoint(w, j)
  PROVE  /\ v \in World
         /\ v.bodies = w.bodies /\ v.joints = RemoveFirst(w.joints, j)
         /\ v.owned = w.owned \ {j} /\ v.nodes = w.nodes
         /\ v.broadphase = w.broadphase /\ v.ccdBroadphase = w.ccdBroadphase
         /\ \A b \in Body : v.edges[b] = w.edges[b] \ {j}
         /\ v.collisionData = w.collisionData /\ v.rest \subseteq w.rest
<1>1. RemoveFirst(w.joints, j) \in Seq(Joint)
  BY RemoveFirstDoes DEF World
<1> QED
  BY <1>1 DEF WithoutJoint, WithoutEdge, World

LEMMA DetachedDoes ==
  ASSUME NEW w \in World, NEW b \in Body, NEW v, v = Detached(w, b)
  PROVE  /\ v \in World
         /\ v.bodies = RemoveFirst(w.bodies, b) /\ v.joints = w.joints
         /\ v.owned = w.owned \ {b} /\ v.nodes = w.nodes \ {b}
         /\ v.broadphase = w.broadphase \ {b} /\ v.ccdBroadphase = w.ccdBroadphase \ {b}
         /\ v.edges[b] = {} /\ \A c \in Body \ {b} : v.edges[c] = w.edges[c] \ w.edges[b]
         /\ v.collisionData = w.collisionData /\ v.rest = w.rest \ {b}
<1>1. RemoveFirst(w.bodies, b) \in Seq(Body)
  BY RemoveFirstDoes DEF World
<1> QED
  BY <1>1 DEF Detached, World

LEMMA TornOffDoes ==
  ASSUME NEW w \in World, NEW b \in Body, NEW off, NEW v, v = TornOff(w, b, off)
  PROVE  /\ v \in World
         /\ v.bodies = w.bodies /\ v.rest = w.rest \ {b}
BY DEF TornOff, World

LEMMA DestroyedDoes ==
  ASSUME NEW w \in World, NEW b, NEW e, NEW v, v = Destroyed(w, b, e)
  PROVE  /\ v \in World
         /\ v.bodies = w.bodies /\ v.joints = w.joints
         /\ v.owned = w.owned \ {e} /\ v.nodes = w.nodes
         /\ v.broadphase = w.broadphase /\ v.ccdBroadphase = w.ccdBroadphase
         /\ e \in Joint => \A c \in Body \ {b} : v.edges[c] = w.edges[c] \ {e}
         /\ b \in Body => v.edges[b] = w.edges[b]
         /\ e \notin Joint => \A c \in Body : v.edges[c] = w.edges[c]
         /\ v.collisionData = w.collisionData \ {e} /\ v.rest = w.rest \ Woken(b, e)
BY DEF Destroyed, World

LEMMA DelistedDoes ==
  ASSUME NEW w \in World, NEW b, NEW e, NEW fixture \in BOOLEAN, NEW v,
         v = Delisted(w, b, e, fixture)
  PROVE  /\ v \in World
         /\ v.bodies = w.bodies /\ v.joints = RemoveFirst(w.joints, e)
         /\ v.owned = w.owned /\ v.nodes = w.nodes
         /\ v.broadphase = w.broadphase /\ v.ccdBroadphase = w.ccdBroadphase
         /\ e \notin Contact => \A c \in Body : v.edges[c] = w.edges[c]
         /\ e \in Contact => \A c \in Body : c # b \/ fixture => v.edges[c] = w.edges[c] \ {e}
         /\ ~ fixture /\ b \in Body => v.edges[b] = w.edges[b]
         /\ v.collisionData = w.collisionData /\ v.rest = w.rest
<1>1. RemoveFirst(w.joints, e) \in Seq(Joint)
  BY RemoveFirstDoes DEF World
<1> QED
  BY <1>1 DEF Delisted, World

LEMMA WithoutBodyDoes ==
  ASSUME NEW w \in World, NEW b \in Body, NEW v, v = WithoutBody(w, b)
  PROVE  /\ v \in World
         /\ v.bodies = RemoveFirst(w.bodies, b) /\ v.joints = Without(w.joints, w.edges[b])
         /\ v.owned = (w.owned \ {b}) \ w.edges[b] /\ v.nodes = w.nodes \ {b}
         /\ v.broadphase = w.broadphase \ {b} /\ v.ccdBroadphase = w.ccdBroadphase \ {b}
         /\ v.edges[b] = {} /\ \A c \in Body \ {b} : v.edges[c] = w.edges[c] \ w.edges[b]
         /\ v.collisionData = w.collisionData \ w.edges[b] /\ v.rest \subseteq w.rest
<1>0. PICK d : d = Detached(w, b)
  OBVIOUS
<1> DEFINE es == w.edges[b]
           rest == d.rest \ UNION {Woken(b, e) : e \in es}
           joints == Without(d.joints, es)
<1>1. /\ d \in World
      /\ d.bodies = RemoveFirst(w.bodies, b) /\ d.joints = w.joints
      /\ d.owned = w.owned \ {b} /\ d.nodes = w.nodes \ {b}
      /\ d.broadphase = w.broadphase \ {b} /\ d.ccdBroadphase = w.ccdBroadphase \ {b}
      /\ d.edges[b] = {} /\ \A c \in Body \ {b} : d.edges[c] = w.edges[c] \ w.edges[b]
      /\ d.collisionData = w.collisionData /\ d.rest = w.rest \ {b}
  <2> HIDE DEF es, rest, joints
  <2>1. /\ d \in World
        /\ d.bodies = RemoveFirst(w.bodies, b) /\ d.joints = w.joints
    BY <1>0, DetachedDoes
  <2>2. /\ d.owned = w.owned \ {b} /\ d.nodes = w.nodes \ {b}
        /\ d.broadphase = w.broadphase \ {b} /\ d.ccdBroadphase = w.ccdBroadphase \ {b}
    BY <1>0, DetachedDoes
  <2>3. d.edges[b] = {} /\ \A c \in Body \ {b} : d.edges[c] = w.edges[c] \ w.edges[b]
    BY <1>0, DetachedDoes
  <2>4. d.collisionData = w.collisionData /\ d.rest = w.rest \ {b}
    BY <1>0, DetachedDoes
  <2> QED
    BY <2>1, <2>2, <2>3, <2>4
<1>2. joints \in Seq(Joint) /\ rest \subseteq d.rest
  BY <1>1, WithoutDoes DEF World
<1>3. v = [d EXCEPT !.rest = rest, !.owned = @ \ es, !.collisionData = @ \ es, !.joints = joints]
  BY <1>0 DEF WithoutBody
<1> HIDE DEF es, rest, joints
<1>4. /\ v \in World
      /\ v.bodies = d.bodies /\ v.joints = joints
      /\ v.owned = d.owned \ es /\ v.nodes = d.nodes
      /\ v.broadphase = d.broadphase /\ v.ccdBroadphase = d.ccdBroadphase
      /\ v.edges = d.edges
      /\ v.collisionData = d.collisionData \ es /\ v.rest \subseteq d.rest
  <2>1. d \in World
    BY <1>1
  <2>2. /\ v.bodies = d.bodies /\ v.joints = joints
        /\ v.owned = d.owned \ es /\ v.nodes = d.nodes
        /\ v.broadphase = d.broadphase /\ v.ccdBroadphase = d.ccdBroadphase
        /\ v.edges = d.edges
        /\ v.collisionData = d.collisionData \ es /\ v.rest = rest
    BY <1>3, <2>1 DEF World
  <2>3. v \in World
    <3>1. /\ joints \in Seq(Joint) /\ rest \in SUBSET Body
          /\ d.owned \ es \in SUBSET (Body \cup Joint)
          /\ d.collisionData \ es \in SUBSET Contact
      BY <1>2, <2>1 DEF World
    <3> QED
      BY <1>3, <2>1, <3>1 DEF World
  <2> QED
    BY <1>2, <2>2, <2>3
<1> QED
  BY <1>1, <1>2, <1>4 DEF es, joints

LEMMA ClearedDoes ==
  ASSUME NEW w \in World, NEW v, v = Cleared(w)
  PROVE  /\ v \in World
         /\ v.bodies = <<>> /\ v.joints = <<>> /\ v.owned = w.owned /\ v.nodes = {}
         /\ v.broadphase = {} /\ v.ccdBroadphase = {}
         /\ \A b \in Body : v.edges[b] = {}
         /\ v.collisionData = {} /\ v.rest = w.rest
<1>1. <<>> \in Seq(Body) /\ <<>> \in Seq(Joint)
  BY EmptySeq
<1> QED
  BY <1>1 DEF Cleared, World

LEMMA WithoutAllDoes ==
  ASSUME NEW w \in World, NEW v, v = WithoutAll(w)
  PROVE  /\ v \in World
         /\ v.bodies = <<>> /\ v.joints = <<>> /\ v.nodes = {}
         /\ v.owned = w.owned \ (Bodies(w) \cup Joints(w))
         /\ v.broadphase = {} /\ v.ccdBroadphase = {}
         /\ \A b \in Body : v.edges[b] = {}
         /\ v.collisionData = {} /\ v.rest \subseteq w.rest
<1> DEFINE d == Cleared(w)
           B == Bodies(w)
           J == Joints(w)
<1>1. v = [d EXCEPT !.owned = @ \ (B \cup J), !.rest = @ \ B]
  BY DEF WithoutAll
<1>2. /\ d \in World
      /\ d.bodies = <<>> /\ d.joints = <<>> /\ d.owned = w.owned /\ d.nodes = {}
      /\ d.broadphase = {} /\ d.ccdBroadphase = {}
      /\ \A b \in Body : d.edges[b] = {}
      /\ d.collisionData = {} /\ d.rest = w.rest
  BY ClearedDoes
<1> HIDE DEF d, B, J
<1>3. /\ v \in World
      /\ v.bodies = d.bodies /\ v.joints = d.joints /\ v.nodes = d.nodes
      /\ v.owned = d.owned \ (B \cup J)
      /\ v.broadphase = d.broadphase /\ v.ccdBroadphase = d.ccdBroadphase
      /\ v.edges = d.edges
      /\ v.collisionData = d.collisionData /\ v.rest \subseteq d.rest
  <2>1. d.owned \ (B \cup J) \in SUBSET (Body \cup Joint) /\ d.rest \ B \in SUBSET Body
    BY <1>2 DEF World
  <2> DEFINE owned == d.owned \ (B \cup J)
             rest == d.rest \ B
  <2>2. v = [d EXCEPT !.owned = owned, !.rest = rest]
    BY <1>1
  <2>3. owned \in SUBSET (Body \cup Joint) /\ rest \in SUBSET Body /\ rest \subseteq d.rest
    BY <2>1
  <2> HIDE DEF owned, rest
  <2>4. v \in World
    BY <1>2, <2>2, <2>3 DEF World
  <2>5. /\ v.bodies = d.bodies /\ v.joints = d.joints /\ v.nodes = d.nodes
        /\ v.owned = owned
        /\ v.broadphase = d.broadphase /\ v.ccdBroadphase = d.ccdBroadphase
        /\ v.edges = d.edges
        /\ v.collisionData = d.collisionData /\ v.rest = rest
    BY <1>2, <2>2 DEF World
  <2> QED
    BY <2>3, <2>4, <2>5 DEF owned
<1> QED
  BY <1>2, <1>3 DEF B, J

LEMMA JointsClearedDoes ==
  ASSUME NEW w \in World, NEW v, v = JointsCleared(w)
  PROVE  /\ v \in World
         /\ v.bodies = w.bodies /\ v.joints = <<>> /\ v.owned = w.owned /\ v.nodes = w.nodes
         /\ v.broadphase = w.broadphase /\ v.ccdBroadphase = w.ccdBroadphase
         /\ \A b \in Body : v.edges[b] = w.edges[b] \ Joint
         /\ v.collisionData = w.collisionData /\ v.rest = w.rest
<1>1. <<>> \in Seq(Joint)
  BY EmptySeq
<1> QED
  BY <1>1 DEF JointsCleared, World

LEMMA WithoutJointsDoes ==
  ASSUME NEW w \in World, NEW v, v = WithoutJoints(w)
  PROVE  /\ v \in World
         /\ v.bodies = w.bodies /\ v.joints = <<>> /\ v.nodes = w.nodes
         /\ v.owned = w.owned \ Joints(w)
         /\ v.broadphase = w.broadphase /\ v.ccdBroadphase = w.ccdBroadphase
         /\ \A b \in Body : v.edges[b] = w.edges[b] \ Joint
         /\ v.collisionData = w.collisionData /\ v.rest \subseteq w.rest
<1> DEFINE d == JointsCleared(w)
           J == Joints(w)
           rest == d.rest \ UNION {Members[j] : j \in J}
<1>1. v = [d EXCEPT !.owned = @ \ J, !.rest = rest] /\ rest \subseteq d.rest
  BY DEF WithoutJoints
<1>2. /\ d \in World
      /\ d.bodies = w.bodies /\ d.joints = <<>> /\ d.owned = w.owned /\ d.nodes = w.nodes
      /\ d.broadphase = w.broadphase /\ d.ccdBroadphase = w.ccdBroadphase
      /\ \A b \in Body : d.edges[b] = w.edges[b] \ Joint
      /\ d.collisionData = w.collisionData /\ d.rest = w.rest
  BY JointsClearedDoes
<1> HIDE DEF d, J, rest
<1>3. /\ v \in World
      /\ v.bodies = d.bodies /\ v.joints = d.joints /\ v.nodes = d.nodes
      /\ v.owned = d.owned \ J
      /\ v.broadphase = d.broadphase /\ v.ccdBroadphase = d.ccdBroadphase
      /\ v.edges = d.edges
      /\ v.collisionData = d.collisionData /\ v.rest \subseteq d.rest
  <2> DEFINE owned == d.owned \ J
  <2>1. owned \in SUBSET (Body \cup Joint) /\ rest \in SUBSET Body
    BY <1>1, <1>2 DEF World
  <2>2. v = [d EXCEPT !.owned = owned, !.rest = rest]
    BY <1>1
  <2> HIDE DEF owned
  <2>3. v \in World
    BY <1>2, <2>1, <2>2 DEF World
  <2>4. /\ v.bodies = d.bodies /\ v.joints = d.joints /\ v.nodes = d.nodes
        /\ v.owned = owned
        /\ v.broadphase = d.broadphase /\ v.ccdBroadphase = d.ccdBroadphase
        /\ v.edges = d.edges
        /\ v.collisionData = d.collisionData /\ v.rest = rest
    BY <1>2, <2>2 DEF World
  <2> QED
    BY <1>1, <2>3, <2>4 DEF owned
<1> QED
  BY <1>2, <1>3 DEF J

LEMMA WithContactDoes ==
  ASSUME NEW w \in World, NEW p \in Contact, NEW v, v = WithContact(w, p)
  PROVE  /\ v \in World
         /\ v.bodies = w.bodies /\ v.joints = w.joints /\ v.owned = w.owned
         /\ v.nodes = w.nodes \cup p
         /\ v.broadphase = w.broadphase /\ v.ccdBroadphase = w.ccdBroadphase
         /\ \A b \in p : v.edges[b] = w.edges[b] \cup {p}
         /\ \A b \in Body \ p : v.edges[b] = w.edges[b]
         /\ v.collisionData = w.collisionData /\ v.rest = w.rest
<1>1. p \subseteq Body /\ p \in Item
  BY Kinds
<1> QED
  BY <1>1 DEF WithContact, World

-----------------------------------------------------------------------------
(***************************************************************************)
(* Types.                                                                  *)
(***************************************************************************)

Typed ==
  /\ TypeOK
  /\ pc \in {"updating", "collided"} => frame.current \in Contact
  /\ pc \in {"removeAll", "removeAllJoints", "jointDestroyed"} => frame.index >= 1

Passing == pc \in {"detect", "ended", "updating", "collided"}
Removing == pc \in {"destroy", "destroyed"}
RemovingAll == pc \in {"removeAll", "bodyDestroyed", "removeAllJoints", "jointDestroyed"}

\* What a listener leaves of the operation under way: it may end a pass, or take
\* contacts off the list of a removal of fixtures.
Kept(f) ==
  /\ f \in Frame
  /\ f.victim = frame.victim /\ f.current = frame.current /\ f.all = frame.all
  /\ f.fixture = frame.fixture /\ f.every = frame.every
  /\ f.index = frame.index /\ f.count = frame.count
  /\ f.todo = frame.todo \/ (Passing /\ f.todo = {})
  /\ f.lost = frame.lost \/ (pc = "destroyed" /\ frame.fixture)
  /\ Passing \/ Removing \/ f = frame

LEMMA KeptIs ==
  ASSUME TypeOK
  PROVE  /\ Kept(frame)
         /\ Passing => Kept([frame EXCEPT !.todo = {}])
         /\ \A b \in Body : Kept(Shortened(b))
<1>1. frame \in Frame /\ world \in World
  BY DEF TypeOK
<1>2. Kept(frame)
  BY <1>1 DEF Kept
<1>3. Passing => Kept([frame EXCEPT !.todo = {}])
  BY <1>1 DEF Kept, Frame
<1>4. ASSUME NEW b \in Body
      PROVE  Kept(Shortened(b))
  <2>1. CASE pc = "destroyed" /\ frame.fixture
    <3> DEFINE more == frame.lost \cup (world.edges[b] \cap world.edges[frame.victim] \cap Contact)
               f == [frame EXCEPT !.lost = more]
    <3>1. Shortened(b) = f /\ more \in SUBSET Contact
      BY <1>1, <2>1 DEF Shortened, Frame
    <3> HIDE DEF more
    <3>2. Kept(f)
      BY <1>1, <2>1, <3>1 DEF Kept, Frame, Removing
    <3> QED
      BY <3>1, <3>2
  <2>2. CASE ~ (pc = "destroyed" /\ frame.fixture)
    BY <1>2, <2>2 DEF Shortened
  <2> QED
    BY <2>1, <2>2
<1> QED
  BY <1>2, <1>3, <1>4

\* What a listener or the program changes, whatever it calls.
LEMMA ChangeIs ==
  ASSUME TypeOK, NEW w \in World, NEW lost \in SUBSET Item, NEW f, ChangeFrame(w, lost, f)
  PROVE  /\ world' = w /\ frame' = f /\ UNCHANGED <<updateRequired, pc>> /\ MayChange
         /\ history' \in History /\ broken' \in BOOLEAN
         /\ UNCHANGED <<history.asked, history.failed, history.dropped>>
         /\ pc = "idle" => /\ history'.present = {} /\ history'.told = {}
                           /\ history'.again = {} /\ history'.quiet = {}
         /\ pc # "idle" => /\ history'.present = history.present /\ history'.told = history.told
                           /\ history'.again = history.again
                           /\ history'.quiet = history.quiet \cup lost
<1>1. history \in History /\ broken' \in BOOLEAN
  BY DEF TypeOK, ChangeFrame
<1>2. CASE pc = "idle"
  <2>1. history' = [history EXCEPT !.present = {}, !.told = {}, !.again = {}, !.quiet = {}]
    BY <1>2 DEF ChangeFrame, Noted
  <2> QED
    BY <1>1, <1>2, <2>1 DEF ChangeFrame, History
<1>3. CASE pc # "idle"
  <2>1. history' = [history EXCEPT !.quiet = @ \cup lost]
    BY <1>3 DEF ChangeFrame, Noted
  <2> QED
    BY <1>1, <1>3, <2>1 DEF ChangeFrame, History
<1> QED
  BY <1>2, <1>3

LEMMA ProgramIs ==
  ASSUME TypeOK, Program, ~ SetUpdateRequired
  PROVE  \E w \in World, lost \in SUBSET Item, f \in Frame :
           ChangeFrame(w, lost, f) /\ Kept(f) /\ w.rest \subseteq world.rest
<1> DEFINE Does(w, lost, f) == ChangeFrame(w, lost, f) /\ Kept(f) /\ w.rest \subseteq world.rest
<1> SUFFICES \E w \in World, lost \in SUBSET Item, f \in Frame : Does(w, lost, f)
  OBVIOUS
<1>1. world \in World /\ \A b \in Body : world.edges[b] \subseteq Item
  BY DEF TypeOK, World
<1>2. Joints(world) \subseteq Joint /\ Present(world) \subseteq Item /\ Bodies(world) \subseteq Body
  <2>1. Joints(world) \subseteq Joint /\ Bodies(world) \subseteq Body
    BY <1>1 DEF World, Joints, Bodies, ToSet
  <2> QED
    BY <1>1, <2>1, Kinds DEF Present
<1>3. ASSUME NEW w \in World, NEW lost \in SUBSET Item, Change(w, lost), w.rest \subseteq world.rest
      PROVE  Does(w, lost, frame) /\ frame \in Frame
  BY <1>3, KeptIs DEF Change, Kept
<1>4. ASSUME NEW w \in World, NEW lost \in SUBSET Item, NEW f, ChangeFrame(w, lost, f),
             Kept(f), w.rest \subseteq world.rest
      PROVE  Does(w, lost, f) /\ f \in Frame
  BY <1>4 DEF Kept
<1> HIDE DEF Does
<1>5. ASSUME NEW b \in Body, AddBody(b)
      PROVE  \E w \in World, lost \in SUBSET Item, f \in Frame : Does(w, lost, f)
  BY <1>1, <1>3, <1>5, WithBodyDoes DEF AddBody
<1>6. ASSUME NEW b \in Body, RemoveBody(b)
      PROVE  \E w \in World, lost \in SUBSET Item, f \in Frame : Does(w, lost, f)
  <2>1. ChangeFrame(WithoutBody(world, b), world.edges[b], Shortened(b))
    BY <1>6 DEF RemoveBody
  <2>2. WithoutBody(world, b) \in World /\ WithoutBody(world, b).rest \subseteq world.rest
    BY <1>1, WithoutBodyDoes
  <2>3. Does(WithoutBody(world, b), world.edges[b], Shortened(b)) /\ Shortened(b) \in Frame
    BY <1>1, <1>4, <2>1, <2>2, KeptIs
  <2> QED
    BY <1>1, <2>2, <2>3
<1>7. ASSUME NEW j \in Joint, AddJoint(j)
      PROVE  \E w \in World, lost \in SUBSET Item, f \in Frame : Does(w, lost, f)
  BY <1>1, <1>3, <1>7, WithJointDoes DEF AddJoint
<1>8. ASSUME NEW j \in Joint, RemoveJoint(j)
      PROVE  \E w \in World, lost \in SUBSET Item, f \in Frame : Does(w, lost, f)
  BY <1>1, <1>3, <1>8, WithoutJointDoes, Kinds DEF RemoveJoint
<1>9. CASE RemoveAll
  <2>1. WithoutAll(world) \in World /\ WithoutAll(world).rest \subseteq world.rest
    BY <1>1, WithoutAllDoes
  <2>2. CASE Change(WithoutAll(world), Present(world))
    BY <1>2, <1>3, <2>1, <2>2
  <2>3. CASE /\ pc \in {"ended", "updating", "collided"}
             /\ ChangeFrame(WithoutAll(world), Present(world), [frame EXCEPT !.todo = {}])
    <3>1. Kept([frame EXCEPT !.todo = {}])
      BY <2>3, KeptIs DEF Passing
    <3>2. /\ Does(WithoutAll(world), Present(world), [frame EXCEPT !.todo = {}])
          /\ [frame EXCEPT !.todo = {}] \in Frame
      BY <1>2, <1>4, <2>1, <2>3, <3>1
    <3> QED
      BY <1>2, <2>1, <3>2
  <2> QED
    BY <1>9, <2>2, <2>3 DEF RemoveAll
<1>10. CASE RemoveJoints
  BY <1>1, <1>2, <1>3, <1>10, WithoutJointsDoes, Kinds DEF RemoveJoints
<1>11. ASSUME NEW old \in SUBSET Body, SetDetectors(old)
      PROVE  \E w \in World, lost \in SUBSET Item, f \in Frame : Does(w, lost, f)
  <2> DEFINE w == [world EXCEPT !.broadphase = old \cup Bodies(world),
                                !.ccdBroadphase = old \cup Bodies(world)]
  <2>1. w \in World /\ w.rest = world.rest
    BY <1>1, <1>2 DEF World
  <2>2. Change(w, {})
    BY <1>11 DEF SetDetectors
  <2> HIDE DEF w
  <2> QED
    BY <1>3, <2>1, <2>2
<1> QED
  BY <1>5, <1>6, <1>7, <1>8, <1>9, <1>10, <1>11 DEF Program

LEMMA TellIs ==
  ASSUME NEW e \in Item, history \in History, Tell(e)
  PROVE  /\ history' \in History
         /\ history'.told = history.told \cup {e}
         /\ history'.again = history.again \cup ({e} \cap history.told)
         /\ history'.present = history.present /\ history'.quiet = history.quiet
         /\ history'.asked = history.asked /\ history'.failed = history.failed
         /\ history'.dropped = history.dropped
BY DEF Tell, History

LEMMA PromisedIs ==
  ASSUME NEW items \in SUBSET Item, history \in History, Promised(items)
  PROVE  /\ history' \in History
         /\ history'.present = items /\ history'.told = {}
         /\ history'.again = {} /\ history'.quiet = {}
         /\ history'.asked = history.asked /\ history'.failed = history.failed
         /\ history'.dropped = history.dropped
BY DEF Promised, History

LEMMA FrameIs ==
  /\ NoFrame \in Frame
  /\ NoFrame.victim = None /\ NoFrame.todo = {} /\ NoFrame.current = None /\ NoFrame.all = FALSE
  /\ NoFrame.fixture = FALSE /\ NoFrame.every = FALSE /\ NoFrame.lost = {}
BY DEF NoFrame, Frame

\* A removal that fails in the graph.
LEMMA TearIs ==
  ASSUME TypeOK, NEW b \in Body, Tear(b)
  PROVE  /\ world' \in World /\ history' \in History
         /\ pc' = "idle" /\ frame' = NoFrame
         /\ history'.asked = history.asked /\ UNCHANGED updateRequired
         /\ history'.failed = TRUE /\ history'.present = {}
         /\ history'.told = history.told /\ history'.again = history.again
<1>1. world \in World /\ history \in History /\ world.edges[b] \subseteq Item
  BY DEF TypeOK, World
<1>2. world' \in World
  <2>1. PICK off : LET torn == TornOff(world, b, off) IN
          \/ world' = [torn EXCEPT !.bodies = RemoveFirst(@, b),
                                   !.broadphase = @ \ {b}, !.ccdBroadphase = @ \ {b}]
          \/ world' = torn
    BY DEF Tear
  <2> DEFINE torn == TornOff(world, b, off)
  <2>2. torn \in World
    BY <1>1, TornOffDoes
  <2>3. \/ world' = [torn EXCEPT !.bodies = RemoveFirst(@, b),
                                 !.broadphase = @ \ {b}, !.ccdBroadphase = @ \ {b}]
        \/ world' = torn
    BY <2>1
  <2> HIDE DEF torn
  <2>4. RemoveFirst(torn.bodies, b) \in Seq(Body)
    BY <2>2, RemoveFirstDoes DEF World
  <2> QED
    BY <2>2, <2>3, <2>4 DEF World
<1>3. PICK more \in SUBSET Item :
        history' = [history EXCEPT !.present = {}, !.failed = TRUE, !.dropped = @ \cup more]
  BY <1>1 DEF Tear
<1>4. /\ history' \in History /\ history'.asked = history.asked /\ history'.failed = TRUE
      /\ history'.present = {}
      /\ history'.told = history.told /\ history'.again = history.again
  BY <1>1, <1>3 DEF History
<1> QED
  BY <1>2, <1>4 DEF Tear

LEMMA TypedStep == Typed /\ [Next]_vars => Typed'
<1> SUFFICES ASSUME Typed, [Next]_vars
             PROVE  Typed'
  OBVIOUS
<1>1. /\ world \in World /\ frame \in Frame /\ history \in History
      /\ updateRequired \in BOOLEAN /\ broken \in BOOLEAN
      /\ Bodies(world) \subseteq Body /\ Joints(world) \subseteq Joint
      /\ \A b \in Body : world.edges[b] \subseteq Item
      /\ Present(world) \subseteq Item
  <2>1. /\ world \in World /\ frame \in Frame /\ history \in History
        /\ updateRequired \in BOOLEAN /\ broken \in BOOLEAN
    BY DEF Typed, TypeOK
  <2>2. /\ Bodies(world) \subseteq Body /\ Joints(world) \subseteq Joint
        /\ \A b \in Body : world.edges[b] \subseteq Item
    BY <2>1 DEF World, Bodies, Joints, ToSet
  <2> QED
    BY <2>1, <2>2, Kinds DEF Present
<1>2. CASE Program
  <2>1. CASE SetUpdateRequired
    <3>1. history' \in History
      BY <1>1, <2>1 DEF SetUpdateRequired, History
    <3> QED
      BY <2>1, <3>1 DEF SetUpdateRequired, Typed, TypeOK
  <2>2. CASE ~ SetUpdateRequired
    <3>1. PICK w \in World, lost \in SUBSET Item, f \in Frame : ChangeFrame(w, lost, f) /\ Kept(f)
      BY <1>2, <2>2, ProgramIs DEF Typed
    <3>2. /\ world' = w /\ frame' = f /\ UNCHANGED <<updateRequired, pc>>
          /\ history' \in History /\ broken' \in BOOLEAN
      BY <3>1, ChangeIs DEF Typed
    <3>3. frame' \in Frame /\ frame'.current = frame.current /\ frame'.index = frame.index
      BY <3>1, <3>2 DEF Kept
    <3> QED
      BY <3>2, <3>3 DEF Typed, TypeOK
  <2> QED
    BY <2>1, <2>2
<1>3. ASSUME NEW b \in Body, BeginRemoveBody(b)
      PROVE  Typed'
  <2>1. /\ world' \in World /\ pc' = "destroy" /\ frame' \in Frame /\ history' \in History
        /\ UNCHANGED <<updateRequired, broken>>
    <3>1. world' \in World
      BY <1>1, <1>3, DetachedDoes DEF BeginRemoveBody
    <3>2. frame' \in Frame
      BY <1>1, <1>3, FrameIs DEF BeginRemoveBody, Frame
    <3>3. history' \in History
      BY <1>1, <1>3, PromisedIs DEF BeginRemoveBody
    <3> QED
      BY <1>3, <3>1, <3>2, <3>3 DEF BeginRemoveBody
  <2> QED
    BY <2>1 DEF Typed, TypeOK
<1>4. ASSUME NEW b \in Body, NEW touching, BeginRemoveFixture(b, touching)
      PROVE  Typed'
  <2>1. /\ pc' = "destroy" /\ frame' \in Frame /\ history' \in History
        /\ UNCHANGED <<world, updateRequired, broken>>
    <3>1. touching \in SUBSET Item
      BY <1>1, <1>4 DEF BeginRemoveFixture
    <3>2. frame' \in Frame
      BY <1>4, <3>1, FrameIs DEF BeginRemoveFixture, Frame
    <3>3. history' \in History
      BY <1>1, <1>4, <3>1, PromisedIs DEF BeginRemoveFixture
    <3> QED
      BY <1>4, <3>2, <3>3 DEF BeginRemoveFixture
  <2> QED
    BY <1>1, <2>1 DEF Typed, TypeOK
<1>5. ASSUME NEW e \in Item, Destroy(e)
      PROVE  Typed'
  <2>1. world' \in World
    BY <1>1, <1>5, DestroyedDoes DEF Destroy
  <2>2. frame' \in Frame
    BY <1>1, <1>5 DEF Destroy, Frame
  <2>3. history' \in History
    BY <1>1, <1>5, TellIs DEF Destroy
  <2> QED
    BY <1>1, <1>5, <2>1, <2>2, <2>3 DEF Destroy, Typed, TypeOK
<1>6. CASE Delist
  <2>1. world' \in World
    <3>1. PICK only \in BOOLEAN : world' = Delisted(world, frame.victim, frame.current, only)
      BY <1>1, <1>6 DEF Delist, Frame
    <3> QED
      BY <1>1, <3>1, DelistedDoes
  <2>2. frame' \in Frame
    BY <1>1, <1>6 DEF Delist, Frame
  <2> QED
    BY <1>1, <1>6, <2>1, <2>2 DEF Delist, Typed, TypeOK
<1>7. CASE EndRemoveBody
  <2>1. frame' \in Frame
    BY <1>1, <1>7, FrameIs DEF EndRemoveBody, Frame
  <2> QED
    BY <1>1, <1>7, <2>1 DEF EndRemoveBody, Typed, TypeOK
<1>8. CASE BeginRemoveAll \/ BeginRemoveAllJoints
  <2>1. frame' \in Frame /\ frame'.index = 1
    <3>1. Len(world.bodies) \in Nat /\ Len(world.joints) \in Nat
      BY <1>1 DEF World
    <3>2. PICK n \in Nat : frame' = [NoFrame EXCEPT !.all = TRUE, !.index = 1, !.count = n]
      BY <1>8, <3>1 DEF BeginRemoveAll, BeginRemoveAllJoints
    <3> QED
      BY <3>2, FrameIs DEF Frame
  <2>2. history' \in History
    BY <1>1, <1>8, PromisedIs, Kinds DEF BeginRemoveAll, BeginRemoveAllJoints
  <2> QED
    BY <1>1, <1>8, <2>1, <2>2 DEF BeginRemoveAll, BeginRemoveAllJoints, Typed, TypeOK
<1>9. CASE DetachNext
  <2> DEFINE b == world.bodies[frame.index]
             d == Detached(world, b)
  <2>1. b \in Body
    <3>1. frame.index \in 1..Len(world.bodies)
      BY <1>1, <1>9 DEF DetachNext, Typed, Frame
    <3> QED
      BY <1>1, <3>1 DEF World
  <2>2. d \in World
    BY <1>1, <2>1, DetachedDoes
  <2>3. /\ world' = [d EXCEPT !.bodies = world.bodies, !.broadphase = world.broadphase,
                              !.ccdBroadphase = world.ccdBroadphase]
        /\ frame' = [frame EXCEPT !.victim = b, !.todo = world.edges[b]]
        /\ pc' = "destroy" /\ UNCHANGED <<updateRequired, broken, history>>
    BY <1>9 DEF DetachNext
  <2> HIDE DEF d, b
  <2>4. world' \in World
    BY <1>1, <2>2, <2>3 DEF World
  <2>5. frame' \in Frame
    BY <1>1, <2>1, <2>3 DEF Frame
  <2> QED
    BY <1>1, <2>3, <2>4, <2>5 DEF Typed, TypeOK
<1>10. CASE NextBody
  <2>1. frame' \in Frame /\ frame'.index >= 1
    BY <1>1, <1>10 DEF NextBody, Frame
  <2> QED
    BY <1>1, <1>10, <2>1 DEF NextBody, Typed, TypeOK
<1>11. CASE EndRemoveAll
  BY <1>1, <1>11, ClearedDoes, FrameIs DEF EndRemoveAll, Typed, TypeOK
<1>12. CASE ReleaseNext
  <2> DEFINE j == world.joints[frame.index]
  <2>1. j \in Joint
    <3>1. frame.index \in 1..Len(world.joints)
      BY <1>1, <1>12 DEF ReleaseNext, Typed, Frame
    <3> QED
      BY <1>1, <3>1 DEF World
  <2>2. /\ world' = [world EXCEPT !.owned = @ \ {j}, !.rest = @ \ Members[j]] /\ Tell(j)
        /\ pc' = "jointDestroyed" /\ frame' = [frame EXCEPT !.index = @ + 1]
        /\ UNCHANGED <<updateRequired, broken>>
    BY <1>12 DEF ReleaseNext
  <2> HIDE DEF j
  <2>3. world' \in World
    BY <1>1, <2>2 DEF World
  <2>4. frame' \in Frame /\ frame'.index >= 1
    BY <1>1, <2>2 DEF Frame
  <2>5. history' \in History
    BY <1>1, <2>1, <2>2, TellIs, Kinds
  <2> QED
    BY <1>1, <2>2, <2>3, <2>4, <2>5 DEF Typed, TypeOK
<1>13. CASE NextJoint
  BY <1>1, <1>13 DEF NextJoint, Typed, TypeOK
<1>14. CASE EndRemoveAllJoints
  BY <1>1, <1>14, JointsClearedDoes, FrameIs DEF EndRemoveAllJoints, Typed, TypeOK
<1>15. CASE Abort
  <2>1. PICK done \in SUBSET Item :
          history' = [history EXCEPT !.present = {}, !.failed = TRUE, !.dropped = @ \cup done]
    BY <1>1, <1>15 DEF Abort, History
  <2>2. history' \in History
    BY <1>1, <2>1 DEF History
  <2> QED
    BY <1>1, <1>15, <2>2, FrameIs DEF Abort, Typed, TypeOK
<1>28. ASSUME NEW b \in Body, BeginRemoveFixtures(b)
       PROVE  Typed'
  <2>1. /\ pc' = "destroy" /\ frame' \in Frame /\ history' \in History
        /\ UNCHANGED <<world, updateRequired, broken>>
    <3>1. world.edges[b] \cap Contact \in SUBSET Item
      BY <1>1
    <3>2. frame' \in Frame
      BY <1>28, <3>1, FrameIs DEF BeginRemoveFixtures, Frame
    <3>3. history' \in History
      BY <1>1, <1>28, <3>1, PromisedIs DEF BeginRemoveFixtures
    <3> QED
      BY <1>28, <3>2, <3>3 DEF BeginRemoveFixtures
  <2> QED
    BY <1>1, <2>1 DEF Typed, TypeOK
<1>29. CASE EndRemoveFixtures
  <2> DEFINE left == frame.todo \ frame.lost
             edges == [world.edges EXCEPT ![frame.victim] = @ \ Contact]
  <2>1. /\ world' = [world EXCEPT !.edges = edges]
        /\ history' = [history EXCEPT !.dropped = @ \cup left, !.present = @ \ left]
        /\ pc' = "idle" /\ frame' = NoFrame /\ UNCHANGED <<updateRequired, broken>>
    BY <1>29 DEF EndRemoveFixtures
  <2>2. edges \in [Body -> SUBSET Item] /\ left \subseteq Item
    BY <1>1 DEF World, Frame
  <2> HIDE DEF left, edges
  <2>3. world' \in World
    BY <1>1, <2>1, <2>2 DEF World
  <2>4. history' \in History
    BY <1>1, <2>1, <2>2 DEF History
  <2> QED
    BY <1>1, <2>1, <2>3, <2>4, FrameIs DEF Typed, TypeOK
<1>30. ASSUME NEW b \in Body, Tear(b)
       PROVE  Typed'
  <2>1. TypeOK
    BY DEF Typed
  <2>2. /\ world' \in World /\ history' \in History
        /\ pc' = "idle" /\ frame' = NoFrame
    BY <1>30, <2>1, TearIs
  <2> QED
    BY <1>1, <1>30, <2>2, FrameIs DEF Tear, Typed, TypeOK
<1>16. CASE BeginStep
  <2>1. history' \in History
    BY <1>1, <1>16 DEF BeginStep, History
  <2> QED
    BY <1>1, <1>16, <2>1 DEF BeginStep, Typed, TypeOK
<1>17. ASSUME NEW last \in BOOLEAN, BeginDetect(last)
       PROVE  Typed'
  <2> DEFINE pairs == world.collisionData \cup {p \in Contact : p \subseteq world.broadphase}
  <2>1. /\ world' = [world EXCEPT !.collisionData = pairs, !.contactCollisions = {},
                                  !.edges = [b \in Body |-> @[b] \ Contact]]
        /\ frame' = [NoFrame EXCEPT !.todo = pairs, !.last = last]
        /\ pc' = "detect" /\ broken' = FALSE
        /\ history' = [history EXCEPT !.asked = FALSE, !.failed = FALSE, !.dropped = {}]
        /\ UNCHANGED updateRequired
    BY <1>17 DEF BeginDetect
  <2>2. pairs \in SUBSET Contact
    BY <1>1 DEF World
  <2> HIDE DEF pairs
  <2>3. world' \in World
    BY <1>1, <2>1, <2>2 DEF World
  <2>4. frame' \in Frame
    BY <2>1, <2>2, FrameIs, Kinds DEF Frame
  <2>5. history' \in History
    BY <1>1, <2>1 DEF History
  <2> QED
    BY <1>1, <2>1, <2>3, <2>4, <2>5 DEF Typed, TypeOK
<1>18. ASSUME NEW p \in Contact, DropPair(p)
       PROVE  Typed'
  <2>1. world' \in World /\ frame' \in Frame /\ pc' = "ended"
    BY <1>1, <1>18 DEF DropPair, World, Frame
  <2> QED
    BY <1>1, <1>18, <2>1 DEF DropPair, Typed, TypeOK
<1>19. ASSUME NEW p \in Contact, BeginUpdate(p)
       PROVE  Typed'
  <2>1. frame' \in Frame /\ frame'.current = p
    BY <1>1, <1>19, Kinds DEF BeginUpdate, Frame
  <2> QED
    BY <1>1, <1>19, <2>1 DEF BeginUpdate, Typed, TypeOK
<1>20. CASE Miss
  <2>1. frame' \in Frame
    BY <1>1, <1>20 DEF Miss, Frame
  <2> QED
    BY <1>1, <1>20, <2>1 DEF Miss, Typed, TypeOK
<1>21. CASE Hit
  <2>1. frame.current \in Contact
    BY <1>21 DEF Hit, Typed
  <2>2. world' \in World
    BY <1>1, <1>21, <2>1, WithContactDoes DEF Hit
  <2> QED
    BY <1>1, <1>21, <2>1, <2>2 DEF Hit, Typed, TypeOK
<1>22. CASE EndUpdate
  <2>1. frame.current \in Contact
    BY <1>22 DEF EndUpdate, Typed
  <2>2. world' \in World /\ frame' \in Frame
    BY <1>1, <1>22, <2>1 DEF EndUpdate, World, Frame
  <2> QED
    BY <1>1, <1>22, <2>2 DEF EndUpdate, Typed, TypeOK
<1>23. CASE EndDetect
  BY <1>1, <1>23, FrameIs DEF EndDetect, Typed, TypeOK
<1>24. CASE UpdatePerformed
  BY <1>1, <1>24 DEF UpdatePerformed, Typed, TypeOK
<1>25. CASE Solve
  <2>1. PICK asleep \in SUBSET Bodies(world) :
          world' = [world EXCEPT !.rest = (@ \ Bodies(world)) \cup asleep]
    BY <1>25 DEF Solve
  <2>2. (world.rest \ Bodies(world)) \cup asleep \in SUBSET Body
    BY <1>1 DEF World
  <2>3. world' \in World
    BY <1>1, <2>1, <2>2 DEF World
  <2> QED
    BY <1>1, <1>25, <2>3 DEF Solve, Typed, TypeOK
<1>26. CASE SkipUpdate \/ PostSolve \/ EndStep \/ Ended
  BY <1>1, <1>26 DEF SkipUpdate, PostSolve, EndStep, Ended, Goto, Typed, TypeOK
<1>27. CASE UNCHANGED vars
  BY <1>27 DEF vars, Typed, TypeOK
<1> QED
  BY <1>2, <1>3, <1>4, <1>5, <1>6, <1>7, <1>8, <1>9, <1>10, <1>11, <1>12, <1>13, <1>14, <1>15,
     <1>16, <1>17, <1>18, <1>19, <1>20, <1>21, <1>22, <1>23, <1>24, <1>25, <1>26, <1>27, <1>28,
     <1>29, <1>30 DEF Next, Removal, RemovesBody, Step

LEMMA TypedInit == Init => Typed
<1> SUFFICES ASSUME Init PROVE Typed
  OBVIOUS
<1>1. <<>> \in Seq(Body) /\ <<>> \in Seq(Joint)
  BY EmptySeq
<1>2. world \in World
  BY <1>1 DEF Init, World
<1>3. history \in History
  BY DEF Init, History
<1> QED
  BY <1>2, <1>3, FrameIs DEF Init, Typed, TypeOK

\* Lists, owners, graph and the operation under way keep their types, whatever
\* listeners and the program do.
THEOREM TypeCorrect == Spec => []TypeOK
<1>1. Typed => TypeOK
  BY DEF Typed
<1> QED
  BY <1>1, TypedInit, TypedStep, PTL DEF Spec

-----------------------------------------------------------------------------
(***************************************************************************)
(* Losers are awake.                                                       *)
(***************************************************************************)

Losers(e) == IF e \in Joint THEN Members[e] ELSE IF e \in Solid THEN e ELSE {}

\* Nothing puts a body to rest between the first notice and the end of a
\* removal; only the victim of a removed fixture may have been at rest.
Awake ==
  /\ LosersAreAwake
  /\ ~ Removing /\ ~ RemovingAll /\ pc # "idle" => history.told = {}
  /\ Removing /\ ~ frame.fixture => frame.victim \notin world.rest
  /\ Removing /\ frame.all => ~ frame.fixture
  /\ RemovingAll => ~ frame.fixture

LEMMA LosersAre ==
  LosersAreAwake <=>
    (pc # "idle" => \A e \in history.told :
       Losers(e) \cap world.rest \subseteq (IF frame.fixture THEN {frame.victim} ELSE {}))
BY DEF LosersAreAwake, Losers

LEMMA AwakeStep == Typed /\ Awake /\ [Next]_vars => Awake'
<1> SUFFICES ASSUME Typed, Awake, [Next]_vars
             PROVE  Awake'
  OBVIOUS
<1>1. /\ TypeOK /\ world \in World /\ frame \in Frame /\ history \in History
  BY DEF Typed, TypeOK
<1>2. ASSUME world'.rest \subseteq world.rest, frame'.victim = frame.victim,
             frame'.fixture = frame.fixture, frame'.all = frame.all, pc' = pc,
             history'.told = history.told \/ history'.told = {}
      PROVE  Awake'
  BY <1>2 DEF Awake, LosersAreAwake, Removing, RemovingAll
<1>3. ASSUME history'.told = {}, ~ Removing', ~ RemovingAll'
      PROVE  Awake'
  BY <1>3 DEF Awake, LosersAreAwake
<1>4. ASSUME pc' = "idle"
      PROVE  Awake'
  BY <1>4 DEF Awake, LosersAreAwake, Removing, RemovingAll
<1>5. CASE Program
  <2>1. CASE SetUpdateRequired
    BY <1>1, <1>2, <2>1 DEF SetUpdateRequired, History
  <2>2. CASE ~ SetUpdateRequired
    <3>1. PICK w \in World, lost \in SUBSET Item, f \in Frame :
            ChangeFrame(w, lost, f) /\ Kept(f) /\ w.rest \subseteq world.rest
      BY <1>1, <1>5, <2>2, ProgramIs
    <3>2. /\ world' = w /\ frame' = f /\ UNCHANGED pc
          /\ history'.told = history.told \/ history'.told = {}
      BY <1>1, <3>1, ChangeIs
    <3> QED
      BY <1>2, <3>1, <3>2 DEF Kept
  <2> QED
    BY <2>1, <2>2
<1>6. ASSUME NEW b \in Body, BeginRemoveBody(b)
      PROVE  Awake'
  <2>1. b \notin world'.rest
    BY <1>1, <1>6, DetachedDoes DEF BeginRemoveBody
  <2>2. /\ pc' = "destroy" /\ frame'.victim = b /\ frame'.fixture = FALSE
        /\ history'.told = {}
    BY <1>1, <1>6, PromisedIs, FrameIs DEF BeginRemoveBody, World, Frame
  <2> QED
    BY <2>1, <2>2 DEF Awake, LosersAreAwake, Removing, RemovingAll
<1>7. ASSUME NEW b \in Body, NEW touching \in SUBSET Contact, BeginRemoveFixture(b, touching)
      PROVE  Awake'
  <2>1. pc' = "destroy" /\ frame'.fixture = TRUE /\ frame'.all = FALSE /\ history'.told = {}
    BY <1>1, <1>7, PromisedIs, FrameIs, Kinds DEF BeginRemoveFixture, Frame
  <2> QED
    BY <2>1 DEF Awake, LosersAreAwake, Removing, RemovingAll
<1>8. ASSUME NEW e \in Item, Destroy(e)
      PROVE  Awake'
  <2>1. pc = "destroy" /\ pc' = "destroyed"
    BY <1>8 DEF Destroy
  <2>2. world'.rest = world.rest \ Woken(frame.victim, e)
    BY <1>1, <1>8, DestroyedDoes DEF Destroy
  <2>3. frame'.victim = frame.victim /\ frame'.fixture = frame.fixture /\ frame'.all = frame.all
    BY <1>1, <1>8 DEF Destroy, Frame
  <2>4. history'.told = history.told \cup {e}
    BY <1>1, <1>8, TellIs DEF Destroy
  <2>5. Woken(frame.victim, e) = Losers(e) \ {frame.victim}
    BY DEF Woken, Losers
  <2>6. ASSUME NEW x \in history'.told
        PROVE  Losers(x) \cap world'.rest \subseteq (IF frame'.fixture THEN {frame'.victim} ELSE {})
    <3>1. CASE x \in history.told
      BY <2>1, <2>2, <2>3, <3>1, LosersAre DEF Awake
    <3>2. CASE x = e
      BY <2>1, <2>2, <2>3, <2>5, <3>2 DEF Awake, Removing
    <3> QED
      BY <2>4, <2>6, <3>1, <3>2
  <2>7. LosersAreAwake'
    BY <2>6 DEF LosersAreAwake, Losers
  <2> QED
    BY <2>1, <2>2, <2>3, <2>7 DEF Awake, Removing, RemovingAll
<1>9. CASE Delist
  <2>1. world'.rest = world.rest
    <3>1. PICK only \in BOOLEAN : world' = Delisted(world, frame.victim, frame.current, only)
      BY <1>1, <1>9 DEF Delist, Frame
    <3> QED
      BY <1>1, <3>1, DelistedDoes
  <2>2. frame'.victim = frame.victim /\ frame'.fixture = frame.fixture /\ frame'.all = frame.all
    BY <1>1, <1>9 DEF Delist, Frame
  <2> QED
    BY <1>9, <2>1, <2>2 DEF Delist, Awake, LosersAreAwake, Removing, RemovingAll
<1>10. CASE EndRemoveBody
  <2>1. CASE frame.all
    <3>1. pc = "destroy" /\ pc' = "bodyDestroyed" /\ UNCHANGED <<world, history>>
          /\ frame'.fixture = frame.fixture
      BY <1>1, <1>10, <2>1 DEF EndRemoveBody, Frame
    <3> QED
      BY <2>1, <3>1 DEF Awake, LosersAreAwake, Removing, RemovingAll
  <2>2. CASE ~ frame.all
    BY <1>4, <1>10, <2>2 DEF EndRemoveBody
  <2> QED
    BY <2>1, <2>2
<1>11. CASE BeginRemoveAll \/ BeginRemoveAllJoints
  <2>1. Present(world) \subseteq Item /\ Joints(world) \subseteq Item
    BY <1>1, Kinds DEF World, Present, Joints, ToSet
  <2>2. RemovingAll' /\ ~ Removing' /\ frame'.fixture = FALSE /\ history'.told = {}
    <3>1. RemovingAll' /\ ~ Removing'
      BY <1>11 DEF BeginRemoveAll, BeginRemoveAllJoints, RemovingAll, Removing
    <3>2. PICK n : frame' = [NoFrame EXCEPT !.all = TRUE, !.index = 1, !.count = n]
      BY <1>11 DEF BeginRemoveAll, BeginRemoveAllJoints
    <3>3. history'.told = {}
      BY <1>1, <1>11, <2>1, PromisedIs DEF BeginRemoveAll, BeginRemoveAllJoints
    <3> QED
      BY <3>1, <3>2, <3>3, FrameIs DEF Frame
  <2> QED
    BY <2>2 DEF Awake, LosersAreAwake
<1>12. CASE DetachNext
  <2> DEFINE b == world.bodies[frame.index]
             d == Detached(world, b)
  <2>1. b \in Body
    <3>1. frame.index \in 1..Len(world.bodies)
      BY <1>1, <1>12 DEF DetachNext, Typed, Frame
    <3> QED
      BY <1>1, <3>1 DEF World
  <2>2. d \in World /\ d.rest = world.rest \ {b}
    BY <1>1, <2>1, DetachedDoes
  <2>3. /\ world' = [d EXCEPT !.bodies = world.bodies, !.broadphase = world.broadphase,
                              !.ccdBroadphase = world.ccdBroadphase]
        /\ frame' = [frame EXCEPT !.victim = b, !.todo = world.edges[b]]
        /\ pc = "removeAll" /\ pc' = "destroy" /\ UNCHANGED <<updateRequired, broken, history>>
    BY <1>12 DEF DetachNext
  <2> HIDE DEF d, b
  <2>4. world'.rest = world.rest \ {b}
    BY <2>2, <2>3 DEF World
  <2>5. frame'.victim = b /\ frame'.fixture = frame.fixture
    BY <1>1, <2>3 DEF Frame
  <2> QED
    BY <2>3, <2>4, <2>5 DEF Awake, LosersAreAwake, Removing, RemovingAll
<1>13. CASE NextBody \/ NextJoint
  <2>1. frame'.fixture = frame.fixture /\ UNCHANGED <<world, history>>
        /\ RemovingAll /\ RemovingAll' /\ pc # "idle" /\ ~ Removing'
    BY <1>1, <1>13 DEF NextBody, NextJoint, Frame, RemovingAll, Removing
  <2> QED
    BY <2>1 DEF Awake, LosersAreAwake
<1>14. CASE ReleaseNext
  <2> DEFINE j == world.joints[frame.index]
  <2>1. j \in Joint
    <3>1. frame.index \in 1..Len(world.joints)
      BY <1>1, <1>14 DEF ReleaseNext, Typed, Frame
    <3> QED
      BY <1>1, <3>1 DEF World
  <2>2. /\ world' = [world EXCEPT !.owned = @ \ {j}, !.rest = @ \ Members[j]] /\ Tell(j)
        /\ pc = "removeAllJoints" /\ pc' = "jointDestroyed"
        /\ frame' = [frame EXCEPT !.index = @ + 1]
    BY <1>14 DEF ReleaseNext
  <2> HIDE DEF j
  <2>3. world'.rest = world.rest \ Members[j] /\ frame'.fixture = frame.fixture
    BY <1>1, <2>2 DEF World, Frame
  <2>4. history'.told = history.told \cup {j}
    BY <1>1, <2>1, <2>2, TellIs, Kinds
  <2>5. ASSUME NEW x \in history'.told
        PROVE  Losers(x) \cap world'.rest \subseteq (IF frame'.fixture THEN {frame'.victim} ELSE {})
    <3>1. CASE x \in history.told
      BY <2>2, <2>3, <3>1, LosersAre DEF Awake, RemovingAll
    <3>2. CASE x = j
      BY <2>1, <2>3, <3>2 DEF Losers
    <3> QED
      BY <2>4, <2>5, <3>1, <3>2
  <2>6. LosersAreAwake'
    BY <2>5 DEF LosersAreAwake, Losers
  <2> QED
    BY <2>2, <2>3, <2>6 DEF Awake, Removing, RemovingAll
<1>15. CASE \/ EndRemoveAll \/ EndRemoveAllJoints \/ Abort \/ EndStep \/ EndRemoveFixtures
            \/ \E b \in Body : Tear(b)
  BY <1>4, <1>15 DEF EndRemoveAll, EndRemoveAllJoints, Abort, EndStep, Goto, EndRemoveFixtures, Tear
<1>22. ASSUME NEW b \in Body, BeginRemoveFixtures(b)
       PROVE  Awake'
  <2>1. world.edges[b] \cap Contact \in SUBSET Item
    BY Kinds
  <2>2. pc' = "destroy" /\ frame'.fixture = TRUE /\ frame'.all = FALSE /\ history'.told = {}
    BY <1>1, <1>22, <2>1, PromisedIs, FrameIs DEF BeginRemoveFixtures, Frame
  <2> QED
    BY <2>2 DEF Awake, LosersAreAwake, Removing, RemovingAll
<1>16. CASE BeginStep
  BY <1>1, <1>3, <1>16 DEF BeginStep, History, Removing, RemovingAll
<1>17. ASSUME NEW last \in BOOLEAN, BeginDetect(last)
       PROVE  Awake'
  <2>1. pc' = "detect" /\ history'.told = history.told /\ pc \in {"begin", "postSolve"}
    BY <1>1, <1>17 DEF BeginDetect, History
  <2> QED
    BY <1>3, <2>1 DEF Awake, Removing, RemovingAll
<1>18. ASSUME UNCHANGED history, ~ Removing, ~ RemovingAll, pc # "idle", ~ Removing', ~ RemovingAll'
       PROVE  Awake'
  BY <1>3, <1>18 DEF Awake
<1>19. CASE \/ \E p \in Contact : DropPair(p) \/ BeginUpdate(p)
            \/ Ended \/ Miss \/ Hit \/ EndUpdate \/ EndDetect
  BY <1>18, <1>19 DEF DropPair, BeginUpdate, Ended, Goto, Miss, Hit, EndUpdate, EndDetect, Removing,
                      RemovingAll
<1>20. CASE UpdatePerformed \/ Solve \/ SkipUpdate \/ PostSolve
  BY <1>18, <1>20 DEF UpdatePerformed, Solve, SkipUpdate, PostSolve, Goto, Removing, RemovingAll
<1>21. CASE UNCHANGED vars
  BY <1>2, <1>21 DEF vars
<1> QED
  BY <1>5, <1>6, <1>7, <1>8, <1>9, <1>10, <1>11, <1>12, <1>13, <1>14, <1>15, <1>16, <1>17,
     <1>19, <1>20, <1>21, <1>22 DEF Next, Removal, RemovesBody, Step

\* A body that lost a joint or a solid contact to a removal is awake when
\* listeners hear of it and until the removal has ended, whatever they change
\* meanwhile (destroyJoints, destroyContacts, removeAllJoints).
THEOREM LosersAlwaysAwake == Spec => []LosersAreAwake
<1>1. Init => Typed /\ Awake
  BY TypedInit DEF Init, Awake, LosersAreAwake, Removing, RemovingAll
<1>2. Typed /\ Awake /\ [Next]_vars => (Typed /\ Awake)'
  BY TypedStep, AwakeStep
<1>3. Awake => LosersAreAwake
  BY DEF Awake
<1> QED
  BY <1>1, <1>2, <1>3, PTL DEF Spec

-----------------------------------------------------------------------------
(***************************************************************************)
(* The graph of a world w, when the bodies `alive` are in it, the joints   *)
(* `gone` are on their way out, and those in `disowned` no longer owned.   *)
(* A contact is with both of its bodies, but for those in `stray`.         *)
(***************************************************************************)

Lists(w) ==
  /\ IsInjective(w.bodies) /\ IsInjective(w.joints)
  /\ w.broadphase = Bodies(w) /\ w.ccdBroadphase = Bodies(w)

Graph(w, alive, gone, disowned, stray) ==
  /\ w.nodes = alive
  /\ w.owned = alive \cup (Joints(w) \ disowned)
  /\ \A b \in Body : w.edges[b] \cap Joint = {j \in Joints(w) \ gone : b \in Members[j]}
  /\ \A p \in Contact, b \in Body :
       p \in w.edges[b] => b \in p \cap alive /\ (p \in stray \/ \A c \in p : p \in w.edges[c])
  /\ \A j \in Joints(w) \ gone : Members[j] \subseteq alive

LEMMA Lengths ==
  ASSUME NEW w \in World
  PROVE  /\ Bodies(w) \subseteq Body /\ Joints(w) \subseteq Joint
         /\ Len(w.bodies) \in Nat /\ DOMAIN w.bodies = 1..Len(w.bodies)
         /\ Len(w.joints) \in Nat /\ DOMAIN w.joints = 1..Len(w.joints)
         /\ \A b \in Body : w.edges[b] \subseteq Item
         /\ w.bodies \in Seq(Body) /\ w.joints \in Seq(Joint)
BY Kinds DEF World, Bodies, Joints, ToSet

\* What the graph does not depend on.
LEMMA SameGraph ==
  ASSUME NEW stray,
         NEW w, NEW v, NEW alive, NEW gone, NEW disowned, Graph(w, alive, gone, disowned, stray),
         v.nodes = w.nodes, v.owned = w.owned, v.joints = w.joints,
         \A b \in Body : v.edges[b] = w.edges[b]
  PROVE  Graph(v, alive, gone, disowned, stray)
BY Kinds DEF Graph, Joints

\* Other contacts may be astray when none that was is with a body any more.
LEMMA StrayGraph ==
  ASSUME NEW stray, NEW w, NEW alive, NEW gone, NEW disowned,
         Graph(w, alive, gone, disowned, stray), NEW now,
         \A p \in Contact \cap (stray \ now) : \A b \in Body : p \notin w.edges[b]
  PROVE  Graph(w, alive, gone, disowned, now)
BY DEF Graph

LEMMA WithBodyGraph ==
  ASSUME NEW stray, NEW w \in World, NEW b \in Body, b \notin w.owned, NEW gone, NEW disowned,
         Lists(w), Graph(w, Bodies(w), gone, disowned, stray), NEW v, v = WithBody(w, b)
  PROVE  Lists(v) /\ Graph(v, Bodies(v), gone, disowned, stray) /\ Bodies(v) = Bodies(w) \cup {b}
<1>1. /\ v.bodies = Append(w.bodies, b) /\ v.joints = w.joints
      /\ v.owned = w.owned \cup {b} /\ v.nodes = w.nodes \cup {b}
      /\ v.broadphase = w.broadphase \cup {b} /\ v.ccdBroadphase = w.ccdBroadphase \cup {b}
      /\ v.edges = w.edges
  BY WithBodyDoes
<1>2. b \notin Bodies(w) /\ w.bodies \in Seq(Body)
  BY Lengths DEF Graph
<1>3. Bodies(v) = Bodies(w) \cup {b} /\ (IsInjective(w.bodies) => IsInjective(v.bodies))
  BY <1>1, <1>2, AppendDoes DEF Bodies
<1>4. Joints(v) = Joints(w)
  BY <1>1 DEF Joints
<1>5. Lists(v)
  BY <1>1, <1>3 DEF Lists
<1>6. Graph(v, Bodies(v), gone, disowned, stray)
  BY <1>1, <1>3, <1>4 DEF Graph
<1> QED
  BY <1>3, <1>5, <1>6

LEMMA WithJointGraph ==
  ASSUME NEW stray,
         NEW w \in World, NEW j \in Joint, NEW gone, NEW disowned, j \notin gone \cup disowned,
         j \notin w.owned, Members[j] \subseteq w.nodes,
         Lists(w), Graph(w, Bodies(w), gone, disowned, stray), NEW v, v = WithJoint(w, j)
  PROVE  Lists(v) /\ Graph(v, Bodies(v), gone, disowned, stray) /\ Bodies(v) = Bodies(w)
<1>1. /\ v.bodies = w.bodies /\ v.joints = Append(w.joints, j)
      /\ v.owned = w.owned \cup {j} /\ v.nodes = w.nodes \cup Members[j]
      /\ v.broadphase = w.broadphase /\ v.ccdBroadphase = w.ccdBroadphase
      /\ \A b \in Members[j] : v.edges[b] = w.edges[b] \cup {j}
      /\ \A b \in Body \ Members[j] : v.edges[b] = w.edges[b]
  BY WithJointDoes
<1>2. j \notin Joints(w) /\ w.joints \in Seq(Joint)
  BY Lengths DEF Graph
<1>3. Joints(v) = Joints(w) \cup {j} /\ (IsInjective(w.joints) => IsInjective(v.joints))
  BY <1>1, <1>2, AppendDoes DEF Joints
<1>4. Bodies(v) = Bodies(w) /\ v.nodes = w.nodes
  BY <1>1 DEF Bodies
<1>5. Lists(v)
  BY <1>1, <1>3, <1>4 DEF Lists
<1>6. ASSUME NEW b \in Body
      PROVE  v.edges[b] \cap Joint = {k \in Joints(v) \ gone : b \in Members[k]}
  BY <1>1, <1>3 DEF Graph
<1>7. ASSUME NEW p \in Contact, NEW b \in Body
      PROVE  p \in v.edges[b] <=> p \in w.edges[b]
  BY <1>1, Kinds
<1>8. Graph(v, Bodies(v), gone, disowned, stray)
  BY <1>1, <1>3, <1>4, <1>6, <1>7, Kinds DEF Graph
<1> QED
  BY <1>4, <1>5, <1>8

LEMMA WithoutJointGraph ==
  ASSUME NEW stray, NEW w \in World, NEW j \in Joint, NEW gone, NEW disowned,
         Lists(w), Graph(w, Bodies(w), gone, disowned, stray), NEW v, v = WithoutJoint(w, j)
  PROVE  Lists(v) /\ Graph(v, Bodies(v), gone, disowned, stray) /\ Bodies(v) = Bodies(w)
<1>1. /\ v.bodies = w.bodies /\ v.joints = RemoveFirst(w.joints, j)
      /\ v.owned = w.owned \ {j} /\ v.nodes = w.nodes
      /\ v.broadphase = w.broadphase /\ v.ccdBroadphase = w.ccdBroadphase
      /\ \A b \in Body : v.edges[b] = w.edges[b] \ {j}
  BY WithoutJointDoes
<1>2. Joints(v) = Joints(w) \ {j} /\ IsInjective(v.joints)
  BY <1>1, Lengths, RemoveFirstDoes DEF Joints, Lists
<1>3. Bodies(v) = Bodies(w) /\ j \notin Bodies(w)
  BY <1>1, Lengths, Kinds DEF Bodies
<1>4. Lists(v)
  BY <1>1, <1>2, <1>3 DEF Lists
<1>5. ASSUME NEW p \in Contact, NEW b \in Body
      PROVE  p \in v.edges[b] <=> p \in w.edges[b]
  BY <1>1, Kinds
<1>6. Graph(v, Bodies(v), gone, disowned, stray)
  BY <1>1, <1>2, <1>3, <1>5, Kinds DEF Graph
<1> QED
  BY <1>3, <1>4, <1>6

LEMMA WithoutAllGraph ==
  ASSUME NEW stray,
         NEW w \in World, NEW gone, NEW disowned, Graph(w, Bodies(w), gone, disowned, stray),
         NEW v, v = WithoutAll(w)
  PROVE  Lists(v) /\ Graph(v, Bodies(v), gone, disowned, stray) /\ Bodies(v) = {}
<1>1. /\ v.bodies = <<>> /\ v.joints = <<>> /\ v.nodes = {}
      /\ v.owned = w.owned \ (Bodies(w) \cup Joints(w))
      /\ v.broadphase = {} /\ v.ccdBroadphase = {}
      /\ \A b \in Body : v.edges[b] = {}
  BY WithoutAllDoes
<1>2. Bodies(v) = {} /\ Joints(v) = {} /\ IsInjective(v.bodies) /\ IsInjective(v.joints)
  BY <1>1 DEF Bodies, Joints, ToSet, IsInjective
<1> QED
  BY <1>1, <1>2 DEF Lists, Graph

LEMMA WithoutJointsGraph ==
  ASSUME NEW stray,
         NEW w \in World, NEW gone, NEW disowned,
         Lists(w), Graph(w, Bodies(w), gone, disowned, stray), NEW v, v = WithoutJoints(w)
  PROVE  Lists(v) /\ Graph(v, Bodies(v), gone, disowned, stray) /\ Bodies(v) = Bodies(w)
<1>1. /\ v.bodies = w.bodies /\ v.joints = <<>> /\ v.nodes = w.nodes
      /\ v.owned = w.owned \ Joints(w)
      /\ v.broadphase = w.broadphase /\ v.ccdBroadphase = w.ccdBroadphase
      /\ \A b \in Body : v.edges[b] = w.edges[b] \ Joint
  BY WithoutJointsDoes
<1>2. Bodies(v) = Bodies(w) /\ Joints(v) = {} /\ IsInjective(v.joints)
  BY <1>1 DEF Bodies, Joints, ToSet, IsInjective
<1>3. v.owned = Bodies(w)
  BY <1>1, Lengths, Kinds DEF Graph
<1>4. ASSUME NEW p \in Contact, NEW b \in Body
      PROVE  p \in v.edges[b] <=> p \in w.edges[b]
  BY <1>1, Kinds
<1>5. Graph(v, Bodies(v), gone, disowned, stray)
  BY <1>1, <1>2, <1>3, <1>4, Kinds DEF Graph
<1> QED
  BY <1>1, <1>2, <1>5 DEF Lists

\* Taking a body off: its joints are then on their way out.
LEMMA DetachedGraph ==
  ASSUME NEW stray,
         NEW w \in World, NEW alive \in SUBSET Body, NEW b \in alive, Graph(w, alive, {}, {}, stray),
         NEW v, v.nodes = w.nodes \ {b}, v.owned = w.owned \ {b}, v.joints = w.joints,
         \A c \in Body : v.edges[c] = IF c = b THEN {} ELSE w.edges[c] \ w.edges[b]
  PROVE  Graph(v, alive \ {b}, w.edges[b], {}, stray)
<1>1. Joints(v) = Joints(w) /\ Joints(w) \subseteq Joint /\ b \in Body /\ b \notin Joints(w)
  BY Lengths, Kinds DEF Joints
<1>2. v.nodes = alive \ {b} /\ v.owned = (alive \ {b}) \cup Joints(v)
  BY <1>1 DEF Graph
<1>3. \A j \in Joints(w) : j \in w.edges[b] <=> b \in Members[j]
  BY <1>1 DEF Graph
<1>4. ASSUME NEW c \in Body
      PROVE  v.edges[c] \cap Joint = {j \in Joints(v) \ w.edges[b] : c \in Members[j]}
  <2>1. w.edges[c] \cap Joint = {j \in Joints(w) : c \in Members[j]}
    BY DEF Graph
  <2>2. CASE c = b
    BY <1>1, <1>3, <2>2
  <2>3. CASE c # b
    BY <1>1, <2>1, <2>3
  <2> QED
    BY <2>2, <2>3
<1>5. ASSUME NEW p \in Contact, NEW c \in Body, p \in v.edges[c]
      PROVE  c \in p \cap (alive \ {b}) /\ (p \in stray \/ \A d \in p : p \in v.edges[d])
  <2>1. p \in w.edges[c] /\ p \notin w.edges[b] /\ c # b
    BY <1>5
  <2>2. c \in p \cap alive /\ (p \in stray \/ \A d \in p : p \in w.edges[d])
    BY <2>1 DEF Graph
  <2>3. ASSUME NEW d \in p, p \in w.edges[d]
        PROVE  p \in v.edges[d]
    <3>1. d \in Body /\ d # b
      BY <2>1, <2>3, Kinds
    <3> QED
      BY <2>1, <2>3, <3>1
  <2> QED
    BY <2>1, <2>2, <2>3
<1>6. \A j \in Joints(v) \ w.edges[b] : Members[j] \subseteq alive \ {b}
  BY <1>1, <1>3 DEF Graph
<1> QED
  BY <1>2, <1>4, <1>5, <1>6 DEF Graph

LEMMA WithoutBodyGraph ==
  ASSUME NEW stray, NEW w \in World, NEW b \in Bodies(w), NEW gone, NEW disowned,
         Lists(w), Graph(w, Bodies(w), gone, disowned, stray), NEW v, v = WithoutBody(w, b)
  PROVE  Lists(v) /\ Graph(v, Bodies(v), gone, disowned, stray) /\ Bodies(v) = Bodies(w) \ {b}
<1>1. b \in Body /\ Bodies(w) \subseteq Body /\ Joints(w) \subseteq Joint
      /\ w.edges[b] \subseteq Item
  BY Lengths
<1>2. /\ v.bodies = RemoveFirst(w.bodies, b) /\ v.joints = Without(w.joints, w.edges[b])
      /\ v.owned = (w.owned \ {b}) \ w.edges[b] /\ v.nodes = w.nodes \ {b}
      /\ v.broadphase = w.broadphase \ {b} /\ v.ccdBroadphase = w.ccdBroadphase \ {b}
      /\ v.edges[b] = {} /\ \A c \in Body \ {b} : v.edges[c] = w.edges[c] \ w.edges[b]
  BY <1>1, WithoutBodyDoes
<1>3. Bodies(v) = Bodies(w) \ {b} /\ IsInjective(v.bodies)
  BY <1>2, Lengths, RemoveFirstDoes DEF Bodies, Lists
<1>4. Joints(v) = Joints(w) \ w.edges[b] /\ IsInjective(v.joints)
  BY <1>2, Lengths, WithoutDoes DEF Joints, Lists
<1>5. Lists(v)
  BY <1>2, <1>3, <1>4 DEF Lists
<1>6. \A j \in Joints(w) \ gone : j \in w.edges[b] <=> b \in Members[j]
  BY <1>1 DEF Graph
<1>7. v.owned = Bodies(v) \cup (Joints(v) \ disowned)
  BY <1>1, <1>2, <1>3, <1>4, Kinds DEF Graph
<1>8. ASSUME NEW c \in Body
      PROVE  v.edges[c] \cap Joint = {j \in Joints(v) \ gone : c \in Members[j]}
  <2>1. w.edges[c] \cap Joint = {j \in Joints(w) \ gone : c \in Members[j]}
    BY DEF Graph
  <2>2. CASE c = b
    BY <1>2, <1>4, <1>6, <2>2
  <2>3. CASE c # b
    BY <1>2, <1>4, <2>1, <2>3
  <2> QED
    BY <2>2, <2>3
<1>9. ASSUME NEW p \in Contact, NEW c \in Body, p \in v.edges[c]
      PROVE  c \in p \cap Bodies(v) /\ (p \in stray \/ \A d \in p : p \in v.edges[d])
  <2>1. p \in w.edges[c] /\ p \notin w.edges[b] /\ c # b
    BY <1>2, <1>9
  <2>2. c \in p \cap Bodies(w) /\ (p \in stray \/ \A d \in p : p \in w.edges[d])
    BY <2>1 DEF Graph
  <2> QED
    BY <1>2, <1>3, <2>1, <2>2, Kinds
<1>10. \A j \in Joints(v) \ gone : Members[j] \subseteq Bodies(v)
  BY <1>3, <1>4, <1>6 DEF Graph
<1>11. v.nodes = Bodies(v)
  BY <1>2, <1>3 DEF Graph
<1>12. Graph(v, Bodies(v), gone, disowned, stray)
  BY <1>7, <1>8, <1>9, <1>10, <1>11 DEF Graph
<1> QED
  BY <1>3, <1>5, <1>12

\* A joint or contact of a detached body goes for good: first its owner ...
LEMMA DestroyedGraph ==
  ASSUME NEW stray, NEW w \in World, NEW alive \in SUBSET Body, NEW gone, NEW b \in Body \ alive,
         NEW e \in gone \cap Item, Graph(w, alive, gone, {}, stray), NEW v, v = Destroyed(w, b, e)
  PROVE  Graph(v, alive, gone, {e}, stray)
<1>1. /\ v.joints = w.joints /\ v.owned = w.owned \ {e} /\ v.nodes = w.nodes
      /\ e \in Joint => \A c \in Body \ {b} : v.edges[c] = w.edges[c] \ {e}
      /\ v.edges[b] = w.edges[b]
      /\ e \notin Joint => \A c \in Body : v.edges[c] = w.edges[c]
  BY DestroyedDoes
<1>2. Joints(v) = Joints(w) /\ e \notin alive
  BY <1>1, Kinds DEF Joints
<1>3. ASSUME NEW c \in Body
      PROVE  v.edges[c] = w.edges[c]
  <2>1. e \in Joint => e \notin w.edges[c]
    BY DEF Graph
  <2>2. CASE e \in Joint /\ c # b
    <3>1. v.edges[c] = w.edges[c] \ {e}
      BY <1>1, <2>2
    <3> QED
      BY <2>1, <2>2, <3>1
  <2> QED
    BY <1>1, <2>2
<1> QED
  BY <1>1, <1>2, <1>3, Kinds DEF Graph

\* ... then its place in the list, and its edges.
LEMMA DelistedGraph ==
  ASSUME NEW stray, NEW w \in World, NEW alive \in SUBSET Body, NEW gone, NEW b \in Body \ alive,
         NEW e \in gone \cap Item, e \in Contact => b \in e,
         IsInjective(w.joints), Graph(w, alive, gone, {e}, stray),
         NEW fixture \in BOOLEAN, ~ fixture, NEW v, v = Delisted(w, b, e, fixture)
  PROVE  Graph(v, alive, gone \ {e}, {}, stray) /\ IsInjective(v.joints)
<1>1. /\ v.joints = RemoveFirst(w.joints, e) /\ v.owned = w.owned /\ v.nodes = w.nodes
      /\ e \notin Contact => \A c \in Body : v.edges[c] = w.edges[c]
      /\ e \in Contact => \A c \in Body \ {b} : v.edges[c] = w.edges[c] \ {e}
      /\ v.edges[b] = w.edges[b]
  BY DelistedDoes
<1>2. Joints(v) = Joints(w) \ {e} /\ IsInjective(v.joints)
  BY <1>1, Lengths, RemoveFirstDoes DEF Joints
<1>3. /\ w.edges[b] \cap Contact = {}
      /\ \A c \in Body : v.edges[c] \cap Joint = w.edges[c] \cap Joint
      /\ \A c \in Body, p \in Contact \ {e} : p \in v.edges[c] <=> p \in w.edges[c]
      /\ e \in Contact => \A c \in Body : e \notin v.edges[c]
      /\ \A c \in Body : v.edges[c] \subseteq w.edges[c]
  <2>1. w.edges[b] \cap Contact = {}
    BY DEF Graph
  <2> QED
    BY <1>1, <2>1, Kinds
<1>4. v.owned = alive \cup (Joints(v) \ {})
  BY <1>1, <1>2 DEF Graph
<1>5. Joints(v) \ (gone \ {e}) = Joints(w) \ gone
  BY <1>2
<1>6. ASSUME NEW p \in Contact, NEW c \in Body, p \in v.edges[c]
      PROVE  c \in p \cap alive /\ (p \in stray \/ \A d \in p : p \in v.edges[d])
  <2>1. p # e /\ p \in w.edges[c]
    BY <1>3, <1>6
  <2> QED
    BY <1>3, <2>1, Kinds DEF Graph
<1>7. Graph(v, alive, gone \ {e}, {}, stray)
  BY <1>1, <1>3, <1>4, <1>5, <1>6 DEF Graph
<1> QED
  BY <1>2, <1>7

\* A contact of a fixture that is removed.
LEMMA FixtureGraph ==
  ASSUME NEW stray, NEW w \in World, NEW alive \in SUBSET Body, NEW b, NEW e \in Contact,
         IsInjective(w.joints), Graph(w, alive, {}, {}, stray), NEW fixture \in BOOLEAN
  PROVE  /\ Graph(Destroyed(w, b, e), alive, {}, {}, stray)
         /\ fixture \/ e \in stray => Graph(Delisted(w, b, e, fixture), alive, {}, {}, stray)
         /\ IsInjective(Delisted(w, b, e, fixture).joints)
<1>1. e \notin Joint /\ e \notin Joints(w) /\ e \notin alive
  BY Lengths, Kinds
<1>2. ASSUME NEW v, v = Destroyed(w, b, e)
      PROVE  Graph(v, alive, {}, {}, stray)
  <2>1. /\ v.joints = w.joints /\ v.owned = w.owned \ {e} /\ v.nodes = w.nodes
        /\ \A c \in Body : v.edges[c] = w.edges[c]
    BY <1>1, <1>2, DestroyedDoes
  <2>2. v.owned = w.owned
    BY <1>1, <2>1 DEF Graph
  <2> QED
    BY <1>1, <2>1, <2>2, SameGraph
<1>3. ASSUME NEW v, v = Delisted(w, b, e, fixture)
      PROVE  (fixture \/ e \in stray => Graph(v, alive, {}, {}, stray)) /\ IsInjective(v.joints)
  <2>1. /\ v.joints = RemoveFirst(w.joints, e) /\ v.owned = w.owned /\ v.nodes = w.nodes
    BY <1>3, DelistedDoes
  <2>2. Joints(v) = Joints(w) /\ IsInjective(v.joints)
    <3>1. w.joints \in Seq(Joint)
      BY Lengths
    <3>2. ToSet(v.joints) = ToSet(w.joints) \ {e} /\ IsInjective(v.joints)
      BY <2>1, <3>1, RemoveFirstDoes
    <3> QED
      BY <1>1, <3>2 DEF Joints
  <2>3. \A c \in Body : /\ c # b \/ fixture => v.edges[c] = w.edges[c] \ {e}
                        /\ v.edges[c] = w.edges[c] \ {e} \/ v.edges[c] = w.edges[c]
    BY <1>3 DEF Delisted, World
  <2>4. ASSUME fixture \/ e \in stray, NEW p \in Contact, NEW c \in Body, p \in v.edges[c]
        PROVE  c \in p \cap alive /\ (p \in stray \/ \A d \in p : p \in v.edges[d])
    <3>1. p \in w.edges[c] /\ (p # e \/ p \in stray)
      BY <2>3, <2>4
    <3> QED
      BY <2>3, <3>1, Kinds DEF Graph
  <2>5. \A c \in Body : v.edges[c] \cap Joint = w.edges[c] \cap Joint
    BY <1>1, <2>3
  <2>6. fixture \/ e \in stray => Graph(v, alive, {}, {}, stray)
    BY <2>1, <2>2, <2>4, <2>5 DEF Graph
  <2> QED
    BY <2>2, <2>6
<1> QED
  BY <1>2, <1>3

\* The contacts go, for the pass to find them again.
LEMMA NoContactsGraph ==
  ASSUME NEW stray, NEW w \in World, NEW alive, Graph(w, alive, {}, {}, stray), NEW v,
         v.nodes = w.nodes, v.owned = w.owned, v.joints = w.joints,
         \A b \in Body : v.edges[b] = w.edges[b] \ Contact
  PROVE  Graph(v, alive, {}, {}, stray)
<1>1. Joints(v) = Joints(w)
  BY DEF Joints
<1>2. ASSUME NEW b \in Body
      PROVE  v.edges[b] \cap Joint = w.edges[b] \cap Joint
  BY Kinds
<1> QED
  BY <1>1, <1>2 DEF Graph

\* ... and those of one body go, when the others may be astray.
LEMMA NoFixturesGraph ==
  ASSUME NEW stray, NEW w \in World, NEW alive, NEW b, Graph(w, alive, {}, {}, stray), NEW now,
         \A p \in Contact : \/ p \in now
                            \/ p \notin w.edges[b] /\ p \notin stray
                            \/ \A c \in Body \ {b} : p \notin w.edges[c],
         NEW v, v.nodes = w.nodes, v.owned = w.owned, v.joints = w.joints,
         v.edges[b] = w.edges[b] \ Contact, \A c \in Body \ {b} : v.edges[c] = w.edges[c]
  PROVE  Graph(v, alive, {}, {}, now)
<1>1. Joints(v) = Joints(w)
  BY DEF Joints
<1>2. ASSUME NEW c \in Body
      PROVE  v.edges[c] \cap Joint = w.edges[c] \cap Joint
  BY Kinds
<1>3. ASSUME NEW p \in Contact, NEW c \in Body, p \in v.edges[c]
      PROVE  c \in p \cap alive /\ (p \in now \/ \A d \in p : p \in v.edges[d])
  <2>1. p \in w.edges[c] /\ c # b
    BY <1>3
  <2>2. c \in p \cap alive /\ (p \in stray \/ \A d \in p : p \in w.edges[d])
    BY <2>1 DEF Graph
  <2>3. ASSUME p \notin now, NEW d \in p
        PROVE  p \in v.edges[d]
    <3>1. p \in w.edges[d] /\ d \in Body
      BY <2>1, <2>2, <2>3, Kinds
    <3>2. d # b
      BY <2>1, <2>3, <3>1
    <3> QED
      BY <3>1, <3>2
  <2> QED
    BY <2>2, <2>3
<1> QED
  BY <1>1, <1>2, <1>3 DEF Graph

LEMMA WithContactGraph ==
  ASSUME NEW stray,
         NEW w \in World, NEW p \in Contact, NEW alive \in SUBSET Body, p \subseteq alive,
         Graph(w, alive, {}, {}, stray), NEW v, v = WithContact(w, p)
  PROVE  Graph(v, alive, {}, {}, stray)
<1>1. /\ v.joints = w.joints /\ v.owned = w.owned /\ v.nodes = w.nodes \cup p
      /\ \A b \in p : v.edges[b] = w.edges[b] \cup {p}
      /\ \A b \in Body \ p : v.edges[b] = w.edges[b]
  BY WithContactDoes
<1>2. Joints(v) = Joints(w) /\ v.nodes = alive /\ v.owned = w.owned
  BY <1>1 DEF Joints, Graph
<1>3. ASSUME NEW b \in Body
      PROVE  v.edges[b] \cap Joint = w.edges[b] \cap Joint
  BY <1>1, Kinds
<1>4. ASSUME NEW q \in Contact, NEW b \in Body, q \in v.edges[b]
      PROVE  b \in q \cap alive /\ (q \in stray \/ \A c \in q : q \in v.edges[c])
  <2>1. CASE q = p
    BY <1>1, <1>4, <2>1 DEF Graph
  <2>2. CASE q # p
    <3>1. q \in w.edges[b]
      BY <1>1, <1>4, <2>2
    <3>2. b \in q \cap alive /\ (q \in stray \/ \A c \in q : q \in w.edges[c])
      BY <3>1 DEF Graph
    <3> QED
      BY <1>1, <3>2, Kinds
  <2> QED
    BY <2>1, <2>2
<1> QED
  BY <1>2, <1>3, <1>4 DEF Graph

LEMMA ClearedGraph ==
  ASSUME NEW stray, NEW w \in World, Graph(w, {}, {}, {}, stray), NEW v, v = Cleared(w)
  PROVE  Lists(v) /\ Graph(v, {}, {}, {}, stray) /\ Bodies(v) = {}
<1>1. /\ v.bodies = <<>> /\ v.joints = <<>> /\ v.owned = w.owned /\ v.nodes = {}
      /\ v.broadphase = {} /\ v.ccdBroadphase = {}
      /\ \A b \in Body : v.edges[b] = {}
  BY ClearedDoes
<1>2. Bodies(v) = {} /\ Joints(v) = {} /\ IsInjective(v.bodies) /\ IsInjective(v.joints)
  BY <1>1 DEF Bodies, Joints, ToSet, IsInjective
<1>3. Joints(w) = {}
  <2>1. \A j \in Joints(w) : Members[j] = {} /\ j \in Joint
    BY Lengths DEF Graph
  <2> QED
    BY <2>1, Kinds
<1>4. v.owned = {}
  BY <1>1, <1>3 DEF Graph
<1> QED
  BY <1>1, <1>2, <1>4 DEF Lists, Graph

LEMMA JointsClearedGraph ==
  ASSUME NEW stray,
         NEW w \in World, Lists(w), Graph(w, Bodies(w), {}, Joints(w), stray),
         NEW v, v = JointsCleared(w)
  PROVE  Lists(v) /\ Graph(v, Bodies(v), {}, {}, stray)
<1>1. /\ v.bodies = w.bodies /\ v.joints = <<>> /\ v.owned = w.owned /\ v.nodes = w.nodes
      /\ v.broadphase = w.broadphase /\ v.ccdBroadphase = w.ccdBroadphase
      /\ \A b \in Body : v.edges[b] = w.edges[b] \ Joint
  BY JointsClearedDoes
<1>2. Bodies(v) = Bodies(w) /\ Joints(v) = {} /\ IsInjective(v.joints)
  BY <1>1 DEF Bodies, Joints, ToSet, IsInjective
<1>3. v.owned = Bodies(w) /\ v.nodes = Bodies(w)
  BY <1>1 DEF Graph
<1>4. ASSUME NEW p \in Contact, NEW b \in Body
      PROVE  p \in v.edges[b] <=> p \in w.edges[b]
  BY <1>1, Kinds
<1>5. Graph(v, Bodies(v), {}, {}, stray)
  BY <1>1, <1>2, <1>3, <1>4, Lengths, Kinds DEF Graph
<1> QED
  BY <1>1, <1>2, <1>5 DEF Lists

-----------------------------------------------------------------------------
(***************************************************************************)
(* The invariant.                                                          *)
(***************************************************************************)

\* No use that a run shows to break the graph.
Ordinary ==
  Usage \cap {"removeOwnPair", "removeStranded", "reviveVictim", "changeRemoveAll",
              "usedDetector"} = {}

OfBodies == pc \in {"removeAll", "destroy", "destroyed", "bodyDestroyed"}
OfJoints == pc \in {"removeAllJoints", "jointDestroyed"}

\* The bodies that are in the graph: while all are being removed, the ones
\* whose turn has not come.
From(k) == {world.bodies[n] : n \in k..Len(world.bodies)}
Alive ==
  IF frame.all /\ OfBodies
  THEN From(IF pc = "removeAll" THEN frame.index ELSE frame.index + 1) ELSE Bodies(world)

\* The joints and contacts of the body being removed, and the joints that the
\* world lists but no longer owns.
Gone == IF Removing /\ ~ frame.fixture THEN frame.todo \cup ({frame.current} \ {None}) ELSE {}
Released(k) == {world.joints[n] : n \in 1..k - 1}
Disowned ==
  IF pc = "destroyed" /\ ~ frame.fixture THEN {frame.current}
  ELSE IF OfJoints THEN Released(frame.index) ELSE {}

\* The contacts that may be with one of their bodies only: while all fixtures of a
\* body are removed, those that listeners were told of.
Stray == history.dropped \cup (IF Removing /\ frame.every THEN history.told ELSE {})

\* Where an operation is.
PassPosition ==
  /\ ~ frame.all /\ ~ frame.fixture /\ ~ frame.every
  /\ frame.victim = None /\ frame.todo \subseteq Contact
  /\ pc \in {"detect", "ended"} => frame.current = None
  /\ pc \in {"updating", "collided"} => frame.current \in Contact \ frame.todo
  /\ pc = "updating" => frame.current \subseteq Bodies(world)

\* A removal of all fixtures has taken the contacts listeners were told of off the
\* other bodies, and goes through all that the victim has.
FixturesPosition ==
  /\ frame.fixture
  /\ pc = "destroyed" => frame.current \in history.told
  /\ world.edges[frame.victim] \cap Contact \subseteq history.told \cup frame.todo
  /\ world.edges[frame.victim] \cap frame.lost = {}
  /\ \A b \in Body \ {frame.victim} :
       world.edges[b] \cap Contact \cap history.told \subseteq {frame.current}

RemovalPosition ==
  /\ frame.victim \in Body
  /\ \A e \in Gone : /\ e \in Joint => frame.victim \in Members[e]
                     /\ e \in Contact => /\ frame.victim \in e
                                         /\ \A b \in Body : e \notin world.edges[b]
  /\ pc = "destroy" => frame.current = None
  /\ pc = "destroyed" => frame.current \in Item \ frame.todo
  /\ frame.fixture => /\ ~ frame.all /\ frame.todo \subseteq Contact
                      /\ frame.current \in Contact \cup {None}
  /\ ~ frame.fixture => frame.victim \notin Alive
  /\ frame.all => frame.index \in 1..Len(world.bodies) /\ frame.count = Len(world.bodies)
  /\ ~ frame.fixture => frame.lost = {}
  /\ frame.every => FixturesPosition

AllPosition ==
  /\ frame.all /\ ~ frame.fixture /\ ~ frame.every /\ frame.lost = {}
  /\ frame.todo = {} /\ frame.current = None
  /\ pc = "removeAll" => frame.index \in 1..Len(world.bodies) + 1 /\ frame.count = Len(world.bodies)
  /\ pc = "bodyDestroyed" => frame.index \in 1..Len(world.bodies) /\ frame.count = Len(world.bodies)
  /\ OfJoints => frame.index \in 1..Len(world.joints) + 1 /\ frame.count = Len(world.joints)

Position ==
  /\ Passing => PassPosition
  /\ Removing => RemovalPosition
  /\ RemovingAll => AllPosition
  /\ ~ Passing /\ ~ Removing /\ ~ RemovingAll => frame = NoFrame

Coherent == Lists(world) /\ Graph(world, Alive, Gone, Disowned, Stray) /\ Position

\* A world w that a listener may leave behind, when it removes `lost` itself and
\* leaves f of the operation under way.
Fits(w, lost, f) ==
  /\ Kept(f) /\ f.lost \subseteq frame.lost \cup lost
  /\ frame.every => w.edges[frame.victim] \cap f.lost \subseteq frame.lost
  /\ Lists(w) /\ Graph(w, Bodies(w), Gone, Disowned, Stray)
  /\ pc = "updating" => frame.current \subseteq Bodies(w)
  /\ frame.victim \in Bodies(w) => frame.victim \in Bodies(world)
  /\ \A b \in Body : w.edges[b] \cap Contact \subseteq world.edges[b]
  /\ \A b \in Body : w.edges[b] \cap world.collisionData \subseteq w.collisionData
  /\ pc = "updating" /\ frame.current \in world.collisionData => frame.current \in w.collisionData

LEMMA Outside ==
  ASSUME Typed, Ordinary, Coherent, MayChange
  PROVE  /\ ~ frame.all /\ ~ RemovingAll
         /\ Graph(world, Bodies(world), Gone, Disowned, Stray) /\ Lists(world)
         /\ Removing /\ ~ frame.fixture => frame.victim \notin Bodies(world)
         /\ pc = "updating" => frame.current \in Contact /\ frame.current \subseteq Bodies(world)
<1>1. "changeRemoveAll" \notin Usage
  BY DEF Ordinary
<1>2. ~ frame.all
  BY <1>1, FrameIs DEF MayChange, Coherent, Position, Passing, Removing, RemovingAll
<1>3. ~ RemovingAll
  BY <1>2 DEF Coherent, Position, AllPosition
<1>4. Alive = Bodies(world)
  BY <1>2 DEF Alive
<1> QED
  BY <1>2, <1>3, <1>4 DEF Coherent, Position, RemovalPosition, PassPosition, Passing

LEMMA ProgramFits ==
  ASSUME Typed, Ordinary, Coherent, Program, ~ SetUpdateRequired
  PROVE  \E w \in World, lost \in SUBSET Item, f \in Frame :
           ChangeFrame(w, lost, f) /\ Fits(w, lost, f)
<1> DEFINE Does(w, lost, f) == ChangeFrame(w, lost, f) /\ Fits(w, lost, f)
<1> SUFFICES \E w \in World, lost \in SUBSET Item, f \in Frame : Does(w, lost, f)
  OBVIOUS
<1>1. /\ world \in World /\ Joints(world) \subseteq Joint /\ Bodies(world) \subseteq Body
      /\ \A b \in Body : world.edges[b] \subseteq Item
      /\ TypeOK /\ frame \in Frame /\ frame.victim \in Body \cup {None}
  BY Lengths DEF Typed, TypeOK, Frame
<1>2. Present(world) \subseteq Item
  BY <1>1, Kinds DEF Present
<1>3. MayChange
  BY DEF Program, AddBody, AddJoint, RemoveBody, RemoveJoint, RemoveAll, RemoveJoints,
         SetDetectors, Change, ChangeFrame
<1>4. /\ ~ frame.all /\ ~ RemovingAll
      /\ Graph(world, Bodies(world), Gone, Disowned, Stray) /\ Lists(world)
      /\ Removing /\ ~ frame.fixture => frame.victim \notin Bodies(world)
      /\ pc = "updating" => frame.current \in Contact /\ frame.current \subseteq Bodies(world)
  BY <1>3, Outside
<1>5. "removeOwnPair" \notin Usage /\ "reviveVictim" \notin Usage /\ "usedDetector" \notin Usage
  BY DEF Ordinary
<1>13. ASSUME NEW w \in World, NEW lost \in SUBSET Item, Change(w, lost), Fits(w, lost, frame)
       PROVE  Does(w, lost, frame) /\ frame \in Frame
  BY <1>1, <1>13 DEF Change
<1>14. Kept(frame)
  BY <1>1, KeptIs
<1>6. ASSUME NEW b \in Body, AddBody(b)
      PROVE  \E w \in World, lost \in SUBSET Item, f \in Frame : Does(w, lost, f)
  <2>1. PICK w : w = WithBody(world, b)
    OBVIOUS
  <2>2. Change(w, {}) /\ b \notin world.owned /\ b # frame.victim
    BY <1>5, <1>6, <2>1 DEF AddBody
  <2>3. w \in World /\ w.edges = world.edges /\ w.collisionData = world.collisionData
    BY <1>1, <2>1, WithBodyDoes
  <2>4. Lists(w) /\ Graph(w, Bodies(w), Gone, Disowned, Stray) /\ Bodies(w) = Bodies(world) \cup {b}
    BY <1>1, <1>4, <2>1, <2>2, WithBodyGraph
  <2>5. Fits(w, {}, frame)
    BY <1>14, <1>4, <2>2, <2>3, <2>4 DEF Fits
  <2> QED
    BY <1>13, <2>2, <2>3, <2>5
<1>7. ASSUME NEW j \in Joint, AddJoint(j)
      PROVE  \E w \in World, lost \in SUBSET Item, f \in Frame : Does(w, lost, f)
  <2>1. PICK w : w = WithJoint(world, j)
    OBVIOUS
  <2>2. Change(w, {}) /\ j \notin world.owned /\ Members[j] \subseteq world.nodes
    BY <1>7, <2>1 DEF AddJoint
  <2>3. /\ w \in World /\ w.collisionData = world.collisionData
        /\ \A b \in Members[j] : w.edges[b] = world.edges[b] \cup {j}
        /\ \A b \in Body \ Members[j] : w.edges[b] = world.edges[b]
    BY <1>1, <2>1, WithJointDoes
  <2>4. j \notin Gone /\ j \notin Disowned
    <3>1. world.nodes = Bodies(world)
      BY <1>4 DEF Graph
    <3>2. j \notin Gone
      BY <1>4, <2>2, <3>1 DEF Coherent, Position, RemovalPosition, Gone
    <3>3. Disowned \subseteq Gone
      BY <1>4, Kinds
         DEF Disowned, Gone, Coherent, Position, RemovalPosition, Removing, RemovingAll, OfJoints
    <3> QED
      BY <3>2, <3>3
  <2>5. Lists(w) /\ Graph(w, Bodies(w), Gone, Disowned, Stray) /\ Bodies(w) = Bodies(world)
    BY <1>1, <1>4, <2>1, <2>2, <2>4, WithJointGraph
  <2>6. \A b \in Body : w.edges[b] \cap Contact = world.edges[b] \cap Contact
    BY <2>3, Kinds
  <2>7. world.collisionData \subseteq Contact
    BY <1>1 DEF World
  <2>8. Fits(w, {}, frame)
    BY <1>14, <1>4, <2>3, <2>5, <2>6, <2>7 DEF Fits
  <2> QED
    BY <1>13, <2>2, <2>3, <2>8
<1>8. ASSUME NEW b \in Body, RemoveBody(b)
      PROVE  \E w \in World, lost \in SUBSET Item, f \in Frame : Does(w, lost, f)
  <2>1. PICK w : w = WithoutBody(world, b)
    OBVIOUS
  <2> DEFINE f == Shortened(b)
  <2>2. ChangeFrame(w, world.edges[b], f) /\ b \in Bodies(world)
        /\ (pc = "updating" => b \notin frame.current)
    BY <1>5, <1>8, <2>1 DEF RemoveBody, Engaged
  <2>3. /\ w \in World /\ w.collisionData = world.collisionData \ world.edges[b]
        /\ w.edges[b] = {} /\ \A c \in Body \ {b} : w.edges[c] = world.edges[c] \ world.edges[b]
    BY <1>1, <2>1, WithoutBodyDoes
  <2>4. Lists(w) /\ Graph(w, Bodies(w), Gone, Disowned, Stray) /\ Bodies(w) = Bodies(world) \ {b}
    BY <1>1, <1>4, <2>1, <2>2, WithoutBodyGraph
  <2>5. \A c \in Body : w.edges[c] \subseteq world.edges[c] \ world.edges[b]
    BY <2>3
  <2>6. pc = "updating" => frame.current \notin world.edges[b]
    BY <1>4, <2>2 DEF Graph
  <2>7. Kept(f) /\ f \in Frame
    BY <1>1, KeptIs DEF Kept
  <2>8. f.lost \subseteq frame.lost \cup (world.edges[b] \cap Contact)
    BY <1>1 DEF Shortened, Frame
  <2>9. frame.every => w.edges[frame.victim] \cap f.lost \subseteq frame.lost
    <3>1. frame.victim \in Body => w.edges[frame.victim] \cap world.edges[b] = {}
      BY <2>3
    <3>2. frame.every => frame.victim \in Body
      BY FrameIs DEF Coherent, Position, PassPosition, RemovalPosition, AllPosition
    <3> QED
      BY <2>8, <3>1, <3>2
  <2> HIDE DEF f
  <2>10. Fits(w, world.edges[b], f)
    BY <1>4, <2>2, <2>3, <2>4, <2>5, <2>6, <2>7, <2>8, <2>9 DEF Fits
  <2> QED
    BY <1>1, <2>2, <2>3, <2>7, <2>10
<1>9. ASSUME NEW j \in Joint, RemoveJoint(j)
      PROVE  \E w \in World, lost \in SUBSET Item, f \in Frame : Does(w, lost, f)
  <2>1. PICK w : w = WithoutJoint(world, j)
    OBVIOUS
  <2>2. Change(w, {j})
    BY <1>9, <2>1 DEF RemoveJoint
  <2>3. /\ w \in World /\ w.collisionData = world.collisionData
        /\ \A b \in Body : w.edges[b] = world.edges[b] \ {j}
    BY <1>1, <2>1, WithoutJointDoes
  <2>4. Lists(w) /\ Graph(w, Bodies(w), Gone, Disowned, Stray) /\ Bodies(w) = Bodies(world)
    BY <1>1, <1>4, <2>1, WithoutJointGraph
  <2>5. Fits(w, {j}, frame)
    BY <1>14, <1>4, <2>3, <2>4 DEF Fits
  <2> QED
    BY <1>13, <2>2, <2>3, <2>5, Kinds
<1>10. CASE RemoveAll
  <2>1. PICK w : w = WithoutAll(world)
    OBVIOUS
  <2>2. PICK f \in Frame : /\ ChangeFrame(w, Present(world), f) /\ pc # "updating"
                           /\ Kept(f) /\ f.lost = frame.lost
    <3>1. pc # "updating"
      BY <1>4, <1>5, <1>10, Kinds DEF RemoveAll, Engaged
    <3>2. CASE Change(w, Present(world))
      BY <1>1, <1>14, <3>1, <3>2 DEF Change
    <3>3. CASE /\ pc \in {"ended", "updating", "collided"}
               /\ ChangeFrame(w, Present(world), [frame EXCEPT !.todo = {}])
      <4>1. Kept([frame EXCEPT !.todo = {}])
        BY <1>1, <3>3, KeptIs DEF Passing
      <4>2. [frame EXCEPT !.todo = {}].lost = frame.lost /\ [frame EXCEPT !.todo = {}] \in Frame
        BY <1>1 DEF Frame
      <4> QED
        BY <3>1, <3>3, <4>1, <4>2
    <3> QED
      BY <1>10, <2>1, <3>2, <3>3 DEF RemoveAll
  <2>3. w \in World /\ \A b \in Body : w.edges[b] = {}
    BY <1>1, <2>1, WithoutAllDoes
  <2>4. Lists(w) /\ Graph(w, Bodies(w), Gone, Disowned, Stray) /\ Bodies(w) = {}
    BY <1>1, <1>4, <2>1, WithoutAllGraph
  <2>5. Fits(w, Present(world), f)
    BY <1>4, <2>2, <2>3, <2>4 DEF Fits
  <2> QED
    BY <1>2, <2>2, <2>3, <2>5
<1>11. CASE RemoveJoints
  <2>1. PICK w : w = WithoutJoints(world)
    OBVIOUS
  <2>2. Change(w, Joints(world))
    BY <1>11, <2>1 DEF RemoveJoints
  <2>3. /\ w \in World /\ w.collisionData = world.collisionData
        /\ \A b \in Body : w.edges[b] = world.edges[b] \ Joint
    BY <1>1, <2>1, WithoutJointsDoes
  <2>4. Lists(w) /\ Graph(w, Bodies(w), Gone, Disowned, Stray) /\ Bodies(w) = Bodies(world)
    BY <1>1, <1>4, <2>1, WithoutJointsGraph
  <2>5. Fits(w, Joints(world), frame)
    BY <1>14, <1>4, <2>3, <2>4 DEF Fits
  <2>6. Joints(world) \in SUBSET Item
    BY <1>1, Kinds
  <2> QED
    BY <1>13, <2>2, <2>3, <2>5, <2>6
<1>12. ASSUME NEW old \in SUBSET Body, SetDetectors(old)
       PROVE  \E w \in World, lost \in SUBSET Item, f \in Frame : Does(w, lost, f)
  <2>1. PICK w : w = [world EXCEPT !.broadphase = old \cup Bodies(world),
                                   !.ccdBroadphase = old \cup Bodies(world)]
    OBVIOUS
  <2>2. Change(w, {}) /\ old = {}
    BY <1>5, <1>12, <2>1 DEF SetDetectors
  <2>3. /\ w \in World /\ w.bodies = world.bodies /\ w.joints = world.joints
        /\ w.owned = world.owned /\ w.nodes = world.nodes /\ w.edges = world.edges
        /\ w.collisionData = world.collisionData
        /\ w.broadphase = Bodies(world) /\ w.ccdBroadphase = Bodies(world)
    BY <1>1, <2>1, <2>2 DEF World
  <2>4. Bodies(w) = Bodies(world) /\ Lists(w)
    BY <1>4, <2>3 DEF Bodies, Lists
  <2>5. Graph(w, Bodies(w), Gone, Disowned, Stray)
    BY <1>4, <2>3, <2>4, SameGraph
  <2>6. Fits(w, {}, frame)
    BY <1>14, <1>4, <2>3, <2>4, <2>5 DEF Fits
  <2> QED
    BY <1>13, <2>2, <2>3, <2>6
<1> QED
  BY <1>6, <1>7, <1>8, <1>9, <1>10, <1>11, <1>12 DEF Program

\* In a state outside of removals.
LEMMA SteadyGraph ==
  ASSUME Coherent, ~ Removing, ~ RemovingAll
  PROVE  /\ Lists(world) /\ Graph(world, Bodies(world), {}, {}, Stray)
         /\ ~ Passing => frame = NoFrame
         /\ Passing => PassPosition
         /\ ~ frame.all
<1>1. Alive = Bodies(world) /\ Gone = {} /\ Disowned = {}
  BY DEF Removing, RemovingAll, Alive, Gone, Disowned, OfBodies, OfJoints
<1> QED
  BY <1>1, FrameIs DEF Coherent, Position, PassPosition

LEMMA SteadyAgain ==
  ASSUME ~ Removing', ~ RemovingAll', Lists(world'), Graph(world', Bodies(world'), {}, {}, Stray'),
         Passing' => PassPosition', ~ Passing' => frame' = NoFrame
  PROVE  Coherent'
<1>1. Alive' = Bodies(world') /\ Gone' = {} /\ Disowned' = {}
  BY DEF Removing, RemovingAll, Alive, Gone, Disowned, OfBodies, OfJoints
<1> QED
  BY <1>1 DEF Coherent, Position

\* Contacts that were astray are so still.
LEMMA SameStray ==
  ASSUME history'.dropped = history.dropped, Removing => ~ frame.every,
         Removing' => ~ frame'.every
  PROVE  Stray' = Stray
BY DEF Stray

\* The lists stay when bodies, broadphases and joints do.
LEMMA SameLists ==
  ASSUME NEW w, NEW v, Lists(w), v.bodies = w.bodies, IsInjective(v.joints),
         v.broadphase = w.broadphase, v.ccdBroadphase = w.ccdBroadphase
  PROVE  Lists(v) /\ Bodies(v) = Bodies(w)
BY DEF Lists, Bodies

LEMMA ProgramCoherent ==
  ASSUME Typed, Ordinary, Coherent, Program
  PROVE  Coherent'
<1>1. CASE SetUpdateRequired
  <2>1. history \in History
    BY DEF Typed, TypeOK
  <2>2. /\ world' = world /\ pc' = pc /\ frame' = frame
        /\ history'.told = history.told /\ history'.dropped = history.dropped
    BY <1>1, <2>1 DEF SetUpdateRequired, History
  <2>3. /\ Lists(world') /\ Alive' = Alive /\ Gone' = Gone /\ Disowned' = Disowned
        /\ Stray' = Stray
    BY <2>2 DEF Coherent, Alive, Gone, Disowned, Stray, Removing, OfBodies, OfJoints, From, Released
  <2>4. Position'
    BY <2>2, <2>3
       DEF Coherent, Position, PassPosition, RemovalPosition, FixturesPosition, AllPosition,
           Passing, Removing, RemovingAll, OfJoints
  <2> QED
    BY <2>2, <2>3, <2>4 DEF Coherent
<1>2. CASE ~ SetUpdateRequired
  <2>1. PICK w \in World, lost \in SUBSET Item, f \in Frame :
          ChangeFrame(w, lost, f) /\ Fits(w, lost, f)
    BY <1>2, ProgramFits
  <2>2. /\ world' = w /\ pc' = pc /\ frame' = f /\ MayChange
        /\ history'.dropped = history.dropped
        /\ pc # "idle" => history'.told = history.told
    <3>1. TypeOK
      BY DEF Typed
    <3> QED
      BY <2>1, <3>1, ChangeIs
  <2>3. /\ ~ frame.all /\ ~ RemovingAll
        /\ Removing /\ ~ frame.fixture => frame.victim \notin Bodies(world)
    BY <2>2, Outside
  <2>4. /\ f.victim = frame.victim /\ f.current = frame.current /\ f.all = frame.all
        /\ f.fixture = frame.fixture /\ f.every = frame.every
        /\ f.todo = frame.todo \/ (Passing /\ f.todo = {})
        /\ f.lost = frame.lost \/ (pc = "destroyed" /\ frame.fixture)
        /\ Passing \/ Removing \/ f = frame
        /\ f.lost \subseteq Contact
    BY <2>1 DEF Fits, Kept, Frame
  <2>5. ~ (Passing /\ Removing)
    BY DEF Passing, Removing
  <2>6. Alive' = Bodies(w)
    BY <2>2, <2>3, <2>4 DEF Alive
  <2>7. Gone' = Gone
    BY <2>2, <2>4, <2>5 DEF Gone, Removing
  <2>8. Disowned' = Disowned
    BY <2>2, <2>3, <2>4 DEF Disowned, OfJoints, RemovingAll
  <2>9. Stray' = Stray
    BY <2>2, <2>4 DEF Stray, Removing
  <2>10. Lists(world') /\ Graph(world', Alive', Gone', Disowned', Stray')
    BY <2>1, <2>2, <2>6, <2>7, <2>8, <2>9 DEF Fits
  <2>11. Passing => PassPosition'
    BY <2>1, <2>2, <2>4 DEF Coherent, Position, PassPosition, Fits
  <2>12. ASSUME Removing
         PROVE  RemovalPosition'
    <3>1. RemovalPosition /\ f.todo = frame.todo /\ history'.told = history.told
      BY <2>2, <2>4, <2>5, <2>12 DEF Coherent, Position, Removing
    <3>2. \A b \in Body : w.edges[b] \cap Contact \subseteq world.edges[b]
      BY <2>1 DEF Fits
    <3>3. ASSUME frame.every
          PROVE  FixturesPosition'
      <4>1. FixturesPosition /\ frame.victim \in Body
        BY <3>1, <3>3 DEF RemovalPosition
      <4>2. w.edges[frame.victim] \cap f.lost \subseteq frame.lost
        BY <2>1, <3>3 DEF Fits
      <4>3. w.edges[frame.victim] \cap f.lost = {}
        BY <2>4, <3>2, <4>1, <4>2 DEF FixturesPosition
      <4> QED
        BY <2>2, <2>4, <3>1, <3>2, <4>1, <4>3 DEF FixturesPosition
    <3>4. \A e \in Gone : /\ e \in Joint => frame.victim \in Members[e]
                          /\ e \in Contact => /\ frame.victim \in e
                                              /\ \A b \in Body : e \notin w.edges[b]
      BY <3>1, <3>2 DEF RemovalPosition
    <3>5. ~ frame.fixture => frame.victim \notin Bodies(w)
      BY <2>1, <2>3, <2>12 DEF Fits
    <3> QED
      BY <2>2, <2>3, <2>4, <2>6, <2>7, <3>1, <3>3, <3>4, <3>5 DEF RemovalPosition
  <2>13. Position'
    BY <2>2, <2>3, <2>4, <2>11, <2>12 DEF Coherent, Position, Passing, Removing, RemovingAll
  <2> QED
    BY <2>10, <2>13 DEF Coherent
<1> QED
  BY <1>1, <1>2

LEMMA BeginRemoveBodyCoherent ==
  ASSUME Typed, Coherent, NEW b \in Body, BeginRemoveBody(b)
  PROVE  Coherent'
<1>1. world \in World /\ Bodies(world) \subseteq Body /\ world.edges[b] \subseteq Item
  BY Lengths DEF Typed, TypeOK
<1>2. /\ pc = "idle" /\ pc' = "destroy" /\ b \in Bodies(world)
      /\ world' = Detached(world, b)
      /\ frame' = [NoFrame EXCEPT !.victim = b, !.todo = world.edges[b]]
  BY DEF BeginRemoveBody
<1>3. Lists(world) /\ Graph(world, Bodies(world), {}, {}, Stray)
  BY <1>2, SteadyGraph DEF Removing, RemovingAll
<1>14. Stray' = Stray
  <2>1. history'.dropped = history.dropped
    BY <1>1, PromisedIs DEF Typed, TypeOK, BeginRemoveBody
  <2> QED
    BY <1>2, <2>1, SameStray DEF Removing, NoFrame
<1>4. /\ world'.bodies = RemoveFirst(world.bodies, b) /\ world'.joints = world.joints
      /\ world'.owned = world.owned \ {b} /\ world'.nodes = world.nodes \ {b}
      /\ world'.broadphase = world.broadphase \ {b}
      /\ world'.ccdBroadphase = world.ccdBroadphase \ {b}
      /\ world'.edges[b] = {}
      /\ \A c \in Body \ {b} : world'.edges[c] = world.edges[c] \ world.edges[b]
  BY <1>1, <1>2, DetachedDoes
<1>5. Bodies(world') = Bodies(world) \ {b} /\ IsInjective(world'.bodies)
  BY <1>1, <1>3, <1>4, Lengths, RemoveFirstDoes DEF Bodies, Lists
<1>6. Lists(world')
  BY <1>3, <1>4, <1>5 DEF Lists
<1>7. Graph(world', Bodies(world'), world.edges[b], {}, Stray')
  <2> DEFINE v == world'
             alive == Bodies(world)
  <2>1. \A c \in Body : v.edges[c] = IF c = b THEN {} ELSE world.edges[c] \ world.edges[b]
    BY <1>4
  <2>2. v.nodes = world.nodes \ {b} /\ v.owned = world.owned \ {b} /\ v.joints = world.joints
    BY <1>4
  <2>3. alive \in SUBSET Body /\ b \in alive /\ Graph(world, alive, {}, {}, Stray)
    BY <1>1, <1>2, <1>3
  <2> HIDE DEF v, alive
  <2>4. Graph(v, alive \ {b}, world.edges[b], {}, Stray)
    BY <1>1, <2>1, <2>2, <2>3, DetachedGraph
  <2> QED
    BY <1>5, <1>14, <2>4 DEF v, alive
<1>8. /\ frame'.victim = b /\ frame'.todo = world.edges[b] /\ frame'.current = None
      /\ ~ frame'.all /\ ~ frame'.fixture /\ ~ frame'.every /\ frame'.lost = {}
  BY <1>2 DEF NoFrame
<1>9. Alive' = Bodies(world')
  BY <1>8 DEF Alive
<1>10. Gone' = world.edges[b] /\ Disowned' = {}
  BY <1>2, <1>8 DEF Gone, Disowned, Removing, OfJoints
<1>11. \A e \in world.edges[b] :
         /\ e \in Joint => b \in Members[e]
         /\ e \in Contact => b \in e /\ \A c \in Body : e \notin world'.edges[c]
  BY <1>3, <1>4 DEF Graph
<1>12. RemovalPosition'
  <2>1. \A e \in Gone' : /\ e \in Joint => frame'.victim \in Members[e]
                         /\ e \in Contact => /\ frame'.victim \in e
                                             /\ \A c \in Body : e \notin world'.edges[c]
    BY <1>8, <1>10, <1>11
  <2> QED
    BY <1>2, <1>5, <1>8, <1>9, <2>1 DEF RemovalPosition
<1>13. Position'
  BY <1>2, <1>12 DEF Position, Passing, Removing, RemovingAll
<1> QED
  BY <1>6, <1>7, <1>9, <1>10, <1>13 DEF Coherent

LEMMA BeginRemoveFixtureCoherent ==
  ASSUME Typed, Coherent, NEW b \in Body, NEW touching \in SUBSET Contact,
         BeginRemoveFixture(b, touching)
  PROVE  Coherent'
<1>1. /\ pc = "idle" /\ pc' = "destroy" /\ world' = world
      /\ frame' = [NoFrame EXCEPT !.victim = b, !.todo = touching, !.fixture = TRUE]
  BY DEF BeginRemoveFixture
<1>2. Lists(world) /\ Graph(world, Bodies(world), {}, {}, Stray)
  BY <1>1, SteadyGraph DEF Removing, RemovingAll
<1>7. Stray' = Stray
  <2>1. history'.dropped = history.dropped
    BY Kinds, PromisedIs DEF Typed, TypeOK, BeginRemoveFixture
  <2> QED
    BY <1>1, <2>1, SameStray DEF Removing, NoFrame
<1>3. /\ frame'.victim = b /\ frame'.todo = touching /\ frame'.current = None
      /\ ~ frame'.all /\ frame'.fixture /\ ~ frame'.every
  BY <1>1 DEF NoFrame
<1>4. Alive' = Bodies(world) /\ Gone' = {} /\ Disowned' = {}
  BY <1>1, <1>3 DEF Alive, Gone, Disowned, OfJoints
<1>5. RemovalPosition'
  BY <1>1, <1>3, <1>4 DEF RemovalPosition
<1>6. Position'
  BY <1>1, <1>5 DEF Position, Passing, Removing, RemovingAll
<1> QED
  BY <1>1, <1>2, <1>4, <1>6, <1>7 DEF Coherent

LEMMA BeginRemoveFixturesCoherent ==
  ASSUME Typed, Coherent, NEW b \in Body, BeginRemoveFixtures(b)
  PROVE  Coherent'
<1> DEFINE contacts == world.edges[b] \cap Contact
<1>1. /\ pc = "idle" /\ pc' = "destroy" /\ world' = world
      /\ frame' = [NoFrame EXCEPT !.victim = b, !.todo = contacts, !.fixture = TRUE, !.every = TRUE]
  BY DEF BeginRemoveFixtures
<1>2. Lists(world) /\ Graph(world, Bodies(world), {}, {}, Stray)
  BY <1>1, SteadyGraph DEF Removing, RemovingAll
<1>3. history'.told = {} /\ history'.dropped = history.dropped
  BY Kinds, PromisedIs DEF Typed, TypeOK, BeginRemoveFixtures
<1>4. /\ frame'.victim = b /\ frame'.todo = contacts /\ frame'.current = None
      /\ ~ frame'.all /\ frame'.fixture /\ frame'.lost = {}
  BY <1>1 DEF NoFrame
<1>5. Alive' = Bodies(world) /\ Gone' = {} /\ Disowned' = {}
  BY <1>1, <1>4 DEF Alive, Gone, Disowned, OfJoints
<1>6. Stray' = Stray
  BY <1>1, <1>3 DEF Stray, Removing
<1>7. RemovalPosition'
  BY <1>1, <1>3, <1>4, <1>5 DEF RemovalPosition, FixturesPosition
<1>8. Position'
  BY <1>1, <1>7 DEF Position, Passing, Removing, RemovingAll
<1> QED
  BY <1>1, <1>2, <1>5, <1>6, <1>8 DEF Coherent

LEMMA DestroyCoherent ==
  ASSUME Typed, Coherent, NEW e \in Item, Destroy(e)
  PROVE  Coherent'
<1>1. /\ world \in World /\ frame \in Frame /\ Bodies(world) \subseteq Body
      /\ history \in History
  BY Lengths DEF Typed, TypeOK
<1>2. /\ pc = "destroy" /\ pc' = "destroyed" /\ e \in frame.todo /\ frame.lost = {}
      /\ world' = Destroyed(world, frame.victim, e)
      /\ frame' = [frame EXCEPT !.todo = @ \ {e}, !.current = e]
  BY DEF Destroy
<1>3. /\ frame'.todo = frame.todo \ {e} /\ frame'.current = e
      /\ frame'.victim = frame.victim /\ frame'.all = frame.all /\ frame'.fixture = frame.fixture
      /\ frame'.index = frame.index /\ frame'.count = frame.count
      /\ frame'.every = frame.every /\ frame'.lost = {}
  BY <1>1, <1>2 DEF Frame
<1>11. history'.told = history.told \cup {e} /\ history'.dropped = history.dropped
  BY <1>1, TellIs DEF Destroy
<1>4. Lists(world) /\ Graph(world, Alive, Gone, Disowned, Stray) /\ RemovalPosition
  BY <1>2 DEF Coherent, Position, Removing
<1>5. /\ frame.victim \in Body /\ frame.current = None /\ e # None
      /\ frame.fixture => e \in Contact
  BY <1>2, <1>4, Kinds DEF RemovalPosition
<1>6. /\ world'.bodies = world.bodies /\ world'.joints = world.joints
      /\ world'.broadphase = world.broadphase /\ world'.ccdBroadphase = world.ccdBroadphase
  BY <1>1, <1>2, DestroyedDoes
<1>7. Lists(world') /\ Bodies(world') = Bodies(world)
  BY <1>4, <1>6, SameLists DEF Lists
<1>8. Alive' = Alive /\ Alive \in SUBSET Body
  <2>1. From(frame.index + 1)' = From(frame.index + 1)
    BY <1>3, <1>6 DEF From
  <2>2. From(frame.index + 1) \subseteq Bodies(world)
    BY <1>1, Lengths DEF From, Bodies, ToSet, Frame
  <2> QED
    BY <1>1, <1>2, <1>3, <1>7, <2>1, <2>2 DEF Alive, OfBodies
<1>9. CASE frame.fixture
  <2>1. Gone = {} /\ Disowned = {} /\ Gone' = {} /\ Disowned' = {}
    BY <1>2, <1>3, <1>9 DEF Gone, Disowned, OfJoints
  <2>2. Graph(world', Alive, {}, {}, Stray')
    <3> DEFINE alive == Alive
               b == frame.victim
    <3>1. IsInjective(world.joints) /\ Graph(world, alive, {}, {}, Stray) /\ alive \in SUBSET Body
          /\ e \in Contact /\ TRUE \in BOOLEAN
      BY <1>4, <1>5, <1>8, <1>9, <2>1 DEF Lists
    <3> HIDE DEF alive, b
    <3>2. Graph(Destroyed(world, b, e), alive, {}, {}, Stray)
      BY <1>1, <3>1, FixtureGraph
    <3>3. Stray \subseteq Stray'
      BY <1>2, <1>3, <1>11 DEF Stray, Removing
    <3>4. Graph(Destroyed(world, b, e), alive, {}, {}, Stray')
      BY <3>2, <3>3, StrayGraph
    <3> QED
      BY <1>2, <3>4 DEF alive, b
  <2>3. ASSUME frame.every
        PROVE  FixturesPosition'
    <3>1. e \in Contact /\ e \notin Joint /\ None \notin Contact
      BY <1>5, <1>9, Kinds
    <3>2. \A c \in Body : world'.edges[c] = world.edges[c]
      BY <1>1, <1>2, <3>1, DestroyedDoes
    <3>3. FixturesPosition
      BY <1>4, <2>3 DEF RemovalPosition
    <3> QED
      BY <1>3, <1>5, <1>9, <1>11, <3>1, <3>2, <3>3 DEF FixturesPosition
  <2>4. RemovalPosition'
    BY <1>2, <1>3, <1>4, <1>5, <1>6, <1>9, <2>1, <2>3 DEF RemovalPosition
  <2> QED
    BY <1>2, <1>7, <1>8, <2>1, <2>2, <2>4 DEF Coherent, Position, Passing, Removing, RemovingAll
<1>10. CASE ~ frame.fixture
  <2>1. Gone = frame.todo /\ Disowned = {}
    BY <1>2, <1>5, <1>10 DEF Gone, Disowned, Removing, OfJoints
  <2>2. Gone' = Gone /\ Disowned' = {e}
    BY <1>2, <1>3, <1>5, <1>10, <2>1 DEF Gone, Disowned, Removing
  <2>3. Graph(world', Alive, Gone, {e}, Stray')
    <3> DEFINE alive == Alive
               gone == Gone
               b == frame.victim
    <3>1. Graph(world, alive, gone, {}, Stray) /\ alive \in SUBSET Body /\ b \in Body \ alive
          /\ e \in gone \cap Item
      BY <1>2, <1>4, <1>5, <1>8, <1>10, <2>1 DEF RemovalPosition
    <3>2. world' = Destroyed(world, b, e)
      BY <1>2
    <3> HIDE DEF alive, gone, b
    <3>3. Graph(world', alive, gone, {e}, Stray)
      BY <1>1, <3>1, <3>2, DestroyedGraph
    <3>4. Stray' = Stray
      BY <1>3, <1>4, <1>10, <1>11, SameStray DEF RemovalPosition, FixturesPosition
    <3> QED
      BY <3>3, <3>4 DEF alive, gone
  <2>5. \A p \in Contact : \A c \in Body : p \in world'.edges[c] => p \in world.edges[c]
    BY <1>1, <1>2, <1>5, Kinds, DestroyedDoes
  <2>4. RemovalPosition'
    BY <1>2, <1>3, <1>4, <1>6, <1>8, <1>10, <2>2, <2>5 DEF RemovalPosition, FixturesPosition
  <2> QED
    BY <1>2, <1>7, <1>8, <2>2, <2>3, <2>4 DEF Coherent, Position, Passing, Removing, RemovingAll
<1> QED
  BY <1>9, <1>10

LEMMA DelistCoherent ==
  ASSUME Typed, Coherent, Delist
  PROVE  Coherent'
<1> DEFINE e == frame.current
           b == frame.victim
           fixture == frame.fixture
           only == fixture /\ ~ frame.every
<1>1. /\ world \in World /\ frame \in Frame /\ Bodies(world) \subseteq Body
      /\ fixture \in BOOLEAN /\ only \in BOOLEAN
  BY Lengths DEF Typed, TypeOK, Frame
<1>2. /\ pc = "destroyed" /\ pc' = "destroy"
      /\ world' = Delisted(world, b, e, only)
      /\ frame' = [frame EXCEPT !.current = None]
  BY DEF Delist
<1>3. /\ frame'.todo = frame.todo /\ frame'.current = None
      /\ frame'.victim = b /\ frame'.all = frame.all /\ frame'.fixture = fixture
      /\ frame'.index = frame.index /\ frame'.count = frame.count
      /\ frame'.every = frame.every /\ frame'.lost = frame.lost
  BY <1>1, <1>2 DEF Frame
<1>12. history' = history
  BY DEF Delist
<1>13. Stray' = Stray
  BY <1>2, <1>3, <1>12 DEF Stray, Removing
<1>4. Lists(world) /\ Graph(world, Alive, Gone, Disowned, Stray) /\ RemovalPosition
  BY <1>2 DEF Coherent, Position, Removing
<1>5. b \in Body /\ e \in Item \ frame.todo /\ e # None /\ (fixture => e \in Contact)
  BY <1>2, <1>4, Kinds DEF RemovalPosition
<1>6. /\ world'.bodies = world.bodies /\ world'.joints = RemoveFirst(world.joints, e)
      /\ world'.broadphase = world.broadphase /\ world'.ccdBroadphase = world.ccdBroadphase
      /\ e \notin Contact => \A c \in Body : world'.edges[c] = world.edges[c]
      /\ e \in Contact => \A c \in Body : c # b \/ only => world'.edges[c] = world.edges[c] \ {e}
      /\ ~ only /\ b \in Body => world'.edges[b] = world.edges[b]
  <2> HIDE DEF e, b, fixture, only
  <2> QED
    BY <1>1, <1>2, DelistedDoes
<1>7. IsInjective(world'.joints)
  BY <1>1, <1>4, <1>6, Lengths, RemoveFirstDoes DEF Lists
<1>8. Lists(world') /\ Bodies(world') = Bodies(world)
  BY <1>4, <1>6, <1>7, SameLists DEF Lists
<1>9. Alive' = Alive /\ Alive \in SUBSET Body
  <2>1. From(frame.index + 1)' = From(frame.index + 1)
    BY <1>3, <1>6 DEF From
  <2>2. From(frame.index + 1) \subseteq Bodies(world)
    BY <1>1, Lengths DEF From, Bodies, ToSet, Frame
  <2> QED
    BY <1>1, <1>2, <1>3, <1>8, <2>1, <2>2 DEF Alive, OfBodies
<1>10. CASE fixture
  <2>1. Gone = {} /\ Disowned = {} /\ Gone' = {} /\ Disowned' = {}
    BY <1>2, <1>3, <1>10 DEF Gone, Disowned, OfJoints
  <2>2. Graph(world', Alive, {}, {}, Stray')
    <3> DEFINE alive == Alive
    <3>1. IsInjective(world.joints) /\ Graph(world, alive, {}, {}, Stray) /\ alive \in SUBSET Body
          /\ e \in Contact
      BY <1>4, <1>5, <1>9, <1>10, <2>1 DEF Lists
    <3>3. only \/ e \in Stray
      BY <1>2, <1>4, <1>10 DEF Stray, Removing, RemovalPosition, FixturesPosition
    <3> HIDE DEF alive, e, b, fixture, only
    <3>2. Graph(Delisted(world, b, e, only), alive, {}, {}, Stray)
      BY <1>1, <1>10, <3>1, <3>3, FixtureGraph
    <3> QED
      BY <1>2, <1>13, <3>2 DEF alive
  <2>4. ASSUME frame.every
        PROVE  FixturesPosition'
    <3>1. FixturesPosition /\ ~ only
      BY <1>4, <2>4 DEF RemovalPosition
    <3>2. /\ world'.edges[b] = world.edges[b]
          /\ \A c \in Body \ {b} : world'.edges[c] = world.edges[c] \ {e}
      BY <1>5, <1>6, <1>10, <3>1
    <3> HIDE DEF only
    <3> QED
      BY <1>2, <1>3, <1>12, <3>1, <3>2 DEF FixturesPosition
  <2>3. RemovalPosition'
    BY <1>2, <1>3, <1>4, <1>5, <1>6, <1>10, <2>1, <2>4 DEF RemovalPosition
  <2> QED
    BY <1>2, <1>8, <1>9, <2>1, <2>2, <2>3 DEF Coherent, Position, Passing, Removing, RemovingAll
<1>11. CASE ~ fixture
  <2>1. Gone = frame.todo \cup {e} /\ Disowned = {e} /\ Gone' = frame.todo /\ Disowned' = {}
    BY <1>2, <1>3, <1>5, <1>11 DEF Gone, Disowned, Removing, OfJoints
  <2>2. Gone' = Gone \ {e}
    BY <1>5, <2>1
  <2>3. Graph(world', Alive, Gone \ {e}, {}, Stray')
    <3> DEFINE alive == Alive
               gone == Gone
    <3>1. Graph(world, alive, gone, {e}, Stray) /\ alive \in SUBSET Body /\ b \in Body \ alive
          /\ e \in gone \cap Item /\ IsInjective(world.joints) /\ (e \in Contact => b \in e)
      BY <1>4, <1>5, <1>9, <1>11, <2>1 DEF RemovalPosition, Lists
    <3>3. ~ only
      BY <1>11
    <3> HIDE DEF alive, gone, e, b, fixture, only
    <3>2. Graph(world', alive, gone \ {e}, {}, Stray)
      BY <1>1, <1>2, <3>1, <3>3, DelistedGraph
    <3> QED
      BY <1>13, <3>2 DEF alive, gone
  <2>5. \A c \in Body : world'.edges[c] \subseteq world.edges[c]
    BY <1>5, <1>6, <1>11
  <2>4. RemovalPosition'
    BY <1>2, <1>3, <1>4, <1>6, <1>9, <1>11, <2>1, <2>5 DEF RemovalPosition, FixturesPosition
  <2> QED
    BY <1>2, <1>8, <1>9, <2>1, <2>2, <2>3, <2>4
       DEF Coherent, Position, Passing, Removing, RemovingAll
<1> QED
  BY <1>10, <1>11

LEMMA EndRemoveBodyCoherent ==
  ASSUME Typed, Coherent, EndRemoveBody
  PROVE  Coherent'
<1>1. /\ world \in World /\ frame \in Frame /\ pc = "destroy" /\ frame.todo = {}
      /\ world' = world /\ history' = history /\ ~ frame.every
  BY DEF Typed, TypeOK, EndRemoveBody
<1>2. Lists(world) /\ Graph(world, Alive, {}, {}, Stray) /\ RemovalPosition
  <2>1. RemovalPosition
    BY <1>1 DEF Coherent, Position, Removing
  <2>2. Gone = {} /\ Disowned = {}
    BY <1>1, <2>1 DEF Gone, Disowned, OfJoints, RemovalPosition
  <2> QED
    BY <2>1, <2>2 DEF Coherent
<1>5. Stray' = Stray
  BY <1>1, SameStray DEF Typed, TypeOK, Frame, NoFrame, EndRemoveBody
<1>3. CASE frame.all
  <2>1. /\ pc' = "bodyDestroyed" /\ frame' = [frame EXCEPT !.victim = None]
    BY <1>3 DEF EndRemoveBody
  <2>2. /\ frame'.todo = {} /\ frame'.current = None /\ frame'.all /\ ~ frame'.fixture
        /\ ~ frame'.every /\ frame'.lost = {}
        /\ frame'.index = frame.index /\ frame'.count = frame.count
    BY <1>1, <1>2, <1>3, <2>1 DEF Frame, RemovalPosition
  <2>3. Alive' = Alive /\ Gone' = {} /\ Disowned' = {}
    BY <1>1, <1>3, <2>1, <2>2 DEF Alive, Gone, Disowned, Removing, OfBodies, OfJoints, From
  <2>4. AllPosition'
    BY <1>1, <1>2, <1>3, <2>1, <2>2 DEF AllPosition, RemovalPosition, OfJoints
  <2> QED
    BY <1>1, <1>2, <1>5, <2>1, <2>3, <2>4 DEF Coherent, Position, Passing, Removing, RemovingAll
<1>4. CASE ~ frame.all
  <2>1. pc' = "idle" /\ frame' = NoFrame
    BY <1>4 DEF EndRemoveBody
  <2>2. Alive = Bodies(world)
    BY <1>4 DEF Alive
  <2> QED
    BY <1>1, <1>2, <1>5, <2>1, <2>2, SteadyAgain DEF Passing, Removing, RemovingAll
<1> QED
  BY <1>3, <1>4

\* The list of the victim is cleared: what listeners were not told of is left at the
\* other bodies, and nothing else.
LEMMA EndRemoveFixturesCoherent ==
  ASSUME Typed, Coherent, EndRemoveFixtures
  PROVE  Coherent'
<1> DEFINE b == frame.victim
           left == frame.todo \ frame.lost
<1>1. /\ world \in World /\ history \in History /\ pc = "destroy" /\ frame.every
      /\ world' = [world EXCEPT !.edges[b] = @ \ Contact]
      /\ history' = [history EXCEPT !.dropped = @ \cup left, !.present = @ \ left]
      /\ pc' = "idle" /\ frame' = NoFrame
  BY DEF Typed, TypeOK, EndRemoveFixtures
<1>2. RemovalPosition /\ FixturesPosition
  BY <1>1 DEF Coherent, Position, Removing, RemovalPosition
<1>3. Lists(world) /\ Graph(world, Bodies(world), {}, {}, Stray)
  <2>1. Alive = Bodies(world) /\ Gone = {} /\ Disowned = {}
    BY <1>1, <1>2 DEF Alive, Gone, Disowned, OfJoints, RemovalPosition, FixturesPosition
  <2> QED
    BY <2>1 DEF Coherent
<1>4. b \in Body
  BY <1>2 DEF RemovalPosition
<1>5. Stray = history.dropped \cup history.told
  BY <1>1 DEF Stray, Removing
<1>6. Stray' = history.dropped \cup left
  BY <1>1 DEF Stray, Removing, History
<1>7. \A p \in Contact \cap history.told : \A c \in Body \ {b} : p \notin world.edges[c]
  <2>1. frame.current \notin Contact
    BY <1>1, <1>2, Kinds DEF RemovalPosition
  <2> QED
    BY <1>2, <2>1 DEF FixturesPosition
<1>8. world.edges[b] \cap Contact \subseteq history.told \cup left
  BY <1>2 DEF FixturesPosition
<1>9. /\ world'.nodes = world.nodes /\ world'.owned = world.owned /\ world'.joints = world.joints
      /\ world'.bodies = world.bodies
      /\ world'.broadphase = world.broadphase /\ world'.ccdBroadphase = world.ccdBroadphase
      /\ \A c \in Body : world'.edges[c] = IF c = b THEN world.edges[c] \ Contact ELSE world.edges[c]
  BY <1>1, <1>4 DEF World
<1>10. Lists(world') /\ Bodies(world') = Bodies(world)
  BY <1>3, <1>9, SameLists DEF Lists
<1> HIDE DEF b, left
<1>11. Graph(world', Bodies(world), {}, {}, Stray')
  <2> DEFINE now == Stray'
             alive == Bodies(world)
             v == world'
  <2>1. v.nodes = world.nodes /\ v.owned = world.owned /\ v.joints = world.joints
    BY <1>9
  <2>2. v.edges[b] = world.edges[b] \ Contact /\ \A c \in Body \ {b} : v.edges[c] = world.edges[c]
    BY <1>4, <1>9 DEF b
  <2>4. \A p \in Contact : \/ p \in now
                           \/ p \notin world.edges[b] /\ p \notin Stray
                           \/ \A c \in Body \ {b} : p \notin world.edges[c]
    BY <1>5, <1>6, <1>7, <1>8
  <2>3. Graph(world, alive, {}, {}, Stray)
    BY <1>3
  <2>6. world \in World
    BY <1>1
  <2> HIDE DEF now, alive, v
  <2>5. Graph(v, alive, {}, {}, now)
    BY <2>1, <2>2, <2>3, <2>4, <2>6, NoFixturesGraph, ZenonT(60)
  <2> QED
    BY <2>5 DEF now, alive, v
<1> QED
  BY <1>1, <1>10, <1>11, SteadyAgain DEF Passing, Removing, RemovingAll

LEMMA BeginRemoveAllCoherent ==
  ASSUME Typed, Coherent, BeginRemoveAll \/ BeginRemoveAllJoints
  PROVE  Coherent'
<1>1. world \in World /\ world' = world /\ pc = "idle"
  BY DEF Typed, TypeOK, BeginRemoveAll, BeginRemoveAllJoints
<1>2. Lists(world) /\ Graph(world, Bodies(world), {}, {}, Stray)
  BY <1>1, SteadyGraph DEF Removing, RemovingAll
<1>8. Stray' = Stray
  <2>1. Present(world) \subseteq Item /\ Joints(world) \subseteq Item
    BY <1>1, Lengths, Kinds DEF Present
  <2>2. history'.dropped = history.dropped
    BY <2>1, PromisedIs DEF Typed, TypeOK, BeginRemoveAll, BeginRemoveAllJoints
  <2> QED
    BY <1>1, <2>2, SameStray DEF Removing, BeginRemoveAll, BeginRemoveAllJoints
<1>3. /\ frame'.todo = {} /\ frame'.current = None /\ frame'.all /\ ~ frame'.fixture
      /\ ~ frame'.every /\ frame'.lost = {}
      /\ frame'.index = 1
      /\ \/ pc' = "removeAll" /\ frame'.count = Len(world.bodies)
         \/ pc' = "removeAllJoints" /\ frame'.count = Len(world.joints)
  BY DEF BeginRemoveAll, BeginRemoveAllJoints, NoFrame
<1>4. From(1) = Bodies(world)
  BY <1>1, Lengths DEF From, Bodies, ToSet
<1>5. Alive' = Bodies(world)
  BY <1>1, <1>3, <1>4 DEF Alive, OfBodies, From
<1>6. Gone' = {} /\ Disowned' = {}
  BY <1>1, <1>3 DEF Gone, Disowned, Released, OfJoints, Removing
<1>7. AllPosition'
  BY <1>1, <1>3, Lengths DEF AllPosition, OfJoints
<1> QED
  BY <1>1, <1>2, <1>3, <1>5, <1>6, <1>7, <1>8 DEF Coherent, Position, Passing, Removing, RemovingAll

LEMMA DetachNextCoherent ==
  ASSUME Typed, Coherent, DetachNext
  PROVE  Coherent'
<1> DEFINE b == world.bodies[frame.index]
           d == Detached(world, b)
<1>1. world \in World /\ frame \in Frame /\ pc = "removeAll" /\ pc' = "destroy"
  BY DEF Typed, TypeOK, DetachNext
<1>2. /\ world' = [d EXCEPT !.bodies = world.bodies, !.broadphase = world.broadphase,
                            !.ccdBroadphase = world.ccdBroadphase]
      /\ frame' = [frame EXCEPT !.victim = b, !.todo = world.edges[b]]
  BY DEF DetachNext
<1>3. Lists(world) /\ Graph(world, Alive, Gone, Disowned, Stray) /\ AllPosition
  BY <1>1 DEF Coherent, Position, RemovingAll
<1>4. Gone = {} /\ Disowned = {} /\ Alive = From(frame.index)
  BY <1>1, <1>3 DEF Gone, Disowned, Alive, Removing, OfBodies, OfJoints, AllPosition
<1>5. /\ frame.index \in 1..Len(world.bodies) /\ Len(world.bodies) \in Nat
      /\ frame.count = Len(world.bodies)
  BY <1>1, <1>3, Lengths DEF AllPosition, DetachNext
<1>6. b \in Body /\ b \in From(frame.index) /\ From(frame.index) \subseteq Body
  BY <1>1, <1>5, Lengths DEF From
<1>7. From(frame.index + 1) = From(frame.index) \ {b}
  <2>1. \A n \in 1..Len(world.bodies) : world.bodies[n] = b => n = frame.index
    BY <1>1, <1>3, <1>5, Lengths DEF Lists, IsInjective
  <2>2. \A n \in frame.index + 1..Len(world.bodies) : n # frame.index /\ n \in 1..Len(world.bodies)
                                                     /\ n \in frame.index..Len(world.bodies)
    BY <1>5
  <2>3. From(frame.index + 1) \subseteq From(frame.index) \ {b}
    BY <2>1, <2>2 DEF From
  <2>4. \A n \in frame.index..Len(world.bodies) :
          n # frame.index => n \in frame.index + 1..Len(world.bodies)
    BY <1>5
  <2>5. From(frame.index) \ {b} \subseteq From(frame.index + 1)
    BY <2>4 DEF From
  <2> QED
    BY <2>3, <2>5
<1>8. /\ d \in World
      /\ d.joints = world.joints /\ d.owned = world.owned \ {b} /\ d.nodes = world.nodes \ {b}
      /\ d.edges[b] = {} /\ \A c \in Body \ {b} : d.edges[c] = world.edges[c] \ world.edges[b]
  <2> HIDE DEF b
  <2> QED
    BY <1>1, <1>6, DetachedDoes
<1> HIDE DEF d, b
<1>9. /\ world'.bodies = world.bodies /\ world'.joints = world.joints
      /\ world'.broadphase = world.broadphase /\ world'.ccdBroadphase = world.ccdBroadphase
      /\ world'.owned = world.owned \ {b} /\ world'.nodes = world.nodes \ {b}
      /\ world'.edges = d.edges
  BY <1>2, <1>8 DEF World
<1>10. Lists(world') /\ Bodies(world') = Bodies(world)
  BY <1>3, <1>9, SameLists DEF Lists
<1>11. Graph(world', From(frame.index) \ {b}, world.edges[b], {}, Stray')
  <2> DEFINE alive == From(frame.index)
             v == world'
  <2>1. /\ alive \in SUBSET Body /\ b \in alive /\ Graph(world, alive, {}, {}, Stray)
        /\ v.nodes = world.nodes \ {b} /\ v.owned = world.owned \ {b} /\ v.joints = world.joints
    BY <1>3, <1>4, <1>6, <1>9
  <2>2. \A c \in Body : v.edges[c] = IF c = b THEN {} ELSE world.edges[c] \ world.edges[b]
    BY <1>8, <1>9
  <2> HIDE DEF alive, v
  <2>3. Graph(v, alive \ {b}, world.edges[b], {}, Stray)
    BY <1>1, <2>1, <2>2, DetachedGraph
  <2>4. Stray' = Stray
    BY <1>1, <1>2, <1>3, SameStray DEF DetachNext, Removing, AllPosition, Frame
  <2> QED
    BY <2>3, <2>4 DEF alive, v
<1>12. /\ frame'.victim = b /\ frame'.todo = world.edges[b] /\ frame'.current = None
       /\ frame'.all /\ ~ frame'.fixture /\ ~ frame'.every /\ frame'.lost = {}
       /\ frame'.index = frame.index /\ frame'.count = frame.count
  BY <1>1, <1>2, <1>3 DEF Frame, AllPosition
<1>13. Alive' = From(frame.index) \ {b}
  BY <1>1, <1>7, <1>9, <1>12 DEF Alive, OfBodies, From
<1>14. Gone' = world.edges[b] /\ Disowned' = {}
  BY <1>1, <1>12 DEF Gone, Disowned, Removing, OfJoints
<1>15. \A e \in world.edges[b] :
         /\ e \in Joint => b \in Members[e]
         /\ e \in Contact => b \in e /\ \A c \in Body : e \notin world'.edges[c]
  BY <1>3, <1>6, <1>8, <1>9 DEF Graph
<1>16. RemovalPosition'
  <2>1. \A e \in Gone' : /\ e \in Joint => frame'.victim \in Members[e]
                         /\ e \in Contact => /\ frame'.victim \in e
                                             /\ \A c \in Body : e \notin world'.edges[c]
    BY <1>12, <1>14, <1>15
  <2> QED
    BY <1>1, <1>5, <1>6, <1>9, <1>12, <1>13, <2>1 DEF RemovalPosition
<1> QED
  BY <1>1, <1>10, <1>11, <1>13, <1>14, <1>16 DEF Coherent, Position, Passing, Removing, RemovingAll

LEMMA NextBodyCoherent ==
  ASSUME Typed, Coherent, NextBody
  PROVE  Coherent'
<1>1. /\ world \in World /\ frame \in Frame /\ world' = world
      /\ pc = "bodyDestroyed" /\ pc' = "removeAll" /\ frame' = [frame EXCEPT !.index = @ + 1]
  BY DEF Typed, TypeOK, NextBody
<1>2. AllPosition
  BY <1>1 DEF Coherent, Position, RemovingAll
<1>3. /\ frame'.todo = {} /\ frame'.current = None /\ frame'.all /\ ~ frame'.fixture
      /\ ~ frame'.every /\ frame'.lost = {}
      /\ frame'.index = frame.index + 1 /\ frame'.count = frame.count
  BY <1>1, <1>2 DEF Frame, AllPosition
<1>4. Alive' = Alive /\ Gone' = Gone /\ Disowned' = Disowned
  BY <1>1, <1>2, <1>3 DEF Alive, Gone, Disowned, Removing, OfBodies, OfJoints, From, AllPosition
<1>6. Stray' = Stray
  BY <1>1, SameStray DEF NextBody, Removing
<1>5. AllPosition'
  BY <1>1, <1>2, <1>3, Lengths DEF AllPosition, OfJoints
<1> QED
  BY <1>1, <1>4, <1>5, <1>6 DEF Coherent, Position, Passing, Removing, RemovingAll

LEMMA EndRemoveAllCoherent ==
  ASSUME Typed, Coherent, EndRemoveAll
  PROVE  Coherent'
<1>1. /\ world \in World /\ frame \in Frame /\ world' = Cleared(world) /\ pc = "removeAll"
      /\ pc' = "idle" /\ frame' = NoFrame /\ frame.index > frame.count
  BY DEF Typed, TypeOK, EndRemoveAll
<1>2. AllPosition
  BY <1>1 DEF Coherent, Position, RemovingAll
<1>3. frame.index = Len(world.bodies) + 1 /\ Len(world.bodies) \in Nat
  BY <1>1, <1>2, Lengths DEF AllPosition
<1>4. Alive = {} /\ Gone = {} /\ Disowned = {}
  BY <1>1, <1>2, <1>3 DEF Alive, Gone, Disowned, Removing, OfBodies, OfJoints, From, AllPosition
<1>5. Graph(world, {}, {}, {}, Stray)
  BY <1>4 DEF Coherent
<1>7. Stray' = Stray
  BY <1>1, SameStray DEF EndRemoveAll, Removing
<1>6. Lists(world') /\ Graph(world', {}, {}, {}, Stray') /\ Bodies(world') = {}
  BY <1>1, <1>5, <1>7, ClearedGraph
<1> QED
  BY <1>1, <1>6, SteadyAgain DEF Passing, Removing, RemovingAll

LEMMA ReleaseNextCoherent ==
  ASSUME Typed, Coherent, ReleaseNext
  PROVE  Coherent'
<1> DEFINE j == world.joints[frame.index]
<1>1. /\ world \in World /\ frame \in Frame /\ pc = "removeAllJoints" /\ pc' = "jointDestroyed"
      /\ frame' = [frame EXCEPT !.index = @ + 1] /\ frame.index <= Len(world.joints)
      /\ world' = [world EXCEPT !.owned = @ \ {j}, !.rest = @ \ Members[j]]
  BY DEF Typed, TypeOK, ReleaseNext
<1>2. AllPosition
  BY <1>1 DEF Coherent, Position, RemovingAll
<1>3. /\ frame.index \in 1..Len(world.joints) /\ Len(world.joints) \in Nat
      /\ frame.count = Len(world.joints)
  BY <1>1, <1>2, Lengths DEF AllPosition, OfJoints
<1>4. j \in Joints(world) /\ j \in Joint /\ Bodies(world) \subseteq Body
  BY <1>1, <1>3, Lengths DEF Joints, ToSet
<1>5. j \notin Bodies(world)
  BY <1>4, Kinds
<1> HIDE DEF j
<1>6. /\ world'.bodies = world.bodies /\ world'.joints = world.joints
      /\ world'.broadphase = world.broadphase /\ world'.ccdBroadphase = world.ccdBroadphase
      /\ world'.owned = world.owned \ {j} /\ world'.nodes = world.nodes
      /\ world'.edges = world.edges
  BY <1>1 DEF World
<1>7. /\ frame'.todo = {} /\ frame'.current = None /\ frame'.all /\ ~ frame'.fixture
      /\ ~ frame'.every /\ frame'.lost = {}
      /\ frame'.index = frame.index + 1 /\ frame'.count = frame.count
  BY <1>1, <1>2 DEF Frame, AllPosition
<1>15. Stray' = Stray
  <2>1. history'.dropped = history.dropped
    BY <1>4, TellIs, Kinds DEF Typed, TypeOK, ReleaseNext, j
  <2> QED
    BY <1>1, <2>1, SameStray DEF Removing
<1>8. Lists(world') /\ Bodies(world') = Bodies(world) /\ Joints(world') = Joints(world)
  BY <1>6, SameLists DEF Coherent, Lists, Joints
<1>9. Alive = Bodies(world) /\ Gone = {} /\ Disowned = Released(frame.index)
  BY <1>1 DEF Alive, Gone, Disowned, Removing, OfBodies, OfJoints
<1>10. Alive' = Bodies(world) /\ Gone' = {} /\ Disowned' = Released(frame.index + 1)
  BY <1>1, <1>6, <1>7, <1>8 DEF Alive, Gone, Disowned, Removing, OfBodies, OfJoints, Released
<1>11. Released(frame.index + 1) = Released(frame.index) \cup {j}
  <2>1. 1..frame.index + 1 - 1 = (1..frame.index - 1) \cup {frame.index}
    BY <1>3
  <2> QED
    BY <2>1 DEF Released, j
<1>12. Graph(world, Bodies(world), {}, Released(frame.index), Stray)
  BY <1>9 DEF Coherent
<1>13. Graph(world', Bodies(world), {}, Released(frame.index + 1), Stray')
  <2>1. world'.owned = Bodies(world) \cup (Joints(world) \ Released(frame.index + 1))
    BY <1>5, <1>6, <1>11, <1>12 DEF Graph
  <2> QED
    BY <1>6, <1>8, <1>12, <1>15, <2>1 DEF Graph
<1>14. AllPosition'
  BY <1>1, <1>3, <1>6, <1>7 DEF AllPosition, OfJoints
<1> QED
  BY <1>1, <1>8, <1>10, <1>13, <1>14 DEF Coherent, Position, Passing, Removing, RemovingAll

LEMMA NextJointCoherent ==
  ASSUME Typed, Coherent, NextJoint
  PROVE  Coherent'
<1>1. world' = world /\ frame' = frame /\ pc = "jointDestroyed" /\ pc' = "removeAllJoints"
  BY DEF NextJoint
<1>2. Alive' = Alive /\ Gone' = Gone /\ Disowned' = Disowned
  BY <1>1 DEF Alive, Gone, Disowned, Removing, OfBodies, OfJoints, Released
<1>4. Stray' = Stray
  BY <1>1, SameStray DEF NextJoint, Removing
<1>3. AllPosition'
  BY <1>1 DEF Coherent, Position, RemovingAll, AllPosition, OfJoints
<1> QED
  BY <1>1, <1>2, <1>3, <1>4 DEF Coherent, Position, Passing, Removing, RemovingAll

LEMMA EndRemoveAllJointsCoherent ==
  ASSUME Typed, Coherent, EndRemoveAllJoints
  PROVE  Coherent'
<1>1. /\ world \in World /\ frame \in Frame /\ world' = JointsCleared(world)
      /\ pc = "removeAllJoints" /\ pc' = "idle" /\ frame' = NoFrame /\ frame.index > frame.count
  BY DEF Typed, TypeOK, EndRemoveAllJoints
<1>2. AllPosition
  BY <1>1 DEF Coherent, Position, RemovingAll
<1>3. frame.index = Len(world.joints) + 1 /\ Len(world.joints) \in Nat
  BY <1>1, <1>2, Lengths DEF AllPosition, OfJoints
<1>4. Released(frame.index) = Joints(world)
  <2>1. 1..frame.index - 1 = DOMAIN world.joints
    BY <1>1, <1>3, Lengths
  <2> QED
    BY <2>1 DEF Released, Joints, ToSet
<1>5. Alive = Bodies(world) /\ Gone = {} /\ Disowned = Joints(world)
  BY <1>1, <1>4 DEF Alive, Gone, Disowned, Removing, OfBodies, OfJoints
<1>6. Lists(world) /\ Graph(world, Bodies(world), {}, Joints(world), Stray)
  BY <1>5 DEF Coherent
<1>8. Stray' = Stray
  BY <1>1, SameStray DEF EndRemoveAllJoints, Removing
<1>7. Lists(world') /\ Graph(world', Bodies(world'), {}, {}, Stray')
  BY <1>1, <1>6, <1>8, JointsClearedGraph
<1> QED
  BY <1>1, <1>7, SteadyAgain DEF Passing, Removing, RemovingAll

\* No removal fails in the graph: the other body of a contact has a node.
LEMMA TearCoherent ==
  ASSUME Ordinary, NEW b \in Body
  PROVE  ~ Tear(b)
BY DEF Ordinary, Tear

\* An operation that fails has left no joint or contact half gone: only the
\* iteration of contacts fails, never the loops over all bodies or joints.
LEMMA AbortCoherent ==
  ASSUME Typed, Coherent, Abort
  PROVE  Coherent'
<1>1. /\ world \in World /\ frame \in Frame /\ history \in History /\ world' = world
      /\ pc' = "idle" /\ frame' = NoFrame /\ Fails
  BY DEF Typed, TypeOK, Abort
<1>2. pc # "removeAll" /\ pc # "removeAllJoints"
  <2>1. CASE pc = "removeAll"
    <3>1. AllPosition /\ Graph(world, Alive, Gone, Disowned, Stray)
      BY <2>1 DEF Coherent, Position, RemovingAll
    <3>2. frame.index \in 1..Len(world.bodies) /\ world.bodies[frame.index] \notin world.nodes
      BY <1>1, <2>1, <3>1, Lengths DEF Fails, AllPosition
    <3>3. world.bodies[frame.index] \in Alive
      BY <1>1, <2>1, <3>1, <3>2, Lengths DEF Alive, OfBodies, From, AllPosition
    <3> QED
      BY <3>1, <3>2, <3>3 DEF Graph
  <2>2. CASE pc = "removeAllJoints"
    <3>1. AllPosition
      BY <2>2 DEF Coherent, Position, RemovingAll
    <3> QED
      BY <1>1, <2>2, <3>1, Lengths DEF Fails, AllPosition, OfJoints
  <2> QED
    BY <2>1, <2>2
<1>3. pc \in {"detect", "preSolve", "solved"} \/ (Removing /\ frame.fixture)
  BY <1>1, <1>2 DEF Fails, Removing, Coherent, Position, RemovalPosition
<1>4. ~ frame.all
  BY <1>3, FrameIs
     DEF Coherent, Position, PassPosition, RemovalPosition, Passing, Removing, RemovingAll
<1>5. Lists(world) /\ Graph(world, Bodies(world), {}, {}, Stray)
  <2>1. Alive = Bodies(world) /\ Gone = {} /\ Disowned = {}
    BY <1>3, <1>4 DEF Alive, Gone, Disowned, Removing, OfJoints
  <2> QED
    BY <2>1 DEF Coherent
<1>6. Graph(world, Bodies(world), {}, {}, Stray')
  <2> DEFINE done == IF frame.every THEN history.told \cap world.edges[frame.victim] ELSE {}
  <2>1. history' = [history EXCEPT !.present = {}, !.failed = TRUE, !.dropped = @ \cup done]
    BY DEF Abort
  <2>2. Stray' = history.dropped \cup done
    BY <1>1, <2>1 DEF Stray, Removing, History
  <2>3. CASE ~ (Removing /\ frame.every)
    <3>1. Stray \subseteq Stray'
      BY <2>2, <2>3 DEF Stray
    <3> QED
      BY <1>5, <3>1, StrayGraph
  <2>4. CASE Removing /\ frame.every
    <3>1. RemovalPosition /\ FixturesPosition /\ pc = "destroy"
      BY <1>1, <2>4 DEF Fails, Removing, Coherent, Position, RemovalPosition
    <3>2. frame.current \notin Contact
      BY <3>1, Kinds DEF RemovalPosition
    <3>3. \A p \in Contact \cap (Stray \ Stray') : \A c \in Body : p \notin world.edges[c]
      BY <2>2, <2>4, <3>1, <3>2 DEF Stray, FixturesPosition
    <3> QED
      BY <1>5, <3>3, StrayGraph
  <2> QED
    BY <2>3, <2>4
<1> QED
  BY <1>1, <1>5, <1>6, SteadyAgain DEF Passing, Removing, RemovingAll

\* The steps of a pass, and of the solver.
LEMMA StepCoherent ==
  ASSUME Typed, Coherent, Step
  PROVE  Coherent'
<1>1. /\ world \in World /\ frame \in Frame /\ Bodies(world) \subseteq Body
      /\ history \in History
  BY Lengths DEF Typed, TypeOK
<1>2. ~ Removing /\ ~ RemovingAll /\ ~ Removing' /\ ~ RemovingAll'
  BY DEF Step, BeginStep, SkipUpdate, Goto, BeginDetect, DropPair, BeginUpdate, Miss, Hit, EndUpdate,
         EndDetect, UpdatePerformed, Solve, PostSolve, EndStep, Ended, Removing, RemovingAll
<1>3. /\ Lists(world) /\ Graph(world, Bodies(world), {}, {}, Stray)
      /\ ~ Passing => frame = NoFrame
      /\ Passing => PassPosition
  BY <1>2, SteadyGraph
<1>13. ASSUME history'.dropped = history.dropped
       PROVE  Stray' = Stray
  BY <1>2, <1>13, SameStray
<1>4. ASSUME world' = world, ~ Passing', frame' = NoFrame, history'.dropped = history.dropped
      PROVE  Coherent'
  BY <1>2, <1>3, <1>4, <1>13, SteadyAgain
<1>5. CASE BeginStep \/ SkipUpdate \/ UpdatePerformed \/ PostSolve \/ EndStep \/ EndDetect
  <2>1. history'.dropped = history.dropped
    BY <1>1, <1>5
       DEF BeginStep, SkipUpdate, UpdatePerformed, PostSolve, EndStep, EndDetect, Goto, History
  <2> QED
    BY <1>3, <1>4, <1>5, <2>1
       DEF BeginStep, SkipUpdate, UpdatePerformed, PostSolve, EndStep, EndDetect, Goto, Passing
<1>14. CASE Ended
  <2>1. /\ pc = "ended" /\ pc' = "detect" /\ world' = world /\ frame' = frame /\ Stray' = Stray
    BY <1>13, <1>14 DEF Ended, Goto
  <2>2. PassPosition'
    BY <1>3, <2>1 DEF PassPosition, Passing
  <2> QED
    BY <1>2, <1>3, <2>1, <2>2, SteadyAgain DEF Passing
<1>6. ASSUME NEW last \in BOOLEAN, BeginDetect(last)
      PROVE  Coherent'
  <2> DEFINE pairs == world.collisionData \cup {p \in Contact : p \subseteq world.broadphase}
  <2>1. /\ world' = [world EXCEPT !.collisionData = pairs, !.contactCollisions = {},
                                  !.edges = [b \in Body |-> @[b] \ Contact]]
        /\ frame' = [NoFrame EXCEPT !.todo = pairs, !.last = last] /\ pc' = "detect"
    BY <1>6 DEF BeginDetect
  <2>2. pairs \subseteq Contact
    BY <1>1 DEF World
  <2> HIDE DEF pairs
  <2>3. /\ world'.bodies = world.bodies /\ world'.joints = world.joints
        /\ world'.broadphase = world.broadphase /\ world'.ccdBroadphase = world.ccdBroadphase
        /\ world'.owned = world.owned /\ world'.nodes = world.nodes
        /\ \A b \in Body : world'.edges[b] = world.edges[b] \ Contact
    BY <1>1, <2>1 DEF World
  <2>4. Lists(world') /\ Bodies(world') = Bodies(world)
    BY <1>3, <2>3, SameLists DEF Lists
  <2>7. Graph(world', Bodies(world), {}, {}, Stray)
    BY <1>1, <1>3, <2>3, NoContactsGraph
  <2>8. \A p \in Contact : \A b \in Body : p \notin world'.edges[b]
    BY <2>3
  <2>5. Graph(world', Bodies(world'), {}, {}, Stray')
    BY <2>4, <2>7, <2>8, StrayGraph
  <2>6. PassPosition'
    BY <2>1, <2>2 DEF PassPosition, NoFrame
  <2> QED
    BY <1>2, <2>1, <2>4, <2>5, <2>6, SteadyAgain DEF Passing
<1>7. ASSUME NEW p \in Contact, DropPair(p)
      PROVE  Coherent'
  <2>1. /\ pc = "detect" /\ pc' = "ended" /\ Stray' = Stray
        /\ world' = [world EXCEPT !.collisionData = @ \ {p}]
        /\ frame' = [frame EXCEPT !.todo = @ \ {p}]
    BY <1>7, <1>13 DEF DropPair
  <2>2. /\ world'.bodies = world.bodies /\ world'.joints = world.joints
        /\ world'.broadphase = world.broadphase /\ world'.ccdBroadphase = world.ccdBroadphase
        /\ world'.owned = world.owned /\ world'.nodes = world.nodes /\ world'.edges = world.edges
    BY <1>1, <2>1 DEF World
  <2>3. Lists(world') /\ Bodies(world') = Bodies(world)
    BY <1>3, <2>2, SameLists DEF Lists
  <2>4. Graph(world', Bodies(world'), {}, {}, Stray')
    BY <1>3, <2>1, <2>2, <2>3, SameGraph
  <2>5. PassPosition'
    BY <1>1, <1>3, <2>1 DEF PassPosition, Passing, Frame
  <2> QED
    BY <1>2, <2>1, <2>3, <2>4, <2>5, SteadyAgain DEF Passing
<1>8. ASSUME NEW p \in Contact, BeginUpdate(p)
      PROVE  Coherent'
  <2>1. /\ pc = "detect" /\ pc' = "updating" /\ world' = world /\ p \subseteq world.broadphase
        /\ frame' = [frame EXCEPT !.todo = @ \ {p}, !.current = p] /\ Stray' = Stray
    BY <1>8, <1>13 DEF BeginUpdate
  <2>2. PassPosition'
    BY <1>1, <1>3, <2>1 DEF PassPosition, Passing, Frame, Lists
  <2> QED
    BY <1>2, <1>3, <2>1, <2>2, SteadyAgain DEF Passing
<1>9. CASE Miss
  <2>1. /\ pc = "updating" /\ pc' = "detect" /\ world' = world
        /\ frame' = [frame EXCEPT !.current = None] /\ Stray' = Stray
    BY <1>9, <1>13 DEF Miss
  <2>2. PassPosition'
    BY <1>1, <1>3, <2>1 DEF PassPosition, Passing, Frame
  <2> QED
    BY <1>2, <1>3, <2>1, <2>2, SteadyAgain DEF Passing
<1>10. CASE Hit
  <2>1. /\ pc = "updating" /\ pc' = "collided" /\ world' = WithContact(world, frame.current)
        /\ frame' = frame /\ Stray' = Stray
    BY <1>10, <1>13 DEF Hit
  <2>2. PassPosition /\ frame.current \in Contact /\ frame.current \subseteq Bodies(world)
    BY <1>3, <2>1 DEF PassPosition, Passing
  <2>3. /\ world'.bodies = world.bodies /\ world'.joints = world.joints
        /\ world'.broadphase = world.broadphase /\ world'.ccdBroadphase = world.ccdBroadphase
    BY <1>1, <2>1, <2>2, WithContactDoes
  <2>4. Lists(world') /\ Bodies(world') = Bodies(world)
    BY <1>3, <2>3, SameLists DEF Lists
  <2>5. Graph(world', Bodies(world'), {}, {}, Stray')
    BY <1>1, <1>3, <2>1, <2>2, <2>4, WithContactGraph
  <2>6. PassPosition'
    BY <2>1, <2>2 DEF PassPosition
  <2> QED
    BY <1>2, <2>1, <2>4, <2>5, <2>6, SteadyAgain DEF Passing
<1>11. CASE EndUpdate
  <2>1. /\ pc = "collided" /\ pc' = "detect"
        /\ world' = [world EXCEPT !.contactCollisions = @ \cup ({frame.current} \cap Solid)]
        /\ frame' = [frame EXCEPT !.current = None] /\ Stray' = Stray
    BY <1>11, <1>13 DEF EndUpdate
  <2>2. /\ world'.bodies = world.bodies /\ world'.joints = world.joints
        /\ world'.broadphase = world.broadphase /\ world'.ccdBroadphase = world.ccdBroadphase
        /\ world'.owned = world.owned /\ world'.nodes = world.nodes /\ world'.edges = world.edges
    BY <1>1, <2>1 DEF World
  <2>3. Lists(world') /\ Bodies(world') = Bodies(world)
    BY <1>3, <2>2, SameLists DEF Lists
  <2>4. Graph(world', Bodies(world'), {}, {}, Stray')
    BY <1>3, <2>1, <2>2, <2>3, SameGraph
  <2>5. PassPosition'
    BY <1>1, <1>3, <2>1 DEF PassPosition, Passing, Frame
  <2> QED
    BY <1>2, <2>1, <2>3, <2>4, <2>5, SteadyAgain DEF Passing
<1>12. CASE Solve
  <2>1. PICK asleep \in SUBSET Bodies(world) :
          world' = [world EXCEPT !.rest = (@ \ Bodies(world)) \cup asleep]
    BY <1>12 DEF Solve
  <2>2. pc = "preSolve" /\ pc' = "solved" /\ frame' = frame /\ Stray' = Stray
    BY <1>12, <1>13 DEF Solve
  <2> DEFINE rest == (world.rest \ Bodies(world)) \cup asleep
  <2>3. world' = [world EXCEPT !.rest = rest]
    BY <2>1
  <2> HIDE DEF rest
  <2>4. /\ world'.bodies = world.bodies /\ world'.joints = world.joints
        /\ world'.broadphase = world.broadphase /\ world'.ccdBroadphase = world.ccdBroadphase
        /\ world'.owned = world.owned /\ world'.nodes = world.nodes /\ world'.edges = world.edges
    BY <1>1, <2>3 DEF World
  <2>5. Lists(world') /\ Bodies(world') = Bodies(world)
    BY <1>3, <2>4, SameLists DEF Lists
  <2>6. Graph(world', Bodies(world'), {}, {}, Stray')
    BY <1>3, <2>2, <2>4, <2>5, SameGraph
  <2> QED
    BY <1>2, <1>3, <2>2, <2>5, <2>6, SteadyAgain DEF Passing
<1> QED
  BY <1>5, <1>6, <1>7, <1>8, <1>9, <1>10, <1>11, <1>12, <1>14 DEF Step

LEMMA CoherentStep == Ordinary /\ Typed /\ Coherent /\ [Next]_vars => Coherent'
<1> SUFFICES ASSUME Ordinary, Typed, Coherent, [Next]_vars
             PROVE  Coherent'
  OBVIOUS
<1>1. CASE Program
  BY <1>1, ProgramCoherent
<1>2. CASE Removal
  BY <1>2, BeginRemoveBodyCoherent, BeginRemoveFixtureCoherent, BeginRemoveFixturesCoherent,
     DestroyCoherent, DelistCoherent, EndRemoveBodyCoherent, EndRemoveFixturesCoherent,
     BeginRemoveAllCoherent, DetachNextCoherent, NextBodyCoherent,
     EndRemoveAllCoherent, ReleaseNextCoherent, NextJointCoherent, EndRemoveAllJointsCoherent,
     TearCoherent, AbortCoherent DEF Removal, RemovesBody
<1>3. CASE Step
  BY <1>3, StepCoherent
<1>4. CASE UNCHANGED vars
  BY <1>4 DEF vars, Coherent, Alive, Gone, Disowned, Position, PassPosition, RemovalPosition,
              FixturesPosition, AllPosition, Passing, Removing, RemovingAll, OfBodies, OfJoints,
              From, Released, Stray
<1> QED
  BY <1>1, <1>2, <1>3, <1>4 DEF Next

LEMMA CoherentInit == Init => Coherent
<1> SUFFICES ASSUME Init
             PROVE  Coherent
  OBVIOUS
<1>1. /\ world.bodies = <<>> /\ world.joints = <<>> /\ world.owned = {} /\ world.broadphase = {}
      /\ world.ccdBroadphase = {} /\ world.nodes = {} /\ \A b \in Body : world.edges[b] = {}
  BY DEF Init
<1>2. pc = "idle" /\ frame = NoFrame
  BY DEF Init
<1>3. Bodies(world) = {} /\ Joints(world) = {}
      /\ IsInjective(world.bodies) /\ IsInjective(world.joints)
  BY <1>1 DEF Bodies, Joints, ToSet, IsInjective
<1>4. Alive = {} /\ Gone = {} /\ Disowned = {}
  BY <1>2, <1>3, FrameIs DEF Alive, Gone, Disowned, Removing, OfJoints
<1> QED
  BY <1>1, <1>2, <1>3, <1>4
     DEF Coherent, Lists, Graph, Position, Passing, Removing, RemovingAll

LEMMA CoherentShows ==
  Typed /\ Coherent => OwnedIffListed /\ ContactsPaired /\ GraphMirrorsWorld
<1> SUFFICES ASSUME Typed, Coherent, Steady
             PROVE  OwnedIffListed /\ ContactsPaired /\ GraphMirrorsWorld
  BY DEF OwnedIffListed, ContactsPaired, GraphMirrorsWorld
<1>1. Lists(world) /\ Graph(world, Bodies(world), {}, {}, Stray)
  BY SteadyGraph DEF Steady, Removing, RemovingAll
<1>2. OwnedIffListed
  BY <1>1 DEF OwnedIffListed, Lists, Graph
<1>3. ASSUME NEW p \in Contact
      PROVE  LET at == {b \in Body : p \in world.edges[b]} IN
             /\ at \subseteq p \cap Bodies(world)
             /\ at = {} \/ at = p \/ p \in history.dropped
  <2>1. Stray = history.dropped
    BY DEF Stray, Steady, Removing
  <2> QED
    BY <1>1, <2>1, Kinds DEF Graph
<1>4. ContactsPaired
  BY <1>3 DEF ContactsPaired
<1>5. GraphMirrorsWorld
  BY <1>1, <1>4 DEF GraphMirrorsWorld, Graph
<1> QED
  BY <1>2, <1>4, <1>5

\* No request is lost: none comes in while a pass has begun.
Requests ==
  /\ RequestsKept
  /\ Passing \/ pc = "updatePerformed" => ~ history.asked

LEMMA RequestsStep ==
  "askInCallback" \notin Usage /\ Typed /\ Requests /\ [Next]_vars => Requests'
<1> SUFFICES ASSUME "askInCallback" \notin Usage, Typed, Requests, [Next]_vars
             PROVE  Requests'
  OBVIOUS
<1>1. TypeOK /\ history \in History /\ updateRequired \in BOOLEAN /\ history.asked \in BOOLEAN
  BY DEF Typed, TypeOK, History
<1>2. ASSUME history'.asked = history.asked, updateRequired' = updateRequired,
             Passing' \/ pc' = "updatePerformed" => Passing \/ pc = "updatePerformed"
      PROVE  Requests'
  BY <1>2 DEF Requests, RequestsKept
<1>3. CASE Program
  <2>1. CASE SetUpdateRequired
    <3>1. history'.asked = TRUE /\ updateRequired' = TRUE /\ pc' = pc
      BY <1>1, <2>1 DEF SetUpdateRequired, History
    <3>2. ~ Passing /\ pc # "updatePerformed"
      BY <2>1 DEF SetUpdateRequired, Passing, Calls
    <3> QED
      BY <3>1, <3>2 DEF Requests, RequestsKept, Passing
  <2>2. CASE ~ SetUpdateRequired
    <3>1. PICK w \in World, lost \in SUBSET Item, f \in Frame : ChangeFrame(w, lost, f)
      BY <1>1, <1>3, <2>2, ProgramIs
    <3>2. history'.asked = history.asked /\ updateRequired' = updateRequired /\ pc' = pc
      BY <1>1, <3>1, ChangeIs
    <3> QED
      BY <1>2, <3>2 DEF Passing
  <2> QED
    BY <2>1, <2>2
<1>4. ASSUME NEW items \in SUBSET Item, Promised(items)
      PROVE  history'.asked = history.asked
  BY <1>1, <1>4, PromisedIs
<1>5. ASSUME NEW e \in Item, Tell(e)
      PROVE  history'.asked = history.asked
  BY <1>1, <1>5, TellIs
<1>6. CASE Removal
  <2>1. updateRequired' = updateRequired /\ ~ Passing' /\ pc' # "updatePerformed"
    BY <1>6 DEF Removal, RemovesBody, BeginRemoveBody, BeginRemoveFixture, BeginRemoveFixtures, Tear, Destroy,
                Delist, EndRemoveBody, EndRemoveFixtures, BeginRemoveAll, DetachNext, NextBody,
                EndRemoveAll, BeginRemoveAllJoints, ReleaseNext, NextJoint, EndRemoveAllJoints,
                Abort, Passing
  <2>2. CASE \/ \E b \in Body : BeginRemoveBody(b) \/ BeginRemoveFixtures(b)
             \/ \E b \in Body : \E touching \in SUBSET Contact : BeginRemoveFixture(b, touching)
             \/ BeginRemoveAll \/ BeginRemoveAllJoints
    <3>1. world \in World /\ Joints(world) \subseteq Joint
          /\ \A b \in Body : world.edges[b] \subseteq Item
      BY <1>1, Lengths DEF TypeOK
    <3>2. Present(world) \subseteq Item
      BY <3>1, Kinds DEF Present
    <3>3. history'.asked = history.asked
      BY <1>4, <2>2, <3>1, <3>2, Kinds
         DEF BeginRemoveBody, BeginRemoveFixture, BeginRemoveFixtures, BeginRemoveAll,
             BeginRemoveAllJoints
    <3> QED
      BY <1>2, <2>1, <3>3
  <2>3. CASE \E e \in Item : Destroy(e)
    BY <1>2, <1>5, <2>1, <2>3 DEF Destroy
  <2>4. CASE ReleaseNext
    <3>1. world.joints[frame.index] \in Item
      <4>1. frame.index \in 1..Len(world.joints)
        BY <1>1, <2>4, Lengths DEF ReleaseNext, Typed, TypeOK, Frame
      <4> QED
        BY <1>1, <4>1, Lengths, Kinds DEF TypeOK
    <3>2. history'.asked = history.asked
      BY <1>5, <2>4, <3>1 DEF ReleaseNext
    <3> QED
      BY <1>2, <2>1, <3>2
  <2>5. CASE Abort
    <3>1. history'.asked = history.asked
      BY <1>1, <2>5 DEF Abort, History
    <3> QED
      BY <1>2, <2>1, <3>1
  <2>7. CASE EndRemoveFixtures
    <3>1. history'.asked = history.asked
      BY <1>1, <2>7 DEF EndRemoveFixtures, History
    <3> QED
      BY <1>2, <2>1, <3>1
  <2>8. CASE \E b \in Body : Tear(b)
    BY <1>1, <1>2, <2>1, <2>8, TearIs
  <2>6. CASE Delist \/ EndRemoveBody \/ DetachNext \/ NextBody \/ EndRemoveAll \/ NextJoint
             \/ EndRemoveAllJoints
    BY <1>2, <2>1, <2>6
       DEF Delist, EndRemoveBody, DetachNext, NextBody, EndRemoveAll, NextJoint, EndRemoveAllJoints
  <2> QED
    BY <1>6, <2>2, <2>3, <2>4, <2>5, <2>6, <2>7, <2>8 DEF Removal, RemovesBody
<1>7. CASE BeginStep
  <2>1. history'.asked = history.asked
    BY <1>1, <1>7 DEF BeginStep, History
  <2> QED
    BY <1>2, <1>7, <2>1 DEF BeginStep, Passing
<1>8. ASSUME NEW last \in BOOLEAN, BeginDetect(last)
      PROVE  Requests'
  <2>1. history'.asked = FALSE
    BY <1>1, <1>8 DEF BeginDetect, History
  <2> QED
    BY <2>1 DEF Requests, RequestsKept
<1>9. CASE EndDetect \/ UpdatePerformed
  <2>1. ~ history.asked /\ history' = history
    BY <1>9 DEF Requests, EndDetect, UpdatePerformed, Passing
  <2> QED
    BY <2>1 DEF Requests, RequestsKept
<1>10. CASE \/ \E p \in Contact : DropPair(p) \/ BeginUpdate(p)
            \/ Miss \/ Hit \/ EndUpdate
  BY <1>2, <1>10 DEF DropPair, BeginUpdate, Miss, Hit, EndUpdate, Passing
<1>11. CASE Ended \/ SkipUpdate \/ Solve \/ PostSolve \/ EndStep
  BY <1>2, <1>11 DEF Ended, SkipUpdate, Solve, PostSolve, EndStep, Goto, Passing
<1>12. CASE UNCHANGED vars
  BY <1>2, <1>12 DEF vars, Passing
<1> QED
  BY <1>3, <1>6, <1>7, <1>8, <1>9, <1>10, <1>11, <1>12 DEF Next, Step

\* Owners, lists, broadphases and graph agree between operations and in the
\* listener calls of a step, and no request for an update is lost, when
\* listeners and the program keep to the uses the run assumes.  What a removal of
\* all fixtures leaves when a listener cuts it short, or when it fails, is with
\* one of its bodies only (addBody to removeAllBodies, destroyContacts,
\* BroadphaseCollisionDetection).
THEOREM WorldConsistent == Usage = {} => (Spec => []Consistent)
<1> SUFFICES ASSUME Usage = {}
             PROVE  Spec => []Consistent
  OBVIOUS
<1>1. Ordinary /\ "askInCallback" \notin Usage
  BY DEF Ordinary
<1>2. Init => Typed /\ Coherent /\ Requests
  <2>1. Init => Requests
    BY DEF Init, Requests, RequestsKept, Passing
  <2> QED
    BY <2>1, TypedInit, CoherentInit
<1>3. Typed /\ Coherent /\ Requests /\ [Next]_vars => (Typed /\ Coherent /\ Requests)'
  BY <1>1, TypedStep, CoherentStep, RequestsStep
<1>4. Typed /\ Coherent /\ Requests => Consistent
  BY CoherentShows DEF Typed, Requests, Consistent
<1> QED
  BY <1>2, <1>3, <1>4, PTL DEF Spec

-----------------------------------------------------------------------------
(***************************************************************************)
(* Contacts are tracked.                                                   *)
(***************************************************************************)

\* The contacts of the graph are tracked, but for those whose fixtures are going;
\* the pass still has to look at tracked pairs only, while no change broke it.
Going ==
  IF Removing /\ frame.every THEN history.told
  ELSE IF pc = "destroyed" THEN {frame.current} ELSE {}
Tracked ==
  /\ ~ history.failed =>
       \A b \in Body : (world.edges[b] \cap Contact) \ Going \subseteq world.collisionData
  /\ Passing /\ ~ broken => frame.todo \subseteq world.collisionData
  /\ Passing => \A b \in Body : world.edges[b] \cap frame.todo = {}
  /\ pc = "updating" => frame.current \in world.collisionData

LEMMA TrackedStep == Ordinary /\ Typed /\ Coherent /\ Tracked /\ [Next]_vars => Tracked'
<1> SUFFICES ASSUME Ordinary, Typed, Coherent, Tracked, [Next]_vars
             PROVE  Tracked'
  OBVIOUS
<1>1. /\ TypeOK /\ world \in World /\ frame \in Frame /\ history \in History
      /\ world.collisionData \subseteq Contact /\ Joints(world) \subseteq Joint
      /\ Bodies(world) \subseteq Body /\ \A b \in Body : world.edges[b] \subseteq Item
  BY Lengths DEF Typed, TypeOK, World
<1>2. ASSUME ~ Passing', \A b \in Body : world'.edges[b] \cap Contact \subseteq world.edges[b],
             \A b \in Body : world'.edges[b] \cap world.collisionData \subseteq world'.collisionData,
             history'.failed = history.failed, Going \subseteq Going'
      PROVE  Tracked'
  BY <1>1, <1>2 DEF Tracked, Passing
<1>3. CASE Program
  <2>1. CASE SetUpdateRequired
    <3>1. history'.failed = history.failed /\ history'.told = history.told
      BY <1>1, <2>1 DEF SetUpdateRequired, History
    <3> QED
      BY <2>1, <3>1 DEF SetUpdateRequired, Tracked, Passing, Going, Removing
  <2>2. CASE ~ SetUpdateRequired
    <3>1. PICK w \in World, lost \in SUBSET Item, f \in Frame :
            ChangeFrame(w, lost, f) /\ Fits(w, lost, f)
      BY <1>3, <2>2, ProgramFits
    <3>2. /\ world' = w /\ pc' = pc /\ frame' = f /\ history'.failed = history.failed
          /\ pc # "idle" => history'.told = history.told
          /\ broken' = (broken \/ Breaks(w))
      BY <1>1, <3>1, ChangeIs DEF ChangeFrame
    <3>5. /\ f.current = frame.current /\ f.every = frame.every
          /\ f.todo = frame.todo \/ (Passing /\ f.todo = {})
      BY <3>1 DEF Fits, Kept
    <3>6. Going' = Going
      BY <3>2, <3>5 DEF Going, Removing
    <3>3. CASE ~ Passing
      BY <1>2, <3>1, <3>2, <3>3, <3>6 DEF Fits, Passing
    <3>4. CASE Passing
      <4>1. pc \in {"ended", "updating", "collided"}
        BY <3>1, <3>4 DEF ChangeFrame, MayChange, Calls, Passing
      <4>2. ~ broken' => w.collisionData = world.collisionData /\ ~ broken
        BY <3>2, <4>1 DEF Breaks
      <4>3. frame.todo \subseteq Contact /\ Going = {} /\ Going' = {}
        BY <3>2, <3>4, <4>1 DEF Coherent, Position, PassPosition, Going, Removing
      <4>4. ~ history'.failed =>
              \A b \in Body : (world'.edges[b] \cap Contact) \ Going' \subseteq world'.collisionData
        BY <3>1, <3>2, <4>3 DEF Tracked, Fits
      <4>5. ~ broken' => frame'.todo \subseteq world'.collisionData
        BY <3>2, <3>4, <3>5, <4>2 DEF Tracked
      <4>6. \A b \in Body : world'.edges[b] \cap frame'.todo = {}
        BY <3>1, <3>2, <3>4, <3>5, <4>3 DEF Tracked, Fits
      <4>7. pc' = "updating" => frame'.current \in world'.collisionData
        BY <3>1, <3>2, <3>5 DEF Tracked, Fits
      <4> QED
        BY <4>4, <4>5, <4>6, <4>7 DEF Tracked
    <3> QED
      BY <3>3, <3>4
  <2> QED
    BY <2>1, <2>2
<1>4. ASSUME NEW items \in SUBSET Item, Promised(items)
      PROVE  history'.failed = history.failed
  BY <1>1, <1>4, PromisedIs
<1>5. ASSUME NEW b \in Body, BeginRemoveBody(b)
      PROVE  Tracked'
  <2>1. /\ pc = "idle" /\ pc' = "destroy" /\ history'.failed = history.failed
        /\ world' = Detached(world, b)
    BY <1>1, <1>4, <1>5 DEF BeginRemoveBody
  <2>2. /\ world'.edges[b] = {} /\ world'.collisionData = world.collisionData
        /\ \A c \in Body \ {b} : world'.edges[c] = world.edges[c] \ world.edges[b]
    BY <1>1, <2>1, DetachedDoes
  <2>3. \A c \in Body : world'.edges[c] \subseteq world.edges[c]
    BY <2>2
  <2> QED
    BY <1>2, <2>1, <2>2, <2>3 DEF Passing, Going, Removing
<1>6. CASE \/ \E b \in Body : BeginRemoveFixtures(b)
           \/ \E b \in Body : \E touching \in SUBSET Contact : BeginRemoveFixture(b, touching)
           \/ BeginRemoveAll \/ BeginRemoveAllJoints
  <2>1. Present(world) \subseteq Item
    BY <1>1, Kinds DEF Present
  <2>2. history'.failed = history.failed
    BY <1>1, <1>4, <1>6, <2>1, Kinds
       DEF BeginRemoveFixture, BeginRemoveFixtures, BeginRemoveAll, BeginRemoveAllJoints
  <2> QED
    BY <1>2, <1>6, <2>2
       DEF BeginRemoveFixture, BeginRemoveFixtures, BeginRemoveAll, BeginRemoveAllJoints, Passing,
           Going, Removing
<1>7. ASSUME NEW e \in Item, Destroy(e)
      PROVE  Tracked'
  <2>1. /\ pc = "destroy" /\ pc' = "destroyed" /\ e \in frame.todo
        /\ world' = Destroyed(world, frame.victim, e)
        /\ frame' = [frame EXCEPT !.todo = @ \ {e}, !.current = e]
    BY <1>7 DEF Destroy
  <2>2. history'.failed = history.failed /\ history'.told = history.told \cup {e}
    BY <1>1, <1>7, TellIs DEF Destroy
  <2>3. frame'.current = e /\ frame'.every = frame.every
    BY <1>1, <2>1 DEF Frame
  <2>4. frame.victim \in Body
    BY <2>1 DEF Coherent, Position, Removing, RemovalPosition
  <2>5. world'.collisionData = world.collisionData \ {e}
    BY <1>1, <2>1, DestroyedDoes
  <2>6. ASSUME NEW c \in Body
        PROVE  world'.edges[c] \cap Contact = world.edges[c] \cap Contact
    <3>1. CASE e \in Joint
      <4>1. CASE c = frame.victim
        BY <1>1, <2>1, <4>1, DestroyedDoes
      <4>2. CASE c # frame.victim
        <5>1. world'.edges[c] = world.edges[c] \ {e}
          BY <1>1, <2>1, <3>1, <4>2, DestroyedDoes
        <5> QED
          BY <3>1, <5>1, Kinds
      <4> QED
        BY <4>1, <4>2
    <3>2. CASE e \notin Joint
      BY <1>1, <2>1, <3>2, DestroyedDoes
    <3> QED
      BY <3>1, <3>2
  <2>7. Going \cup {e} \subseteq Going' /\ ~ Passing'
    BY <2>1, <2>2, <2>3 DEF Going, Passing, Removing
  <2> QED
    BY <2>2, <2>5, <2>6, <2>7 DEF Tracked, Passing
<1>8. CASE Delist
  <2> DEFINE e == frame.current
             b == frame.victim
             only == frame.fixture /\ ~ frame.every
  <2>1. /\ pc = "destroyed" /\ pc' = "destroy" /\ history' = history
        /\ world' = Delisted(world, b, e, only) /\ only \in BOOLEAN
        /\ frame' = [frame EXCEPT !.current = None]
    BY <1>1, <1>8 DEF Delist, Frame
  <2>2. RemovalPosition /\ Graph(world, Alive, Gone, Disowned, Stray)
    BY <2>1 DEF Coherent, Position, Removing
  <2>3. ~ Passing' /\ IF frame.every THEN Going' = Going ELSE Going = {e}
    <3>1. frame'.every = frame.every
      BY <1>1, <2>1 DEF Frame
    <3> QED
      BY <2>1, <3>1 DEF Going, Passing, Removing
  <2>4. b \in Body /\ e \in Item
    BY <2>1, <2>2 DEF RemovalPosition
  <2>5. world'.collisionData = world.collisionData
    <3> HIDE DEF e, b, only
    <3> QED
      BY <1>1, <2>1, DelistedDoes
  <2>7. ASSUME frame.every, NEW c \in Body
        PROVE  world'.edges[c] \subseteq world.edges[c]
    <3>1. ~ only /\ e \in Contact
      BY <2>1, <2>2, <2>7, Kinds DEF RemovalPosition, FixturesPosition
    <3> HIDE DEF e, b, only
    <3>2. CASE c = b
      BY <1>1, <2>1, <3>1, <3>2, DelistedDoes
    <3>3. CASE c # b
      <4>1. world'.edges[c] = world.edges[c] \ {e}
        BY <1>1, <2>1, <3>1, <3>3, DelistedDoes
      <4> QED
        BY <4>1
    <3> QED
      BY <3>2, <3>3
  <2>6. ASSUME ~ frame.every, NEW c \in Body
        PROVE  (world'.edges[c] \cap Contact) \subseteq (world.edges[c] \cap Contact) \ {e}
    <3>1. CASE e \notin Contact
      <4>1. world'.edges[c] = world.edges[c]
        <5> HIDE DEF e, b, only
        <5> QED
          BY <1>1, <2>1, <3>1, DelistedDoes
      <4> QED
        BY <3>1, <4>1
    <3>2. CASE e \in Contact /\ (c # b \/ only)
      <4>1. world'.edges[c] = world.edges[c] \ {e}
        <5> HIDE DEF e, b, only
        <5> QED
          BY <1>1, <2>1, <3>2, DelistedDoes
      <4> QED
        BY <4>1
    <3>3. CASE e \in Contact /\ c = b /\ ~ only
      <4>1. world'.edges[c] = world.edges[c]
        <5> HIDE DEF e, b, only
        <5> QED
          BY <1>1, <2>1, <2>4, <3>3, DelistedDoes
      <4>2. e \notin world.edges[c]
        BY <2>1, <2>2, <2>6, <3>3, Kinds DEF RemovalPosition, Gone, Removing
      <4> QED
        BY <4>1, <4>2
    <3> QED
      BY <3>1, <3>2, <3>3
  <2> QED
    BY <2>1, <2>3, <2>5, <2>6, <2>7 DEF Tracked, Passing
<1>9. CASE EndRemoveBody \/ NextBody \/ NextJoint
  <2>1. world' = world /\ history' = history /\ ~ Passing' /\ Going = {}
    BY <1>9 DEF EndRemoveBody, NextBody, NextJoint, Passing, Going, Removing
  <2> QED
    BY <1>2, <2>1
<1>25. CASE EndRemoveFixtures
  <2> DEFINE b == frame.victim
             left == frame.todo \ frame.lost
  <2>1. /\ pc = "destroy" /\ pc' = "idle" /\ frame.every
        /\ world' = [world EXCEPT !.edges[b] = @ \ Contact]
        /\ history' = [history EXCEPT !.dropped = @ \cup left, !.present = @ \ left]
    BY <1>25 DEF EndRemoveFixtures
  <2>2. history'.failed = history.failed /\ Going = history.told
    BY <1>1, <2>1 DEF History, Going, Removing
  <2>3. RemovalPosition /\ FixturesPosition /\ b \in Body
    BY <2>1 DEF Coherent, Position, Removing, RemovalPosition
  <2>4. /\ world'.collisionData = world.collisionData
        /\ \A c \in Body :
             world'.edges[c] = IF c = b THEN world.edges[c] \ Contact ELSE world.edges[c]
    BY <1>1, <2>1, <2>3 DEF World
  <2>5. frame.current \notin Contact
    BY <2>1, <2>3, Kinds DEF RemovalPosition
  <2>6. ASSUME NEW c \in Body
        PROVE  world'.edges[c] \cap Contact \subseteq (world.edges[c] \cap Contact) \ Going
    <3>1. CASE c = b
      BY <2>4, <3>1
    <3>2. CASE c # b
      <4>1. world'.edges[c] = world.edges[c]
        BY <2>4, <3>2
      <4>2. world.edges[c] \cap Contact \cap history.told \subseteq {frame.current}
        BY <2>3, <3>2 DEF FixturesPosition
      <4> QED
        BY <2>2, <2>5, <4>1, <4>2
    <3> QED
      BY <3>1, <3>2
  <2>7. ~ Passing'
    BY <2>1 DEF Passing
  <2> QED
    BY <2>2, <2>4, <2>6, <2>7 DEF Tracked, Passing
<1>26. ASSUME NEW b \in Body, Tear(b)
       PROVE  Tracked'
  BY <1>26, TearCoherent
<1>10. CASE DetachNext
  <2> DEFINE b == world.bodies[frame.index]
             d == Detached(world, b)
  <2>1. /\ pc = "removeAll" /\ pc' = "destroy" /\ history' = history
        /\ world' = [d EXCEPT !.bodies = world.bodies, !.broadphase = world.broadphase,
                              !.ccdBroadphase = world.ccdBroadphase]
    BY <1>10 DEF DetachNext
  <2>2. b \in Body
    <3>1. frame.index \in 1..Len(world.bodies)
      BY <1>1, <1>10, Lengths DEF DetachNext, Typed, Frame
    <3> QED
      BY <1>1, <3>1, Lengths
  <2>3. /\ d \in World /\ d.edges[b] = {} /\ d.collisionData = world.collisionData
        /\ \A c \in Body \ {b} : d.edges[c] = world.edges[c] \ world.edges[b]
    <3> HIDE DEF b
    <3> QED
      BY <1>1, <2>2, DetachedDoes
  <2> HIDE DEF b, d
  <2>4. world'.edges = d.edges /\ world'.collisionData = world.collisionData
    BY <2>1, <2>3 DEF World
  <2>5. \A c \in Body : world'.edges[c] \subseteq world.edges[c]
    BY <2>3, <2>4
  <2> QED
    BY <1>2, <2>1, <2>4, <2>5 DEF Passing, Going, Removing
<1>11. CASE EndRemoveAll
  <2>1. pc = "removeAll" /\ pc' = "idle" /\ history' = history /\ world' = Cleared(world)
    BY <1>11 DEF EndRemoveAll
  <2>2. \A b \in Body : world'.edges[b] = {}
    BY <1>1, <2>1, ClearedDoes
  <2> QED
    BY <1>2, <2>1, <2>2 DEF Passing, Going, Removing
<1>12. CASE ReleaseNext
  <2> DEFINE j == world.joints[frame.index]
  <2>1. /\ pc = "removeAllJoints" /\ pc' = "jointDestroyed"
        /\ world' = [world EXCEPT !.owned = @ \ {j}, !.rest = @ \ Members[j]] /\ Tell(j)
    BY <1>12 DEF ReleaseNext
  <2>2. j \in Item
    <3>1. frame.index \in 1..Len(world.joints)
      BY <1>1, <1>12, Lengths DEF ReleaseNext, Typed, Frame
    <3> QED
      BY <1>1, <3>1, Lengths, Kinds
  <2> HIDE DEF j
  <2>3. world'.edges = world.edges /\ world'.collisionData = world.collisionData
    BY <1>1, <2>1 DEF World
  <2>4. history'.failed = history.failed
    BY <1>1, <2>1, <2>2, TellIs
  <2> QED
    BY <1>2, <2>1, <2>3, <2>4 DEF Passing, Going, Removing
<1>13. CASE EndRemoveAllJoints
  <2>1. /\ pc = "removeAllJoints" /\ pc' = "idle" /\ history' = history
        /\ world' = JointsCleared(world)
    BY <1>13 DEF EndRemoveAllJoints
  <2>2. /\ world'.collisionData = world.collisionData
        /\ \A b \in Body : world'.edges[b] = world.edges[b] \ Joint
    BY <1>1, <2>1, JointsClearedDoes
  <2> QED
    BY <1>2, <2>1, <2>2 DEF Passing, Going, Removing
<1>14. CASE Abort
  <2>1. pc' = "idle" /\ history'.failed = TRUE
    BY <1>1, <1>14 DEF Abort, History
  <2> QED
    BY <2>1 DEF Tracked, Passing
<1>15. CASE BeginStep
  <2>1. pc = "idle" /\ pc' = "begin" /\ history'.failed = history.failed /\ world' = world
    BY <1>1, <1>15 DEF BeginStep, History
  <2> QED
    BY <1>2, <2>1 DEF Passing, Going, Removing
<1>16. ASSUME NEW last \in BOOLEAN, BeginDetect(last)
       PROVE  Tracked'
  <2> DEFINE pairs == world.collisionData \cup {p \in Contact : p \subseteq world.broadphase}
  <2>1. /\ world' = [world EXCEPT !.collisionData = pairs, !.contactCollisions = {},
                                  !.edges = [b \in Body |-> @[b] \ Contact]]
        /\ frame' = [NoFrame EXCEPT !.todo = pairs, !.last = last] /\ pc' = "detect"
    BY <1>16 DEF BeginDetect
  <2>2. pairs \subseteq Contact
    BY <1>1
  <2> HIDE DEF pairs
  <2>3. world'.collisionData = pairs /\ \A b \in Body : world'.edges[b] = world.edges[b] \ Contact
    BY <1>1, <2>1 DEF World
  <2>4. frame'.todo = pairs
    BY <2>1 DEF NoFrame
  <2> QED
    BY <2>1, <2>2, <2>3, <2>4 DEF Tracked
<1>17. ASSUME NEW p \in Contact, DropPair(p)
       PROVE  Tracked'
  <2>1. /\ pc = "detect" /\ pc' = "ended" /\ ~ broken /\ ~ broken' /\ p \in frame.todo
        /\ history' = history
        /\ world' = [world EXCEPT !.collisionData = @ \ {p}]
        /\ frame' = [frame EXCEPT !.todo = @ \ {p}]
    BY <1>17 DEF DropPair
  <2>2. /\ world'.collisionData = world.collisionData \ {p} /\ world'.edges = world.edges
        /\ frame'.todo = frame.todo \ {p}
    BY <1>1, <2>1 DEF World, Frame
  <2>3. Passing /\ Going = {} /\ Going' = {}
    BY <2>1 DEF Passing, Going, Removing
  <2> QED
    BY <2>1, <2>2, <2>3 DEF Tracked
<1>18. ASSUME NEW p \in Contact, BeginUpdate(p)
       PROVE  Tracked'
  <2>1. /\ pc = "detect" /\ pc' = "updating" /\ ~ broken /\ ~ broken' /\ p \in frame.todo
        /\ history' = history /\ world' = world
        /\ frame' = [frame EXCEPT !.todo = @ \ {p}, !.current = p]
    BY <1>18 DEF BeginUpdate
  <2>2. frame'.todo = frame.todo \ {p} /\ frame'.current = p
    BY <1>1, <2>1 DEF Frame
  <2>3. Passing /\ Going = {} /\ Going' = {}
    BY <2>1 DEF Passing, Going, Removing
  <2> QED
    BY <2>1, <2>2, <2>3 DEF Tracked
<1>19. CASE Miss
  <2>1. /\ pc = "updating" /\ pc' = "detect" /\ broken' = broken /\ history' = history
        /\ world' = world /\ frame' = [frame EXCEPT !.current = None]
    BY <1>19 DEF Miss
  <2>2. frame'.todo = frame.todo
    BY <1>1, <2>1 DEF Frame
  <2> QED
    BY <2>1, <2>2 DEF Tracked, Passing, Going, Removing
<1>20. CASE Hit
  <2> DEFINE p == frame.current
  <2>1. /\ pc = "updating" /\ pc' = "collided" /\ broken' = broken /\ history' = history
        /\ world' = WithContact(world, p) /\ frame' = frame
    BY <1>20 DEF Hit
  <2>2. p \in Contact \ frame.todo /\ p \in world.collisionData
    BY <2>1 DEF Coherent, Position, PassPosition, Passing, Tracked
  <2>3. /\ world'.collisionData = world.collisionData
        /\ \A b \in p : world'.edges[b] = world.edges[b] \cup {p}
        /\ \A b \in Body \ p : world'.edges[b] = world.edges[b]
    <3> HIDE DEF p
    <3> QED
      BY <1>1, <2>1, <2>2, WithContactDoes
  <2>4. \A b \in Body : world'.edges[b] \subseteq world.edges[b] \cup {p}
    BY <2>3
  <2>5. Passing /\ Going = {} /\ Going' = {}
    BY <2>1 DEF Passing, Going, Removing
  <2> HIDE DEF p
  <2> QED
    BY <2>1, <2>2, <2>3, <2>4, <2>5 DEF Tracked
<1>21. CASE EndUpdate
  <2>1. /\ pc = "collided" /\ pc' = "detect" /\ broken' = broken /\ history' = history
        /\ world' = [world EXCEPT !.contactCollisions = @ \cup ({frame.current} \cap Solid)]
        /\ frame' = [frame EXCEPT !.current = None]
    BY <1>21 DEF EndUpdate
  <2>2. /\ frame'.todo = frame.todo /\ world'.edges = world.edges
        /\ world'.collisionData = world.collisionData
    BY <1>1, <2>1 DEF Frame, World
  <2> QED
    BY <2>1, <2>2 DEF Tracked, Passing, Going, Removing
<1>22. CASE EndDetect \/ UpdatePerformed \/ SkipUpdate \/ PostSolve \/ EndStep
  BY <1>2, <1>22
     DEF EndDetect, UpdatePerformed, SkipUpdate, PostSolve, EndStep, Goto, Passing, Going, Removing
<1>27. CASE Ended
  BY <1>27 DEF Ended, Goto, Tracked, Passing, Going, Removing
<1>23. CASE Solve
  <2>1. PICK asleep \in SUBSET Bodies(world) :
          world' = [world EXCEPT !.rest = (@ \ Bodies(world)) \cup asleep]
    BY <1>23 DEF Solve
  <2>2. world'.edges = world.edges /\ world'.collisionData = world.collisionData
    BY <1>1, <2>1 DEF World
  <2> QED
    BY <1>2, <1>23, <2>2 DEF Solve, Passing, Going, Removing
<1>24. CASE UNCHANGED vars
  BY <1>24 DEF vars, Tracked, Passing, Going, Removing
<1> QED
  BY <1>3, <1>5, <1>6, <1>7, <1>8, <1>9, <1>10, <1>11, <1>12, <1>13, <1>14, <1>15, <1>16, <1>17,
     <1>18, <1>19, <1>20, <1>21, <1>22, <1>23, <1>24, <1>25, <1>26, <1>27 DEF Next, Removal, RemovesBody, Step

\* A contact of the graph, with one body or with both, is one the pair map tracks,
\* whatever listeners change, unless an operation failed: the end of a contact is
\* noticed (CollisionTracking, ConstraintGraph).
THEOREM GraphContactsTracked == Ordinary => (Spec => []ContactsTracked)
<1> SUFFICES ASSUME Ordinary
             PROVE  Spec => []ContactsTracked
  OBVIOUS
<1>1. Init => Typed /\ Coherent /\ Tracked
  <2>1. Init => Tracked
    BY DEF Init, Tracked, Passing
  <2> QED
    BY <2>1, TypedInit, CoherentInit
<1>2. Typed /\ Coherent /\ Tracked /\ [Next]_vars => (Typed /\ Coherent /\ Tracked)'
  BY TypedStep, CoherentStep, TrackedStep
<1>3. Tracked => ContactsTracked
  BY DEF Tracked, ContactsTracked, Steady, Going, Removing
<1> QED
  BY <1>1, <1>2, <1>3, PTL DEF Spec

-----------------------------------------------------------------------------
(***************************************************************************)
(* Listeners are told of everything, once.                                 *)
(***************************************************************************)

Linked(w) == UNION {w.edges[b] : b \in Body}

\* What listeners were told and what they have still to be told is all there
\* was when the removal began.
Told ==
  /\ ToldOnce
  /\ history.told \cap frame.todo = {}
  /\ Removing => frame.lost \subseteq history.quiet
  /\ pc = "idle" => history.present \subseteq history.told \cup history.quiet
  /\ Removing /\ ~ frame.all =>
       history.present \subseteq history.told \cup history.quiet \cup frame.todo
  /\ frame.all /\ OfBodies =>
       /\ history.present \subseteq
            history.told \cup history.quiet \cup frame.todo \cup Linked(world)
       /\ history.told \cap Linked(world) = {}
  /\ OfJoints => history.present = Joints(world) /\ history.told = Released(frame.index)
  /\ ~ Removing /\ ~ RemovingAll /\ pc # "idle" => history.present = {} /\ history.told = {}

\* In a removal of all bodies, what is on its way out is linked no more.
LEMMA GoneUnlinked ==
  ASSUME Typed, Coherent, Removing, ~ frame.fixture
  PROVE  Gone \cap Linked(world) = {}
<1>1. /\ world \in World /\ \A b \in Body : world.edges[b] \subseteq Item
  BY Lengths DEF Typed, TypeOK
<1>2. Graph(world, Alive, Gone, Disowned, Stray) /\ RemovalPosition
  BY DEF Coherent, Position
<1>3. ASSUME NEW b \in Body, NEW e \in Gone, e \in world.edges[b]
      PROVE  FALSE
  <2>1. CASE e \in Joint
    BY <1>2, <1>3, <2>1 DEF Graph
  <2>2. CASE e \in Contact
    BY <1>2, <1>3, <2>2 DEF RemovalPosition
  <2> QED
    BY <1>1, <1>3, <2>1, <2>2, Kinds
<1> QED
  BY <1>3 DEF Linked

LEMMA ToldProgram ==
  ASSUME Ordinary, Typed, Coherent, Told, Program
  PROVE  Told'
<1>1. TypeOK /\ history \in History
  BY DEF Typed, TypeOK
<1>2. CASE SetUpdateRequired
  <2>1. /\ history'.present = history.present /\ history'.told = history.told
        /\ history'.again = history.again /\ history'.quiet = history.quiet
        /\ pc' = pc /\ frame' = frame /\ world' = world
    BY <1>1, <1>2 DEF SetUpdateRequired, History
  <2> QED
    BY <2>1 DEF Told, ToldOnce, Removing, RemovingAll, OfBodies, OfJoints, Released, Linked
<1>3. CASE ~ SetUpdateRequired
  <2>1. PICK w \in World, lost \in SUBSET Item, f \in Frame :
            ChangeFrame(w, lost, f) /\ Fits(w, lost, f)
    BY <1>3, ProgramFits
  <2>2. /\ world' = w /\ pc' = pc /\ frame' = f /\ MayChange
        /\ pc = "idle" => /\ history'.present = {} /\ history'.told = {} /\ history'.again = {}
        /\ pc # "idle" => /\ history'.present = history.present /\ history'.told = history.told
                          /\ history'.again = history.again
                          /\ history'.quiet = history.quiet \cup lost
    BY <1>1, <2>1, ChangeIs
  <2>7. /\ f.all = frame.all /\ (f.todo = frame.todo \/ f.todo = {})
        /\ Removing => f.todo = frame.todo
        /\ f.lost \subseteq frame.lost \cup lost
    BY <2>1 DEF Fits, Kept, Passing, Removing
  <2>3. ~ frame.all /\ ~ RemovingAll
    BY <2>2, Outside
  <2>4. ~ OfJoints
    BY <2>3 DEF OfJoints, RemovingAll
  <2>5. CASE pc = "idle"
    BY <2>2, <2>3, <2>4, <2>5, <2>7 DEF Told, ToldOnce, Removing, RemovingAll, OfJoints
  <2>6. CASE pc # "idle"
    BY <2>2, <2>3, <2>4, <2>6, <2>7 DEF Told, ToldOnce, Removing, RemovingAll, OfJoints
  <2> QED
    BY <2>5, <2>6
<1> QED
  BY <1>2, <1>3

LEMMA ToldRemoval ==
  ASSUME Typed, Coherent, Told, Removal
  PROVE  Told'
<1>1. /\ TypeOK /\ world \in World /\ frame \in Frame /\ history \in History
      /\ Joints(world) \subseteq Joint /\ \A b \in Body : world.edges[b] \subseteq Item
  BY Lengths DEF Typed, TypeOK
<1>2. Present(world) \subseteq Item
  BY <1>1, Kinds DEF Present
<1>3. ASSUME NEW b \in Body, BeginRemoveBody(b)
      PROVE  Told'
  <2>1. /\ history'.present = world.edges[b] /\ history'.told = {} /\ history'.again = {}
    BY <1>1, <1>3, PromisedIs DEF BeginRemoveBody
  <2>2. pc' = "destroy" /\ frame'.todo = world.edges[b] /\ ~ frame'.all /\ frame'.lost = {}
    BY <1>3 DEF BeginRemoveBody, NoFrame
  <2> QED
    BY <2>1, <2>2 DEF Told, ToldOnce, Removing, RemovingAll, OfJoints
<1>4. ASSUME NEW b \in Body, NEW touching \in SUBSET Contact, BeginRemoveFixture(b, touching)
      PROVE  Told'
  <2>1. /\ history'.present = touching /\ history'.told = {} /\ history'.again = {}
    BY <1>1, <1>4, PromisedIs, Kinds DEF BeginRemoveFixture
  <2>2. pc' = "destroy" /\ frame'.todo = touching /\ ~ frame'.all /\ frame'.lost = {}
    BY <1>4 DEF BeginRemoveFixture, NoFrame
  <2> QED
    BY <2>1, <2>2 DEF Told, ToldOnce, Removing, RemovingAll, OfJoints
<1>17. ASSUME NEW b \in Body, BeginRemoveFixtures(b)
       PROVE  Told'
  <2> DEFINE contacts == world.edges[b] \cap Contact
  <2>1. /\ history'.present = contacts /\ history'.told = {} /\ history'.again = {}
    BY <1>1, <1>17, PromisedIs, Kinds DEF BeginRemoveFixtures
  <2>2. pc' = "destroy" /\ frame'.todo = contacts /\ ~ frame'.all /\ frame'.lost = {}
    BY <1>17 DEF BeginRemoveFixtures, NoFrame
  <2> HIDE DEF contacts
  <2> QED
    BY <2>1, <2>2 DEF Told, ToldOnce, Removing, RemovingAll, OfJoints
<1>18. CASE EndRemoveFixtures
  <2> DEFINE left == frame.todo \ frame.lost
  <2>1. /\ pc = "destroy" /\ pc' = "idle" /\ frame' = NoFrame /\ frame.every
        /\ history' = [history EXCEPT !.dropped = @ \cup left, !.present = @ \ left]
    BY <1>18 DEF EndRemoveFixtures
  <2>2. /\ history'.present = history.present \ left /\ history'.told = history.told
        /\ history'.again = history.again /\ history'.quiet = history.quiet
    BY <1>1, <2>1 DEF History
  <2>3. ~ frame.all
    BY <2>1 DEF Coherent, Position, Removing, RemovalPosition, FixturesPosition
  <2>4. history'.present \subseteq history'.told \cup history'.quiet
    BY <2>1, <2>2, <2>3 DEF Told, Removing
  <2> QED
    BY <2>1, <2>2, <2>4, FrameIs DEF Told, ToldOnce, Removing, RemovingAll, OfBodies, OfJoints
<1>19. ASSUME NEW b \in Body, Tear(b)
       PROVE  Told'
  <2>1. /\ history'.present = {} /\ history'.told = history.told /\ history'.again = history.again
        /\ pc' = "idle" /\ frame' = NoFrame
    BY <1>1, <1>19, TearIs
  <2> QED
    BY <2>1, FrameIs DEF Told, ToldOnce, Removing, RemovingAll, OfBodies, OfJoints
<1>5. ASSUME NEW e \in Item, Destroy(e)
      PROVE  Told'
  <2>1. /\ history'.told = history.told \cup {e}
        /\ history'.again = history.again \cup ({e} \cap history.told)
        /\ history'.present = history.present /\ history'.quiet = history.quiet
    BY <1>1, <1>5, TellIs DEF Destroy
  <2>2. /\ pc = "destroy" /\ pc' = "destroyed" /\ e \in frame.todo
        /\ world' = Destroyed(world, frame.victim, e)
        /\ frame' = [frame EXCEPT !.todo = @ \ {e}, !.current = e]
    BY <1>5 DEF Destroy
  <2>3. frame'.todo = frame.todo \ {e} /\ frame'.all = frame.all /\ frame'.lost = frame.lost
    BY <1>1, <2>2 DEF Frame
  <2>4. ToldOnce' /\ history'.told \cap frame'.todo = {}
    BY <2>1, <2>2, <2>3 DEF Told, ToldOnce
  <2>5. ASSUME frame.all
        PROVE  /\ history'.present \subseteq
                    history'.told \cup history'.quiet \cup frame'.todo \cup Linked(world')
               /\ history'.told \cap Linked(world') = {}
    <3>1. ~ frame.fixture /\ frame.victim \in Body
      BY <2>2, <2>5 DEF Coherent, Position, Removing, RemovalPosition
    <3>2. e \in Gone
      BY <2>2, <3>1 DEF Gone, Removing
    <3>3. e \notin Linked(world)
      BY <2>2, <3>1, <3>2, GoneUnlinked DEF Removing
    <3>4. ASSUME NEW c \in Body
          PROVE  world'.edges[c] = world.edges[c]
      <4>1. e \notin world.edges[c]
        BY <3>3 DEF Linked
      <4>2. CASE e \in Joint /\ c # frame.victim
        <5>1. world'.edges[c] = world.edges[c] \ {e}
          BY <1>1, <2>2, <4>2, DestroyedDoes
        <5> QED
          BY <4>1, <5>1
      <4>3. CASE e \notin Joint
        BY <1>1, <2>2, <4>3, DestroyedDoes
      <4>4. CASE c = frame.victim
        BY <1>1, <2>2, <4>4, DestroyedDoes
      <4> QED
        BY <4>2, <4>3, <4>4
    <3>5. Linked(world') = Linked(world)
      BY <3>4 DEF Linked
    <3>6. /\ history.present \subseteq
               history.told \cup history.quiet \cup frame.todo \cup Linked(world)
          /\ history.told \cap Linked(world) = {}
      BY <2>2, <2>5 DEF Told, OfBodies
    <3> QED
      BY <2>1, <2>3, <3>3, <3>5, <3>6
  <2>6. ~ frame.all => history'.present \subseteq history'.told \cup history'.quiet \cup frame'.todo
    BY <2>1, <2>2, <2>3 DEF Told, Removing
  <2> QED
    BY <2>1, <2>2, <2>3, <2>4, <2>5, <2>6 DEF Told, Removing, RemovingAll, OfJoints
<1>6. CASE Delist
  <2> DEFINE e == frame.current
             b == frame.victim
             only == frame.fixture /\ ~ frame.every
  <2>1. /\ pc = "destroyed" /\ pc' = "destroy" /\ history' = history
        /\ world' = Delisted(world, b, e, only) /\ only \in BOOLEAN
        /\ frame' = [frame EXCEPT !.current = None]
    BY <1>1, <1>6 DEF Delist, Frame
  <2>2. frame'.todo = frame.todo /\ frame'.all = frame.all /\ frame'.lost = frame.lost
    BY <1>1, <2>1 DEF Frame
  <2>3. ASSUME frame.all
        PROVE  Linked(world') = Linked(world)
    <3>1. ~ frame.fixture /\ ~ only /\ b \in Body /\ e \in Item
      BY <2>1, <2>3 DEF Coherent, Position, Removing, RemovalPosition
    <3>2. e \in Gone
      BY <2>1, <3>1, Kinds DEF Gone, Removing
    <3>3. e \notin Linked(world)
      BY <2>1, <3>1, <3>2, GoneUnlinked DEF Removing
    <3>4. ASSUME NEW c \in Body
          PROVE  world'.edges[c] = world.edges[c]
      <4>1. e \notin world.edges[c]
        BY <3>3 DEF Linked
      <4> HIDE DEF e, b, only
      <4>2. CASE e \in Contact /\ c # b
        <5>1. world'.edges[c] = world.edges[c] \ {e}
          BY <1>1, <2>1, <4>2, DelistedDoes
        <5> QED
          BY <4>1, <5>1
      <4>3. CASE e \notin Contact
        BY <1>1, <2>1, <4>3, DelistedDoes
      <4>4. CASE c = b
        BY <1>1, <2>1, <3>1, <4>4, DelistedDoes
      <4> QED
        BY <4>2, <4>3, <4>4
    <3> QED
      BY <3>4 DEF Linked
  <2> HIDE DEF e, b, only
  <2> QED
    BY <2>1, <2>2, <2>3 DEF Told, ToldOnce, Removing, RemovingAll, OfBodies, OfJoints
<1>7. CASE EndRemoveBody
  <2>1. /\ pc = "destroy" /\ frame.todo = {} /\ world' = world /\ history' = history
        /\ \/ frame.all /\ pc' = "bodyDestroyed" /\ frame' = [frame EXCEPT !.victim = None]
           \/ ~ frame.all /\ pc' = "idle" /\ frame' = NoFrame
    BY <1>7 DEF EndRemoveBody
  <2>2. CASE frame.all
    <3>1. frame'.todo = frame.todo /\ frame'.all = frame.all
      BY <1>1, <2>1, <2>2 DEF Frame
    <3> QED
      BY <2>1, <2>2, <3>1
         DEF Told, ToldOnce, Removing, RemovingAll, OfBodies, OfJoints, Linked
  <2>3. CASE ~ frame.all
    BY <2>1, <2>3, FrameIs DEF Told, ToldOnce, Removing, RemovingAll, OfBodies, OfJoints
  <2> QED
    BY <2>2, <2>3
<1>8. CASE BeginRemoveAll
  <2>1. /\ history'.present = Present(world) /\ history'.told = {} /\ history'.again = {}
    BY <1>1, <1>2, <1>8, PromisedIs DEF BeginRemoveAll
  <2>2. pc = "idle" /\ pc' = "removeAll" /\ frame'.todo = {} /\ frame'.all /\ world' = world
    BY <1>8 DEF BeginRemoveAll, NoFrame
  <2>3. Present(world) \subseteq Linked(world)
    <3>1. Graph(world, Bodies(world), {}, {}, Stray)
      BY <2>2, SteadyGraph DEF Removing, RemovingAll
    <3>2. ASSUME NEW j \in Joints(world)
          PROVE  j \in Linked(world)
      <4>1. PICK b \in Members[j] : b \in Body
        BY <1>1, Kinds
      <4>2. j \in world.edges[b]
        BY <1>1, <3>1, <4>1 DEF Graph
      <4> QED
        BY <4>1, <4>2 DEF Linked
    <3> QED
      BY <3>2 DEF Present, Linked
  <2> QED
    BY <2>1, <2>2, <2>3 DEF Told, ToldOnce, Removing, RemovingAll, OfBodies, OfJoints, Linked
<1>9. CASE DetachNext
  <2> DEFINE b == world.bodies[frame.index]
             d == Detached(world, b)
  <2>1. /\ pc = "removeAll" /\ pc' = "destroy" /\ history' = history
        /\ world' = [d EXCEPT !.bodies = world.bodies, !.broadphase = world.broadphase,
                              !.ccdBroadphase = world.ccdBroadphase]
        /\ frame' = [frame EXCEPT !.victim = b, !.todo = world.edges[b]]
    BY <1>9 DEF DetachNext
  <2>2. b \in Body
    <3>1. frame.index \in 1..Len(world.bodies)
      BY <1>1, <1>9, Lengths DEF DetachNext, Typed, Frame
    <3> QED
      BY <1>1, <3>1, Lengths
  <2>3. /\ d \in World /\ d.edges[b] = {}
        /\ \A c \in Body \ {b} : d.edges[c] = world.edges[c] \ world.edges[b]
    <3> HIDE DEF b
    <3> QED
      BY <1>1, <2>2, DetachedDoes
  <2> HIDE DEF b, d
  <2>4. world'.edges = d.edges
    BY <2>1, <2>3 DEF World
  <2>5. Linked(world) = Linked(world') \cup world.edges[b]
    BY <2>2, <2>3, <2>4 DEF Linked
  <2>6. frame.todo = {} /\ frame.all /\ frame.lost = {}
    BY <2>1 DEF Coherent, Position, RemovingAll, AllPosition
  <2>7. frame'.todo = world.edges[b] /\ frame'.all /\ frame'.lost = {}
    BY <1>1, <2>1, <2>6 DEF Frame
  <2>8. /\ history.present \subseteq history.told \cup history.quiet \cup Linked(world)
        /\ history.told \cap Linked(world) = {}
    BY <2>1, <2>6 DEF Told, OfBodies
  <2> QED
    BY <2>1, <2>5, <2>7, <2>8 DEF Told, ToldOnce, Removing, RemovingAll, OfBodies, OfJoints
<1>10. CASE NextBody
  <2>1. /\ pc = "bodyDestroyed" /\ pc' = "removeAll" /\ history' = history /\ world' = world
        /\ frame' = [frame EXCEPT !.index = @ + 1]
    BY <1>10 DEF NextBody
  <2>2. frame'.todo = frame.todo /\ frame'.all = frame.all
    BY <1>1, <2>1 DEF Frame
  <2> QED
    BY <2>1, <2>2 DEF Told, ToldOnce, Removing, RemovingAll, OfBodies, OfJoints, Linked
<1>11. CASE EndRemoveAll
  <2>1. /\ pc = "removeAll" /\ pc' = "idle" /\ history' = history /\ frame' = NoFrame
        /\ frame.index > frame.count
    BY <1>11 DEF EndRemoveAll
  <2>2. AllPosition /\ Graph(world, Alive, Gone, Disowned, Stray)
    BY <2>1 DEF Coherent, Position, RemovingAll
  <2>3. frame.index = Len(world.bodies) + 1 /\ Len(world.bodies) \in Nat
    BY <1>1, <2>1, <2>2, Lengths, SMTT(30) DEF AllPosition, Frame
  <2>4. Alive = {} /\ Gone = {} /\ Disowned = {}
    BY <2>1, <2>2, <2>3 DEF Alive, Gone, Disowned, Removing, OfBodies, OfJoints, From, AllPosition
  <2>5. ASSUME NEW b \in Body, NEW e \in world.edges[b]
        PROVE  FALSE
    <3>1. CASE e \in Joint
      <4>1. e \in Joints(world) /\ Members[e] = {}
        BY <2>2, <2>4, <3>1 DEF Graph
      <4> QED
        BY <3>1, <4>1, Kinds
    <3>2. CASE e \in Contact
      BY <2>2, <2>4, <3>2 DEF Graph
    <3> QED
      BY <1>1, <3>1, <3>2, Kinds
  <2>6. Linked(world) = {}
    BY <2>5 DEF Linked
  <2>7. history.present \subseteq history.told \cup history.quiet
    BY <2>1, <2>2, <2>6 DEF Told, OfBodies, AllPosition
  <2> QED
    BY <2>1, <2>7, FrameIs DEF Told, ToldOnce, Removing, RemovingAll, OfBodies, OfJoints
<1>12. CASE BeginRemoveAllJoints
  <2>1. /\ history'.present = Joints(world) /\ history'.told = {} /\ history'.again = {}
    BY <1>1, <1>12, PromisedIs, Kinds DEF BeginRemoveAllJoints
  <2>2. pc' = "removeAllJoints" /\ frame'.todo = {} /\ frame'.index = 1 /\ world' = world
    BY <1>12 DEF BeginRemoveAllJoints, NoFrame
  <2> QED
    BY <2>1, <2>2 DEF Told, ToldOnce, Removing, RemovingAll, OfBodies, OfJoints, Released
<1>13. CASE ReleaseNext
  <2> DEFINE j == world.joints[frame.index]
  <2>1. /\ pc = "removeAllJoints" /\ pc' = "jointDestroyed"
        /\ frame' = [frame EXCEPT !.index = @ + 1] /\ frame.index <= Len(world.joints)
        /\ world' = [world EXCEPT !.owned = @ \ {j}, !.rest = @ \ Members[j]] /\ Tell(j)
    BY <1>13 DEF ReleaseNext
  <2>2. AllPosition /\ IsInjective(world.joints)
    BY <2>1 DEF Coherent, Position, RemovingAll, Lists
  <2>3. frame.index \in 1..Len(world.joints) /\ Len(world.joints) \in Nat
    BY <1>1, <2>1, <2>2, Lengths DEF AllPosition, OfJoints
  <2>4. j \in Joint /\ j \in Item
    BY <1>1, <2>3, Lengths, Kinds
  <2>5. j \notin Released(frame.index)
    <3>1. \A n \in 1..frame.index - 1 : n \in 1..Len(world.joints) /\ n # frame.index
      BY <2>3
    <3> QED
      BY <1>1, <2>2, <2>3, <3>1, Lengths DEF IsInjective, Released
  <2>6. Released(frame.index + 1) = Released(frame.index) \cup {j}
    <3>1. 1..frame.index + 1 - 1 = (1..frame.index - 1) \cup {frame.index}
      BY <2>3
    <3> QED
      BY <3>1 DEF Released
  <2> HIDE DEF j
  <2>7. /\ history'.told = history.told \cup {j}
        /\ history'.again = history.again \cup ({j} \cap history.told)
        /\ history'.present = history.present
    BY <1>1, <2>1, <2>4, TellIs
  <2>8. world'.joints = world.joints /\ frame'.todo = {} /\ frame'.index = frame.index + 1
    BY <1>1, <2>1, <2>2 DEF World, Frame, AllPosition
  <2>9. history.told = Released(frame.index) /\ history.present = Joints(world)
    BY <2>1 DEF Told, OfJoints
  <2>10. Released(frame.index)' = Released(frame.index + 1) /\ Joints(world') = Joints(world)
    BY <2>8 DEF Released, Joints
  <2>11. ToldOnce'
    BY <2>5, <2>7, <2>9 DEF Told, ToldOnce
  <2> QED
    BY <2>1, <2>6, <2>7, <2>8, <2>9, <2>10, <2>11 DEF Told, Removing, RemovingAll, OfBodies, OfJoints
<1>14. CASE NextJoint
  <2>1. /\ pc = "jointDestroyed" /\ pc' = "removeAllJoints" /\ history' = history /\ world' = world
        /\ frame' = frame
    BY <1>14 DEF NextJoint
  <2> QED
    BY <2>1 DEF Told, ToldOnce, Removing, RemovingAll, OfBodies, OfJoints, Released
<1>15. CASE EndRemoveAllJoints
  <2>1. /\ pc = "removeAllJoints" /\ pc' = "idle" /\ history' = history /\ frame' = NoFrame
        /\ frame.index > frame.count
    BY <1>15 DEF EndRemoveAllJoints
  <2>2. AllPosition
    BY <2>1 DEF Coherent, Position, RemovingAll
  <2>3. frame.index = Len(world.joints) + 1 /\ Len(world.joints) \in Nat
    BY <1>1, <2>1, <2>2, Lengths DEF AllPosition, OfJoints, Frame
  <2>4. Released(frame.index) = Joints(world)
    <3>1. 1..frame.index - 1 = DOMAIN world.joints
      BY <1>1, <2>3, Lengths
    <3> QED
      BY <3>1 DEF Released, Joints, ToSet
  <2>5. history.present \subseteq history.told
    BY <2>1, <2>4 DEF Told, OfJoints
  <2> QED
    BY <2>1, <2>5, FrameIs DEF Told, ToldOnce, Removing, RemovingAll, OfBodies, OfJoints
<1>16. CASE Abort
  <2>1. /\ history'.present = {} /\ history'.told = history.told /\ history'.again = history.again
        /\ pc' = "idle" /\ frame' = NoFrame
    BY <1>1, <1>16 DEF Abort, History
  <2> QED
    BY <2>1, FrameIs DEF Told, ToldOnce, Removing, RemovingAll, OfBodies, OfJoints
<1> QED
  BY <1>3, <1>4, <1>5, <1>6, <1>7, <1>8, <1>9, <1>10, <1>11, <1>12, <1>13, <1>14, <1>15, <1>16,
     <1>17, <1>18, <1>19 DEF Removal, RemovesBody

LEMMA ToldStep == Ordinary /\ Typed /\ Coherent /\ Told /\ [Next]_vars => Told'
<1> SUFFICES ASSUME Ordinary, Typed, Coherent, Told, [Next]_vars
             PROVE  Told'
  OBVIOUS
<1>1. /\ world \in World /\ frame \in Frame /\ history \in History
  BY DEF Typed, TypeOK
<1>2. CASE Step
  <2>1. ~ Removing /\ ~ RemovingAll /\ ~ Removing' /\ ~ RemovingAll'
    BY <1>2 DEF Step, BeginStep, SkipUpdate, Goto, BeginDetect, DropPair, BeginUpdate, Miss, Hit,
           EndUpdate, EndDetect, UpdatePerformed, Solve, PostSolve, EndStep, Ended, Removing,
           RemovingAll
  <2>2. ~ frame.all /\ ~ frame'.all
    BY <1>2, <2>1, CoherentStep, SteadyGraph DEF Next, Coherent, Position, PassPosition, NoFrame
  <2>3. ASSUME history'.present = {}, history'.told = {}, history'.again = {}
        PROVE  Told'
    BY <2>1, <2>2, <2>3 DEF Told, ToldOnce, Removing, RemovingAll, OfJoints
  <2>4. CASE BeginStep
    BY <1>1, <2>3, <2>4 DEF BeginStep, History
  <2>5. CASE ~ BeginStep
    <3>1. pc # "idle" /\ history'.present = history.present /\ history'.told = history.told
          /\ history'.again = history.again
      BY <1>1, <1>2, <2>5
         DEF Step, SkipUpdate, Goto, BeginDetect, DropPair, BeginUpdate, Miss, Hit,
             EndUpdate, EndDetect, UpdatePerformed, Solve, PostSolve, EndStep, Ended, History
    <3>2. history.present = {} /\ history.told = {} /\ history.again = {}
      BY <2>1, <3>1 DEF Told, ToldOnce
    <3> QED
      BY <2>3, <3>1, <3>2
  <2> QED
    BY <2>4, <2>5
<1>3. CASE UNCHANGED vars
  BY <1>3 DEF vars, Told, ToldOnce, Removing, RemovingAll, OfBodies, OfJoints, Released, Linked
<1> QED
  BY <1>2, <1>3, ToldProgram, ToldRemoval DEF Next

\* A removal with notification tells listeners of every joint and contact that was
\* there, or one of them removed it, and never tells twice, whatever listeners
\* change meanwhile.  A removal of all fixtures that they cut short may leave
\* contacts untold, which are then in `dropped` and tracked (destroyJoints,
\* destroyContacts, handleFixtureRemoved, handleAllFixturesRemoved,
\* removeAllBodies, removeAllJoints).
THEOREM EverythingIsTold == Ordinary => (Spec => []ToldExactlyOnce)
<1> SUFFICES ASSUME Ordinary
             PROVE  Spec => []ToldExactlyOnce
  OBVIOUS
<1>1. Init => Typed /\ Coherent /\ Told
  <2>1. Init => Told
    BY FrameIs DEF Init, Told, ToldOnce, Removing, RemovingAll, OfBodies, OfJoints
  <2> QED
    BY <2>1, TypedInit, CoherentInit
<1>2. Typed /\ Coherent /\ Told /\ [Next]_vars => (Typed /\ Coherent /\ Told)'
  BY TypedStep, CoherentStep, ToldStep
<1>3. Told => ToldExactlyOnce
  BY DEF Told, ToldExactlyOnce, AllTold
<1> QED
  BY <1>1, <1>2, <1>3, PTL DEF Spec
=============================================================================
