----------------------- MODULE CollisionTracking_proof -----------------------
(***************************************************************************)
(* Proofs about CollisionTracking, for all bodies, fixtures and boxes.     *)
(*                                                                         *)
(* TypeCorrect and MembershipCorrect hold for every use of the API,        *)
(* ContactsCorrect without "removeOwnPair", PairsAlwaysComplete without    *)
(* "bodyAABB", and FreshAlwaysMarked, NoPairGoesStale and                  *)
(* IncrementalIsFull with no use but "removeOwnPair".                      *)
(***************************************************************************)
EXTENDS CollisionTracking, TLAPS

USE BodyOfAssumption, BoxAssumption, ExpandAssumption, UsageAssumption

(***************************************************************************)
(* The bookkeeping of a pass: the pairs to visit are recorded ones that    *)
(* are not contacts yet, and there are none outside the processing phase;  *)
(* after a listener broke the iteration they may have left the map.        *)
(***************************************************************************)
InSearch == pc \in {"process", "pair", "contact"}

PassOK ==
  /\ ~ broken => todo \subseteq data
  /\ contacts \cap todo = {}
  /\ current \cap todo = {}
  /\ ~ InSearch => todo = {}
  /\ pc # "pair" => current = {}

BaseInv == TypeOK /\ PassOK /\ LeavesMatchMembership

\* A pair consists of items.
LEMMA PairFacts == \A p \in Pair : p \subseteq Item /\ p # {}
  BY DEF Pair

\* Only live items overlap: an item without leaf overlaps nothing, itself
\* included.
LEMMA OverlappingIsLive == \A p \in Pair : Overlapping(p) => p \subseteq Live
  BY PairFacts DEF Overlapping, Live

\* Type correctness (every operation of CollisionTracking).
LEMMA TypeInit == Init => TypeOK
  BY DEF Init, TypeOK

LEMMA PlaceType ==
  ASSUME TypeOK, NEW items \in SUBSET Item, Place(items)
  PROVE  leaf' \in [Item -> SUBSET Cell] /\ updated' \subseteq Item /\ fresh' \subseteq Item
<1> DEFINE moved == {i \in items : ~ Settled(i)}
<1>1. \A i \in Item : Expand(box[i]) \in SUBSET Cell
  BY DEF TypeOK
<1>2. leaf' = [i \in Item |-> IF i \in moved THEN Expand(box[i]) ELSE leaf[i]]
  BY DEF Place
<1>3. leaf' \in [Item -> SUBSET Cell]
  <2> HIDE DEF moved
  <2> QED BY <1>1, <1>2 DEF TypeOK
<1>4. updated' \subseteq updated \cup moved /\ fresh' = fresh \cup moved
  BY DEF Place
<1> QED BY <1>3, <1>4 DEF TypeOK

LEMMA LiveType == Live \subseteq Item
  BY DEF Live

LEMMA TypeStep == TypeOK /\ [Next]_vars => TypeOK'
<1> SUFFICES ASSUME TypeOK, [Next]_vars PROVE TypeOK'
  OBVIOUS
<1> USE DEF TypeOK
<1>1. CASE UNCHANGED vars
  BY <1>1 DEF vars, world, pass
<1>2. CASE Detect
  <2>1. CASE BeginDetect
    BY <2>1, PlaceType, LiveType DEF BeginDetect, Idle, world
  <2>2. ASSUME NEW b \in Body, CheckBounds(b) PROVE TypeOK'
    BY <2>2 DEF CheckBounds
  <2>3. CASE FindPairs
    BY <2>3 DEF FindPairs, FoundPairs, world
  <2>4. ASSUME NEW p \in todo, DropPair(p) PROVE TypeOK'
    BY <2>4 DEF DropPair, world
  <2>5. ASSUME NEW p \in todo, TakePair(p) PROVE TypeOK'
    BY <2>5 DEF TakePair, world
  <2>6. CASE AddContact
    BY <2>6 DEF AddContact, world
  <2>7. CASE ListenersReturn
    BY <2>7 DEF ListenersReturn, world
  <2>8. CASE EndDetect
    BY <2>8 DEF EndDetect, world
  <2>9. CASE Throw
    BY <2>9 DEF Throw, world
  <2> QED BY <1>2, <2>1, <2>2, <2>3, <2>4, <2>5, <2>6, <2>7, <2>8, <2>9 DEF Detect
<1>3. CASE Program
  <2>1. ASSUME NEW b \in Body, AddBody(b) PROVE TypeOK'
    BY <2>1, PlaceType DEF AddBody, Attached, ItemsOf, pass
  <2>2. ASSUME NEW b \in Body, RemoveBody(b) PROVE TypeOK'
    BY <2>2 DEF RemoveBody, Displace, DestroyContacts, pass
  <2>3. ASSUME NEW b \in Body, SetEnabled(b) PROVE TypeOK'
    BY <2>3 DEF SetEnabled, pass
  <2>4. CASE RemoveAllBodies
    BY <2>4 DEF RemoveAllBodies, pass
  <2>5. ASSUME NEW i \in Item, AddFixture(i) PROVE TypeOK'
    BY <2>5, PlaceType DEF AddFixture, pass
  <2>6. ASSUME NEW i \in Item, GetBodyAABB(i) PROVE TypeOK'
    BY <2>6 DEF GetBodyAABB, Attached, ItemsOf, pass, world
  <2>7. ASSUME NEW b \in Body, NEW gone \in SUBSET Item, RemoveFixtures(b, gone)
        PROVE  TypeOK'
    BY <2>7 DEF RemoveFixtures, Displace, DestroyContacts, pass
  <2>8. ASSUME NEW b \in Body, NEW to \in [ItemsOf(b) -> Box], Move(b, to) PROVE TypeOK'
    BY <2>8 DEF Move, ItemsOf, pass
  <2>9. ASSUME NEW flag \in BOOLEAN, SetBroadphaseDetector(flag) PROVE TypeOK'
    BY <2>9 DEF SetBroadphaseDetector, Attached, ItemsOf, pass, world
  <2>10. ASSUME NEW flag \in BOOLEAN, SetUpdateTrackingEnabled(flag) PROVE TypeOK'
    BY <2>10 DEF SetUpdateTrackingEnabled, pass, world
  <2> QED BY <1>3, <2>1, <2>2, <2>3, <2>4, <2>5, <2>6, <2>7, <2>8, <2>9, <2>10 DEF Program, Operation
<1> QED BY <1>1, <1>2, <1>3 DEF Next

\* Every variable of the tracking keeps its type: pairs join items of two
\* bodies, leaves are sets of cells, the pass is in one of its phases.
THEOREM TypeCorrect == Spec => []TypeOK
  BY TypeInit, TypeStep, PTL DEF Spec

-----------------------------------------------------------------------------
(***************************************************************************)
(* What Place, Displace and DestroyContacts do to the leaves and the pass. *)
(***************************************************************************)
LEMMA PlaceFacts ==
  ASSUME TypeOK, NEW items \in SUBSET Item, Place(items)
  PROVE  /\ Live' = Live \cup items
         /\ fresh \subseteq fresh'
         /\ \A i \in Item \ fresh' : leaf'[i] = leaf[i]
         /\ tracking => fresh' \ fresh \subseteq updated' /\ updated \subseteq updated'
         /\ tracking => \A i \in Item \ updated' : leaf'[i] = leaf[i]
<1> DEFINE moved == {i \in items : ~ Settled(i)}
<1>1. leaf' = [i \in Item |-> IF i \in moved THEN Expand(box[i]) ELSE leaf[i]]
  BY DEF Place
<1>2. fresh' = fresh \cup moved /\ (tracking => updated' = updated \cup moved)
  BY DEF Place
<1>3. \A i \in items \ moved : leaf[i] # {}
  BY DEF Settled
<1>4. \A i \in Item : Expand(box[i]) # {}
  BY DEF TypeOK
<1>5. moved \subseteq items
  OBVIOUS
<1> HIDE DEF moved
<1>6. \A i \in Item : leaf'[i] = IF i \in moved THEN Expand(box[i]) ELSE leaf[i]
  BY <1>1
<1>7. Live' = {i \in Item : leaf'[i] # {}}
  BY DEF Live
<1>8. Live' = Live \cup items
  BY <1>3, <1>4, <1>5, <1>6, <1>7 DEF Live
<1> QED BY <1>2, <1>6, <1>8

LEMMA DisplaceFacts ==
  ASSUME TypeOK, NEW items \in SUBSET Item, Displace(items)
  PROVE  /\ Live' = Live \ items
         /\ \A i \in Item : leaf'[i] = IF i \in items THEN {} ELSE leaf[i]
         /\ updated' = updated \ items /\ fresh' = fresh \ items
  BY DEF Displace, Live

-----------------------------------------------------------------------------
(***************************************************************************)
(* Membership and contacts, for every use of the API.                      *)
(***************************************************************************)
LEMMA BaseInit == Init => BaseInv
<1> SUFFICES ASSUME Init PROVE BaseInv
  OBVIOUS
<1>1. PassOK
  BY DEF Init, PassOK
<1>2. LeavesMatchMembership
  BY DEF Init, LeavesMatchMembership, Live
<1> QED BY <1>1, <1>2, TypeInit DEF BaseInv

LEMMA BaseStep == BaseInv /\ [Next]_vars => BaseInv'
<1> SUFFICES ASSUME BaseInv, [Next]_vars
             PROVE  PassOK' /\ LeavesMatchMembership'
  BY TypeStep DEF BaseInv
<1> DEFINE Goal == PassOK /\ LeavesMatchMembership
<1>a. TypeOK /\ PassOK
  BY DEF BaseInv
<1>b. LeavesMatchMembership
  BY DEF BaseInv
<1> USE DEF Goal
<1>1. CASE UNCHANGED vars
  BY <1>1, <1>a, <1>b DEF vars, world, pass, PassOK, InSearch,
     LeavesMatchMembership, Live
<1>2. CASE Detect
  <2>1. CASE BeginDetect
    <3>1. Live' = Live
      BY <2>1, <1>a, PlaceFacts, LiveType DEF BeginDetect
    <3> QED BY <2>1, <3>1, <1>a, <1>b
            DEF BeginDetect, Idle, world, PassOK, InSearch, LeavesMatchMembership
  <2>2. ASSUME NEW b \in Body, CheckBounds(b) PROVE Goal'
    BY <2>2, <1>a, <1>b DEF CheckBounds, PassOK, InSearch, LeavesMatchMembership, Live
  <2>3. CASE FindPairs
    BY <2>3, <1>a, <1>b DEF FindPairs, world, PassOK, InSearch, LeavesMatchMembership, Live
  <2>4. ASSUME NEW p \in todo, DropPair(p) PROVE Goal'
    BY <2>4, <1>a, <1>b DEF DropPair, world, PassOK, InSearch, LeavesMatchMembership, Live
  <2>5. ASSUME NEW p \in todo, TakePair(p) PROVE Goal'
    BY <2>5, <1>a, <1>b DEF TakePair, world, PassOK, InSearch, LeavesMatchMembership, Live
  <2>6. CASE AddContact
    BY <2>6, <1>a, <1>b DEF AddContact, world, PassOK, InSearch, LeavesMatchMembership, Live
  <2>7. CASE ListenersReturn
    BY <2>7, <1>a, <1>b DEF ListenersReturn, Callback, world, PassOK, InSearch, LeavesMatchMembership, Live
  <2>8. CASE EndDetect
    BY <2>8, <1>a, <1>b DEF EndDetect, world, PassOK, InSearch, LeavesMatchMembership, Live
  <2>9. CASE Throw
    BY <2>9, <1>a, <1>b DEF Throw, world, PassOK, InSearch, LeavesMatchMembership, Live
  <2> QED BY <1>2, <2>1, <2>2, <2>3, <2>4, <2>5, <2>6, <2>7, <2>8, <2>9 DEF Detect
<1>3. CASE Program
  <2>1. ASSUME NEW b \in Body, AddBody(b) PROVE Goal'
    <3>1. Live' = Live \cup Attached(b)
      BY <2>1, <1>a, PlaceFacts DEF AddBody, Attached, ItemsOf
    <3>2. LeavesMatchMembership'
      BY <2>1, <3>1, <1>a, <1>b DEF AddBody, LeavesMatchMembership, Attached, ItemsOf, TypeOK
    <3> QED BY <2>1, <3>1, <3>2, <1>a, <1>b DEF AddBody, pass, PassOK, InSearch
  <2>2. ASSUME NEW b \in Body, RemoveBody(b) PROVE Goal'
    <3>1. /\ Live' = Live \ Attached(b)
          /\ bodies' = bodies \ {b} /\ fixtures' = fixtures
      BY <2>2, <1>a, DisplaceFacts DEF RemoveBody, Attached, ItemsOf
    <3>2. LeavesMatchMembership'
      BY <3>1, <1>a, <1>b DEF LeavesMatchMembership, Attached, ItemsOf, TypeOK
    <3>3. PassOK'
      BY <2>2, <1>a DEF RemoveBody, DestroyContacts, MidIteration, PassOK, InSearch
    <3> QED BY <3>2, <3>3
  <2>3. ASSUME NEW b \in Body, SetEnabled(b) PROVE Goal'
    BY <2>3, <1>a, <1>b DEF SetEnabled, pass, PassOK, InSearch, LeavesMatchMembership, Live
  <2>4. CASE RemoveAllBodies
    BY <2>4, <1>a, <1>b DEF RemoveAllBodies, Idle, pass, PassOK, InSearch, LeavesMatchMembership, Live
  <2>5. ASSUME NEW i \in Item, AddFixture(i) PROVE Goal'
    <3>1. Live' = IF BodyOf[i] \in bodies THEN Live \cup {i} ELSE Live
      BY <2>5, <1>a, PlaceFacts DEF AddFixture, Live
    <3>2. LeavesMatchMembership'
      BY <2>5, <3>1, <1>a, <1>b DEF AddFixture, LeavesMatchMembership, TypeOK
    <3> QED BY <2>5, <3>1, <3>2, <1>a, <1>b DEF AddFixture, pass, PassOK, InSearch
  <2>6. ASSUME NEW i \in Item, GetBodyAABB(i) PROVE Goal'
    <3>1. i \in Attached(BodyOf[i])
      BY <2>6, <1>b DEF GetBodyAABB, LeavesMatchMembership, Live, Attached, ItemsOf
    <3>2. leaf'[i] # {} /\ leaf[i] # {} /\ \A k \in Item \ {i} : leaf'[k] = leaf[k]
      BY <2>6, <3>1, <1>a DEF GetBodyAABB, TypeOK
    <3>3. Live' = Live
      BY <3>2 DEF Live
    <3> QED BY <2>6, <3>3, <1>a, <1>b
            DEF GetBodyAABB, world, pass, PassOK, InSearch, LeavesMatchMembership
  <2>7. ASSUME NEW b \in Body, NEW items \in SUBSET Item, RemoveFixtures(b, items)
        PROVE  Goal'
    <3>1. PassOK'
      <4>1. UNCHANGED <<pc, todo, current>>
        BY <2>7 DEF RemoveFixtures
      <4>2. CASE b \in bodies
        <5> DEFINE gone == {p \in contacts : p \cap items # {}}
        <5>1. data' = data \ gone /\ contacts' = contacts \ gone
              /\ broken' = (broken \/ MidIteration(gone))
          BY <2>7, <4>2 DEF RemoveFixtures, DestroyContacts
        <5> HIDE DEF gone
        <5> QED BY <4>1, <5>1, <1>a DEF MidIteration, PassOK, InSearch
      <4>3. CASE b \notin bodies
        BY <2>7, <4>1, <4>3, <1>a DEF RemoveFixtures, PassOK, InSearch
      <4> QED BY <4>2, <4>3
    <3>2. CASE b \in bodies
      <4>1. Live' = Live \ items /\ bodies' = bodies /\ fixtures' = fixtures \ items
        BY <2>7, <3>2, <1>a, DisplaceFacts DEF RemoveFixtures
      <4> QED BY <3>1, <4>1, <1>b DEF LeavesMatchMembership
    <3>3. CASE b \notin bodies
      <4>1. items \subseteq Attached(b) /\ fixtures' = fixtures \ items
            /\ bodies' = bodies /\ leaf' = leaf
        BY <2>7, <3>3 DEF RemoveFixtures
      <4> QED BY <3>1, <3>3, <4>1, <1>b
              DEF LeavesMatchMembership, Live, Attached, ItemsOf
    <3> QED BY <3>2, <3>3
  <2>8. ASSUME NEW b \in Body, NEW to \in [ItemsOf(b) -> Box], Move(b, to) PROVE Goal'
    BY <2>8, <1>a, <1>b DEF Move, pass, PassOK, InSearch, LeavesMatchMembership, Live
  <2>9. ASSUME NEW flag \in BOOLEAN, SetBroadphaseDetector(flag) PROVE Goal'
    <3> DEFINE added == UNION {Attached(b) : b \in bodies}
    <3>1. added = {i \in fixtures : BodyOf[i] \in bodies}
      BY <1>a DEF Attached, ItemsOf, TypeOK
    <3>2. leaf' = [i \in Item |-> IF i \in added THEN Expand(box[i]) ELSE {}]
      BY <2>9 DEF SetBroadphaseDetector
    <3>3. \A i \in Item : Expand(box[i]) # {}
      BY <1>a DEF TypeOK
    <3>4. added = Live
      BY <3>1, <1>b DEF LeavesMatchMembership
    <3> HIDE DEF added
    <3>5. Live' = Live
      BY <3>2, <3>3, <3>4 DEF Live
    <3> QED BY <2>9, <3>5, <1>a, <1>b
            DEF SetBroadphaseDetector, world, pass, PassOK, InSearch, LeavesMatchMembership
  <2>10. ASSUME NEW flag \in BOOLEAN, SetUpdateTrackingEnabled(flag) PROVE Goal'
    BY <2>10, <1>a, <1>b
    DEF SetUpdateTrackingEnabled, pass, world, PassOK, InSearch, LeavesMatchMembership, Live
  <2> QED BY <1>3, <2>1, <2>2, <2>3, <2>4, <2>5, <2>6, <2>7, <2>8, <2>9, <2>10 DEF Program, Operation
<1> QED BY <1>1, <1>2, <1>3 DEF Next

\* The broadphase holds exactly the fixtures of the bodies in the world, for
\* every use of the API.
THEOREM MembershipCorrect == Spec => []LeavesMatchMembership
<1>1. BaseInv => LeavesMatchMembership
  BY DEF BaseInv
<1> QED BY BaseInit, BaseStep, <1>1, PTL DEF Spec

-----------------------------------------------------------------------------
(***************************************************************************)
(* Contacts, for a program whose listeners remove nothing of the pair they *)
(* are asked about.                                                        *)
(***************************************************************************)
TrackedInv ==
  /\ ContactsAreTracked
  /\ current \subseteq data
  /\ \A p \in current : p \subseteq Live
  /\ current \cap contacts = {}

\* A removal takes the contacts and the leaves together, and spares the pair
\* being processed.
LEMMA TrackedRemoval ==
  ASSUME TypeOK, TrackedInv, NEW items \in SUBSET Item, NEW lost, lost \cap Live \subseteq items,
         Displace(items), DestroyContacts({p \in contacts : p \cap lost # {}}), items \subseteq lost,
         current' = current, \A p \in current : p \cap items = {}
  PROVE  TrackedInv'
<1>1. Live' = Live \ items
  BY DisplaceFacts
<1> QED BY <1>1 DEF DestroyContacts, TrackedInv, ContactsAreTracked

LEMMA TrackedStep ==
  "removeOwnPair" \notin Usage /\ BaseInv /\ TrackedInv /\ [Next]_vars => TrackedInv'
<1> SUFFICES ASSUME "removeOwnPair" \notin Usage, BaseInv, TrackedInv, [Next]_vars
             PROVE  TrackedInv'
  OBVIOUS
<1>a. TypeOK /\ PassOK /\ LeavesMatchMembership
  BY DEF BaseInv
<1>b. ASSUME Live \subseteq Live', data \subseteq data', contacts' = contacts, current' = current
      PROVE  TrackedInv'
  BY <1>b DEF TrackedInv, ContactsAreTracked
<1>c. leaf' = leaf => Live' = Live
  BY DEF Live
<1>1. CASE UNCHANGED vars
  BY <1>1, <1>b, <1>c DEF vars, pass
<1>2. CASE Detect
  <2>1. CASE BeginDetect
    BY <2>1, <1>a, <1>b, PlaceFacts, LiveType DEF BeginDetect
  <2>2. ASSUME NEW b \in Body, CheckBounds(b) PROVE TrackedInv'
    BY <2>2, <1>b, <1>c DEF CheckBounds
  <2>3. CASE FindPairs
    BY <2>3, <1>a, <1>c DEF FindPairs, PassOK, TrackedInv, ContactsAreTracked
  <2>4. ASSUME NEW p \in todo, DropPair(p) PROVE TrackedInv'
    BY <2>4, <1>a, <1>c DEF DropPair, PassOK, TrackedInv, ContactsAreTracked
  <2>5. ASSUME NEW p \in todo, TakePair(p) PROVE TrackedInv'
    <3>1. p \in data /\ p \subseteq Live /\ p \notin contacts
      BY <2>5, <1>a DEF TakePair, Dropped, PassOK
    <3> QED BY <2>5, <3>1, <1>c DEF TakePair, TrackedInv, ContactsAreTracked
  <2>6. CASE AddContact
    BY <2>6, <1>c DEF AddContact, TrackedInv, ContactsAreTracked
  <2>7. CASE ListenersReturn
    BY <2>7, <1>c DEF ListenersReturn, TrackedInv, ContactsAreTracked
  <2>8. CASE EndDetect
    BY <2>8, <1>b, <1>c DEF EndDetect
  <2>9. CASE Throw
    BY <2>9, <1>c DEF Throw, TrackedInv, ContactsAreTracked
  <2> QED BY <1>2, <2>1, <2>2, <2>3, <2>4, <2>5, <2>6, <2>7, <2>8, <2>9 DEF Detect
<1>3. CASE Program
  <2>1. ASSUME NEW b \in Body, AddBody(b) PROVE TrackedInv'
    BY <2>1, <1>a, <1>b, PlaceFacts DEF AddBody, Attached, ItemsOf, pass
  <2>2. ASSUME NEW b \in Body, RemoveBody(b) PROVE TrackedInv'
    <3>1. ItemsOf(b) \cap Live \subseteq Attached(b) /\ Attached(b) \subseteq ItemsOf(b)
          /\ Attached(b) \in SUBSET Item
      BY <1>a DEF LeavesMatchMembership, Attached, ItemsOf
    <3>2. Displace(Attached(b)) /\ DestroyContacts({p \in contacts : p \cap ItemsOf(b) # {}})
          /\ current' = current /\ \A p \in current : p \cap Attached(b) = {}
      BY <2>2, <3>1 DEF RemoveBody, MayRemove
    <3> QED BY <3>1, <3>2, <1>a, TrackedRemoval
  <2>3. ASSUME NEW b \in Body, SetEnabled(b) PROVE TrackedInv'
    BY <2>3, <1>b, <1>c DEF SetEnabled, pass
  <2>4. CASE RemoveAllBodies
    <3>1. \A p \in current : p # {} /\ p \subseteq Item
      BY <1>a, PairFacts DEF TypeOK
    <3>2. current = {}
      BY <2>4, <3>1 DEF RemoveAllBodies, MayRemove
    <3> QED BY <2>4, <3>2 DEF RemoveAllBodies, TrackedInv, ContactsAreTracked
  <2>5. ASSUME NEW i \in Item, AddFixture(i) PROVE TrackedInv'
    BY <2>5, <1>a, <1>b, <1>c, PlaceFacts DEF AddFixture, pass
  <2>6. ASSUME NEW i \in Item, GetBodyAABB(i) PROVE TrackedInv'
    <3>1. leaf'[i] # {} /\ \A k \in Item \ {i} : leaf'[k] = leaf[k]
      <4>1. i \in Attached(BodyOf[i])
        BY <2>6, <1>a DEF GetBodyAABB, LeavesMatchMembership, Live, Attached, ItemsOf
      <4> QED BY <2>6, <4>1, <1>a DEF GetBodyAABB, TypeOK
    <3>2. Live \subseteq Live'
      BY <3>1 DEF Live
    <3> QED BY <2>6, <3>2, <1>b DEF GetBodyAABB, pass
  <2>7. ASSUME NEW b \in Body, NEW items \in SUBSET Item, RemoveFixtures(b, items)
        PROVE  TrackedInv'
    <3>1. CASE b \in bodies
      <4>1. Displace(items) /\ DestroyContacts({p \in contacts : p \cap items # {}})
            /\ current' = current /\ \A p \in current : p \cap items = {}
        BY <2>7, <3>1 DEF RemoveFixtures, MayRemove
      <4> QED BY <4>1, <1>a, TrackedRemoval
    <3>2. CASE b \notin bodies
      BY <2>7, <3>2, <1>b, <1>c DEF RemoveFixtures
    <3> QED BY <3>1, <3>2
  <2>8. ASSUME NEW b \in Body, NEW to \in [ItemsOf(b) -> Box], Move(b, to) PROVE TrackedInv'
    BY <2>8, <1>b, <1>c DEF Move, pass
  <2>9. ASSUME NEW flag \in BOOLEAN, SetBroadphaseDetector(flag) PROVE TrackedInv'
    <3> DEFINE added == UNION {Attached(b) : b \in bodies}
    <3>1. added = Live
      BY <1>a DEF LeavesMatchMembership, Attached, ItemsOf, TypeOK
    <3>2. leaf' = [i \in Item |-> IF i \in added THEN Expand(box[i]) ELSE {}]
      BY <2>9 DEF SetBroadphaseDetector
    <3>3. \A i \in Item : Expand(box[i]) # {}
      BY <1>a DEF TypeOK
    <3> HIDE DEF added
    <3>4. Live \subseteq Live'
      BY <3>1, <3>2, <3>3 DEF Live
    <3> QED BY <2>9, <3>4, <1>b DEF SetBroadphaseDetector, pass
  <2>10. ASSUME NEW flag \in BOOLEAN, SetUpdateTrackingEnabled(flag) PROVE TrackedInv'
    BY <2>10, <1>b, <1>c DEF SetUpdateTrackingEnabled, pass
  <2> QED BY <1>3, <2>1, <2>2, <2>3, <2>4, <2>5, <2>6, <2>7, <2>8, <2>9, <2>10 DEF Program, Operation
<1> QED BY <1>1, <1>2, <1>3 DEF Next

\* No contact constraint outlives a body or fixture it mentions, whatever
\* listeners remove during a pass outside the pair they are asked about.
THEOREM ContactsCorrect == "removeOwnPair" \notin Usage => (Spec => []ContactsAreTracked)
<1> SUFFICES ASSUME "removeOwnPair" \notin Usage PROVE Spec => []ContactsAreTracked
  OBVIOUS
<1>1. Init => BaseInv /\ TrackedInv
  BY BaseInit DEF Init, TrackedInv, ContactsAreTracked
<1>2. BaseInv /\ TrackedInv /\ [Next]_vars => (BaseInv /\ TrackedInv)'
  BY BaseStep, TrackedStep
<1>3. TrackedInv => ContactsAreTracked
  BY DEF TrackedInv
<1> QED BY <1>1, <1>2, <1>3, PTL DEF Spec

-----------------------------------------------------------------------------
(***************************************************************************)
(* Completeness of the pair map, while no program queries the box of a     *)
(* body: an overlap of two leaves appears only when one of them is placed, *)
(* which makes it fresh until a search covers it.                          *)
(***************************************************************************)

\* A step that only removes leaves or keeps them, and forgets no pair of live
\* items, preserves completeness.
LEMMA CompletePreserved ==
  ASSUME TypeOK, PairsComplete,
         \A i \in Item \ fresh' : leaf'[i] \in {leaf[i], {}},
         \A i \in fresh \ fresh' : leaf'[i] = {},
         \A p \in data \ data' : ~ Overlapping(p)'
  PROVE  PairsComplete'
<1> SUFFICES ASSUME NEW p \in Pair, Overlapping(p)', p \cap fresh' = {} PROVE p \in data'
  BY DEF PairsComplete
<1>1. p \subseteq Item
  BY PairFacts
<1>2. \A i \in p : leaf'[i] # {}
  BY DEF Overlapping
<1>3. \A i \in p : leaf'[i] = leaf[i] /\ i \notin fresh
  BY <1>1, <1>2
<1>4. Overlapping(p)
  BY <1>3 DEF Overlapping
<1> QED BY <1>3, <1>4 DEF PairsComplete

LEMMA CompleteStep ==
  "bodyAABB" \notin Usage /\ BaseInv /\ PairsComplete /\ [Next]_vars => PairsComplete'
<1> SUFFICES ASSUME "bodyAABB" \notin Usage, BaseInv, PairsComplete, [Next]_vars
             PROVE  PairsComplete'
  OBVIOUS
<1>a. TypeOK /\ PassOK /\ LeavesMatchMembership
  BY DEF BaseInv
<1>b. ASSUME leaf' = leaf, fresh' = fresh, data' = data PROVE PairsComplete'
  BY <1>a, <1>b, CompletePreserved DEF TypeOK
<1>c. ASSUME NEW items \in SUBSET Item, Place(items), data' = data PROVE PairsComplete'
  BY <1>a, <1>c, CompletePreserved, PlaceFacts
<1>d. ASSUME NEW items \in SUBSET Item, Displace(items),
             NEW gone, gone \subseteq contacts, DestroyContacts(gone),
             \A p \in gone : \E i \in p : leaf[i] = {} \/ i \in items
      PROVE  PairsComplete'
  <2>1. data' = data \ gone
    BY <1>d DEF DestroyContacts
  <2>2. \A i \in Item : leaf'[i] = IF i \in items THEN {} ELSE leaf[i]
    BY <1>a, <1>d, DisplaceFacts
  <2>3. fresh' = fresh \ items
    BY <1>d DEF Displace
  <2>4. \A p \in gone : p \subseteq Item
    BY <1>a, <1>d, PairFacts DEF TypeOK
  <2>5. \A p \in gone : ~ Overlapping(p)'
    BY <1>d, <2>2, <2>4 DEF Overlapping
  <2>6. \A i \in fresh \ fresh' : leaf'[i] = {}
    BY <1>a, <2>2, <2>3 DEF TypeOK
  <2> QED BY <1>a, <2>1, <2>2, <2>5, <2>6, CompletePreserved
<1>1. CASE UNCHANGED vars
  BY <1>1, <1>b DEF vars
<1>2. CASE Detect
  <2>1. CASE BeginDetect
    BY <2>1, <1>c, LiveType DEF BeginDetect
  <2>2. ASSUME NEW b \in Body, CheckBounds(b) PROVE PairsComplete'
    BY <2>2, <1>b DEF CheckBounds
  <2>3. CASE FindPairs
    <3> SUFFICES ASSUME NEW p \in Pair, Overlapping(p)', p \cap fresh' = {} PROVE p \in data'
      BY DEF PairsComplete
    <3>1. Overlapping(p)
      BY <2>3 DEF FindPairs, Overlapping
    <3>2. data' = data \cup FoundPairs
      BY <2>3 DEF FindPairs
    <3>3. CASE tracking /\ p \cap updated = {}
      <4>1. p \cap fresh = {}
        BY <2>3, <3>3 DEF FindPairs
      <4> QED BY <3>1, <3>2, <4>1 DEF PairsComplete
    <3>4. CASE ~ (tracking /\ p \cap updated = {})
      BY <3>1, <3>2, <3>4 DEF FoundPairs
    <3> QED BY <3>3, <3>4
  <2>4. ASSUME NEW p \in todo, DropPair(p) PROVE PairsComplete'
    <3>1. p \in Pair /\ leaf' = leaf /\ fresh' = fresh /\ data' = data \ {p}
      BY <2>4, <1>a DEF DropPair, TypeOK
    <3>2. ~ Overlapping(p)
      BY <2>4, <3>1, OverlappingIsLive DEF DropPair, Dropped
    <3>3. ~ Overlapping(p)'
      BY <3>1, <3>2 DEF Overlapping
    <3> QED BY <3>1, <3>3, <1>a, CompletePreserved DEF TypeOK
  <2>5. ASSUME NEW p \in todo, TakePair(p) PROVE PairsComplete'
    BY <2>5, <1>b DEF TakePair
  <2>6. CASE AddContact
    BY <2>6, <1>b DEF AddContact
  <2>7. CASE ListenersReturn
    BY <2>7, <1>b DEF ListenersReturn
  <2>8. CASE EndDetect
    BY <2>8, <1>b DEF EndDetect
  <2>9. CASE Throw
    BY <2>9, <1>b DEF Throw
  <2> QED BY <1>2, <2>1, <2>2, <2>3, <2>4, <2>5, <2>6, <2>7, <2>8, <2>9 DEF Detect
<1>3. CASE Program
  <2>1. ASSUME NEW b \in Body, AddBody(b) PROVE PairsComplete'
    BY <2>1, <1>c DEF AddBody, Attached, ItemsOf
  <2>2. ASSUME NEW b \in Body, RemoveBody(b) PROVE PairsComplete'
    <3> DEFINE gone == {p \in contacts : p \cap ItemsOf(b) # {}}
    <3>1. Displace(Attached(b)) /\ DestroyContacts(gone)
      BY <2>2 DEF RemoveBody
    <3>2. \A i \in ItemsOf(b) : leaf[i] = {} \/ i \in Attached(b)
      BY <1>a DEF LeavesMatchMembership, Live, Attached, ItemsOf
    <3>3. Attached(b) \in SUBSET Item
      BY DEF Attached, ItemsOf
    <3>4. \A p \in gone : \E i \in p : leaf[i] = {} \/ i \in Attached(b)
      BY <3>2
    <3> HIDE DEF gone
    <3>5. gone \subseteq contacts
      BY DEF gone
    <3> QED BY <1>d, <3>1, <3>3, <3>4, <3>5
  <2>3. ASSUME NEW b \in Body, SetEnabled(b) PROVE PairsComplete'
    BY <2>3, <1>b DEF SetEnabled
  <2>4. CASE RemoveAllBodies
    <3>1. leaf' = [i \in Item |-> {}]
      BY <2>4 DEF RemoveAllBodies
    <3>2. \A p \in Pair : ~ Overlapping(p)'
      BY <3>1, PairFacts DEF Overlapping
    <3> QED BY <3>2 DEF PairsComplete
  <2>5. ASSUME NEW i \in Item, AddFixture(i) PROVE PairsComplete'
    BY <2>5, <1>b, <1>c DEF AddFixture
  <2>6. ASSUME NEW i \in Item, GetBodyAABB(i) PROVE PairsComplete'
    BY <2>6 DEF GetBodyAABB
  <2>7. ASSUME NEW b \in Body, NEW items \in SUBSET Item, RemoveFixtures(b, items)
        PROVE  PairsComplete'
    <3>1. CASE b \in bodies
      <4> DEFINE gone == {p \in contacts : p \cap items # {}}
      <4>1. Displace(items) /\ DestroyContacts(gone)
        BY <2>7, <3>1 DEF RemoveFixtures
      <4>2. gone \subseteq contacts /\ \A p \in gone : \E i \in p : i \in items
        OBVIOUS
      <4> HIDE DEF gone
      <4> QED BY <1>d, <4>1, <4>2
    <3>2. CASE b \notin bodies
      BY <2>7, <3>2, <1>b DEF RemoveFixtures
    <3> QED BY <3>1, <3>2
  <2>8. ASSUME NEW b \in Body, NEW to \in [ItemsOf(b) -> Box], Move(b, to)
        PROVE  PairsComplete'
    BY <2>8, <1>b DEF Move
  <2>9. ASSUME NEW flag \in BOOLEAN, SetBroadphaseDetector(flag) PROVE PairsComplete'
    <3> DEFINE added == UNION {Attached(b) : b \in bodies}
    <3>1. leaf' = [i \in Item |-> IF i \in added THEN Expand(box[i]) ELSE {}] /\ fresh' = added
      BY <2>9 DEF SetBroadphaseDetector
    <3> HIDE DEF added
    <3>2. \A p \in Pair : p \cap fresh' = {} => ~ Overlapping(p)'
      BY <3>1, PairFacts DEF Overlapping
    <3> QED BY <3>2 DEF PairsComplete
  <2>10. ASSUME NEW flag \in BOOLEAN, SetUpdateTrackingEnabled(flag) PROVE PairsComplete'
    BY <2>10, <1>b DEF SetUpdateTrackingEnabled
  <2> QED BY <1>3, <2>1, <2>2, <2>3, <2>4, <2>5, <2>6, <2>7, <2>8, <2>9, <2>10 DEF Program, Operation
<1> QED BY <1>1, <1>2, <1>3 DEF Next

\* No overlap that a search has covered is ever missing from collisionData:
\* not after a removal, an aborted pass, a switch of tracking, or an addition
\* by a listener.  Only a query of a body's box, which grows a leaf in place,
\* is excluded.
THEOREM PairsAlwaysComplete == "bodyAABB" \notin Usage => (Spec => []PairsComplete)
<1> SUFFICES ASSUME "bodyAABB" \notin Usage PROVE Spec => []PairsComplete
  OBVIOUS
<1>1. Init => BaseInv /\ PairsComplete
  <2> SUFFICES ASSUME Init PROVE PairsComplete
    BY BaseInit
  <2>1. \A p \in Pair : ~ Overlapping(p)
    BY PairFacts DEF Init, Overlapping
  <2> QED BY <2>1 DEF PairsComplete
<1>2. BaseInv /\ PairsComplete /\ [Next]_vars => (BaseInv /\ PairsComplete)'
  BY BaseStep, CompleteStep
<1> QED BY <1>1, <1>2, PTL DEF Spec

-----------------------------------------------------------------------------
(***************************************************************************)
(* Incremental detection equals full detection, for a program with none of *)
(* the uses in Uses.  Every fresh leaf is marked and none is fresh while    *)
(* pairs are processed, so that EndDetect may clear the marks; a recorded   *)
(* pair of live leaves that stopped overlapping has a marked leaf, and once *)
(* processed it is gone.                                                    *)
(***************************************************************************)
MarkedInv ==
  /\ tracking /\ fresh \subseteq updated
  /\ InSearch => fresh = {}
  /\ \A p \in data : p \subseteq Live /\ p \cap updated = {} => Overlapping(p)
  /\ InSearch => \A p \in data \ todo : p \subseteq Live => Overlapping(p)

\* A step outside the processing phase that marks every leaf it places.
LEMMA MarkedPlace ==
  ASSUME TypeOK, MarkedInv, ~ InSearch',
         NEW items \in SUBSET Item, Place(items), data' = data, tracking' = tracking
  PROVE  MarkedInv'
<1>1. /\ fresh' \subseteq updated' /\ updated \subseteq updated'
      /\ \A i \in Item \ updated' : leaf'[i] = leaf[i]
  BY PlaceFacts DEF MarkedInv
<1>2. ASSUME NEW p \in data, (p \subseteq Live)', p \cap updated' = {} PROVE Overlapping(p)'
  <2>1. p \subseteq Item
    BY PairFacts DEF TypeOK
  <2>2. \A i \in p : leaf'[i] = leaf[i] /\ i \notin updated
    BY <1>1, <1>2, <2>1
  <2>3. p \subseteq Live
    BY <1>2, <2>1, <2>2 DEF Live
  <2> QED BY <2>2, <2>3 DEF MarkedInv, Overlapping
<1> QED BY <1>1, <1>2 DEF MarkedInv

\* A step that removes leaves, their marks and pairs.
LEMMA MarkedDisplace ==
  ASSUME TypeOK, MarkedInv, NEW items \in SUBSET Item, Displace(items),
         NEW gone, DestroyContacts(gone), tracking' = tracking, pc' = pc, todo' = todo
  PROVE  MarkedInv'
<1>1. data' = data \ gone /\ InSearch' = InSearch
  BY DEF DestroyContacts, InSearch
<1>2. /\ updated' = updated \ items /\ fresh' = fresh \ items
      /\ Live' = Live \ items
      /\ \A i \in Item : leaf'[i] = IF i \in items THEN {} ELSE leaf[i]
  BY DisplaceFacts
<1>3. ASSUME NEW p \in data, (p \subseteq Live)'
      PROVE  /\ p \subseteq Live
             /\ p \cap updated' = {} => p \cap updated = {}
             /\ Overlapping(p) => Overlapping(p)'
  <2>1. \A i \in p : i \in Live /\ i \notin items /\ leaf'[i] = leaf[i]
    BY <1>2, <1>3, LiveType
  <2> QED BY <1>2, <2>1 DEF Overlapping
<1>4. \A p \in data' : (p \subseteq Live)' /\ p \cap updated' = {} => Overlapping(p)'
  BY <1>1, <1>3 DEF MarkedInv
<1>5. InSearch' => \A p \in data' \ todo' : (p \subseteq Live)' => Overlapping(p)'
  BY <1>1, <1>3 DEF MarkedInv
<1> QED BY <1>1, <1>2, <1>4, <1>5 DEF MarkedInv

LEMMA MarkedStep ==
  Usage \subseteq {"removeOwnPair"} /\ BaseInv /\ PairsComplete /\ MarkedInv /\ [Next]_vars => MarkedInv'
<1> SUFFICES ASSUME Usage \subseteq {"removeOwnPair"}, BaseInv, PairsComplete, MarkedInv, [Next]_vars
             PROVE  MarkedInv'
  OBVIOUS
<1>a. TypeOK /\ PassOK /\ LeavesMatchMembership
  BY DEF BaseInv
<1>b. ASSUME UNCHANGED <<tracking, leaf, updated, fresh, data, pc, todo>> PROVE MarkedInv'
  BY <1>b DEF MarkedInv, InSearch, Live, Overlapping
<1>1. CASE UNCHANGED vars
  BY <1>1, <1>b DEF vars, pass
<1>2. CASE Detect
  <2>1. CASE BeginDetect
    BY <2>1, <1>a, MarkedPlace, LiveType DEF BeginDetect, InSearch
  <2>2. ASSUME NEW b \in Body, CheckBounds(b) PROVE MarkedInv'
    BY <2>2 DEF CheckBounds, MarkedInv, InSearch, Live, Overlapping
  <2>3. CASE FindPairs
    <3>1. /\ leaf' = leaf /\ updated' = updated /\ tracking' = tracking
          /\ data' = data \cup FoundPairs /\ todo' = data'
          /\ tracking => fresh' = fresh \ updated
      BY <2>3 DEF FindPairs
    <3>2. \A p \in data' : p \subseteq Live /\ p \cap updated = {} => Overlapping(p)
      BY <3>1 DEF FoundPairs, MarkedInv
    <3>3. \A p : (p \subseteq Live => p \subseteq Live') /\ (p \subseteq Live' => p \subseteq Live)
                /\ (Overlapping(p) => Overlapping(p)')
      BY <3>1 DEF Live, Overlapping
    <3> QED BY <3>1, <3>2, <3>3 DEF MarkedInv
  <2>4. ASSUME NEW p \in todo, DropPair(p) PROVE MarkedInv'
    <3>1. /\ UNCHANGED <<leaf, updated, tracking, fresh, pc>>
          /\ data' = data \ {p} /\ todo' = todo \ {p}
      BY <2>4 DEF DropPair
    <3> QED BY <3>1 DEF MarkedInv, InSearch, Live, Overlapping
  <2>5. ASSUME NEW p \in todo, TakePair(p) PROVE MarkedInv'
    <3>1. /\ UNCHANGED <<leaf, updated, tracking, fresh, data>>
          /\ todo' = todo \ {p} /\ InSearch
      BY <2>5 DEF TakePair, InSearch
    <3>2. p \in data /\ p \subseteq Live /\ (p \cap updated # {} => Overlapping(p))
      BY <2>5, <1>a DEF TakePair, Dropped, IsUpdated, PassOK, Live
    <3>3. Overlapping(p)
      BY <3>2 DEF MarkedInv
    <3> QED BY <3>1, <3>3 DEF MarkedInv, Live, Overlapping
  <2>6. CASE AddContact
    BY <2>6 DEF AddContact, MarkedInv, InSearch, Live, Overlapping
  <2>7. CASE ListenersReturn
    BY <2>7 DEF ListenersReturn, Callback, MarkedInv, InSearch, Live, Overlapping
  <2>8. CASE EndDetect
    BY <2>8 DEF EndDetect, MarkedInv, InSearch, Live, Overlapping
  <2>9. CASE Throw
    BY <2>9 DEF Throw, MarkedInv, InSearch, Live, Overlapping
  <2> QED BY <1>2, <2>1, <2>2, <2>3, <2>4, <2>5, <2>6, <2>7, <2>8, <2>9 DEF Detect
<1>3. CASE Program
  <2>1. ASSUME NEW b \in Body, AddBody(b) PROVE MarkedInv'
    BY <2>1, <1>a, MarkedPlace DEF AddBody, MayAdd, Idle, InSearch, Attached, ItemsOf, pass
  <2>2. ASSUME NEW b \in Body, RemoveBody(b) PROVE MarkedInv'
    <3> DEFINE gone == {p \in contacts : p \cap ItemsOf(b) # {}}
    <3>1. Displace(Attached(b)) /\ DestroyContacts(gone)
          /\ tracking' = tracking /\ pc' = pc /\ todo' = todo
      BY <2>2 DEF RemoveBody
    <3>2. Attached(b) \in SUBSET Item
      BY DEF Attached, ItemsOf
    <3> HIDE DEF gone
    <3> QED BY <3>1, <3>2, <1>a, MarkedDisplace
  <2>3. ASSUME NEW b \in Body, SetEnabled(b) PROVE MarkedInv'
    BY <2>3, <1>b DEF SetEnabled, pass
  <2>4. CASE RemoveAllBodies
    BY <2>4 DEF RemoveAllBodies, MarkedInv, InSearch
  <2>5. ASSUME NEW i \in Item, AddFixture(i) PROVE MarkedInv'
    <3>1. CASE BodyOf[i] \in bodies
      BY <2>5, <3>1, <1>a, MarkedPlace DEF AddFixture, MayAdd, Idle, InSearch, pass
    <3>2. CASE BodyOf[i] \notin bodies
      BY <2>5, <3>2, <1>b DEF AddFixture, pass
    <3> QED BY <3>1, <3>2
  <2>6. ASSUME NEW i \in Item, GetBodyAABB(i) PROVE MarkedInv'
    BY <2>6 DEF GetBodyAABB
  <2>7. ASSUME NEW b \in Body, NEW items \in SUBSET Item, RemoveFixtures(b, items)
        PROVE  MarkedInv'
    <3>1. CASE b \in bodies
      <4> DEFINE gone == {p \in contacts : p \cap items # {}}
      <4>1. Displace(items) /\ DestroyContacts(gone)
            /\ tracking' = tracking /\ pc' = pc /\ todo' = todo
        BY <2>7, <3>1 DEF RemoveFixtures
      <4> HIDE DEF gone
      <4> QED BY <4>1, <1>a, MarkedDisplace
    <3>2. CASE b \notin bodies
      BY <2>7, <3>2, <1>b DEF RemoveFixtures, pass
    <3> QED BY <3>1, <3>2
  <2>8. ASSUME NEW b \in Body, NEW to \in [ItemsOf(b) -> Box], Move(b, to) PROVE MarkedInv'
    BY <2>8, <1>b DEF Move, pass
  <2>9. ASSUME NEW flag \in BOOLEAN, SetBroadphaseDetector(flag) PROVE MarkedInv'
    <3> DEFINE added == UNION {Attached(b) : b \in bodies}
    <3>1. /\ leaf' = [i \in Item |-> IF i \in added THEN Expand(box[i]) ELSE {}]
          /\ updated' = added /\ fresh' = added /\ tracking' /\ ~ InSearch' /\ data' = data
      BY <2>9 DEF SetBroadphaseDetector, Idle, InSearch, pass
    <3> HIDE DEF added
    <3>2. Live' \subseteq added
      BY <3>1 DEF Live
    <3>3. \A p \in data : p # {}
      BY <1>a, PairFacts DEF TypeOK
    <3> QED BY <3>1, <3>2, <3>3 DEF MarkedInv
  <2>10. ASSUME NEW flag \in BOOLEAN, SetUpdateTrackingEnabled(flag) PROVE MarkedInv'
    BY <2>10 DEF SetUpdateTrackingEnabled
  <2> QED BY <1>3, <2>1, <2>2, <2>3, <2>4, <2>5, <2>6, <2>7, <2>8, <2>9, <2>10 DEF Program, Operation
<1> QED BY <1>1, <1>2, <1>3 DEF Next

MarkedSpecInv == BaseInv /\ PairsComplete /\ MarkedInv

LEMMA MarkedInvariant == Usage \subseteq {"removeOwnPair"} => (Spec => []MarkedSpecInv)
<1> SUFFICES ASSUME Usage \subseteq {"removeOwnPair"} PROVE Spec => []MarkedSpecInv
  OBVIOUS
<1>1. Init => MarkedSpecInv
  <2> SUFFICES ASSUME Init PROVE PairsComplete /\ MarkedInv
    BY BaseInit DEF MarkedSpecInv
  <2>1. \A p \in Pair : ~ Overlapping(p)
    BY PairFacts DEF Init, Overlapping
  <2> QED BY <2>1 DEF Init, PairsComplete, MarkedInv, InSearch
<1>2. MarkedSpecInv /\ [Next]_vars => MarkedSpecInv'
  BY BaseStep, CompleteStep, MarkedStep DEF MarkedSpecInv
<1> QED BY <1>1, <1>2, PTL DEF Spec

\* Every leaf placed since the last search is marked for the next one, for a
\* program that adds nothing in a callback and leaves tracking on.
THEOREM FreshAlwaysMarked == Usage \subseteq {"removeOwnPair"} => (Spec => []FreshIsMarked)
<1>1. MarkedSpecInv => FreshIsMarked
  BY DEF MarkedSpecInv, MarkedInv, FreshIsMarked
<1> QED BY MarkedInvariant, <1>1, PTL

\* A recorded pair of live leaves that no longer overlaps is always about to
\* be looked at again.
THEOREM NoPairGoesStale == Usage \subseteq {"removeOwnPair"} => (Spec => []NoStalePair)
<1>1. MarkedSpecInv => NoStalePair
  BY DEF MarkedSpecInv, MarkedInv, NoStalePair
<1> QED BY MarkedInvariant, <1>1, PTL

\* After every completed pass the pairs of live leaves in collisionData are
\* exactly the overlapping ones: what a full detection would have found.
THEOREM IncrementalIsFull == Usage \subseteq {"removeOwnPair"} => (Spec => []IncrementalEqualsFull)
<1>1. MarkedSpecInv => IncrementalEqualsFull
  <2> SUFFICES ASSUME MarkedSpecInv, Idle, updated = {}
               PROVE  {p \in data : p \subseteq Live} = {p \in Pair : Overlapping(p)}
    BY DEF IncrementalEqualsFull
  <2>1. fresh = {} /\ data \subseteq Pair
    BY DEF MarkedSpecInv, BaseInv, TypeOK, MarkedInv
  <2>2. \A p \in data : p \subseteq Live => Overlapping(p)
    BY DEF MarkedSpecInv, MarkedInv
  <2>3. \A p \in Pair : Overlapping(p) => p \in data /\ p \subseteq Live
    BY <2>1, OverlappingIsLive DEF MarkedSpecInv, PairsComplete
  <2> QED BY <2>1, <2>2, <2>3
<1> QED BY MarkedInvariant, <1>1, PTL
=============================================================================
