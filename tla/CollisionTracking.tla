-------------------------- MODULE CollisionTracking --------------------------
(***************************************************************************)
(* Incremental collision tracking of a dyn4k world.                        *)
(*                                                                         *)
(* An item is a fixture of a body.  The broadphase keeps, per item, a leaf *)
(* with a fat box; a leaf is replaced only when the item leaves its fat    *)
(* box (or shrinks far below it), and is then marked `updated`.  A         *)
(* detection pass searches the pairs of the marked leaves only and relies  *)
(* on `data`, the map of pairs found by earlier passes, for all the        *)
(* others.  The module models the pass of AbstractCollisionWorld.detect    *)
(* together with every operation that changes bodies, fixtures, leaves or  *)
(* pairs, and with the listener callbacks that may run in the middle of a  *)
(* pass.                                                                   *)
(*                                                                         *)
(* A box is a set of cells: boxes overlap when they share a cell, and one  *)
(* contains another when it is a superset.                                 *)
(***************************************************************************)
EXTENDS Naturals, FiniteSets

CONSTANTS
  Body,             \* the bodies a program may create
  Item,             \* their fixtures
  BodyOf,           \* the body each fixture belongs to
  Cell,             \* the cells of the plane
  Box,              \* the boxes a fixture can occupy: nonempty sets of cells
  Expand(_),        \* AABBExpansionMethod.expand
  Oversized(_, _),  \* fat box too large for a new one (AABB_REDUCTION_RATIO)
  Bounds,           \* the cells inside the world bounds
  Bounded,          \* TRUE iff the world has bounds
  Usage             \* which of the uses below the program makes of the API

(***************************************************************************)
(* Uses of the public API that the incremental scheme is not prepared for. *)
(***************************************************************************)
Uses == {"addInCallback",   \* a listener adds a body or fixture in a pass
         "switchTracking",  \* update tracking is switched between passes
         "bodyAABB",        \* the box of a body is queried
         "removeOwnPair"}   \* a listener removes a body or fixture of the
                            \* pair it is asked about

ASSUME BodyOfAssumption == BodyOf \in [Item -> Body]
ASSUME BoxAssumption == \A b \in Box : b # {} /\ b \subseteq Expand(b)
ASSUME ExpandAssumption == \A b \in Box : Expand(b) \subseteq Cell
ASSUME UsageAssumption == Usage \subseteq Uses /\ Bounded \in BOOLEAN

VARIABLES
  bodies,     \* the bodies the world owns
  fixtures,   \* the fixtures attached to their body
  enabled,    \* the enabled bodies
  box,        \* the box each fixture occupies now
  leaf,       \* DynamicAABBTree.leaves: the fat boxes
  updated,    \* DynamicAABBTree.updated
  tracking,   \* updateTrackingEnabled
  data,       \* collisionData: the pairs found and not yet dropped
  contacts,   \* the pairs with a contact constraint in the graph
  pc,         \* where the detection pass is
  unchecked,  \* the bodies whose bounds check is still to come
  todo,       \* the pairs the pass has still to process
  current,    \* the pair being processed, while it has no contact yet
  broken,     \* a listener shrank the list or the map being iterated
  fresh       \* history: leaves placed since a pair search covered them

world == <<bodies, fixtures, enabled, box>>
pass == <<pc, unchecked, todo, current, broken>>
vars == <<world, leaf, updated, tracking, data, contacts, pass, fresh>>

ItemsOf(b) == {i \in Item : BodyOf[i] = b}
Attached(b) == ItemsOf(b) \cap fixtures

\* A leaf without cells stands for no leaf.
Live == {i \in Item : leaf[i] # {}}

\* CollisionPair: an unordered pair of items of two different bodies
\* (CollisionItemBroadphaseFilter).
Pair == {p \in SUBSET Item : \E i, j \in Item : p = {i, j} /\ BodyOf[i] # BodyOf[j]}

\* AbstractBroadphaseDetector.detect(a, b) on the leaves of a pair.
Overlapping(p) == \A i, j \in p : leaf[i] \cap leaf[j] # {}

TypeOK ==
  /\ bodies \subseteq Body /\ enabled \subseteq Body
  /\ fixtures \subseteq Item
  /\ box \in [Item -> Box]
  /\ leaf \in [Item -> SUBSET Cell]
  /\ updated \subseteq Item /\ fresh \subseteq Item
  /\ tracking \in BOOLEAN
  /\ data \subseteq Pair /\ contacts \subseteq Pair
  /\ pc \in {"idle", "bounds", "outside", "process", "pair", "contact"}
  /\ unchecked \subseteq Body
  /\ todo \subseteq Pair /\ current \subseteq Pair
  /\ broken \in BOOLEAN

Init ==
  /\ bodies = {} /\ enabled = Body
  /\ fixtures \in SUBSET Item
  /\ box \in [Item -> Box]
  /\ leaf = [i \in Item |-> {}]
  /\ updated = {} /\ tracking = TRUE
  /\ data = {} /\ contacts = {}
  /\ pc = "idle" /\ unchecked = {} /\ todo = {}
  /\ current = {} /\ broken = FALSE
  /\ fresh = {}

-----------------------------------------------------------------------------
(***************************************************************************)
(* The broadphase.                                                         *)
(***************************************************************************)

\* updateNode leaves the leaf of i alone: the new box lies in the fat one,
\* which is not oversized.
Settled(i) ==
  /\ leaf[i] # {}
  /\ box[i] \subseteq leaf[i]
  /\ ~ Oversized(leaf[i], Expand(box[i]))

\* Mutant: a leaf placed again is not marked.
PlaceMarksNewOnly(items) ==
  LET moved == {i \in items : ~ Settled(i)}
  IN  /\ leaf' = [i \in Item |-> IF i \in moved THEN Expand(box[i]) ELSE leaf[i]]
      /\ updated' = IF tracking THEN updated \cup (moved \ Live) ELSE updated
      /\ fresh' = fresh \cup moved

\* add, update(item) and update(): place the leaves of the items that need it.
Place(items) ==
  LET moved == {i \in items : ~ Settled(i)}
  IN  /\ leaf' = [i \in Item |-> IF i \in moved THEN Expand(box[i]) ELSE leaf[i]]
      /\ updated' = IF tracking THEN updated \cup moved ELSE updated
      /\ fresh' = fresh \cup moved

\* remove: the leaf and its mark go together.
Displace(items) ==
  /\ leaf' = [i \in Item |-> IF i \in items THEN {} ELSE leaf[i]]
  /\ updated' = updated \ items
  /\ fresh' = fresh \ items

IsUpdated(i) == leaf[i] # {} /\ (tracking => i \in updated)

\* Mutants: no filter of the pairs of one body; a marked leaf is looked up
\* among the marked ones only.
FoundPairsUnfiltered ==
  {p \in SUBSET Item :
     Cardinality(p) = 2 /\ Overlapping(p) /\ (tracking => p \cap updated # {})}
FoundPairsAmongMarks ==
  {p \in Pair : Overlapping(p) /\ (tracking => p \subseteq updated)}

\* detectIterator: the overlapping pairs of all leaves, or of the marked ones.
FoundPairs ==
  {p \in Pair : Overlapping(p) /\ (tracking => p \cap updated # {})}

-----------------------------------------------------------------------------
(***************************************************************************)
(* Operations of the program.  It runs between passes, and in the          *)
(* listeners of a pass: after a body was found outside the bounds, while a *)
(* pair is processed, and once the pair has its contact.                   *)
(***************************************************************************)

Idle == pc = "idle"
Callback == pc \in {"outside", "pair", "contact"}
MayAdd == Idle \/ "addInCallback" \in Usage
MayRemove(items) ==
  "removeOwnPair" \in Usage \/ \A p \in current : p \cap items = {}

\* Mutant: the pair map is purged and the graph is not.
DestroyContactsInMap(gone) == data' = data \ gone /\ UNCHANGED contacts

\* destroyContacts: the pairs of a constraint leave the map and the graph.
DestroyContacts(gone) == data' = data \ gone /\ contacts' = contacts \ gone

\* A map changed in the middle of its iteration fails the iteration, unless
\* nothing was left to visit.
MidIteration(gone) == gone # {} /\ todo # {}

AddBody(b) ==
  /\ MayAdd
  /\ b \notin bodies
  /\ bodies' = bodies \cup {b}
  /\ Place(Attached(b))
  /\ UNCHANGED <<fixtures, enabled, box, tracking, data, contacts, pass>>

\* The bounds loop runs to the number of bodies it started with: it fails when
\* a body is removed before its last iteration.
RemoveBody(b) ==
  /\ b \in bodies
  /\ MayRemove(ItemsOf(b))
  /\ bodies' = bodies \ {b}
  /\ enabled' = enabled \cup {b}
  /\ Displace(Attached(b))
  /\ LET gone == {p \in contacts : p \cap ItemsOf(b) # {}}
     IN  /\ DestroyContacts(gone)
         /\ broken' = (broken \/ MidIteration(gone) \/ unchecked # {})
  /\ unchecked' = unchecked \ {b}
  /\ UNCHANGED <<fixtures, box, tracking, pc, todo, current>>

\* The iterator of the pair map, which is cleared under it, fails on the JVM and
\* is at its end elsewhere.
RemoveAllBodies ==
  /\ bodies # {}
  /\ MayRemove(Item)
  /\ bodies' = {}
  /\ enabled' = enabled \cup bodies
  /\ leaf' = [i \in Item |-> {}]
  /\ updated' = {} /\ fresh' = {}
  /\ data' = {} /\ contacts' = {}
  /\ unchecked' = {}
  /\ \/ UNCHANGED todo /\ broken' = (broken \/ todo # {} \/ unchecked # {})
     \/ todo # {} /\ todo' = {} /\ broken' = FALSE
  /\ UNCHANGED <<fixtures, box, tracking, pc, current>>

\* The handler of a body in the world adds the new fixture's leaf.
AddFixture(i) ==
  /\ MayAdd
  /\ i \notin fixtures
  /\ fixtures' = fixtures \cup {i}
  /\ IF BodyOf[i] \in bodies THEN Place({i}) ELSE UNCHANGED <<leaf, updated, fresh>>
  /\ UNCHANGED <<bodies, enabled, box, tracking, data, contacts, pass>>

\* Mutant: the handler destroys the contacts and leaves the leaves in place.
RemoveFixturesKeepLeaves(b, items) ==
  /\ items # {} /\ items \subseteq Attached(b)
  /\ MayRemove(items)
  /\ fixtures' = fixtures \ items
  /\ IF b \in bodies
     THEN LET gone == {p \in contacts : p \cap items # {}}
          IN  DestroyContacts(gone) /\ broken' = (broken \/ MidIteration(gone))
     ELSE UNCHANGED <<data, contacts, broken>>
  /\ UNCHANGED <<bodies, enabled, box, leaf, updated, fresh, tracking, pc, unchecked, todo, current>>

\* removeFixture and removeAllFixtures: the handler of a body in the world
\* removes the leaves and destroys the contacts of the fixtures.
RemoveFixtures(b, items) ==
  /\ items # {} /\ items \subseteq Attached(b)
  /\ MayRemove(items)
  /\ fixtures' = fixtures \ items
  /\ IF b \in bodies
     THEN LET gone == {p \in contacts : p \cap items # {}}
          IN  /\ Displace(items)
              /\ DestroyContacts(gone)
              /\ broken' = (broken \/ MidIteration(gone))
     ELSE UNCHANGED <<leaf, updated, fresh, data, contacts, broken>>
  /\ UNCHANGED <<bodies, enabled, box, tracking, pc, unchecked, todo, current>>

\* translate, rotate, setTransform: no leaf follows before the next pass.
Move(b, to) ==
  /\ box' = [i \in Item |-> IF i \in ItemsOf(b) THEN to[i] ELSE box[i]]
  /\ UNCHANGED <<bodies, fixtures, enabled, leaf, updated, tracking, data, contacts, pass, fresh>>

SetEnabled(b) ==
  /\ enabled' = IF b \in enabled THEN enabled \ {b} ELSE enabled \cup {b}
  /\ UNCHANGED <<bodies, fixtures, box, leaf, updated, tracking, data, contacts, pass, fresh>>

\* A new detector starts without leaves, takes all bodies and keeps the pairs.
SetBroadphaseDetector(flag) ==
  /\ Idle
  /\ flag \/ "switchTracking" \in Usage
  /\ LET added == UNION {Attached(b) : b \in bodies}
     IN  /\ leaf' = [i \in Item |-> IF i \in added THEN Expand(box[i]) ELSE {}]
         /\ updated' = IF flag THEN added ELSE {}
         /\ fresh' = added
  /\ tracking' = flag
  /\ UNCHANGED <<world, data, contacts, pass>>

SetUpdateTrackingEnabled(flag) ==
  /\ Idle
  /\ "switchTracking" \in Usage
  /\ tracking # flag
  /\ tracking' = flag
  /\ updated' = IF flag THEN updated ELSE {}
  /\ UNCHANGED <<world, leaf, data, contacts, pass, fresh>>

\* getAABB(body) unions the boxes of all fixtures into the leaf of the first.
GetBodyAABB(i) ==
  /\ "bodyAABB" \in Usage
  /\ leaf[i] # {}
  /\ leaf' = [leaf EXCEPT ![i] = UNION {leaf[k] : k \in Attached(BodyOf[i])}]
  /\ UNCHANGED <<world, updated, tracking, data, contacts, pass, fresh>>

-----------------------------------------------------------------------------
(***************************************************************************)
(* The detection pass.                                                     *)
(***************************************************************************)

BeginDetect ==
  /\ Idle
  /\ Place(Live)
  /\ pc' = "bounds"
  /\ unchecked' = bodies
  /\ UNCHANGED <<world, tracking, data, contacts, todo, current, broken>>

\* An enabled body none of whose leaves meets the bounds is disabled, and the
\* listeners hear of it.
CheckBounds(b) ==
  /\ pc = "bounds"
  /\ b \in unchecked
  /\ unchecked' = unchecked \ {b}
  /\ IF Bounded /\ b \in enabled /\ \A i \in Attached(b) : leaf[i] \cap Bounds = {}
     THEN enabled' = enabled \ {b} /\ pc' = "outside"
     ELSE UNCHANGED <<enabled, pc>>
  /\ UNCHANGED <<bodies, fixtures, box, leaf, updated, tracking, data, contacts,
                 todo, current, broken, fresh>>

\* The pair search, and the start of processCollisions, which forgets the
\* contacts of the last pass.  Bodies added in the bounds loop may make up for
\* the ones removed in it.
FindPairs ==
  /\ pc = "bounds" /\ unchecked = {}
  /\ broken => "addInCallback" \in Usage
  /\ data' = data \cup FoundPairs
  /\ todo' = data'
  /\ contacts' = {}
  /\ fresh' = IF tracking THEN fresh \ updated ELSE {}
  /\ pc' = "process"
  /\ broken' = FALSE
  /\ UNCHANGED <<world, leaf, updated, tracking, unchecked, current>>

\* Mutant: a moved leaf does not make the pair be looked at again.
DroppedWithLeaf(p) == ~ (p \subseteq Live)

\* DetectIterator.next drops a pair that lost a leaf, or whose leaves have
\* moved apart ...
Dropped(p) ==
  \/ ~ (p \subseteq Live)
  \/ (\E i \in p : IsUpdated(i)) /\ ~ Overlapping(p)

DropPair(p) ==
  /\ pc = "process" /\ ~ broken /\ p \in todo
  /\ Dropped(p)
  /\ data' = data \ {p}
  /\ todo' = todo \ {p}
  /\ UNCHANGED <<world, leaf, updated, tracking, contacts, pc, unchecked, current, broken, fresh>>

\* ... filters it, which needs both bodies enabled, and lets the listeners and
\* the narrowphase decide about the others.
TakePair(p) ==
  /\ pc = "process" /\ ~ broken /\ p \in todo
  /\ ~ Dropped(p)
  /\ todo' = todo \ {p}
  /\ \/ UNCHANGED <<pc, current>>
     \/ /\ \A i \in p : BodyOf[i] \in enabled
        /\ pc' = "pair" /\ current' = {p}
  /\ UNCHANGED <<world, leaf, updated, tracking, data, contacts, unchecked, broken, fresh>>

\* A manifold becomes a contact, whatever the listeners did meanwhile.
AddContact ==
  /\ pc = "pair"
  /\ contacts' = contacts \cup current
  /\ current' = {}
  /\ pc' = "contact"
  /\ UNCHANGED <<world, leaf, updated, tracking, data, unchecked, todo, broken, fresh>>

ListenersReturn ==
  /\ Callback
  /\ pc' = IF pc = "outside" THEN "bounds" ELSE "process"
  /\ current' = {}
  /\ UNCHANGED <<world, leaf, updated, tracking, data, contacts, unchecked, todo, broken, fresh>>

EndDetect ==
  /\ pc = "process" /\ todo = {}
  /\ updated' = {}
  /\ pc' = "idle"
  /\ UNCHANGED <<world, leaf, tracking, data, contacts, unchecked, todo, current, broken, fresh>>

\* Mutant: the marks are cleared in a finally block.
ThrowAndClear ==
  /\ Callback \/ (~ Idle /\ broken)
  /\ pc' = "idle" /\ unchecked' = {} /\ todo' = {}
  /\ current' = {} /\ broken' = FALSE
  /\ updated' = {}
  /\ UNCHANGED <<world, leaf, tracking, data, contacts, fresh>>

\* A listener throws, or the iteration it broke: the pass ends where it is,
\* and the marks stay.
Throw ==
  /\ Callback \/ (~ Idle /\ broken)
  /\ pc' = "idle" /\ unchecked' = {} /\ todo' = {}
  /\ current' = {} /\ broken' = FALSE
  /\ UNCHANGED <<world, leaf, updated, tracking, data, contacts, fresh>>

-----------------------------------------------------------------------------
\* One step of a detection pass, and one step of the program.
Detect ==
  \/ BeginDetect
  \/ \E b \in Body : CheckBounds(b)
  \/ FindPairs
  \/ \E p \in todo : DropPair(p) \/ TakePair(p)
  \/ AddContact
  \/ ListenersReturn
  \/ EndDetect
  \/ Throw

Operation ==
  \/ \E b \in Body : AddBody(b) \/ RemoveBody(b) \/ SetEnabled(b)
  \/ RemoveAllBodies
  \/ \E i \in Item : AddFixture(i) \/ GetBodyAABB(i)
  \/ \E b \in Body, items \in SUBSET Item : RemoveFixtures(b, items)
  \/ \E b \in Body : \E to \in [ItemsOf(b) -> Box] : Move(b, to)
  \/ \E flag \in BOOLEAN : SetBroadphaseDetector(flag) \/ SetUpdateTrackingEnabled(flag)

Program == (Idle \/ Callback) /\ Operation

Next == Detect \/ Program

Spec == Init /\ [][Next]_vars

-----------------------------------------------------------------------------
(***************************************************************************)
(* Properties.                                                             *)
(***************************************************************************)

\* Membership: the broadphase holds a leaf for exactly the fixtures attached
\* to the bodies of the world, whatever order bodies and fixtures were added
\* and removed in (addBody, removeBody, BodyModificationHandler).
LeavesMatchMembership ==
  Live = {i \in fixtures : BodyOf[i] \in bodies}

\* Removal: no contact constraint survives the removal of a body or fixture
\* it mentions, even when a listener removes it during a pass, unless it
\* belongs to the very pair that listener is asked about (destroyContacts;
\* DetectIterator's check that both items are contained).
ContactsAreTracked ==
  /\ contacts \subseteq data
  /\ \A p \in contacts : p \subseteq Live

\* Completeness of the pair map: two overlapping leaves of different bodies
\* that a pair search has covered are in collisionData, at every moment of
\* every pass, whatever listeners do, also after a pass that threw.
PairsComplete ==
  \A p \in Pair :
    Overlapping(p) /\ p \cap fresh = {} => p \in data

\* The marks are enough: every leaf placed since the last search is marked,
\* so the next incremental search covers it (updateNode, clearUpdates).
FreshIsMarked == tracking => fresh \subseteq updated

\* Soundness of the pair map: outside a pass, a recorded pair of live leaves
\* still overlaps unless the next pass is going to look at it again.
NoStalePair ==
  Idle => \A p \in data : p \subseteq Live /\ p \cap updated = {} => Overlapping(p)

\* Incremental detection is full detection: after a completed pass the pairs
\* of live leaves in collisionData are exactly the overlapping ones, which is
\* what detectIterator(forceFullDetection = true) reports.
IncrementalEqualsFull ==
  Idle /\ updated = {} =>
    {p \in data : p \subseteq Live} = {p \in Pair : Overlapping(p)}
=============================================================================
