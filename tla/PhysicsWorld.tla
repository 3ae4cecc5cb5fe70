---------------------------- MODULE PhysicsWorld ----------------------------
(***************************************************************************)
(* Membership of a physics world: its bodies and joints, who owns them,    *)
(* the nodes and edges of the constraint graph, and the two broadphases.   *)
(*                                                                         *)
(* Removing a body with notification, removing everything, and a step all  *)
(* call listeners in the middle, and a listener may change the membership  *)
(* again.  The module models those operations listener call by listener    *)
(* call.  What a listener calls here notifies nobody in turn, so it is one *)
(* step.                                                                   *)
(***************************************************************************)
EXTENDS Naturals, SequencesExt

CONSTANTS
  Body, Joint,
  Members,      \* the bodies of every joint
  Solid,        \* the contacts that are enabled and no sensors
  None,         \* no body, no joint, no contact
  Usage,        \* what listeners and the program do, see Uses
  MaxListed     \* bound: bodies are added to a shorter list only

\* Two bodies in contact; which fixtures touch makes no difference here.
Contact == {{a, b} : a \in Body, b \in Body} \ {{b} : b \in Body}
Item == Joint \cup Contact

\* Uses of the API that properties exclude.
Uses == {
  "removeOwnPair",   \* a listener removes a body of the contact being updated
  "removeStranded",  \* a body is removed while only it has one of its contacts
  "reviveVictim",    \* a listener adds the body being removed again
  "changeRemoveAll", \* a listener changes membership while all is being removed
  "askInCallback",   \* a listener sets updateRequired while detection runs
  "usedDetector"}    \* the program sets a detector that holds other bodies

ASSUME WorldAssumption ==
  /\ Members \in [Joint -> (SUBSET Body) \ {{}}]
  /\ Solid \subseteq Contact
  /\ Joint \cap Contact = {} /\ Item \cap Body = {}
  /\ None \notin Item \cup Body
  /\ Usage \subseteq Uses /\ MaxListed \in Nat

VARIABLES
  world,           \* see World
  updateRequired,
  pc,              \* idle, between two listener calls, or inside one
  frame,           \* what the operation under way has still to do
  broken,          \* a list changed while it is iterated
  history          \* see History

vars == <<world, updateRequired, pc, frame, broken, history>>

World == [
  bodies : Seq(Body), joints : Seq(Joint),
  owned : SUBSET (Body \cup Joint),       \* the ones that name the world as owner
  broadphase : SUBSET Body, ccdBroadphase : SUBSET Body,
  nodes : SUBSET Body,                    \* the bodies with a node in the graph
  edges : [Body -> SUBSET Item],          \* the joints and contacts of every node
  collisionData : SUBSET Contact,
  contactCollisions : SUBSET Contact,
  rest : SUBSET Body]                     \* the bodies at rest

Frame == [
  victim : Body \cup {None},  \* the body being removed
  todo : SUBSET Item,         \* its joints and contacts, or the pairs of a pass
  current : Item \cup {None}, \* the one a listener is told of
  all : BOOLEAN,              \* whether everything is being removed
  fixture : BOOLEAN,          \* whether only fixtures of the victim are removed,
  every : BOOLEAN,            \* ... and all of them at once
  lost : SUBSET Contact,      \* what listeners took off the list iterated meanwhile
  index : Nat, count : Nat,   \* of the loop over all bodies or joints
  last : BOOLEAN]             \* whether the pass is the one that ends the step

History == [
  present : SUBSET Item,  \* the joints and contacts to be removed
  told : SUBSET Item,     \* the ones listeners were told are destroyed
  again : SUBSET Item,    \* the ones they were told of a second time
  quiet : SUBSET Item,    \* the ones a listener removed itself
  asked : BOOLEAN,        \* an update was requested, and no detection began since
  failed : BOOLEAN,       \* an operation failed, and no detection began since
  dropped : SUBSET Item]  \* what removals cut short left at one body, since then

NoFrame == [victim |-> None, todo |-> {}, current |-> None, all |-> FALSE, fixture |-> FALSE,
            every |-> FALSE, lost |-> {}, index |-> 0, count |-> 0, last |-> FALSE]

TypeOK ==
  /\ world \in World
  /\ updateRequired \in BOOLEAN /\ broken \in BOOLEAN
  /\ pc \in {"idle", "destroy", "destroyed", "bodyDestroyed", "removeAll",
             "removeAllJoints", "jointDestroyed", "begin", "detect", "ended", "updating",
             "collided", "updatePerformed", "preSolve", "solved", "postSolve", "end"}
  /\ frame \in Frame
  /\ history \in History

Init ==
  /\ world = [bodies |-> <<>>, joints |-> <<>>, owned |-> {}, broadphase |-> {},
              ccdBroadphase |-> {}, nodes |-> {}, edges |-> [b \in Body |-> {}],
              collisionData |-> {}, contactCollisions |-> {}, rest |-> {}]
  /\ updateRequired = TRUE
  /\ pc = "idle" /\ frame = NoFrame /\ broken = FALSE
  /\ history = [present |-> {}, told |-> {}, again |-> {}, quiet |-> {}, asked |-> TRUE,
              failed |-> FALSE, dropped |-> {}]

\* The listener calls: where the program gets to act.
Calls == {"destroyed", "bodyDestroyed", "jointDestroyed", "begin", "ended", "updating",
          "collided", "updatePerformed", "preSolve", "solved", "postSolve", "end"}

-----------------------------------------------------------------------------
(***************************************************************************)
(* Changes of the world.                                                   *)
(***************************************************************************)

Bodies(w) == ToSet(w.bodies)
Joints(w) == ToSet(w.joints)
Present(w) == Joints(w) \cup UNION {w.edges[b] : b \in Body}

WithBody(w, b) ==
  [w EXCEPT !.bodies = Append(@, b), !.owned = @ \cup {b}, !.nodes = @ \cup {b},
            !.broadphase = @ \cup {b}, !.ccdBroadphase = @ \cup {b}]

WithJoint(w, j) ==
  [w EXCEPT !.joints = Append(@, j), !.owned = @ \cup {j},
            !.nodes = @ \cup Members[j],
            !.edges = [b \in Body |-> IF b \in Members[j] THEN @[b] \cup {j} ELSE @[b]]]

\* ConstraintGraph.removeJoint.
WithoutEdge(w, e) == [w EXCEPT !.edges = [b \in Body |-> @[b] \ {e}]]

WithoutJoint(w, j) ==
  WithoutEdge([w EXCEPT !.joints = RemoveFirst(@, j), !.owned = @ \ {j},
                        !.rest = @ \ Members[j]], j)

\* removeBody up to its loops, which also takes the edges of b off its
\* neighbours.
Detached(w, b) ==
  [w EXCEPT !.bodies = RemoveFirst(@, b), !.owned = @ \ {b}, !.rest = @ \ {b},
            !.broadphase = @ \ {b}, !.ccdBroadphase = @ \ {b},
            !.nodes = @ \ {b},
            !.edges = [c \in Body |-> IF c = b THEN {} ELSE @[c] \ w.edges[b]]]

\* Mutant: only the bodies of contacts are woken.
WokenByContacts(b, e) == IF e \in Solid THEN e \ {b} ELSE {}

\* The bodies a destroyed joint or contact of b wakes.
Woken(b, e) == IF e \in Joint THEN Members[e] \ {b} ELSE IF e \in Solid THEN e \ {b} ELSE {}

\* ConstraintGraph.removeBody finds no node for the other body of a contact.
Stranded(w, b) == \E p \in w.edges[b] \cap Contact : ~(p \subseteq w.nodes)

\* ... and throws, with the joints and the contacts in `off` off the neighbours.
TornOff(w, b, off) ==
  [w EXCEPT !.owned = @ \ {b}, !.rest = @ \ {b}, !.nodes = @ \ {b},
            !.edges = [c \in Body |-> IF c = b THEN {}
                                     ELSE @[c] \ (off \cup (w.edges[b] \cap Joint))]]

\* One round of destroyJoints or destroyContacts up to the notification: the
\* edge of a joint is taken off the other bodies.
Destroyed(w, b, e) ==
  [w EXCEPT !.rest = @ \ Woken(b, e), !.owned = @ \ {e}, !.collisionData = @ \ {e},
            !.edges = [c \in Body |-> IF c # b /\ e \in Joint THEN @[c] \ {e} ELSE @[c]]]

\* ... and after it.
Delisted(w, b, e, fixture) ==
  [w EXCEPT !.joints = RemoveFirst(@, e),
            !.edges = [c \in Body |-> IF e \in Contact /\ (c # b \/ fixture)
                                     THEN @[c] \ {e} ELSE @[c]]]

\* s without the elements of S, the others in order.
Without(s, S) ==
  LET kept == {i \in DOMAIN s : s[i] \notin S}
      place(i) == Cardinality({k \in kept : k <= i})
  IN  [n \in 1..Cardinality(kept) |-> s[CHOOSE i \in kept : place(i) = n]]

\* removeBody without notification.
WithoutBody(w, b) ==
  LET es == w.edges[b] IN
  [Detached(w, b) EXCEPT !.rest = @ \ UNION {Woken(b, e) : e \in es},
     !.owned = @ \ es, !.collisionData = @ \ es,
     !.joints = Without(@, es)]

\* clear.
Cleared(w) ==
  [w EXCEPT !.bodies = <<>>, !.joints = <<>>, !.broadphase = {}, !.ccdBroadphase = {},
            !.nodes = {}, !.edges = [b \in Body |-> {}],
            !.collisionData = {}, !.contactCollisions = {}]

\* removeAllBodies and removeAllJoints without notification.
WithoutAll(w) ==
  [Cleared(w) EXCEPT !.owned = @ \ (Bodies(w) \cup Joints(w)), !.rest = @ \ Bodies(w)]

JointsCleared(w) ==
  [w EXCEPT !.joints = <<>>, !.edges = [b \in Body |-> @[b] \ Joint]]

WithoutJoints(w) ==
  [JointsCleared(w) EXCEPT !.owned = @ \ Joints(w),
                           !.rest = @ \ UNION {Members[j] : j \in Joints(w)}]

-----------------------------------------------------------------------------
(***************************************************************************)
(* What the program calls, between operations or from a listener.          *)
(***************************************************************************)

MayChange ==
  pc = "idle" \/ (pc \in Calls /\ (frame.all => "changeRemoveAll" \in Usage))

\* The bodies a listener had better leave alone.
Engaged == IF pc = "updating" /\ "removeOwnPair" \notin Usage THEN frame.current ELSE {}

\* An operation that notifies counts what a listener removes meanwhile.
Noted(lost) ==
  history' = IF pc = "idle"
             THEN [history EXCEPT !.present = {}, !.told = {}, !.again = {}, !.quiet = {}]
             ELSE [history EXCEPT !.quiet = @ \cup lost]

\* A change disturbs the iterator of the pair map or of contactCollisions.
Breaks(w) ==
  \/ pc \in {"ended", "updating", "collided"} /\ w.collisionData # world.collisionData
  \/ pc \in {"preSolve", "solved"} /\ w.contactCollisions # world.contactCollisions

ChangeFrame(w, lost, f) ==
  /\ MayChange
  /\ world' = w
  /\ broken' = (broken \/ Breaks(w))
  /\ Noted(lost)
  /\ frame' = f
  /\ UNCHANGED <<updateRequired, pc>>

Change(w, lost) == ChangeFrame(w, lost, frame)

AddBody(b) ==
  /\ b \notin world.owned /\ Len(world.bodies) < MaxListed
  /\ b = frame.victim => "reviveVictim" \in Usage
  /\ Change(WithBody(world, b), {})

\* The bodies are looked up in the graph.
AddJoint(j) ==
  /\ j \notin world.owned
  /\ Members[j] \subseteq world.nodes
  /\ Change(WithJoint(world, j), {})

\* The contacts of b leave the list that a removal of fixtures iterates.
Shortened(b) ==
  IF pc = "destroyed" /\ frame.fixture
  THEN [frame EXCEPT !.lost = @ \cup (world.edges[b] \cap world.edges[frame.victim] \cap Contact)]
  ELSE frame

RemoveBody(b) ==
  /\ b \in Bodies(world) \ Engaged /\ ~Stranded(world, b)
  /\ ChangeFrame(WithoutBody(world, b), world.edges[b], Shortened(b))

RemoveJoint(j) == j \in Joints(world) /\ Change(WithoutJoint(world, j), {j})

\* clear empties the pair map; its iterator then fails on the JVM and is at its
\* end elsewhere.  The nodes are dropped as they are, with their contacts.
RemoveAll ==
  /\ Engaged = {}
  /\ \/ Change(WithoutAll(world), Present(world))
     \/ /\ pc \in {"ended", "updating", "collided"}
        /\ ChangeFrame(WithoutAll(world), Present(world), [frame EXCEPT !.todo = {}])

RemoveJoints == Change(WithoutJoints(world), Joints(world))

\* setContinuousCollisionDetectionBroadphaseDetector and
\* setBroadphaseDetector: the new detector gets the bodies, and keeps what it
\* had.
SetDetectors(old) ==
  /\ pc = "idle"
  /\ old = {} \/ "usedDetector" \in Usage
  /\ Change([world EXCEPT !.broadphase = old \cup Bodies(world),
                          !.ccdBroadphase = old \cup Bodies(world)], {})

SetUpdateRequired ==
  /\ pc \in Calls \cup {"idle"}
  /\ pc \in {"ended", "updating", "collided", "updatePerformed"} => "askInCallback" \in Usage
  /\ updateRequired' = TRUE
  /\ history' = [history EXCEPT !.asked = TRUE]
  /\ UNCHANGED <<world, pc, frame, broken>>

Program ==
  \/ \E b \in Body : AddBody(b) \/ RemoveBody(b)
  \/ \E j \in Joint : AddJoint(j) \/ RemoveJoint(j)
  \/ RemoveAll \/ RemoveJoints
  \/ \E old \in SUBSET Body : SetDetectors(old)
  \/ SetUpdateRequired

-----------------------------------------------------------------------------
(***************************************************************************)
(* Removal with notification.                                              *)
(***************************************************************************)

Promised(items) ==
  history' = [history EXCEPT !.present = items, !.told = {}, !.again = {}, !.quiet = {}]

Tell(e) == history' = [history EXCEPT !.told = @ \cup {e}, !.again = @ \cup ({e} \cap history.told)]

\* Mutant: removeBody destroys joints only.
BeginRemoveBodyJoints(b) ==
  /\ pc = "idle" /\ b \in Bodies(world) /\ ~Stranded(world, b)
  /\ world' = Detached(world, b)
  /\ pc' = "destroy"
  /\ frame' = [NoFrame EXCEPT !.victim = b, !.todo = world.edges[b] \cap Joint]
  /\ Promised(world.edges[b])
  /\ UNCHANGED <<updateRequired, broken>>

\* removeBody(body, true).
BeginRemoveBody(b) ==
  /\ pc = "idle" /\ b \in Bodies(world) /\ ~Stranded(world, b)
  /\ world' = Detached(world, b)
  /\ pc' = "destroy"
  /\ frame' = [NoFrame EXCEPT !.victim = b, !.todo = world.edges[b]]
  /\ Promised(world.edges[b])
  /\ UNCHANGED <<updateRequired, broken>>

\* handleFixtureRemoved, for a fixture of b with the contacts touching.
BeginRemoveFixture(b, touching) ==
  /\ pc = "idle" /\ b \in Bodies(world)
  /\ touching \subseteq world.edges[b] \cap Contact
  /\ pc' = "destroy"
  /\ frame' = [NoFrame EXCEPT !.victim = b, !.todo = touching, !.fixture = TRUE]
  /\ Promised(touching)
  /\ UNCHANGED <<world, updateRequired, broken>>

\* handleAllFixturesRemoved.
BeginRemoveFixtures(b) ==
  /\ pc = "idle" /\ b \in Bodies(world)
  /\ pc' = "destroy"
  /\ frame' = [NoFrame EXCEPT !.victim = b, !.todo = world.edges[b] \cap Contact,
                              !.fixture = TRUE, !.every = TRUE]
  /\ Promised(world.edges[b] \cap Contact)
  /\ UNCHANGED <<world, updateRequired, broken>>

\* The joints first, then the contacts, in any order.
Destroy(e) ==
  /\ pc = "destroy" /\ frame.lost = {}
  /\ e \in frame.todo /\ (e \in Joint \/ frame.todo \subseteq Contact)
  /\ world' = Destroyed(world, frame.victim, e)
  /\ frame' = [frame EXCEPT !.todo = @ \ {e}, !.current = e]
  /\ Tell(e)
  /\ pc' = "destroyed"
  /\ UNCHANGED <<updateRequired, broken>>

\* The contact leaves the other body; the victim too, by iterator.remove, when
\* one of its fixtures goes.
Delist ==
  /\ pc = "destroyed" /\ (frame.lost = {} \/ frame.every)
  /\ world' = Delisted(world, frame.victim, frame.current, frame.fixture /\ ~frame.every)
  /\ frame' = [frame EXCEPT !.current = None]
  /\ pc' = "destroy"
  /\ UNCHANGED <<updateRequired, broken, history>>

\* The list of a body that left the graph cannot change, nor that of a body that
\* loses one fixture without failing.
EndRemoveBody ==
  /\ pc = "destroy" /\ frame.todo = {} /\ ~frame.every
  /\ IF frame.all THEN pc' = "bodyDestroyed" /\ frame' = [frame EXCEPT !.victim = None]
                  ELSE pc' = "idle" /\ frame' = NoFrame
  /\ UNCHANGED <<world, updateRequired, broken, history>>

\* Mutant: the list of the victim is not cleared.
EndRemoveFixturesUncleared ==
  /\ pc = "destroy" /\ frame.every
  /\ Cardinality(frame.lost) >= Cardinality(frame.todo)
  /\ LET left == frame.todo \ frame.lost IN
       history' = [history EXCEPT !.dropped = @ \cup left, !.present = @ \ left]
  /\ pc' = "idle" /\ frame' = NoFrame
  /\ UNCHANGED <<world, updateRequired, broken>>

\* hasNext compares the index with the length, so that a list that lost as much
\* as was still to be done, or more, ends the loop.  What is left is cleared at
\* the victim, and stays with the other bodies and in the pair map.
EndRemoveFixtures ==
  /\ pc = "destroy" /\ frame.every
  /\ Cardinality(frame.lost) >= Cardinality(frame.todo)
  /\ world' = [world EXCEPT !.edges[frame.victim] = @ \ Contact]
  /\ LET left == frame.todo \ frame.lost IN
       history' = [history EXCEPT !.dropped = @ \cup left, !.present = @ \ left]
  /\ pc' = "idle" /\ frame' = NoFrame
  /\ UNCHANGED <<updateRequired, broken>>

Paired(w) ==
  \A b \in Body : \A p \in w.edges[b] \cap Contact : \A c \in p : p \in w.edges[c]

\* removeAllBodies(true): the number of bodies is read once.
BeginRemoveAll ==
  /\ pc = "idle" /\ (Paired(world) \/ "removeStranded" \in Usage)
  /\ pc' = "removeAll"
  /\ frame' = [NoFrame EXCEPT !.all = TRUE, !.index = 1, !.count = Len(world.bodies)]
  /\ Promised(Present(world))
  /\ UNCHANGED <<world, updateRequired, broken>>

DetachNext ==
  /\ pc = "removeAll" /\ frame.index <= Len(world.bodies) /\ frame.index <= frame.count
  /\ LET b == world.bodies[frame.index] IN
     /\ b \in world.nodes /\ ~Stranded(world, b)
     /\ world' = [Detached(world, b) EXCEPT !.bodies = world.bodies,
                     !.broadphase = world.broadphase, !.ccdBroadphase = world.ccdBroadphase]
     /\ frame' = [frame EXCEPT !.victim = b, !.todo = world.edges[b]]
  /\ pc' = "destroy"
  /\ UNCHANGED <<updateRequired, broken, history>>

NextBody ==
  /\ pc = "bodyDestroyed"
  /\ pc' = "removeAll"
  /\ frame' = [frame EXCEPT !.index = @ + 1]
  /\ UNCHANGED <<world, updateRequired, broken, history>>

EndRemoveAll ==
  /\ pc = "removeAll" /\ frame.index > frame.count
  /\ world' = Cleared(world)
  /\ pc' = "idle" /\ frame' = NoFrame
  /\ UNCHANGED <<updateRequired, broken, history>>

\* removeAllJoints(true).
BeginRemoveAllJoints ==
  /\ pc = "idle"
  /\ pc' = "removeAllJoints"
  /\ frame' = [NoFrame EXCEPT !.all = TRUE, !.index = 1, !.count = Len(world.joints)]
  /\ Promised(Joints(world))
  /\ UNCHANGED <<world, updateRequired, broken>>

ReleaseNext ==
  /\ pc = "removeAllJoints" /\ frame.index <= Len(world.joints) /\ frame.index <= frame.count
  /\ LET j == world.joints[frame.index] IN
     /\ world' = [world EXCEPT !.owned = @ \ {j}, !.rest = @ \ Members[j]]
     /\ Tell(j)
  /\ pc' = "jointDestroyed"
  /\ frame' = [frame EXCEPT !.index = @ + 1]
  /\ UNCHANGED <<updateRequired, broken>>

NextJoint ==
  /\ pc = "jointDestroyed"
  /\ pc' = "removeAllJoints"
  /\ UNCHANGED <<world, updateRequired, frame, broken, history>>

EndRemoveAllJoints ==
  /\ pc = "removeAllJoints" /\ frame.index > frame.count
  /\ world' = JointsCleared(world)
  /\ pc' = "idle" /\ frame' = NoFrame
  /\ UNCHANGED <<updateRequired, broken, history>>

\* The index runs past the list, the node is gone, or an iterator finds its
\* list changed: iterator.remove at once, next when it is called (on the JVM
\* also when the list got shorter than the index).
Fails ==
  \/ pc = "removeAll" /\ frame.index <= frame.count
       /\ (frame.index <= Len(world.bodies) => world.bodies[frame.index] \notin world.nodes)
  \/ pc = "removeAllJoints" /\ frame.index <= frame.count /\ frame.index > Len(world.joints)
  \/ broken /\ pc = "detect" /\ frame.todo # {}
  \/ pc = "destroyed" /\ frame.lost # {} /\ ~frame.every
  \/ pc = "destroy" /\ frame.lost # {} /\ Cardinality(frame.lost) # Cardinality(frame.todo)
  \/ broken /\ pc \in {"preSolve", "solved"}

\* The exception leaves the operation where it is; the contacts a removal of all
\* fixtures is done with are still at the victim.
Abort ==
  /\ Fails
  /\ pc' = "idle" /\ frame' = NoFrame
  /\ broken' = FALSE
  /\ LET done == IF frame.every THEN history.told \cap world.edges[frame.victim] ELSE {} IN
       history' = [history EXCEPT !.present = {}, !.failed = TRUE, !.dropped = @ \cup done]
  /\ UNCHANGED <<world, updateRequired>>

\* A removal of a body that fails in the graph, and with it what called it: the
\* program, a listener or the loop over all bodies.
Tear(b) ==
  /\ "removeStranded" \in Usage
  /\ b \in Bodies(world) \cap world.nodes /\ Stranded(world, b)
  /\ \E off \in SUBSET {p \in world.edges[b] \cap Contact : p \subseteq world.nodes} :
       LET torn == TornOff(world, b, off) IN
       \/ /\ MayChange /\ b \notin Engaged
          /\ world' = [torn EXCEPT !.bodies = RemoveFirst(@, b),
                          !.broadphase = @ \ {b}, !.ccdBroadphase = @ \ {b}]
       \/ /\ pc = "removeAll" /\ frame.index <= Len(world.bodies) /\ frame.index <= frame.count
          /\ b = world.bodies[frame.index]
          /\ world' = torn
  /\ pc' = "idle" /\ frame' = NoFrame
  /\ broken' = FALSE
  /\ history' = [history EXCEPT !.present = {}, !.failed = TRUE,
                                !.dropped = @ \cup (world.edges[b] \cap Contact)]
  /\ UNCHANGED updateRequired

RemovesBody(b) == IF Stranded(world, b) THEN Tear(b) ELSE BeginRemoveBody(b)

Removal ==
  \/ \E b \in Body : RemovesBody(b) \/ BeginRemoveFixtures(b)
  \/ \E b \in Body : \E touching \in SUBSET Contact : BeginRemoveFixture(b, touching)
  \/ \E e \in Item : Destroy(e)
  \/ Delist \/ EndRemoveBody \/ EndRemoveFixtures
  \/ BeginRemoveAll \/ DetachNext \/ NextBody \/ EndRemoveAll
  \/ BeginRemoveAllJoints \/ ReleaseNext \/ NextJoint \/ EndRemoveAllJoints
  \/ Abort

-----------------------------------------------------------------------------
(***************************************************************************)
(* A step: a pass when an update was requested, the solver, and a pass.    *)
(***************************************************************************)

Goto(from, to) ==
  pc = from /\ pc' = to /\ UNCHANGED <<world, updateRequired, frame, broken, history>>

BeginStep ==
  /\ pc = "idle" /\ pc' = "begin"
  /\ broken' = FALSE
  /\ history' = [history EXCEPT !.present = {}, !.told = {}, !.again = {}, !.quiet = {}]
  /\ UNCHANGED <<world, updateRequired, frame>>

\* Mutant: the graph keeps the contacts of the last pass.
BeginDetectKeepsContacts(last) ==
  /\ IF last THEN pc = "postSolve" ELSE pc = "begin" /\ updateRequired
  /\ LET pairs == world.collisionData \cup {p \in Contact : p \subseteq world.broadphase} IN
     /\ world' = [world EXCEPT !.collisionData = pairs, !.contactCollisions = {}]
     /\ frame' = [NoFrame EXCEPT !.todo = pairs, !.last = last]
  /\ pc' = "detect"
  /\ broken' = FALSE
  /\ history' = [history EXCEPT !.asked = FALSE, !.failed = FALSE, !.dropped = {}]
  /\ UNCHANGED updateRequired

\* detect: the pairs of the broadphase join the map, and the graph loses its
\* contacts.  A pair the broadphase does not find is one that DropPair drops.
BeginDetect(last) ==
  /\ IF last THEN pc = "postSolve" ELSE pc = "begin" /\ updateRequired
  /\ LET pairs == world.collisionData \cup {p \in Contact : p \subseteq world.broadphase} IN
     /\ world' = [world EXCEPT !.collisionData = pairs, !.contactCollisions = {},
                               !.edges = [b \in Body |-> @[b] \ Contact]]
     /\ frame' = [NoFrame EXCEPT !.todo = pairs, !.last = last]
  /\ pc' = "detect"
  /\ broken' = FALSE
  /\ history' = [history EXCEPT !.asked = FALSE, !.failed = FALSE, !.dropped = {}]
  /\ UNCHANGED updateRequired

\* The iterator drops a pair that left the broadphase or no longer overlaps;
\* listeners hear that its contacts ended.
DropPair(p) ==
  /\ pc = "detect" /\ ~broken /\ p \in frame.todo
  /\ pc' = "ended"
  /\ world' = [world EXCEPT !.collisionData = @ \ {p}]
  /\ frame' = [frame EXCEPT !.todo = @ \ {p}]
  /\ UNCHANGED <<updateRequired, broken, history>>

Ended == Goto("ended", "detect")

\* A pair that stays is tested; the collision and contact listeners are asked.
BeginUpdate(p) ==
  /\ pc = "detect" /\ ~broken /\ p \in frame.todo
  /\ p \subseteq world.broadphase
  /\ frame' = [frame EXCEPT !.todo = @ \ {p}, !.current = p]
  /\ pc' = "updating"
  /\ UNCHANGED <<world, updateRequired, broken, history>>

Miss ==
  /\ pc = "updating" /\ pc' = "detect"
  /\ frame' = [frame EXCEPT !.current = None]
  /\ UNCHANGED <<world, updateRequired, broken, history>>

\* addContactConstraint: a body without a node gets one.
WithContact(w, p) ==
  [w EXCEPT !.nodes = @ \cup p,
            !.edges = [b \in Body |-> IF b \in p THEN @[b] \cup {p} ELSE @[b]]]

Hit ==
  /\ pc = "updating" /\ pc' = "collided"
  /\ world' = WithContact(world, frame.current)
  /\ UNCHANGED <<updateRequired, frame, broken, history>>

EndUpdate ==
  /\ pc = "collided" /\ pc' = "detect"
  /\ world' = [world EXCEPT !.contactCollisions = @ \cup ({frame.current} \cap Solid)]
  /\ frame' = [frame EXCEPT !.current = None]
  /\ UNCHANGED <<updateRequired, broken, history>>

EndDetect ==
  /\ pc = "detect" /\ frame.todo = {}
  /\ pc' = IF frame.last THEN "end" ELSE "updatePerformed"
  /\ updateRequired' = (updateRequired /\ ~frame.last)
  /\ frame' = NoFrame /\ broken' = FALSE
  /\ UNCHANGED <<world, history>>

UpdatePerformed ==
  /\ pc = "updatePerformed" /\ pc' = "preSolve"
  /\ updateRequired' = FALSE
  /\ UNCHANGED <<world, frame, broken, history>>

SkipUpdate == ~updateRequired /\ Goto("begin", "preSolve")

\* The solver puts bodies to sleep and wakes them.  A contactCollisions that was
\* cleared meanwhile ends its loop, where it does not fail.
Solve ==
  /\ pc = "preSolve" /\ pc' = "solved"
  /\ \E asleep \in SUBSET Bodies(world) :
       world' = [world EXCEPT !.rest = (@ \ Bodies(world)) \cup asleep]
  /\ broken' = FALSE
  /\ UNCHANGED <<updateRequired, frame, history>>

PostSolve ==
  /\ pc = "solved" /\ pc' = "postSolve"
  /\ broken' = FALSE
  /\ UNCHANGED <<world, updateRequired, frame, history>>

EndStep == Goto("end", "idle")

Step ==
  \/ BeginStep \/ SkipUpdate
  \/ \E last \in BOOLEAN : BeginDetect(last)
  \/ \E p \in Contact : DropPair(p) \/ BeginUpdate(p)
  \/ Ended \/ Miss \/ Hit \/ EndUpdate \/ EndDetect \/ UpdatePerformed
  \/ Solve \/ PostSolve \/ EndStep

Next == Program \/ Removal \/ Step

Spec == Init /\ [][Next]_vars

-----------------------------------------------------------------------------
\* Between operations, and inside the listener calls of a step, bodies and
\* joints have the world as owner exactly when they are in its lists, once
\* each, and both broadphases hold exactly the bodies.
Steady == pc \in {"idle", "begin", "ended", "updating", "collided", "updatePerformed", "preSolve",
                  "solved", "postSolve", "end"}

OwnedIffListed ==
  Steady =>
    /\ world.owned = Bodies(world) \cup Joints(world)
    /\ IsInjective(world.bodies) /\ IsInjective(world.joints)
    /\ world.broadphase = Bodies(world) /\ world.ccdBroadphase = Bodies(world)

\* A contact is with its own bodies, and with both of them, but for those that a
\* removal left behind when a listener cut it short; the next detection puts
\* these right.
ContactsPaired ==
  Steady =>
    \A p \in Contact : LET at == {b \in Body : p \in world.edges[b]} IN
      /\ at \subseteq p \cap Bodies(world)
      /\ at = {} \/ at = p \/ p \in history.dropped

\* The constraint graph has a node for every body of the world and no other, and
\* every joint is with exactly its members, however listeners changed the
\* membership.
GraphMirrorsWorld ==
  /\ ContactsPaired
  /\ Steady =>
       /\ world.nodes = Bodies(world)
       /\ \A b \in Body : world.edges[b] \cap Joint = {j \in Joints(world) : b \in Members[j]}

\* A contact of the graph is one the pair map tracks, so that its end can be
\* noticed; an operation that failed may leave others until the next pass.
ContactsTracked ==
  Steady /\ ~history.failed =>
    \A b \in Body : world.edges[b] \cap Contact \subseteq world.collisionData

\* When an operation that notifies has ended, listeners were told of every
\* joint and contact it removed, or removed it themselves; the contacts a removal
\* of all fixtures left behind (dropped) are tracked still, for their end.
AllTold == pc = "idle" => history.present \subseteq history.told \cup history.quiet

\* ... and never twice.
ToldOnce == history.again = {}

\* A body that lost a joint or a solid contact to a removal is awake.
LosersAreAwake ==
  pc # "idle" =>
    \A e \in history.told :
      (IF e \in Joint THEN Members[e] ELSE IF e \in Solid THEN e ELSE {})
        \cap world.rest \subseteq (IF frame.fixture THEN {frame.victim} ELSE {})

\* A request for an update is pending until a pass begins.
RequestsKept == history.asked => updateRequired

\* Owners, lists, broadphases and graph agree, and no request is forgotten.
Consistent == TypeOK /\ OwnedIffListed /\ GraphMirrorsWorld /\ RequestsKept

\* A removal that notifies tells of everything it destroys, once.
ToldExactlyOnce == AllTold /\ ToldOnce
=============================================================================
