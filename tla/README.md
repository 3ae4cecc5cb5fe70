# A verification development for dyn4k

dyn4k is a Kotlin Multiplatform port of the 2D physics engine dyn4j 6.0.0.
This directory holds TLA+ models of its stateful core and of three concurrent
programs among its tools, the TLC configurations that check them on small
instances, and proofs that TLAPS checks for instances of every size. Paths below are relative to
`dyn4k-core/src/commonMain/kotlin/org/dyn4j/` unless they start with `src/`.

## 1. The system

A *world* owns bodies; a body owns fixtures (shapes). A simulation step groups
the awake bodies into islands, solves each island, and then detects collisions:
the broadphase proposes pairs of fixtures whose boxes overlap, the narrowphase
and the manifold solver decide which of them touch, and the touching pairs
become contact constraints, the edges of the next step's islands. The engine is
sequential; what makes it hard is that listeners run in the middle of most
operations and may call the world again, that detection is incremental, and
that most state is derived from other state and must be kept in step with it.

| component (source) | state it keeps | operations | hard behaviour | what makes it correct |
| --- | --- | --- | --- | --- |
| Collision pass (`world/AbstractCollisionWorld.kt`) | `bodies`, `collisionData` | add and remove bodies, fixture handler, `detect`, queries | incremental search, listeners in a pass, exceptions | the pair map is what a full detection would find |
| Dynamic AABB tree (`collision/broadphase/DynamicAABBTree.kt`) | nodes with pointers, heights, boxes; `leaves`, `updated` | add, update, remove, optimize, pair, box and ray search | pointer rewiring, rotations, a search without a stack | valid tree, exact search, loops end |
| Sweep and prune (`collision/broadphase/Sap.kt`, `AVLTree.kt`) | ordered proxies, `updated` | the same interface | order by box and hash, incremental search | same answers as the tree |
| Adapters (`collision/broadphase/BroadphaseAdapters.kt`) | a reusable item | per-body operations on per-fixture detectors | results alias live state | queries change nothing |
| Bodies and fixtures (`collision/CollisionBody.kt`) | fixtures, transform, enabled, handler | add and remove fixtures, move | the handler exists only inside a world | leaves follow membership |
| Physics world (`world/AbstractPhysicsWorld.kt`) | joints, `contactCollisions`, `updateRequired`, carried time | `step`, `update`, removal with notification | reentrant listeners in every phase | ownership, edges and lists agree |
| Constraint graph, islands (`world/ConstraintGraph.kt`, `world/Island.kt`) | nodes, edges, marks of a search | edges, `solve` | static bodies in several islands, sleeping and waking | islands partition the reachable bodies; rest is collective |
| Contact constraints (`dynamics/contact/ContactModels.kt`) | contacts with identities | `update` | matching two manifolds | begin, persist, end, destroyed exactly once |
| Body dynamics (`dynamics/AbstractPhysicsBody.kt`) | mass, velocity, at rest | forces, integration, rest | which operation wakes | sleeping bodies are woken when they must |
| Joints (`dynamics/joint/`) | bodies, limits, impulses | constraints of the solver | reference counts and ownership | in the graph iff in the world |
| Continuous detection (`solveTOI`) | `ccdBroadphase`, `ccdCollisionData` | resolve impacts | order of bodies, listeners | no pair of removed bodies |
| Tracked lists (`world/WorldTrackedArrayList.kt`) | a list and its version | views that fail fast | structural change during iteration | a stale iterator throws |
| Geometry, narrowphase, manifolds, solvers | none of their own | floating-point algorithms | numerics | out of TLC's reach |
| Linux process observer (`src/tools/qualification/independent_linux_observer.py`) | processes known, live, stopped; an event log | launch, `waitpid` loop, seal, cleanup, `_derive` | reports in any order, kills, an alarm between any two steps | the log tells the truth, nobody is left behind |
| Owned process snapshot (`src/tools/numerical/portable/ordinary_snapshot/control.py`, `owned_snapshot.inc`) | the tracer's holds and births, the controller's roster, a channel | freeze, sample, resume, stop | births that cross a freeze, commands that cross acknowledgements | a snapshot is of a still and completely known tree |
| Private tracer build (`src/tools/numerical/portable/ordinary_snapshot/build_tracer.py`) | bound processes, deadlines | run a command, clean its group up | `/proc` is not read at once; numbers are used again | a complete cleanup left nobody, no stranger is touched |
| Kotlin facade (`src/dyn4k`), other tooling (`src/tools`, `src/scripts`) | none; files | builders; builds and evidence | | not part of the engine |

How they interact: the world calls the broadphase through the adapter; a body
calls the world through its fixture-modification handler; the world calls
listeners (bounds, collision, contact, step, destruction, time of impact),
which may call anything; the contact edges of the constraint graph are rebuilt
by every detection pass and consumed by the next `solve`.

The tools share nothing with the engine but the repository: the observer traces
the builds that are qualified, the snapshot and its private build trace the runs
of the numerical comparison.

## 2. The modules

| module | models | extended or used by |
| --- | --- | --- |
| `CollisionTracking` | the detection pass, membership, marks, pair map, contact edges | `MCCollisionTracking`, `CollisionTracking_proof` |
| `Broadphase` | what every detector promises: an abstract specification | instantiated by `DynamicAABBTree` and `SweepAndPrune` |
| `DynamicAABBTree` | the tree's pointers and loops | `MCDynamicAABBTree`, `DynamicAABBTree_proof` |
| `SweepAndPrune` | the map, the order and the searches of `Sap` | `MCSweepAndPrune`, `SweepAndPrune_proof` |
| `AVLTree` | pointers, rotations and iterators of the tree under `Sap` | `MCAVLTree`, `SweepAndPrune_proof` |
| `PhysicsWorld` | ownership, removal with notification, the phases of a step | `MCPhysicsWorld`, `PhysicsWorld_proof` |
| `ConstraintGraph` | islands, sleeping and waking | `MCConstraintGraph`, `ConstraintGraph_proof` |
| `LinuxObserver` | the ptrace observer, its log and its cleanup | `MCLinuxObserver`, `LinuxObserver_proof` |
| `OwnedSnapshot` | kernel, tracer, channel and controller of a frozen tree | `MCOwnedSnapshot`, `OwnedSnapshot_proof` |
| `OwnedGroup` | one command in a group of its own, and the end of that group | `MCOwnedGroup`, `OwnedGroup_proof` |

How they fit together: `CollisionTracking` takes a detector to be a set of
leaves with a relation `FoundPairs`; `Broadphase` states the box search of that
interface, and both detectors are shown to implement it. `SweepAndPrune` walks
an order; that the tree under it keeps one is `AVLTree`'s subject. The two are
proved about in one module, `SweepAndPrune_proof`, and so `AVLTree`'s names differ from
its neighbour's (`TreeInit`, `InsertKey`, `TreeConsistent`, ...). `PhysicsWorld`
has the membership and the graph whose islands `ConstraintGraph` looks for, and
a pass in it may track any pair of its bodies, which pairs being
`CollisionTracking`'s subject.

### CollisionTracking

State: the world's `bodies`, the fixtures attached to each body, the box each
fixture occupies, `leaf` (the fat boxes of the broadphase), `updated` (the
marks), `data` (`collisionData`), `contacts` (edges), and the position inside a
pass (`pc`, `unchecked`, `todo`, `current`, `broken`). A box is a set of cells
of a line: boxes overlap when they share a cell.

One pass is several actions, because listeners run between them: `BeginDetect`
(update the leaves), `CheckBounds` (per body, with the bounds listener),
`FindPairs` (search the marked leaves and extend `data`), `DropPair`/`TakePair`
(one pair of `DetectIterator.next`), `AddContact`, `ListenersReturn`,
`EndDetect` (clear the marks) and `Throw` (a listener throws; the pass ends
without clearing). The operations of the program (`AddBody`, `RemoveBody`,
`RemoveAllBodies`, `AddFixture`, `RemoveFixtures`, `Move`, `SetEnabled`,
`SetBroadphaseDetector`, ...) run between passes or, from a listener, inside
one. A removal in a listener breaks the iteration under way; the iterators of the
JVM's maps are fail-fast, so `broken` forces the pass to end in `Throw`. Where the map
was cleared, the iterators of other platforms may be at their end instead, and
`RemoveAllBodies` has this outcome too.

The constant `Usage` names four uses of the API the incremental scheme is not
prepared for; each property says which of them it tolerates.

### DynamicAABBTree

State: `tree`, a record of the root and the `left`, `right`, `parent`,
`height` and `aabb` fields of every node object; `leaves`; and the position in a
loop. `Add`, `Update`, `Remove`, `Clear`, `Optimize` do what the code does
before its loop; `Insert` puts a leaf next to a sibling and `Refit` is one round
of the climb to the root: rotate (`Lift`), measure, go to the parent. `Visit`
and `Climb` are the steps of the search that `DetectPairsIterator` and
`DetectAABBIterator` share. The descent of `insert`, which compares perimeters,
may stop at any node: more trees than the code can build, and every property
holds for all of them. `GetBodyAABB` is the adapter's body query. The refinement
maps a leaf to its item's box, a walk under way to the abstract question that
has been asked, and the end of the walk to its answer.

### SweepAndPrune and AVLTree

`SweepAndPrune` keeps the `box` of every proxy, the set `ordered` of the proxies
in the tree, and the marks `updated` in order. The order itself is an operator
(`Precedes`: box, then hash code), so a tie is two proxies with the same box and
the same hash code (`Ties`), and `InTree` refuses the second. `BeginPairs` and
`Sweep` are `DetectPairsIterator`, incremental or full; `BeginQuery` and `Scan`
the box search. `AVLTree` keeps root and pointers as the code does; `InsertKey`,
`RemoveKey`, `RemoveExtreme` and `ClearTree` do what the code does before its
loops; `Descend`, `InsertUp`, `RemoveUp` are rounds of those, and `Advance` one
`next` of an iterator with its stack. The comparison of keys is a constant, `Diff`.

### PhysicsWorld

State: `world`, a record of the lists, owners, broadphases, nodes and edges,
tracked pairs and resting bodies; `updateRequired`; and `pc` with `frame`, where
an operation that calls listeners stands. Every call of a listener is a state of
its own, in which anything the program may call between operations may be
called too, as one step that notifies nobody in turn. A list changed under a
loop sets `broken`, and the loop fails when it goes on (`Abort`), as the fail-fast
iterators do. The solver is a choice of who rests afterwards (`Solve`). `history`
records who was told of what.

Removing one fixture (`BeginRemoveFixture`) and removing all of them
(`BeginRemoveFixtures`) share `destroyContacts` and differ: the first takes each
contact off its body's list by `iterator.remove`, the second leaves the list alone
and clears it after the loop (`every`, `Delist`, `EndRemoveFixtures`). A listener that
removes another body takes contacts off this list meanwhile (`Shortened`, `lost`). Then
the iterator, which compares its index with the length, ends the loop in silence when
as many were lost as were still to come; when fewer were, it fails (`Fails`); when more
were, it fails on the JVM and ends elsewhere. Where it ends, contacts nobody was told of stay with the other body and in the pair
map; `history.dropped` keeps them, and the next detection, which rebuilds the edges and
tests every tracked pair, puts them right (`BeginDetect`). While such a contact is at one
body only, removing that body fails inside the graph (`Tear`), since the other one's
node may be gone.

`Usage` names what a property may exclude, six uses: a listener that removes its own
pair, adds the victim again, changes the membership while all is removed, or asks for an
update in mid-pass; a program that removes a body one of whose contacts has
lost its other body's node, or sets a detector that holds other bodies. The run
`physics_world` has none of them; type correctness and `LosersAreAwake` are proved for all.

### ConstraintGraph

State: which bodies are static, kinematic, enabled, restless (at-rest detection
off) and at rest; the contacts and joints of the graph; the search's `todo`,
`stack`, `onIsland`, `staticOnIsland` and `island`; and the history variables
`anchors`, `seeds`, `simulated` and `twice`. `NextNode` is a turn of the outer
loop of `solve`; `Skip`, `VisitStatic` and `Visit` the three outcomes of popping
a node; `SolveIsland` the call of `Island.solve` with its decision about rest;
`EndStep` the rest of the step, with the detection that rebuilds the contacts.
Between steps the program changes mass types, velocities, enabledness and rest,
adds and removes joints, and removes fixtures.

The stack is a set: the order in which nodes are popped decides nothing the
properties are about, and every order is covered. A detection may find any set
of contacts between enabled bodies. A body that leaves the bounds in a detection
is a `SetEnabled` after it. Two details of the code show in the model because
they matter: a kinematic body put to rest becomes static while the search still
runs (`PutToRest`), so the properties speak of the bodies static at the start;
and a static body whose own at-rest detection is off reports a rest time of 0,
not -1, and keeps its islands awake (`Rest`). The minimum at-rest time is
assumed positive, as by default.

### LinuxObserver, OwnedSnapshot, OwnedGroup

Here the actors are real processes. In `LinuxObserver` the kernel's processes
run, fork, exec, exit and are killed (`Tracees`); the observer's loop takes one
status (`WaitPid`), does what it asks for (`Handle`) and continues the process
(`Continue`), three steps because a process may be killed and the alarm may
strike between them. `Alarm` raises in any of them, in the exception handler and
in the cleanup included. `Derives` is what the reader of the log accepts.

`OwnedSnapshot` has the threads and their stops (`Threads`, `Kernel`), among them the
first stop of a child (`FirstStop`), which comes when it is scheduled and not with its
parent's fork, the tracer
(`Wait`, one `waitpid` status at a time; `TryHeld`, `Interrupt`, the commands),
two queues, and the controller (`Receive`, `Sample`, `SendResume`, the cleanup, which
may give up after its two times five seconds: `GiveUp`).
The tracer waits for an acknowledgement after every record and keeps a command
that comes in its place (`TakeAck`, `TakeCommand`).

`OwnedGroup` has the numbers of processes, who has them (`born` counts whose it
is), and the runner: bind the leader, communicate, scan `/proc`
(`List`, then one `Stat`, `Open`, `Again` per number), signal, wait, scan again.

Each of the three takes a constant `Scenario`, a set of records that say how
many processes there are and what may go wrong; `Init` picks one. One run then
covers a large tree in which nothing fails and a small one in which everything
does, and a property may speak of what its scenario allows.

## 3. What the runs check

| run | instance | properties | states | shows |
| --- | --- | --- | --- | --- |
| `collision_tracking` | 2 bodies, 3 fixtures, 3 boxes on 5 cells, bounds; `Usage = {removeOwnPair}` | `TypeOK`, `FreshIsMarked`, `NoStalePair`, `IncrementalEqualsFull`, `PairsComplete` | 2.4 M | incremental detection finds what full detection would |
| `collision_tracking_any_use` | 2 boxes; every use but `removeOwnPair` | `LeavesMatchMembership`, `ContactsAreTracked` | 1.9 M | leaves follow membership; no contact outlives its fixtures |
| `dynamic_tree` | 5 leaves, 2 boxes, one oversized case | `Consistent`, `IsBroadphase` | 210 k (symmetry) | the tree stays valid and exactly measured, and is an exact detector |
| `dynamic_tree_loops` | 4 leaves, 1 box, body queries | `Linked`, `LoopsEnd` | 16 k | climbs and searches end; body queries never damage the pointers |
| `dynamic_tree_body_box` | 4 leaves, with body queries | `IsValid` violated | | the finding below |
| `sweep_and_prune` | 3 items, 5 boxes, two items with one hash code, marks of strangers | `Consistent`, `PairsAreFound`, `IsBroadphase` | 237 k | only a tie loses an item; what full, incremental and box searches find |
| `avl_tree` | 7 keys | `TreeConsistent`, `IterationIsExact`, `OperationsEnd` | 804 k | the tree stays searchable and balanced, iterators are exact, loops end |
| `physics_world` | 3 bodies, 1 joint, 3 contacts of which 2 are solid, listeners that change anything; `Usage = {}` | `Consistent`, `ContactsTracked`, `ToldExactlyOnce`, `LosersAreAwake` | 2.1 M | lists, owners, graph and pairs agree; removals are told once and wake |
| `constraint_graph` | 4 bodies: a cycle with a tail, 3 contacts, 1 joint | `TypeOK`, `NothingTwice`, `IslandsExact`, `RestIsShared`, `SolveEnds` | 215 k | islands are disjoint, exact, rest as a whole, and are found in the end |
| `linux_observer` | 2 processes with every fault; 2 that exec twice; 3 in any order; 3 beyond the limits; 1 with a full log | `Sound`, `Consistent`, `NoSurvivor`, `OrderNeverFails`, `TerminalRowsFit`, `Terminates` | 472 k | a log a witness is derived from is the truth; nobody is left |
| `owned_snapshot` | 3 threads, 2 holds; 2 threads, 2 holds, kills, vfork, expiry; 3 threads, 1 hold, kills, expiry | `HoldIsStill`, `Consistent`, `NoSpuriousFailure`, `StopLeavesNobody`, `Ends` | 565 k | a snapshot is of a still tree whose roster is exact, but for a child not yet run of a killed parent |
| `owned_group` | 3 processes that leave; 3 with reused numbers; 2 with everything | `CompleteMeansGone`, `TouchesOwnOnly`, `Ends` | 819 k | a complete cleanup left nobody; no stranger is bound |

`Consistent` is in each module the conjunction of its type invariant and the named
parts about how its state fits together: in `DynamicAABBTree` `IsValid` and
`Measured`; in `AVLTree`, as `TreeConsistent`, `Searchable` and `Balanced`; in `SweepAndPrune`
`LostOnlyByTie`; in `PhysicsWorld` `OwnedIffListed`, `GraphMirrorsWorld`
(with `ContactsPaired`) and `RequestsKept`; in `LinuxObserver` `NoneForgotten` and `ObservedIsWellFormed`; in
`OwnedSnapshot` `RosterIsExact`, `NoneForgotten`, `ResumeFreesAll` and
`CleanStopIsComplete`. `TouchesOwnOnly` is `AcceptedUntouched` and `BindsOwn`.

Why the bounds are enough to be interesting. In `CollisionTracking` one body has
two fixtures, so a removal can hit a pair's own body, and the boxes allow every
relation the code distinguishes: disjoint, overlapping fat boxes of disjoint
fixtures, contained, oversized, outside the bounds. Five leaves let the root
of the AABB tree rotate in either direction and hand over either child; a fat
box that outlives its item's place gives both reasons of `updateNode` to
reinsert. Seven keys fill three levels of an AVL tree and are
the fewest that make four, so it rotates at the root and below it. The boxes of `SweepAndPrune`
overlap in one dimension only, touch, begin at the same x, and one is kept
larger than its item; two items can tie. In `PhysicsWorld` two of the bodies are
joined and in contact, and the third one's contact with the first is only sensed, so
removing a body destroys edges of every kind; three bodies that may all touch are
the fewest with which a removal of all fixtures can lose the rest of its list.
`MaxListed` bounds the list of bodies, which a body added again in its own removal
would lengthen. In `ConstraintGraph`
the cycle gives a body two ways onto the stack, one of its bodies can have
infinite mass and so separate islands that share it, and enabledness and
restlessness are varied on bodies at a joint and at an end (`MayBeInfinite`,
`MayBeDisabled`, `MayBeRestless` name these bounds). Three processes are the
fewest with which a report of one can come between two of another that concern
a third. Two holds let what the first leaves behind meet the second. Symmetry is
used on interchangeable fixtures and items in runs without liveness; a new node
object of the AABB tree is any one not in use, since node objects are
interchangeable.

Each property has a mutant operator in its module, a plausible bug of the code
under which TLC finds the property violated.

### Fairness

* `DynamicAABBTree`, `AVLTree`, `SweepAndPrune`, `ConstraintGraph`: weak fairness
  of the loop steps. The operations are sequential code with no waiting in it,
  so an operation that has begun is run to its end.
* `LinuxObserver`: weak fairness of the observer, which takes a report when there
  is one, and of the alarm, which the kernel delivers. `Terminates` is claimed
  only where there is a timer. Nothing is assumed of the processes observed.
* `OwnedSnapshot`: weak fairness of the kernel's traps and of the first stops of
  children, which the scheduler brings about, of the tracer, the
  controller, and the expiry of the window the controller watches. Nothing is
  assumed of the threads, nor that the cleanup gives up.
* `OwnedGroup`: weak fairness of the runner and of time. Nothing is assumed of
  the processes, which may never end of themselves.

Nothing is assumed of a program's own calls.

## 4. What is proved

Each `_proof` module proves its theorems for arbitrary values of the constants
of its component: any sets of bodies, fixtures, boxes, items, numbers and
scenarios. What is assumed of them is named in the component's module: a fat box
contains its box and lies in the plane; a constraint connects bodies, and
bodies, constraints and items are different things; hash codes are integers and a
filter is symmetric; the sign of a comparison of the tree's keys turns with its arguments
and orders the keys up to ties; a detector holds finitely many items, and there is a node
object for every inner node they can need; the launcher is a process whose image
nobody expects, and the log has room for more than its three fixed rows.

| theorem | condition |
| --- | --- |
| `CollisionTracking_proof!TypeCorrect`, `MembershipCorrect` | |
| `CollisionTracking_proof!ContactsCorrect` | no `removeOwnPair` in `Usage` |
| `CollisionTracking_proof!PairsAlwaysComplete` | no `bodyAABB` in `Usage` |
| `CollisionTracking_proof!FreshAlwaysMarked`, `NoPairGoesStale`, `IncrementalIsFull` | `Usage` at most `removeOwnPair` |
| `ConstraintGraph_proof!TypeCorrect`, `IslandsAreDisjoint`, `IslandsCover`, `RestIsCollective` | |
| `DynamicAABBTree_proof!PointersAgree` | |
| `DynamicAABBTree_proof!HeightsAndBoxesExact`, `KeepsPromise` | no body queries (`BodyAABB`; the finding below) |
| `SweepAndPrune_proof!MapAndTreeAgree`, `DetectionFindsPairs`, `KeepsPromise` | |
| `SweepAndPrune_proof!TreeStaysConsistent`, `IterationStaysExact` | |
| `PhysicsWorld_proof!TypeCorrect`, `LosersAlwaysAwake` | |
| `PhysicsWorld_proof!GraphContactsTracked`, `EverythingIsTold` | `Ordinary`: `Usage` at most `askInCallback` |
| `PhysicsWorld_proof!WorldConsistent` | `Usage` empty, as in the run |
| `LinuxObserver_proof!TypeCorrect`, `AlwaysConsistent`, `NobodySurvives`, `LastRowsFit`, `AnyOrderIsFine`, `WitnessedIsTrue` | |
| `OwnedSnapshot_proof!TypeCorrect`, `NobodyForgotten`, `ResumeFrees`, `NobodyIsLeft`, `SampledIsStill` | |
| `OwnedSnapshot_proof!NothingFailsInVain`, `RosterOfTheLiving`, `CleanStop`, `AlwaysConsistent` | the faults each property excludes |
| `OwnedGroup_proof!TypeCorrect`, `OwnIsTouched`, `CleanupIsComplete` | the exceptions each property makes for its scenario |

The arguments:

* *Pair map.* `PairsComplete` is nearly inductive: `fresh`, the leaves placed
  since the last search, is what makes it so, and a search empties it.
  `FreshIsMarked` needs that inside a pass, after the search, nothing is fresh;
  that is where additions in a callback must be excluded. `IncrementalEqualsFull`
  needs `NoStalePair` strengthened for the middle of a pass: a recorded pair that
  no longer overlaps is still to be processed, or has a marked item. An exception
  keeps the marks, so the strengthened form survives `Throw`.
* *Disjoint islands.* The invariant `Marks` says that what has a mark is in an
  island and what is in an island without a mark was static from the start;
  neither `twice` nor the marks suffice alone, since `solve` clears the marks of
  static bodies between islands.
* *Exact islands.* `Sound`: whatever is met or on the stack is reachable from a
  seed. `Complete`: an edge at a marked body is marked, and the other bodies of a
  marked edge are met or on the stack; a seed that has come to rest was met. When
  the stack and the loop are empty, what was met is closed under the edges, so it
  contains the least such set.
* *Collective rest.* `Collective`: outside the growing island, rest is shared
  along edges and no edge leads out; the growing island is awake, and nothing on
  the stack belongs to a finished one. When the stack is empty, `Complete` makes
  the island closed as well, and it is put to rest as a whole or not at all.

* *Pointers of the tree.* `Linked` is not inductive: nothing local forbids a
  second component. `Shape` adds a rank (some assignment of numbers by which
  every node lies deeper than its parent), which excludes cycles, and a count (one inner node fewer than leaves), which gives `insert`
  a node object and `removeNode` a sibling. `Standing` says it with the leaves that
  `optimize` and `remove` have taken out and with the cursor of a climb.
* *Heights and boxes.* In a climb, the nodes that may be out of date are the cursor
  and what is above it: `Above`, the least set that holds a node and is closed under
  parents. A round measures the cursor, after a rotation the node that took its
  place, and hands its parent the duty; at the root nothing is left.
* *The search of the tree.* `Searching` divides the leaves by the position of the
  walk: those before the cursor (`Before`: in the left part of an ancestor where the
  walk is in the right one) have been answered for, and on the way up those
  `Below` it as well; the others are to come.
  Skipping a subtree loses nothing, because its box contains its leaves' boxes. With
  this every step of the walk is a step of `Broadphase` or a stutter.
* *Sweep and prune.* `Precedes` is a total order up to ties. `Searched` says what the
  search so far has found: the pairs of every item taken, each with the partners after
  it that begin before it ends; what comes after the first that begins later cannot
  overlap, because the order is by the beginning first. In an incremental search
  the items taken are the marks before the place reached.
* *Balanced tree.* `TreeInv` says that some assignment `S` of subtrees is `Sound`:
  `S[n]` is the set of nodes in the subtree at `n`. With it the pointers can be reasoned about without
  recursion. `Shape`: the subtree of a node is the node and the disjoint subtrees of its
  children, parents and children agree, and what is on the left compares less. A rotation
  changes `S` at two nodes, a removal along one path. That a recursive definition along
  the pointers (`Heights`, `Minimum`, `Found`, `LeftSpine`, ...) defines a function
  at all is proved too: the size of a subtree decreases downwards, so the recursion is
  well founded (`TreeRecursion`).
* *Balance.* Between operations all differences are at most one. In a climb the invariant
  keeps heights that would be right and even everywhere if one subtree of one node were
  lower or higher by a level (`NearBy`): after a removal that subtree is one level lower than
  the heights above it take it to be (`Slack`), after an insertion it is one level higher, on
  the side the new key went to (`Grown`, `Leans`). A round measures and rotates at the cursor
  and hands what is left to its parent, or nothing is left (`Raised`). `insert` asks the new key
  which rotation to make, which is why the side is in the invariant; `remove` asks the
  balance of the taller child. A rotation puts the cursor one level lower, and the next
  round is at the node that was raised: the invariant allows for it (`Loose`).
* *Iterators.* The stack is a sequence of piles: each element stands for itself and for
  the subtree on its far side, and all of a pile comes before what lies under it. What has
  been returned and what the stack stands for are together the range and, if the
  iterator is bounded at both ends, the end of its first path. One `next` moves the top from one to
  the other.
* *Physics world.* Between operations everything agrees (`Graph`), but a removal tells
  listeners in the middle, when the victim is out of the lists and its joints are not
  released yet, and the listener may remove more. `Coherent` is `Graph` with three
  sets computed from the operation's position: the bodies the graph still has
  (`Alive`), the edges of the victim that are still to be destroyed and that its
  own node no longer has (`Gone`), and the joints released but still listed
  (`Disowned`); and with a fourth, the contacts that may be with one of their bodies only:
  what earlier removals left behind and, while all fixtures of a body are removed,
  what listeners were told of (`Stray`). `Tracked` and `Told` follow the
  same position: an edge is tracked but for the one being told of; what is still to be
  told of is still linked, or it was removed quietly. `Awake` needs nothing of
  this, only that nobody puts a body to rest inside a removal, so it holds for every
  use.
* *Linux observer.* `InLoop` holds while statuses are taken. `Strangers`: who is not
  registered has not run, and the fork it was born of is still to be handled or its
  parent was killed; with `Registry` and `Current` (what the status at hand still
  says of its process, which may have died since) this makes every branch find what
  it expects, in any order of the reports. `Told` and `Says` relate the log to the
  registry and the recorded codes: one spawn row for whom it knows, one exit row for whose code is
  recorded, each after what it rests on; `Imaged` adds that who has run has an
  image row before it exits well. They give `SealedLog` when the last process is
  reaped; a killed process may spoil the rows of others, but then its own exit is a bad one and the
  log is not sealed (`Bad`). `Places` counts the rows that are still free, phase by
  phase; `RootHeld` is why the cleanup reaches a launcher that has not stopped yet.
* *What the log says is true.* `Truth` is a second invariant beside the first.
  `Faithful`: unless it was killed, the exec rows of a process are the images it
  execed, in order, but for the one whose stop is still to be handled (`Unread`), and
  whoever is known has its spawn row with its parent. When the last known process
  is reaped, nobody unknown can have been born: its parent's fork would be
  unhandled, or its parent killed, which a complete log excludes. From there on all
  are reaped or unborn, no step of theirs is left (`AllTrue`), and the end
  row makes it what a witness is derived from.
* *Owned snapshot, in every scenario.* `Traced` is about kernel and tracer: a stopped
  thread whose stop was taken is held or waits for the acknowledgement of its birth
  (`Taken`), a thread has one parent (`Family`), and when the tracer has said that
  all are held nobody runs and no stop is unread (`Quiet`), but for a child that has not run
  and whose parent was killed in its fork (`Overlooked`): no other child is born and
  unknown, since its parent stands at the fork until the tracer has read it. A hold is sampled after
  a message has crossed the channel, so `Session` says of each message what it is
  still good for: a record of a hold covers everybody who lives as long as no
  resume is under way, and a resume is under way once in a hold, after the sample.
* *Owned snapshot, while nothing has failed.* That no record is refused needs the whole
  exchange: `Births` (who is born is acknowledged, or stands stopped beside its stopped
  parent), `Exchange` (at most one record and two commands are under way, in one of six
  orders), `Phase` (what the controller waits for is what the tracer is about to do) and
  `Rosters` (the controller's lists are the tracer's, but for the one record under way).
  They hold together only while nothing fails and nobody is killed, and every record
  they allow is acceptable; so they give way only when the command has ended.
* *Owned group.* A handle is a birth, not a number, and `Others` says that a stranger
  can be in the group only once the group's number has been given away, which has
  not happened while a scan is under way: what `scanReuse` breaks. `Covered` is the
  scan's invariant: every living member of the group is at hand, found alive in
  this scan, or its number is still to be read; a fork behind the scan (`lateFork`)
  is the one thing that breaks it.

Every invariant and action property that a passing run checks is the subject of a
theorem, but for the conditions in the table. Only model-checked are the
liveness properties, which are outside the prover's reach (and with them the second
half of `SweepAndPrune`'s `IsBroadphase`, that a search begun is answered; its
safety half is `SweepAndPrune_proof!KeepsPromise`). What a witness selects of
a true log (`Selected`, folds over its rows) is outside the proofs as well:
`WitnessedIsTrue` needs only that a witness is derived from a well-formed log.

## 5. What the models showed

### A finding

`getAABB(body)` of the adapter (`collision/broadphase/BroadphaseAdapters.kt:153-164`)
takes the box of the first fixture's leaf, which is the live object, and unions
the other fixtures' boxes into it. The leaf grows while its ancestors keep their
boxes, and `DynamicAABBTree.isValid`, which the tests assert of a used tree
(`src/dyn4k-core/src/commonTest/kotlin/org/dyn4j/coverage/collision/detection/broadphase/item/ItemBroadphaseCoverageTest.kt:364`),
no longer holds. `detect(body1, body2)` does the same through `getAABB`.
Run `dynamic_tree_body_box` shows it; `CollisionTracking` lists the query among
the uses (`bodyAABB`) that the completeness of the pair map excludes.

### Where a property needs a condition

But for the last place in this list, no document promises more, so these are no
disagreements; but the code does less than one might expect, and each is a condition in a property, a
use that is excluded, or a fault a scenario has to name.

* The iterator over a part of the AVL tree may return keys beyond its end: those
  on the path to its beginning are pushed without being compared with `to`
  (`BinarySearchTreeIterator.kt:50`). `IterationIsExact`
  allows exactly these.
* Hash codes are compared by their difference, which overflows
  (`collision/broadphase/BroadphaseCore.kt:75`); the models take `Hash` to be
  integers with an exact difference. This is also what `AVLTree` rests on: with an
  overflow the comparison of three proxies can go round in a circle, and then it does
  not order the keys as `DiffAssumption`, the contract of `Comparable`, asks.
* The incremental search of `Sap` looks only at the proxies after a marked one, so
  an overlap with an unmarked proxy before it is missed (`Sap.kt:139`), and it
  ends at the first mark of an item the detector does not hold (`Sap.kt:154`).
  `IncrementalFindsAhead` says what is left.
* A listener that removes a body of the contact it is told of leaves a node in the
  graph for a body outside the world, since the contact is added afterwards, and
  a joint with that body is then accepted (`world/ConstraintGraph.kt:61`,
  `world/AbstractPhysicsWorld.kt:226`): use `removeOwnPair`.
* Removing all bodies or joints with notification counts to a size taken at the
  start; a listener that changes the list makes the loop read past its end: use
  `changeRemoveAll`.
* Removing all fixtures of a body iterates a list that listeners can shorten by
  removing other bodies (`world/AbstractPhysicsWorld.kt:264-283`,
  `world/ConstraintGraph.kt:83-85`). The loop then ends with contacts that nobody is told
  of and whose other bodies are not woken, or fails. `ContactsPaired` names these
  contacts, `AllTold` leaves them out, and the next detection drops them or makes them
  whole. Until then, to remove a body with such a contact fails in the graph when the
  other one's node is gone (`world/ConstraintGraph.kt:84`): use `removeStranded`,
  after which neither lists nor owners are claimed to agree.
* A request for an update made by a listener of the pass is cleared when the pass
  ends: use `askInCallback`. A mark of a leaf placed by such a listener is
  cleared too, which `FreshIsMarked` excludes.
* The observer keeps two places in its log for the last rows of a failed trace.
  An alarm after the archive's row was written finds one of them used
  (`independent_linux_observer.py:340`): the exception in `TerminalRowsFit`. An alarm
  in the cleanup ends it, which leaves a launcher that has not stopped yet: the
  exception in `NoSurvivor`.
* A scan of a group reads one process after the other. A member that forks behind
  the scan and ends hides its child (`build_tracer.py:104`, `lateFork`), a process
  that ends between two reads counts as one whose identity changed (`:115`), and a
  leader's number given away within the scan binds a stranger (`:125`, `scanReuse`).
* A freeze in which a child is killed before its first stop is seen ends only by
  its window: kills come with expiry in the scenarios.
* A cleanup of the snapshot's processes that takes longer than five seconds after
  SIGTERM and five after SIGKILL gives up and says so (CLEANUP_SURVIVOR, `control.py:531`):
  `StopLeavesNobody` is about cleanups that do not.
* The tracer says HELD when `wait4` has nothing to report, every birth it has a row for is
  acknowledged and every thread it has a row for is held (`owned_snapshot.inc:508-534`,
  `strace-7.2.patch:54-58`). A parent killed from outside before its fork event was read
  leaves a child that has no row of either kind; until the scheduler has brought it to its
  first stop, `wait4` does not report it, and HELD is sent without it. So "a
  snapshot freezes every traced thread, drains births and exits, records the exact held
  roster" (`src/docs/verification/ordinary-jvm-arithmetic-diagnostic.md:70`) has this
  exception, a child that has run nothing of its own; `HoldIsStill` names it
  (`Overlooked`), and it is the only one.

## 6. Not modelled, and why

* Geometry, narrowphase, manifolds, contact and joint solvers, integration, time
  of impact: floating-point arithmetic. Their outcomes are nondeterministic
  choices where the models need them.
* Ray casts, shifts and the statistics of the tree; queries of the world that
  change nothing.
* A program that steps the world from inside a listener of the same step, a listener
  that starts a removal which notifies in turn, and listeners registered while
  listeners run.
* Continuous detection chooses among times of impact, and the contact protocol
  matches manifold identities; both are decided by floating-point values. That a
  contact exists, and that its bodies wake, is in `PhysicsWorld`.
* Fail-fast views (`WorldTrackedArrayList`): their effect, a loop that fails after
  a change, is in `CollisionTracking` and `PhysicsWorld`.
* Of the three tools: hashes and the chain over the log's rows, file identities,
  start times, packet formats, the journal, exec records of the snapshot, and the
  preparation of sources for the private build.
* The other Python tools (gates, archives, consumers, captures, diagnostics), by far
  the largest part of the Python code: most are sequential programs that run
  builds, parse and compare evidence and write records, and what they compute is
  the content of files. Some also start children with a time limit, handle
  signals or lock files (the browser and native host consumers, the sustained
  captures, the debugger bridge, the lock of the package manager); the three
  modelled are those in which several processes are followed at once, and the
  others are not modelled.
* The Kotlin facade keeps no state of its own.

## 7. Plan

In order:

1. Proofs: what `Selected` takes from a true log, as an abstract choice.
2. A contact's life (begin, persist, end, destroyed) with identities of manifold
   points as model values, as an abstract specification that the pass implements.
3. `solveTOI` with a time of impact chosen freely, and the time accumulator of
   `update`.
