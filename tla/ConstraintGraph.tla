--------------------------- MODULE ConstraintGraph ---------------------------
(***************************************************************************)
(* Islands: how a step divides the awake bodies of a dyn4k world into      *)
(* groups that are solved, and put to rest, together.                      *)
(*                                                                         *)
(* The graph has the bodies as nodes and the contact constraints and       *)
(* joints as edges.  ConstraintGraph.solve grows an island from every      *)
(* awake body it has not met yet, across edges, and stops at static        *)
(* bodies, which may belong to several islands.  Each island is then       *)
(* integrated and solved, and rests as a whole or not at all.              *)
(*                                                                         *)
(* Forces and positions are left out, and of the velocities there is only  *)
(* what isStatic reads: whether a body of infinite mass moves (is          *)
(* kinematic) or not (is static).  Whether an island has been slow for     *)
(* long enough to rest is a choice; the minimum time is positive, as by    *)
(* default.                                                                *)
(***************************************************************************)
EXTENDS Naturals

CONSTANTS
  Body,     \* the bodies of the world
  Contact,  \* the contact constraints two bodies can have
  Joint,    \* the joints
  Ends,     \* the bodies each of them connects
  None,     \* stands for no constraint
  MayBeInfinite, MayBeDisabled, MayBeRestless  \* bounds: the bodies that ever are

Constraint == Contact \cup Joint

ASSUME EndsAssumption == Ends \in [Constraint -> SUBSET Body]
ASSUME BoundsAssumption ==
  MayBeInfinite \subseteq Body /\ MayBeDisabled \subseteq Body /\ MayBeRestless \subseteq Body
ASSUME DistinctAssumption ==
  None \notin Constraint /\ Contact \cap Joint = {} /\ Body \cap Constraint = {}

VARIABLES
  static,     \* the bodies of infinite mass and no velocity
  kinematic,  \* the bodies of infinite mass that move
  enabled,    \* the enabled bodies
  restless,   \* the bodies whose at-rest detection is off
  atRest,     \* the bodies at rest
  contacts,   \* the enabled, non-sensor contact constraints of the graph
  joints,     \* the joints of the graph
  pc,         \* where solve is
  todo,       \* the nodes the loop over the graph has still to come to
  stack,      \* the pushed nodes, each with the constraint it was pushed for
  onIsland,   \* the bodies and constraints met by this solve
  staticOnIsland,  \* the static bodies met by this island
  island,     \* the bodies of this island
  anchors,    \* history: the static bodies when solve begins
  seeds,      \* history: the bodies that may seed an island when solve begins
  simulated,  \* history: what some island of this solve contains
  twice       \* history: what was added to islands more than once

bodyState == <<static, kinematic, enabled, restless, atRest>>
graph == <<contacts, joints>>
search == <<todo, stack, onIsland, staticOnIsland, island>>
history == <<anchors, seeds, simulated, twice>>
vars == <<bodyState, graph, pc, search, history>>

TypeOK ==
  /\ static \subseteq Body /\ kinematic \subseteq Body /\ enabled \subseteq Body
  /\ restless \subseteq Body /\ atRest \subseteq Body
  /\ contacts \subseteq Contact /\ joints \subseteq Joint
  /\ pc \in {"idle", "seed", "grow", "done"}
  /\ todo \subseteq Body
  /\ stack \subseteq (Constraint \cup {None}) \X Body
  /\ onIsland \subseteq Body \cup Constraint
  /\ staticOnIsland \subseteq Body /\ island \subseteq Body
  /\ anchors \subseteq Body /\ seeds \subseteq Body
  /\ simulated \subseteq Body \cup Constraint
  /\ twice \subseteq Body \cup Constraint

Init ==
  /\ static \in SUBSET MayBeInfinite /\ kinematic = {} /\ enabled = Body
  /\ restless = {} /\ atRest = {}
  /\ contacts = {} /\ joints = {}
  /\ pc = "idle"
  /\ todo = {} /\ stack = {} /\ onIsland = {} /\ staticOnIsland = {} /\ island = {}
  /\ anchors = {} /\ seeds = {} /\ simulated = {} /\ twice = {}

Idle == pc = "idle"

\* Joint.isEnabled: all its bodies are.
EnabledJoints == {j \in joints : Ends[j] \subseteq enabled}

\* The edges an island can grow along.
Active == contacts \cup EnabledJoints

-----------------------------------------------------------------------------
(***************************************************************************)
(* The program, between two solves.                                        *)
(***************************************************************************)

\* The mass becomes infinite or finite, which wakes the body.
SetMassType(b) ==
  /\ Idle
  /\ b \in MayBeInfinite
  /\ IF b \in static \cup kinematic
     THEN static' = static \ {b} /\ kinematic' = kinematic \ {b}
     ELSE \/ static' = static \cup {b} /\ UNCHANGED kinematic
          \/ kinematic' = kinematic \cup {b} /\ UNCHANGED static
  /\ atRest' = atRest \ {b}
  /\ UNCHANGED <<enabled, restless, graph, pc, search, history>>

\* A body of infinite mass gets a velocity or loses it, which does not wake it.
SetLinearVelocity(b) ==
  /\ Idle
  /\ \/ b \in static /\ static' = static \ {b} /\ kinematic' = kinematic \cup {b}
     \/ b \in kinematic /\ static' = static \cup {b} /\ kinematic' = kinematic \ {b}
  /\ UNCHANGED <<enabled, restless, atRest, graph, pc, search, history>>

\* setAtRest(true) on the bodies of a set also stops them.
PutToRest(set) ==
  /\ atRest' = atRest \cup set
  /\ static' = static \cup (kinematic \cap set)
  /\ kinematic' = kinematic \ set

SetEnabled(b) ==
  /\ Idle
  /\ b \in MayBeDisabled
  /\ IF b \in enabled
     THEN enabled' = enabled \ {b} /\ UNCHANGED atRest
     ELSE enabled' = enabled \cup {b} /\ atRest' = atRest \ {b}
  /\ UNCHANGED <<static, kinematic, restless, graph, pc, search, history>>

SetAtRest(b) ==
  /\ Idle
  /\ \/ PutToRest({b})
     \/ atRest' = atRest \ {b} /\ UNCHANGED <<static, kinematic>>
  /\ UNCHANGED <<enabled, restless, graph, pc, search, history>>

SetAtRestDetectionEnabled(b) ==
  /\ Idle
  /\ b \in MayBeRestless
  /\ IF b \in restless
     THEN restless' = restless \ {b} /\ UNCHANGED atRest
     ELSE restless' = restless \cup {b} /\ atRest' = atRest \ {b}
  /\ UNCHANGED <<static, kinematic, enabled, graph, pc, search, history>>

AddJoint(j) ==
  /\ Idle
  /\ j \in Joint \ joints
  /\ joints' = joints \cup {j}
  /\ UNCHANGED <<bodyState, contacts, pc, search, history>>

RemoveJoint(j) ==
  /\ Idle
  /\ j \in joints
  /\ joints' = joints \ {j}
  /\ atRest' = atRest \ Ends[j]
  /\ UNCHANGED <<static, kinematic, enabled, restless, contacts, pc, search, history>>

\* destroyContacts, for a fixture that is removed: its body and the bodies it
\* touched wake up.
RemoveFixture(b, gone) ==
  /\ Idle
  /\ gone \subseteq {c \in contacts : b \in Ends[c]}
  /\ contacts' = contacts \ gone
  /\ atRest' = atRest \ ({b} \cup UNION {Ends[c] : c \in gone})
  /\ UNCHANGED <<static, kinematic, enabled, restless, joints, pc, search, history>>

\* The contacts found by a detection pass are those of enabled bodies.
Detected == {c \in Contact : Ends[c] \subseteq enabled}

\* A detection pass before the step (updateRequired).
Detect ==
  /\ Idle
  /\ contacts' \in SUBSET Detected
  /\ UNCHANGED <<bodyState, joints, pc, search, history>>

-----------------------------------------------------------------------------
(***************************************************************************)
(* ConstraintGraph.solve.                                                  *)
(***************************************************************************)

BeginSolve ==
  /\ Idle
  /\ pc' = "seed"
  /\ todo' = Body
  /\ stack' = {} /\ onIsland' = {} /\ staticOnIsland' = {} /\ island' = {}
  /\ anchors' = static
  /\ seeds' = (enabled \ atRest) \ static
  /\ simulated' = {} /\ twice' = {}
  /\ UNCHANGED <<bodyState, graph>>

\* The loop passes over a node, or starts an island at it.
NextNode(b) ==
  /\ pc = "seed"
  /\ b \in todo
  /\ todo' = todo \ {b}
  /\ IF b \in onIsland \/ b \in atRest \/ b \notin enabled \/ b \in static
     THEN UNCHANGED <<pc, stack, island>>
     ELSE pc' = "grow" /\ stack' = {<<None, b>>} /\ island' = {}
  /\ UNCHANGED <<bodyState, graph, onIsland, staticOnIsland, history>>

\* Mutant: the node is looked at and not popped.
SkipPeek(node) ==
  /\ pc = "grow"
  /\ node \in stack
  /\ node[2] \in onIsland \cup staticOnIsland
  /\ UNCHANGED vars

\* A popped node that the island has met before.
Skip(node) ==
  /\ pc = "grow"
  /\ node \in stack
  /\ node[2] \in onIsland \cup staticOnIsland
  /\ stack' = stack \ {node}
  /\ UNCHANGED <<bodyState, graph, pc, todo, onIsland, staticOnIsland, island, history>>

\* Mutant: the collection is added, not its members.
JoinNested(things) ==
  /\ simulated' = simulated \cup {things}
  /\ twice' = twice \cup (things \cap simulated)
  /\ UNCHANGED <<anchors, seeds>>

\* What an island gets: the body or the constraints that join it.
Join(things) ==
  /\ simulated' = simulated \cup things
  /\ twice' = twice \cup (things \cap simulated)
  /\ UNCHANGED <<anchors, seeds>>

\* The island takes a static body in and does not grow beyond it ...
VisitStatic(node) ==
  /\ pc = "grow"
  /\ node \in stack
  /\ node[2] \in static \ (onIsland \cup staticOnIsland)
  /\ LET b == node[2]
     IN  /\ island' = island \cup {b}
         /\ atRest' = atRest \ {b}
         /\ staticOnIsland' = staticOnIsland \cup {b}
         /\ Join({b})
  /\ stack' = stack \ {node}
  /\ UNCHANGED <<static, kinematic, enabled, restless, graph, pc, todo, onIsland>>

\* Mutant: the other bodies of a joint are forgotten.
PushedByContacts(b, edges, met) ==
  {n \in (edges \cap Contact) \X Body :
     n[2] \in Ends[n[1]] \ {b} /\ n[2] \notin met \cup staticOnIsland}

\* The other bodies of b's edges that have not been met.
Pushed(b, edges, met) ==
  {n \in edges \X Body :
     n[2] \in Ends[n[1]] \ {b} /\ n[2] \notin met \cup staticOnIsland}

\* ... and takes any other body in together with its constraints, whose other
\* bodies are pushed.
Visit(node) ==
  /\ pc = "grow"
  /\ node \in stack
  /\ node[2] \notin static \cup onIsland
  /\ LET b == node[2]
         edges == {c \in Active : b \in Ends[c]} \ onIsland
         met == onIsland \cup {b} \cup edges
     IN  /\ island' = island \cup {b}
         /\ atRest' = atRest \ {b}
         /\ onIsland' = met
         /\ stack' = (stack \ {node}) \cup Pushed(b, edges, met)
         /\ Join({b} \cup edges)
  /\ UNCHANGED <<static, kinematic, enabled, restless, graph, pc, todo, staticOnIsland>>

\* Mutant: every body of an island rests or stays awake for itself.
RestApart ==
  \E calm \in SUBSET (island \ restless) : PutToRest(calm)

\* The end of Island.solve: the island rests if all its bodies have been slow
\* for the minimum time.  A static body has no say, but one without at-rest
\* detection objects.
Rest ==
  \/ UNCHANGED <<static, kinematic, atRest>>
  \/ island \cap restless = {} /\ PutToRest(island)

\* Mutant: the marks of all bodies are cleared with those of the static ones.
SolveIslandForgets ==
  /\ pc = "grow" /\ stack = {}
  /\ Rest
  /\ staticOnIsland' = {} /\ onIsland' = {}
  /\ pc' = "seed"
  /\ UNCHANGED <<enabled, restless, graph, todo, stack, island, history>>

\* The grown island is solved, and the next one is looked for.
SolveIsland ==
  /\ pc = "grow" /\ stack = {}
  /\ Rest
  /\ staticOnIsland' = {}
  /\ pc' = "seed"
  /\ UNCHANGED <<enabled, restless, graph, todo, stack, onIsland, island, history>>

EndSolve ==
  /\ pc = "seed" /\ todo = {}
  /\ pc' = "done"
  /\ UNCHANGED <<bodyState, graph, search, history>>

\* The step ends with a detection pass.
EndStep ==
  /\ pc = "done"
  /\ pc' = "idle"
  /\ contacts' \in SUBSET Detected
  /\ onIsland' = {} /\ island' = {}
  /\ anchors' = {} /\ seeds' = {} /\ simulated' = {} /\ twice' = {}
  /\ UNCHANGED <<bodyState, joints, todo, stack, staticOnIsland>>

-----------------------------------------------------------------------------
Program ==
  \/ \E b \in Body : \/ SetMassType(b) \/ SetLinearVelocity(b) \/ SetEnabled(b)
                     \/ SetAtRest(b) \/ SetAtRestDetectionEnabled(b)
  \/ \E j \in Joint : AddJoint(j) \/ RemoveJoint(j)
  \/ \E b \in Body, gone \in SUBSET Contact : RemoveFixture(b, gone)
  \/ Detect
  \/ BeginSolve

Solve ==
  \/ \E b \in todo : NextNode(b)
  \/ \E node \in stack : Skip(node) \/ VisitStatic(node) \/ Visit(node)
  \/ SolveIsland
  \/ EndSolve
  \/ EndStep

Next == Program \/ Solve

\* A step that has begun is sequential code and runs to its end.
Spec == Init /\ [][Next]_vars /\ WF_vars(Solve)

-----------------------------------------------------------------------------
(***************************************************************************)
(* Properties.                                                             *)
(***************************************************************************)

\* In one step only a body that was static when it began is integrated twice,
\* whatever islands meet at it, and no contact or joint is solved twice.
NothingTwice == twice \subseteq anchors

\* The bodies connected to a seed, where no path goes through a static body:
\* the least set that contains the seeds and is closed under the edges.
Closed(set) ==
  \A c \in Active : \A a, b \in Ends[c] : a \in set \ anchors => b \in set
Reached ==
  {b \in Body : \A set \in SUBSET Body : seeds \subseteq set /\ Closed(set) => b \in set}

\* The islands of a step cover exactly the bodies connected to an awake one,
\* and every constraint at one of those that can move: a sleeping body is
\* woken if and only if something awake is connected to it.
IslandsExact ==
  pc = "done" =>
    /\ simulated \cap Body = Reached
    /\ simulated \ Body = {c \in Active : Ends[c] \cap (Reached \ anchors) # {}}

\* Rest is collective: after the islands are solved, two connected bodies of
\* which one was simulated are both awake or both at rest, so no contact
\* holds up a sleeping body with a moving one.
RestIsShared ==
  pc = "done" =>
    \A c \in Active : \A a, b \in Ends[c] \ anchors :
      a \in simulated => b \in simulated /\ (a \in atRest <=> b \in atRest)

\* A solve that has begun ends, although constraints push a body onto the
\* stack as often as they lead to it.
SolveEnds == pc # "idle" ~> pc = "idle"
=============================================================================
