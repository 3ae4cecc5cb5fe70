------------------------ MODULE ConstraintGraph_proof ------------------------
(***************************************************************************)
(* Proofs about the islands of a step, for every set of bodies,            *)
(* constraints and bounds: they partition what moves, cover exactly what   *)
(* is connected to an awake body, and rest as a whole.                     *)
(***************************************************************************)
EXTENDS ConstraintGraph, TLAPS

\* What every step outside BeginSolve, EndStep and the search leaves alone.
Quiet == pc = "idle" /\ UNCHANGED <<pc, search, history>>

\* The steps, as the proofs below tell them apart.
LEMMA Steps ==
  ASSUME [Next]_vars
  PROVE  \/ UNCHANGED vars
         \/ Quiet
         \/ BeginSolve
         \/ \E b \in todo : NextNode(b)
         \/ \E node \in stack : Skip(node)
         \/ \E node \in stack : VisitStatic(node)
         \/ \E node \in stack : Visit(node)
         \/ SolveIsland
         \/ EndSolve
         \/ EndStep
<1>1. CASE Program
  <2>1. CASE \E b \in Body : SetMassType(b)
    BY <2>1 DEF SetMassType, Quiet, Idle
  <2>2. CASE \E b \in Body : SetLinearVelocity(b)
    BY <2>2 DEF SetLinearVelocity, Quiet, Idle
  <2>3. CASE \E b \in Body : SetEnabled(b)
    BY <2>3 DEF SetEnabled, Quiet, Idle
  <2>4. CASE \E b \in Body : SetAtRest(b)
    BY <2>4 DEF SetAtRest, Quiet, Idle
  <2>5. CASE \E b \in Body : SetAtRestDetectionEnabled(b)
    BY <2>5 DEF SetAtRestDetectionEnabled, Quiet, Idle
  <2>6. CASE \E j \in Joint : AddJoint(j) \/ RemoveJoint(j)
    BY <2>6 DEF AddJoint, RemoveJoint, Quiet, Idle
  <2>7. CASE \E b \in Body, gone \in SUBSET Contact : RemoveFixture(b, gone)
    BY <2>7 DEF RemoveFixture, Quiet, Idle
  <2>8. CASE Detect
    BY <2>8 DEF Detect, Quiet, Idle
  <2>9. CASE BeginSolve
    BY <2>9
  <2> QED
    BY <1>1, <2>1, <2>2, <2>3, <2>4, <2>5, <2>6, <2>7, <2>8, <2>9 DEF Program
<1>2. CASE Solve
  BY <1>2 DEF Solve
<1> QED
  BY <1>1, <1>2 DEF Next

-----------------------------------------------------------------------------
(***************************************************************************)
(* Types.                                                                  *)
(***************************************************************************)

LEMMA EdgesType ==
  ASSUME TypeOK
  PROVE  /\ Active \subseteq Constraint
         /\ \A c \in Active : Ends[c] \subseteq Body
BY EndsAssumption DEF TypeOK, Active, EnabledJoints, Constraint

LEMMA TypeStep ==
  ASSUME TypeOK, [Next]_vars
  PROVE  TypeOK'
<1> USE DEF TypeOK
<1>1. CASE Program
  <2>1. CASE \E b \in Body : SetMassType(b)
    BY <2>1 DEF SetMassType, Idle, search, history, graph
  <2>2. CASE \E b \in Body : SetLinearVelocity(b)
    BY <2>2 DEF SetLinearVelocity, Idle, search, history, graph
  <2>3. CASE \E b \in Body : SetEnabled(b)
    BY <2>3 DEF SetEnabled, Idle, search, history, graph
  <2>4. CASE \E b \in Body : SetAtRest(b)
    BY <2>4 DEF SetAtRest, PutToRest, Idle, search, history, graph
  <2>5. CASE \E b \in Body : SetAtRestDetectionEnabled(b)
    BY <2>5 DEF SetAtRestDetectionEnabled, Idle, search, history, graph
  <2>6. CASE \E j \in Joint : AddJoint(j)
    BY <2>6 DEF AddJoint, Idle, search, history, bodyState
  <2>7. CASE \E j \in Joint : RemoveJoint(j)
    BY <2>7 DEF RemoveJoint, Idle, search, history
  <2>8. CASE \E b \in Body, gone \in SUBSET Contact : RemoveFixture(b, gone)
    BY <2>8 DEF RemoveFixture, Idle, search, history
  <2>9. CASE Detect
    BY <2>9 DEF Detect, Detected, Idle, search, history, bodyState
  <2>10. CASE BeginSolve
    BY <2>10 DEF BeginSolve, Idle, bodyState, graph
  <2> QED
    BY <1>1, <2>1, <2>2, <2>3, <2>4, <2>5, <2>6, <2>7, <2>8, <2>9, <2>10 DEF Program
<1>2. CASE Solve
  <2>1. CASE \E b \in todo : NextNode(b)
    BY <2>1 DEF NextNode, bodyState, graph, history
  <2>2. CASE \E node \in stack : Skip(node)
    BY <2>2 DEF Skip, bodyState, graph, history
  <2>3. CASE \E node \in stack : VisitStatic(node)
    BY <2>3 DEF VisitStatic, Join, graph
  <2>4. CASE \E node \in stack : Visit(node)
    <3> PICK node \in stack : Visit(node)
      BY <2>4
    <3> DEFINE b == node[2]
               edges == {c \in Active : b \in Ends[c]} \ onIsland
    <3>1. b \in Body /\ edges \subseteq Constraint
      BY EdgesType
    <3>2. Pushed(b, edges, onIsland \cup {b} \cup edges) \subseteq (Constraint \cup {None}) \X Body
      BY <3>1 DEF Pushed
    <3> HIDE DEF edges
    <3> QED
      BY <3>1, <3>2 DEF Visit, Join, graph, edges
  <2>5. CASE SolveIsland
    BY <2>5 DEF SolveIsland, Rest, PutToRest, graph, history
  <2>6. CASE EndSolve
    BY <2>6 DEF EndSolve, bodyState, graph, search, history
  <2>7. CASE EndStep
    BY <2>7 DEF EndStep, Detected, bodyState
  <2> QED
    BY <1>2, <2>1, <2>2, <2>3, <2>4, <2>5, <2>6, <2>7 DEF Solve
<1>3. CASE UNCHANGED vars
  BY <1>3 DEF vars, bodyState, graph, search, history
<1> QED
  BY <1>1, <1>2, <1>3 DEF Next

LEMMA TypeInit == Init => TypeOK
BY BoundsAssumption DEF Init, TypeOK

\* Every variable keeps its type, in worlds of any size.
THEOREM TypeCorrect == Spec => []TypeOK
<1>1. TypeOK /\ [Next]_vars => TypeOK'
  BY TypeStep
<1> QED
  BY TypeInit, <1>1, PTL DEF Spec

-----------------------------------------------------------------------------
(***************************************************************************)
(* What the marks of the search mean.                                      *)
(***************************************************************************)

\* A mark on a body or constraint says that an island has it; only the bodies
\* static from the start are in islands without one.
Marks ==
  pc # "idle" =>
    /\ onIsland \subseteq simulated /\ onIsland \cap anchors = {}
    /\ simulated \subseteq onIsland \cup anchors
    /\ anchors \subseteq static /\ static \subseteq onIsland \cup anchors
    /\ staticOnIsland \subseteq simulated
    /\ island \subseteq simulated
    /\ seeds \subseteq enabled \ anchors
    /\ twice \subseteq anchors
    /\ pc # "grow" => stack = {}
    /\ pc = "done" => todo = {}

LEMMA MarksStep ==
  ASSUME TypeOK, Marks, [Next]_vars
  PROVE  Marks'
<1> USE DEF Marks
<1>1. CASE UNCHANGED vars
  BY <1>1 DEF vars, bodyState, graph, search, history
<1>2. CASE Quiet
  BY <1>2 DEF Quiet
<1>3. CASE BeginSolve
  BY <1>3 DEF BeginSolve, TypeOK, bodyState
<1>4. CASE \E b \in todo : NextNode(b)
  BY <1>4 DEF NextNode, bodyState, history
<1>5. CASE \E node \in stack : Skip(node)
  BY <1>5 DEF Skip, bodyState, history
<1>6. CASE \E node \in stack : VisitStatic(node)
  BY <1>6 DEF VisitStatic, Join
<1>7. CASE \E node \in stack : Visit(node)
  <2> PICK node \in stack : Visit(node)
    BY <1>7
  <2> DEFINE b == node[2]
             edges == {c \in Active : b \in Ends[c]} \ onIsland
  <2>1. b \in Body /\ edges \cap anchors = {}
    BY EdgesType, DistinctAssumption DEF TypeOK
  <2>2. edges \cap onIsland = {}
    OBVIOUS
  <2> HIDE DEF edges
  <2> QED
    BY <2>1, <2>2 DEF Visit, Join, edges
<1>8. CASE SolveIsland
  BY <1>8 DEF SolveIsland, Rest, PutToRest, history
<1>9. CASE EndSolve
  BY <1>9 DEF EndSolve, bodyState, search, history
<1>10. CASE EndStep
  BY <1>10 DEF EndStep
<1> QED
  BY Steps, <1>1, <1>2, <1>3, <1>4, <1>5, <1>6, <1>7, <1>8, <1>9, <1>10

\* What is in two islands, or twice in one, was static when the step began
\* (ConstraintGraph.solve).
THEOREM IslandsAreDisjoint == Spec => []NothingTwice
<1> DEFINE I == /\ TypeOK /\ Marks
                /\ pc = "idle" => twice = {}
<1>1. Init => I
  BY TypeInit DEF Init, Marks
<1>2. I /\ [Next]_vars => I'
  <2> SUFFICES ASSUME I, [Next]_vars PROVE (pc = "idle" => twice = {})'
    BY TypeStep, MarksStep
  <2>1. CASE UNCHANGED vars
    BY <2>1 DEF vars, history
  <2>2. CASE Quiet
    BY <2>2 DEF Quiet, history
  <2>3. CASE EndStep
    BY <2>3 DEF EndStep
  <2>4. CASE BeginSolve \/ SolveIsland \/ EndSolve \/ \E b \in todo : NextNode(b)
    BY <2>4 DEF BeginSolve, SolveIsland, EndSolve, NextNode, history
  <2>5. CASE \E node \in stack : Skip(node) \/ VisitStatic(node) \/ Visit(node)
    BY <2>5 DEF Skip, VisitStatic, Visit
  <2> QED
    BY Steps, <2>1, <2>2, <2>3, <2>4, <2>5
<1>3. I => NothingTwice
  BY DEF Marks, NothingTwice
<1> QED
  BY <1>1, <1>2, <1>3, PTL DEF Spec

-----------------------------------------------------------------------------
(***************************************************************************)
(* What the islands of a step cover.                                       *)
(***************************************************************************)

OnStack(b) == \E n \in stack : n[2] = b

\* Nothing but what a seed leads to is met ...
Sound ==
  pc # "idle" =>
    /\ simulated \cap Body \subseteq Reached
    /\ \A b : OnStack(b) => b \in Reached
    /\ \A c \in onIsland \cap Constraint : c \in Active /\ Ends[c] \cap onIsland # {}

\* ... and all of it is, or waits on the stack.
Complete ==
  pc # "idle" =>
    /\ \A c \in Active : Ends[c] \cap onIsland # {} => c \in onIsland
    /\ \A c \in onIsland \cap Constraint : \A b \in Ends[c] : b \in simulated \/ OnStack(b)
    /\ \A b \in seeds : b \in todo \/ b \in simulated \/ OnStack(b)
    /\ seeds \cap atRest \subseteq simulated
    /\ (enabled \ atRest) \ static \subseteq seeds \cup onIsland

LEMMA ReachedStable ==
  ASSUME UNCHANGED <<enabled, contacts, joints, anchors, seeds>>
  PROVE  Active' = Active /\ Reached' = Reached
BY DEF Active, EnabledJoints, Reached, Closed

LEMMA ReachedFixpoint ==
  ASSUME TypeOK
  PROVE  seeds \subseteq Reached /\ Closed(Reached)
<1>1. seeds \subseteq Reached
  BY DEF TypeOK, Reached
<1>2. ASSUME NEW c \in Active, NEW a \in Ends[c], NEW b \in Ends[c], a \in Reached \ anchors
      PROVE  b \in Reached
  <2>1. b \in Body
    BY EdgesType
  <2>2. ASSUME NEW set \in SUBSET Body, seeds \subseteq set, Closed(set)
        PROVE  b \in set
    <3>1. a \in set \ anchors
      BY <1>2, <2>2 DEF Reached
    <3> QED
      BY <1>2, <2>2, <3>1 DEF Closed
  <2> QED
    BY <2>1, <2>2 DEF Reached
<1> QED
  BY <1>1, <1>2 DEF Closed

LEMMA ReachedLeast ==
  ASSUME NEW set \in SUBSET Body, seeds \subseteq set, Closed(set)
  PROVE  Reached \subseteq set
BY DEF Reached

\* A step of the search leaves the graph as it is.
LEMMA SearchStable ==
  ASSUME \/ UNCHANGED vars
         \/ \E b \in todo : NextNode(b)
         \/ \E node \in stack : Skip(node) \/ VisitStatic(node) \/ Visit(node)
         \/ SolveIsland
         \/ EndSolve
  PROVE  Active' = Active /\ Reached' = Reached
<1>1. UNCHANGED <<enabled, contacts, joints, anchors, seeds>>
  BY DEF vars, NextNode, Skip, VisitStatic, Visit, Join, SolveIsland, EndSolve,
         bodyState, graph, history
<1> QED
  BY <1>1, ReachedStable

LEMMA SoundStep ==
  ASSUME TypeOK, Marks, Sound, Complete, [Next]_vars
  PROVE  Sound'
<1> USE DEF Sound
<1>1. CASE UNCHANGED vars
  BY <1>1, SearchStable DEF vars, search, history, OnStack
<1>2. CASE Quiet
  BY <1>2 DEF Quiet
<1>3. CASE BeginSolve
  BY <1>3 DEF BeginSolve, OnStack
<1>4. CASE \E b \in todo : NextNode(b)
  <2> PICK b \in todo : NextNode(b)
    BY <1>4
  <2>1. Active' = Active /\ Reached' = Reached /\ simulated' = simulated /\ onIsland' = onIsland
    BY SearchStable DEF NextNode, history
  <2>2. ASSUME stack' = {<<None, b>>}, b \in (enabled \ atRest) \ static, b \notin onIsland
        PROVE  \A x : OnStack(x)' => x \in Reached
    <3>1. b \in Reached
      BY <2>2, ReachedFixpoint DEF Complete, NextNode, TypeOK
    <3> QED
      BY <2>2, <3>1 DEF OnStack
  <2>3. \A x : OnStack(x)' => x \in Reached
    BY <2>2 DEF NextNode, OnStack, TypeOK
  <2> QED
    BY <2>1, <2>3 DEF NextNode
<1>5. CASE \E node \in stack : Skip(node)
  BY <1>5, SearchStable DEF Skip, history, OnStack
<1>6. CASE \E node \in stack : VisitStatic(node)
  BY <1>6, SearchStable DEF VisitStatic, Join, OnStack
<1>7. CASE \E node \in stack : Visit(node)
  <2> PICK node \in stack : Visit(node)
    BY <1>7
  <2> DEFINE b == node[2]
             edges == {c \in Active : b \in Ends[c]} \ onIsland
             met == onIsland \cup {b} \cup edges
  <2>1. Active' = Active /\ Reached' = Reached
    BY SearchStable
  <2>2. pc # "idle" /\ b \in Reached /\ b \notin anchors
    BY DEF Visit, OnStack, Marks
  <2>3. edges \cap Body = {} /\ b \in Body /\ b \notin Constraint
    BY EdgesType, DistinctAssumption DEF TypeOK
  <2>4. onIsland' = met /\ simulated' = simulated \cup {b} \cup edges
    BY DEF Visit, Join
  <2>5. ASSUME NEW x, OnStack(x)' PROVE x \in Reached
    <3>1. stack' = (stack \ {node}) \cup Pushed(b, edges, met)
      BY DEF Visit
    <3>2. CASE OnStack(x)
      BY <3>2, <2>2
    <3>3. CASE \E n \in Pushed(b, edges, met) : n[2] = x
      <4> PICK c \in edges : x \in Ends[c]
        BY <3>3 DEF Pushed
      <4> QED
        BY <2>2, ReachedFixpoint DEF Closed
    <3> HIDE DEF edges, met
    <3> QED
      BY <2>5, <3>1, <3>2, <3>3 DEF OnStack
  <2>6. ASSUME NEW c \in met \cap Constraint
        PROVE  c \in Active /\ Ends[c] \cap met # {}
    BY <2>2, <2>3
  <2> HIDE DEF edges, met
  <2> QED
    BY <2>1, <2>2, <2>3, <2>4, <2>5, <2>6
<1>8. CASE SolveIsland
  BY <1>8, SearchStable DEF SolveIsland, history, OnStack
<1>9. CASE EndSolve
  BY <1>9, SearchStable DEF EndSolve, search, history, OnStack
<1>10. CASE EndStep
  BY <1>10 DEF EndStep
<1> QED
  BY Steps, <1>1, <1>2, <1>3, <1>4, <1>5, <1>6, <1>7, <1>8, <1>9, <1>10

LEMMA CompleteStep ==
  ASSUME TypeOK, Marks, Complete, [Next]_vars
  PROVE  Complete'
<1> USE DEF Complete
<1>1. CASE UNCHANGED vars
  BY <1>1, SearchStable DEF vars, bodyState, search, history, OnStack
<1>2. CASE Quiet
  BY <1>2 DEF Quiet
<1>3. CASE BeginSolve
  BY <1>3 DEF BeginSolve, OnStack, TypeOK, bodyState
<1>4. CASE \E b \in todo : NextNode(b)
  <2> PICK b \in todo : NextNode(b)
    BY <1>4
  <2>1. /\ Active' = Active /\ UNCHANGED <<bodyState, onIsland, seeds, simulated>>
        /\ stack = {} /\ pc = "seed" /\ todo' = todo \ {b}
    BY SearchStable DEF NextNode, history, Marks
  <2>2. ASSUME NEW s \in seeds PROVE s \in todo' \/ s \in simulated \/ OnStack(s)'
    <3>1. CASE s = b
      <4>1. CASE stack' = {<<None, b>>}
        BY <3>1, <4>1 DEF OnStack
      <4>2. CASE b \in onIsland \/ b \in atRest \/ b \notin enabled \/ b \in static
        BY <2>1, <3>1, <4>2 DEF Marks
      <4> QED
        BY <4>1, <4>2 DEF NextNode
    <3>2. CASE s # b
      BY <2>1, <3>2 DEF OnStack
    <3> QED
      BY <3>1, <3>2
  <2>3. \A c \in onIsland \cap Constraint : \A x \in Ends[c] : x \in simulated
    BY <2>1 DEF OnStack
  <2> QED
    BY <2>1, <2>2, <2>3 DEF bodyState
<1>5. CASE \E node \in stack : Skip(node)
  <2> PICK node \in stack : Skip(node)
    BY <1>5
  <2>1. Active' = Active /\ UNCHANGED <<bodyState, todo, onIsland, seeds, simulated>> /\ pc # "idle"
    BY SearchStable DEF Skip, history
  <2>2. ASSUME NEW x, OnStack(x) PROVE x \in simulated \/ OnStack(x)'
    BY <2>2 DEF Skip, OnStack, Marks
  <2> QED
    BY <2>1, <2>2 DEF bodyState
<1>6. CASE \E node \in stack : VisitStatic(node)
  <2> PICK node \in stack : VisitStatic(node)
    BY <1>6
  <2>1. /\ Active' = Active /\ UNCHANGED <<enabled, static, todo, onIsland, seeds>> /\ pc # "idle"
        /\ simulated' = simulated \cup {node[2]} /\ atRest' = atRest \ {node[2]}
        /\ node[2] \in static
    BY SearchStable DEF VisitStatic, Join
  <2>2. ASSUME NEW x, OnStack(x) PROVE x \in simulated' \/ OnStack(x)'
    BY <2>2, <2>1 DEF VisitStatic, OnStack
  <2> QED
    BY <2>1, <2>2
<1>7. CASE \E node \in stack : Visit(node)
  <2> PICK node \in stack : Visit(node)
    BY <1>7
  <2> DEFINE b == node[2]
             edges == {c \in Active : b \in Ends[c]} \ onIsland
             met == onIsland \cup {b} \cup edges
  <2>1. Active' = Active
    BY SearchStable
  <2>2. /\ UNCHANGED <<enabled, static, todo, seeds>> /\ pc # "idle"
        /\ atRest' = atRest \ {b}
        /\ onIsland' = met /\ simulated' = simulated \cup {b} \cup edges
        /\ stack' = (stack \ {node}) \cup Pushed(b, edges, met)
    BY DEF Visit, Join
  <2>3. edges \cap Body = {} /\ b \in Body /\ b \notin Constraint /\ edges \subseteq Constraint
    BY EdgesType, DistinctAssumption DEF TypeOK
  <2>4. ASSUME NEW x, OnStack(x) PROVE x \in simulated' \/ OnStack(x)'
    BY <2>2, <2>4 DEF OnStack
  <2>5. ASSUME NEW c \in edges, NEW x \in Ends[c]
        PROVE  x \in simulated' \/ OnStack(x)'
    <3>1. x \in Body
      BY EdgesType
    <3>2. CASE x \in met \cup staticOnIsland
      BY <2>2, <3>2 DEF Marks
    <3>3. CASE x \notin met \cup staticOnIsland
      <4>1. <<c, x>> \in Pushed(b, edges, met)
        BY <3>1, <3>3 DEF Pushed
      <4> HIDE DEF edges, met
      <4> QED
        BY <2>2, <4>1 DEF OnStack
    <3> QED
      BY <3>2, <3>3
  <2>6. ASSUME NEW c \in Active, Ends[c] \cap met # {}
        PROVE  c \in met
    <3>1. Ends[c] \cap edges = {}
      BY EdgesType, <2>3
    <3> QED
      BY <2>2, <2>6, <3>1
  <2>7. ASSUME NEW c \in met \cap Constraint, NEW x \in Ends[c]
        PROVE  x \in simulated' \/ OnStack(x)'
    <3>1. CASE c \in onIsland
      BY <2>2, <2>4, <3>1
    <3>2. CASE c \in edges
      BY <2>5, <3>2
    <3> QED
      BY <2>3, <3>1, <3>2
  <2> HIDE DEF edges, met
  <2>8. /\ \A s \in seeds : s \in todo' \/ s \in simulated' \/ OnStack(s)'
        /\ seeds \cap atRest' \subseteq simulated'
    BY <2>2, <2>4
  <2>9. (enabled \ atRest') \ static \subseteq seeds \cup met
    BY <2>2 DEF met
  <2> QED
    BY <2>1, <2>2, <2>6, <2>7, <2>8, <2>9
<1>8. CASE SolveIsland
  <2>1. /\ Active' = Active /\ UNCHANGED <<enabled, todo, onIsland, stack, seeds, simulated>>
        /\ pc # "idle"
        /\ atRest \subseteq atRest' /\ atRest' \subseteq atRest \cup island
        /\ static \subseteq static'
    BY <1>8, SearchStable DEF SolveIsland, Rest, PutToRest, history
  <2> QED
    BY <2>1 DEF Marks, OnStack
<1>9. CASE EndSolve
  BY <1>9, SearchStable DEF EndSolve, bodyState, search, history, OnStack
<1>10. CASE EndStep
  BY <1>10 DEF EndStep
<1> QED
  BY Steps, <1>1, <1>2, <1>3, <1>4, <1>5, <1>6, <1>7, <1>8, <1>9, <1>10

LEMMA CoverInit == Init => TypeOK /\ Marks /\ Sound /\ Complete
BY TypeInit DEF Init, Marks, Sound, Complete

\* When the search is over, nothing waits: what is met is closed under the
\* edges, hence all of Reached.
LEMMA CoverExact ==
  ASSUME TypeOK, Marks, Sound, Complete
  PROVE  IslandsExact
<1> SUFFICES ASSUME pc = "done"
    PROVE  /\ simulated \cap Body = Reached
           /\ simulated \ Body = {c \in Active : Ends[c] \cap (Reached \ anchors) # {}}
  BY DEF IslandsExact
<1>1. \A b : ~ OnStack(b)
  BY DEF Marks, OnStack
<1>2. simulated \cap Body = Reached
  <2>1. seeds \subseteq simulated \cap Body
    BY <1>1 DEF Complete, Marks, TypeOK
  <2>2. Closed(simulated \cap Body)
    <3> SUFFICES ASSUME NEW c \in Active, NEW a \in Ends[c], NEW b \in Ends[c],
                        a \in simulated \ anchors
                 PROVE  b \in simulated \cap Body
      BY DEF Closed
    <3>1. a \in onIsland
      BY DEF Marks
    <3>2. c \in onIsland \cap Constraint
      BY <3>1, EdgesType DEF Complete
    <3> QED
      BY <3>2, <1>1, EdgesType DEF Complete
  <2>3. Reached \subseteq simulated \cap Body
    BY <2>1, <2>2, ReachedLeast
  <2> QED
    BY <2>3 DEF Sound
<1>3. Reached \ anchors = onIsland \cap Body
  BY <1>2 DEF Marks
<1>4. simulated \ Body = onIsland \cap Constraint
  BY DistinctAssumption DEF Marks, TypeOK
<1>5. ASSUME NEW c \in Active
      PROVE  c \in onIsland <=> Ends[c] \cap (Reached \ anchors) # {}
  BY <1>3, EdgesType DEF Complete, Sound
<1> QED
  BY <1>2, <1>4, <1>5, EdgesType DEF Sound

\* The islands of a step cover what is connected to an awake body, and
\* nothing else (ConstraintGraph.solve).
THEOREM IslandsCover == Spec => []IslandsExact
<1> DEFINE I == TypeOK /\ Marks /\ Sound /\ Complete
<1>1. I /\ [Next]_vars => I'
  BY TypeStep, MarksStep, SoundStep, CompleteStep
<1>2. I => IslandsExact
  BY CoverExact
<1> QED
  BY CoverInit, <1>1, <1>2, PTL DEF Spec

-----------------------------------------------------------------------------
(***************************************************************************)
(* Rest.                                                                   *)
(***************************************************************************)

\* Among the bodies of the set, rest is shared and connected bodies are
\* together in the set.
SharedIn(set) ==
  \A c \in Active : \A a, b \in Ends[c] \ anchors :
    a \in set => b \in set /\ (a \in atRest <=> b \in atRest)

\* Finished islands share their rest; the growing one is awake and has no
\* edge to a finished one.
Collective ==
  /\ pc \in {"seed", "done"} => SharedIn(onIsland)
  /\ pc = "grow" => /\ SharedIn(onIsland \ island)
                    /\ island \cap atRest = {}
                    /\ \A b \in onIsland \ island : ~ OnStack(b)

LEMMA CollectiveStep ==
  ASSUME TypeOK, Marks, Complete, Collective, [Next]_vars
  PROVE  Collective'
<1> USE DEF Collective
<1>1. CASE UNCHANGED vars
  BY <1>1, SearchStable DEF vars, bodyState, search, history, OnStack, SharedIn
<1>2. CASE Quiet
  BY <1>2 DEF Quiet
<1>3. CASE BeginSolve
  BY <1>3 DEF BeginSolve, SharedIn
<1>4. CASE \E b \in todo : NextNode(b)
  <2> PICK b \in todo : NextNode(b)
    BY <1>4
  <2>1. pc = "seed" /\ SharedIn(onIsland) /\ UNCHANGED <<atRest, onIsland, anchors>> /\ Active' = Active
    BY SearchStable DEF NextNode, bodyState, history
  <2>2. SharedIn(onIsland)'
    BY <2>1 DEF SharedIn
  <2>3. CASE pc' = "seed"
    BY <2>2, <2>3
  <2>4. CASE pc' = "grow" /\ stack' = {<<None, b>>} /\ island' = {} /\ b \notin onIsland
    <3>1. SharedIn(onIsland \ island)'
      BY <2>2, <2>4 DEF SharedIn
    <3> QED
      BY <2>1, <2>4, <3>1 DEF OnStack
  <2> QED
    BY <2>1, <2>3, <2>4 DEF NextNode
<1>5. CASE \E node \in stack : Skip(node)
  BY <1>5, SearchStable DEF Skip, bodyState, history, OnStack, SharedIn
<1>6. CASE \E node \in stack : VisitStatic(node)
  <2> PICK node \in stack : VisitStatic(node)
    BY <1>6
  <2>1. /\ Active' = Active /\ UNCHANGED <<pc, onIsland, anchors>> /\ pc = "grow"
        /\ atRest' = atRest \ {node[2]} /\ island' = island \cup {node[2]}
        /\ node[2] \notin onIsland
    BY SearchStable DEF VisitStatic, Join
  <2>2. onIsland' \ island' = onIsland \ island
    BY <2>1
  <2>3. SharedIn(onIsland \ island)'
    BY <2>1, <2>2 DEF SharedIn
  <2>4. \A b \in onIsland \ island : ~ OnStack(b)'
    BY <2>1 DEF VisitStatic, OnStack
  <2> QED
    BY <2>1, <2>2, <2>3, <2>4
<1>7. CASE \E node \in stack : Visit(node)
  <2> PICK node \in stack : Visit(node)
    BY <1>7
  <2> DEFINE b == node[2]
             edges == {c \in Active : b \in Ends[c]} \ onIsland
             met == onIsland \cup {b} \cup edges
  <2>1. /\ pc = "grow" /\ UNCHANGED <<pc, anchors>>
        /\ atRest' = atRest \ {b} /\ island' = island \cup {b}
        /\ onIsland' = met
        /\ stack' = (stack \ {node}) \cup Pushed(b, edges, met)
        /\ b \notin onIsland
    BY DEF Visit, Join
  <2>2. Active' = Active
    BY SearchStable
  <2>3. edges \cap Body = {} /\ edges \subseteq Constraint
    BY EdgesType, DistinctAssumption
  <2>4. ASSUME NEW x, x \notin Constraint
        PROVE  x \in (onIsland \ island)' <=> x \in onIsland \ island
    BY <2>1, <2>3, <2>4
  <2>5. SharedIn(onIsland \ island)'
    <3> SUFFICES ASSUME NEW c \in Active, NEW x \in Ends[c] \ anchors, NEW y \in Ends[c] \ anchors,
                        x \in (onIsland \ island)'
                 PROVE  y \in (onIsland \ island)' /\ (x \in atRest' <=> y \in atRest')
      BY <2>1, <2>2 DEF SharedIn
    <3>1. x \notin Constraint /\ y \notin Constraint
      BY EdgesType, DistinctAssumption
    <3>2. x \in onIsland \ island
      BY <2>4, <3>1
    <3>3. y \in onIsland \ island /\ (x \in atRest <=> y \in atRest)
      BY <2>1, <3>2 DEF SharedIn
    <3>4. y \in (onIsland \ island)'
      BY <2>4, <3>1, <3>3
    <3> QED
      BY <2>1, <3>2, <3>3, <3>4
  <2>6. ASSUME NEW x \in (onIsland \ island)', OnStack(x)'
        PROVE  FALSE
    <3>1. ~ \E n \in Pushed(b, edges, met) : n[2] = x
      BY <2>1, <2>6 DEF Pushed
    <3>2. OnStack(x) /\ x \in Body
      <4> HIDE DEF edges, met
      <4> QED
        BY <2>1, <2>6, <3>1 DEF OnStack, TypeOK
    <3> QED
      BY <2>1, <2>4, <2>6, <3>2, DistinctAssumption
  <2> HIDE DEF edges, met
  <2> QED
    BY <2>1, <2>5, <2>6
<1>8. CASE SolveIsland
  <2>1. /\ pc = "grow" /\ stack = {} /\ pc' = "seed" /\ UNCHANGED <<onIsland, anchors>>
        /\ Active' = Active
        /\ atRest' = atRest \/ atRest' = atRest \cup island
    BY <1>8, SearchStable DEF SolveIsland, Rest, PutToRest, history
  <2>2. ASSUME NEW c \in Active, NEW a \in Ends[c] \ anchors, NEW b \in Ends[c] \ anchors,
               a \in onIsland
        PROVE  b \in onIsland /\ (a \in atRest' <=> b \in atRest')
    <3>1. CASE a \notin island
      BY <2>1, <2>2, <3>1 DEF SharedIn
    <3>2. CASE a \in island
      <4>1. c \in onIsland \cap Constraint
        BY <2>1, <2>2, EdgesType DEF Complete
      <4>2. b \in onIsland
        BY <2>1, <4>1 DEF Complete, OnStack, Marks
      <4>3. b \in island
        BY <2>1, <3>2, <4>2 DEF SharedIn
      <4> QED
        BY <2>1, <3>2, <4>2, <4>3
    <3> QED
      BY <3>1, <3>2
  <2> QED
    BY <2>1, <2>2 DEF SharedIn
<1>9. CASE EndSolve
  BY <1>9, SearchStable DEF EndSolve, bodyState, search, history, SharedIn
<1>10. CASE EndStep
  BY <1>10 DEF EndStep
<1> QED
  BY Steps, <1>1, <1>2, <1>3, <1>4, <1>5, <1>6, <1>7, <1>8, <1>9, <1>10

\* Connected bodies are put to rest together or not at all (Island.solve).
THEOREM RestIsCollective == Spec => []RestIsShared
<1> DEFINE I == TypeOK /\ Marks /\ Complete /\ Collective
<1>1. Init => I
  BY CoverInit DEF Init, Collective
<1>2. I /\ [Next]_vars => I'
  BY TypeStep, MarksStep, CompleteStep, CollectiveStep
<1>3. I => RestIsShared
  <2> SUFFICES ASSUME I, pc = "done", NEW c \in Active,
                      NEW a \in Ends[c] \ anchors, NEW b \in Ends[c] \ anchors, a \in simulated
               PROVE  b \in simulated /\ (a \in atRest <=> b \in atRest)
    BY DEF RestIsShared
  <2>1. a \in onIsland
    BY DEF Marks
  <2> QED
    BY <2>1 DEF Collective, SharedIn, Marks
<1> QED
  BY <1>1, <1>2, <1>3, PTL DEF Spec
=============================================================================
