--------------------------- MODULE OwnedGroup_proof ---------------------------
(***************************************************************************)
(* Proofs about the cleanup of a process group, for every number of        *)
(* processes, births and faults.                                           *)
(***************************************************************************)
EXTENDS OwnedGroup, TLAPS

-----------------------------------------------------------------------------
(***************************************************************************)
(* What the steps do.                                                      *)
(***************************************************************************)

\* The numbers of bound processes that are still there.
Targets == {h[1] : h \in {k \in handles : ~Exited(k)}}

LEMMA GivenUpDoes ==
  ASSUME TypeOK, GivenUp
  PROVE  /\ pc' \in {"scan", "streams"} /\ phase' \in {phase, "kill"}
         /\ due' \in {due, FALSE}
         /\ \/ proc' = proc /\ signalled' = signalled /\ phase = "kill" /\ pc' = "streams"
            \/ proc' = Killed(Targets) /\ signalled' = TRUE /\ phase' = "kill"
                 /\ (phase = "term" \/ timedOut) /\ pc' = "scan"
            \/ proc' = Killed(Targets) /\ signalled' = TRUE /\ phase = "first"
                 /\ phase' = phase /\ pc' = "streams"
BY DEF TypeOK, GivenUp, Kill, WaitFor, Targets

\* How a scan ends early: it is begun again, or the group is given up.
Retreat ==
  /\ error' \in {error, TRUE}
  /\ Rescan \/ GivenUp

LEMMA Retreats ==
  /\ Uncertain => Retreat
  /\ Changed => Retreat
BY DEF Uncertain, Changed, Retreat, Rescan

\* The runner changes a process only by killing who is bound and by reaping
\* the leader.
LEMMA RunnerDoes ==
  ASSUME TypeOK, Runner
  PROVE  /\ foreign' = foreign
         /\ \/ proc' = proc
            \/ proc' = Killed(Targets)
            \/ proc' = Reaped(proc, Root)
<1>1. ASSUME Retreat
      PROVE  proc' = proc \/ proc' = Killed(Targets)
  BY <1>1, GivenUpDoes DEF Retreat, Rescan
<1>2. CASE Bind
  BY <1>2 DEF Bind
<1>3. CASE Communicated
  BY <1>3 DEF Communicated
<1>4. CASE Scan
  BY <1>4, GivenUpDoes DEF Scan
<1>5. CASE List
  BY <1>5 DEF List
<1>6. CASE \E p \in Pid : Stat(p)
  BY <1>6, <1>1, Retreats DEF Stat
<1>7. CASE Bound
  BY <1>7, <1>1, Retreats DEF Bound
<1>8. CASE Open
  BY <1>8, <1>1, Retreats DEF Open
<1>9. CASE Again
  BY <1>9, <1>1, Retreats DEF Again
<1>10. CASE Scanned
  BY <1>10, <1>1, Retreats DEF Scanned, Found, SeenGone
<1>11. CASE Streams
  BY <1>11 DEF Streams
<1> QED
  BY <1>2, <1>3, <1>4, <1>5, <1>6, <1>7, <1>8, <1>9, <1>10, <1>11 DEF Runner

-----------------------------------------------------------------------------
(***************************************************************************)
(* Types.                                                                  *)
(***************************************************************************)

\* The process at hand in a scan; before the first one nobody is found.
AtHand ==
  /\ pc = "bind" => live = {}
  /\ pc \in {"bound", "open", "again"} => at \in Pid
  /\ pc = "bound" => IsBound(at)
  /\ pc \in {"open", "again"} => ~IsBound(at)

Typed == TypeOK /\ AtHand

LEMMA ProcType ==
  ASSUME TypeOK
  PROVE  /\ \A ps : Killed(ps) \in [Pid -> Process]
         /\ \A p \in Pid : Reaped(proc, p) \in [Pid -> Process]
         /\ \A p \in Pid : proc[p] \in Process /\ Birth(p) \in Births
<1>1. ASSUME NEW p \in Pid
      PROVE  proc[p] \in Process
  BY DEF TypeOK
<1>2. ASSUME NEW p \in Pid
      PROVE  /\ [proc[p] EXCEPT !.state = "zombie", !.pipe = FALSE] \in Process
             /\ [proc[p] EXCEPT !.state = "free"] \in Process
             /\ Birth(p) \in Births
  BY <1>1 DEF Process, Birth, Births
<1>3. \A ps : Killed(ps) \in [Pid -> Process]
  BY <1>1, <1>2 DEF Killed
<1>4. \A p \in Pid : Reaped(proc, p) \in [Pid -> Process]
  BY <1>1, <1>2 DEF Reaped, TypeOK
<1> QED
  BY <1>1, <1>2, <1>3, <1>4

LEMMA KernelType ==
  ASSUME TypeOK, UNCHANGED scenario, Kernel
  PROVE  proc' \in [Pid -> Process'] /\ foreign' \subseteq Births'
<1>0. Process' = Process /\ Births' = Births /\ foreign \subseteq Births
        /\ proc \in [Pid -> Process]
  BY DEF Process, Births, TypeOK
<1>1. PICK p \in Pid : \/ \E c \in Pid : Fork(p, c)
                       \/ \E g \in Pid : Foreign(p, g)
                       \/ Close(p) \/ Leave(p) \/ Exit(p) \/ Reap(p)
  BY DEF Kernel
<1>2. ASSUME NEW q \in Pid, NEW group \in Pid \cup {None}, NEW pipe \in BOOLEAN, Free(q),
             Become(q, group, pipe)
      PROVE  proc' \in [Pid -> Process] /\ <<q, proc[q].born + 1>> \in Births
  <2>1. proc[q].born \in 0..scenario.births
    BY ProcType DEF Process
  <2>2. scenario.births \in Nat
    BY GroupAssumption DEF TypeOK
  <2>3. proc[q].born + 1 \in 0..scenario.births
    BY <1>2, <2>1, <2>2 DEF Free
  <2> QED
    BY <1>0, <1>2, <2>3 DEF Become, Process, Births
<1>3. ASSUME NEW c \in Pid, Fork(p, c)
      PROVE  proc' \in [Pid -> Process] /\ foreign' \subseteq Births
  <2>1. proc[p].group \in Pid \cup {None} /\ proc[p].pipe \in BOOLEAN
    BY ProcType DEF Process
  <2> QED
    BY <1>0, <1>2, <1>3, <2>1 DEF Fork
<1>4. ASSUME NEW g \in Pid, Foreign(p, g)
      PROVE  proc' \in [Pid -> Process] /\ foreign' \subseteq Births
  BY <1>0, <1>2, <1>4 DEF Foreign
<1>5. CASE Close(p) \/ Leave(p)
  <2>1. proc[p] \in Process
    BY ProcType
  <2>2. [proc[p] EXCEPT !.pipe = FALSE] \in Process /\ [proc[p] EXCEPT !.group = p] \in Process
    BY <2>1 DEF Process
  <2> QED
    BY <1>0, <1>5, <2>2 DEF Close, Leave
<1>6. CASE Exit(p) \/ Reap(p)
  BY <1>0, <1>6, ProcType DEF Exit, Reap
<1> QED
  BY <1>0, <1>1, <1>3, <1>4, <1>5, <1>6

LEMMA RootBirth ==
  ASSUME scenario \in Scenario
  PROVE  <<Root, 1>> \in Births
BY GroupAssumption DEF Births

LEMMA TypeStep ==
  ASSUME Typed, [Next]_vars
  PROVE  Typed'
<1>1. CASE UNCHANGED vars
  BY <1>1 DEF vars, cleanup, scan, command, Typed, TypeOK, AtHand, IsBound, Process, Births
<1> USE DEF Typed
<1>2. CASE UNCHANGED scenario /\ Kernel
  <2>1. proc' \in [Pid -> Process'] /\ foreign' \subseteq Births'
    BY <1>2, KernelType
  <2> QED
    BY <1>2, <2>1 DEF Kernel, scan, command, TypeOK, AtHand, IsBound, Births
<1>3. CASE UNCHANGED scenario /\ Time
  BY <1>3 DEF Time, scan, command, TypeOK, AtHand, IsBound, Process, Births
<1>4. CASE UNCHANGED scenario /\ Runner
  <2>1. proc' \in [Pid -> Process'] /\ foreign' \subseteq Births'
    <3>1. Process' = Process /\ Births' = Births
      BY <1>4 DEF Process, Births
    <3> QED
      BY <1>4, <3>1, RunnerDoes, ProcType, GroupAssumption DEF TypeOK
  <2> DEFINE Rest == /\ scenario \in Scenario
                     /\ pc \in {"bind", "communicate", "scan", "list", "stat", "bound", "open",
                                "again", "streams", "done"}
                     /\ phase \in {"first", "term", "kill"}
                     /\ handles \subseteq Births /\ \A h, k \in handles : h[1] = k[1] => h = k
                     /\ todo \subseteq Pid /\ live \subseteq {h[1] : h \in handles}
                     /\ at \in Pid \cup {None}
                     /\ seen \in 0..scenario.births /\ fd \in 0..scenario.births
                     /\ {due, last, timedOut, late, exited, error, survived, streams, reaped,
                         signalled} \subseteq BOOLEAN
  <2>2. Rest' /\ AtHand'
    <3>1. Rest /\ Births' = Births
      BY <1>4 DEF TypeOK, Births
    <3>2. ASSUME Retreat
          PROVE  /\ pc' \in {"scan", "streams"} /\ phase' \in {"first", "term", "kill"}
                 /\ {due', error', signalled'} \subseteq BOOLEAN
      BY <3>2, GivenUpDoes DEF Retreat, Rescan, TypeOK
    <3>3. CASE Bind
      <4>1. <<Root, 1>> \in Births
        BY RootBirth, GroupAssumption DEF TypeOK
      <4>2. \/ handles' = handles
            \/ handles' = {<<Root, 1>>}
        BY <3>3 DEF Bind
      <4>3. handles' \subseteq Births /\ \A h, k \in handles' : h[1] = k[1] => h = k
        BY <3>1, <4>1, <4>2
      <4>4. live' \subseteq {h[1] : h \in handles'}
        BY <3>3 DEF Bind, scan, AtHand
      <4> QED
        BY <1>4, <3>1, <3>3, <4>3, <4>4 DEF Bind, scan, command, AtHand
    <3>4. CASE Communicated
      BY <1>4, <3>1, <3>4 DEF Communicated, scan, AtHand
    <3>5. CASE Scan
      BY <1>4, <3>1, <3>5, GivenUpDoes DEF Scan, command, AtHand
    <3>6. CASE List
      BY <1>4, <3>1, <3>6 DEF List, command, AtHand
    <3>7. CASE \E p \in Pid : Stat(p)
      BY <1>4, <3>1, <3>2, <3>7, Retreats, ProcType DEF Stat, command, AtHand, Process, IsBound
    <3>8. CASE Bound
      BY <1>4, <3>1, <3>2, <3>8, Retreats DEF Bound, command, AtHand, IsBound
    <3>9. CASE Open
      BY <1>4, <3>1, <3>2, <3>9, Retreats, ProcType DEF Open, command, AtHand, Process, IsBound
    <3>10. CASE Again
      <4>1. <<at, fd>> \in Births /\ ~IsBound(at)
        BY <3>1, <3>10 DEF Again, AtHand, Births
      <4>2. /\ handles' \in {handles, handles \cup {<<at, fd>>}}
            /\ live' = live \/ (live' = live \cup {at} /\ handles' = handles \cup {<<at, fd>>})
            /\ pc' \in {"scan", "streams", "stat"}
        BY <3>2, <3>10, Retreats DEF Again
      <4>3. handles' \subseteq Births /\ \A h, k \in handles' : h[1] = k[1] => h = k
        BY <3>1, <4>1, <4>2 DEF IsBound
      <4>4. live' \subseteq {h[1] : h \in handles'}
        BY <3>1, <4>2
      <4> QED
        BY <1>4, <3>1, <3>2, <3>10, <4>2, <4>3, <4>4, Retreats DEF Again, command, AtHand
    <3>11. CASE Scanned
      BY <1>4, <3>1, <3>2, <3>11, Retreats DEF Scanned, Found, SeenGone, WaitFor, scan, AtHand
    <3>12. CASE Streams
      BY <1>4, <3>1, <3>12 DEF Streams, scan, AtHand
    <3> QED
      BY <1>4, <3>3, <3>4, <3>5, <3>6, <3>7, <3>8, <3>9, <3>10, <3>11, <3>12 DEF Runner
  <2> QED
    BY <2>1, <2>2 DEF TypeOK
<1> QED
  BY <1>1, <1>2, <1>3, <1>4 DEF Next

LEMMA TypeInit ==
  ASSUME Init
  PROVE  Typed
<1>1. 0 \in 0..scenario.births /\ 1 \in 0..scenario.births
  BY GroupAssumption DEF Init
<1>2. proc \in [Pid -> Process]
  BY <1>1, GroupAssumption DEF Init, Process
<1> QED
  BY <1>1, <1>2 DEF Init, Typed, TypeOK, AtHand

\* Every variable keeps its type, and a process is bound by one handle at most.
THEOREM TypeCorrect == Spec => []TypeOK
<1>1. Init => Typed
  BY TypeInit
<1>2. Typed /\ [Next]_vars => Typed'
  BY TypeStep
<1> QED
  BY <1>1, <1>2, PTL DEF Spec, Typed

-----------------------------------------------------------------------------
(***************************************************************************)
(* What happens to the processes.                                          *)
(***************************************************************************)

\* A number is given to a process of the command, or to somebody else's.
ForkedAs(p) ==
  /\ pc \in {"bind", "communicate"} \/ "lateFork" \in scenario.faults
  /\ p # Root /\ foreign' = foreign
  /\ proc'[p].state = "live" /\ proc'[p].born = proc[p].born + 1

ForeignAs(p) ==
  /\ Scanning => "scanReuse" \in scenario.faults
  /\ foreign' = foreign \cup {<<p, proc[p].born + 1>>}
  /\ proc'[p].state = "live" /\ proc'[p].born = proc[p].born + 1
  /\ proc'[p].group # p => proc'[p].group \in Pid /\ ~Own(proc'[p].group)

\* A process is who it was, and lives only if it did: the command's own may
\* end or lead a group of their own.
Stays(p) ==
  /\ foreign' = foreign /\ proc'[p].born = proc[p].born
  /\ proc'[p].group # proc[p].group => Own(p) /\ proc'[p].group = p
  /\ proc'[p].state = "live" => Alive(p)
  /\ ~Own(p) /\ Alive(p) => proc'[p].state = "live"

LEMMA KernelDoes ==
  ASSUME TypeOK, Kernel
  PROVE  \E p \in Pid : /\ \A q \in Pid \ {p} : proc'[q] = proc[q]
                        /\ ForkedAs(p) \/ ForeignAs(p) \/ Stays(p)
<1>0. proc \in [Pid -> Process] /\ \A p \in Pid : proc[p] \in Process
  BY DEF TypeOK
<1>1. PICK p \in Pid : \/ \E c \in Pid : Fork(p, c)
                       \/ \E g \in Pid : Foreign(p, g)
                       \/ Close(p) \/ Leave(p) \/ Exit(p) \/ Reap(p)
  BY DEF Kernel
<1>2. ASSUME NEW c \in Pid, Fork(p, c)
      PROVE  ForkedAs(c) /\ \A q \in Pid \ {c} : proc'[q] = proc[q]
  BY <1>0, <1>2 DEF Fork, Become, ForkedAs
<1>3. ASSUME NEW g \in Pid, Foreign(p, g)
      PROVE  ForeignAs(p) /\ \A q \in Pid \ {p} : proc'[q] = proc[q]
  BY <1>0, <1>3 DEF Foreign, Become, ForeignAs
<1>4. CASE Close(p) \/ Leave(p)
  <2>1. Stays(p)
    BY <1>0, <1>4 DEF Close, Leave, Stays, Alive, Process
  <2>2. \A q \in Pid \ {p} : proc'[q] = proc[q]
    BY <1>0, <1>4 DEF Close, Leave
  <2> QED
    BY <2>1, <2>2
<1>5. CASE Exit(p)
  <2>1. Stays(p)
    BY <1>0, <1>5 DEF Exit, Killed, Stays, Alive, Process
  <2>2. \A q \in Pid \ {p} : proc'[q] = proc[q]
    BY <1>0, <1>5 DEF Exit, Killed
  <2> QED
    BY <2>1, <2>2
<1>6. CASE Reap(p)
  <2>1. Stays(p)
    BY <1>0, <1>6 DEF Reap, Reaped, Stays, Alive
  <2>2. \A q \in Pid \ {p} : proc'[q] = proc[q]
    BY <1>0, <1>6 DEF Reap, Reaped
  <2> QED
    BY <2>1, <2>2
<1> QED
  BY <1>1, <1>2, <1>3, <1>4, <1>5, <1>6

\* The runner gives no number away, and ends only who is bound.
LEMMA RunnerKeeps ==
  ASSUME TypeOK, Runner, NEW p \in Pid
  PROVE  /\ proc'[p].born = proc[p].born /\ proc'[p].group = proc[p].group
         /\ proc'[p].state = "live" => Alive(p)
         /\ Alive(p) /\ proc'[p].state # "live" => p \in Targets
<1>0. proc \in [Pid -> Process] /\ proc[p] \in Process
  BY DEF TypeOK
<1>1. CASE proc' = proc
  BY <1>1 DEF Alive
<1>2. CASE proc' = Killed(Targets)
  BY <1>0, <1>2 DEF Killed, Alive, Process
<1>3. CASE proc' = Reaped(proc, Root)
  BY <1>0, <1>3 DEF Reaped, Alive, Process
<1> QED
  BY <1>1, <1>2, <1>3, RunnerDoes

-----------------------------------------------------------------------------
(***************************************************************************)
(* Nobody is signalled whose command is accepted.                          *)
(***************************************************************************)

\* What the cleanup did so far, by the wait that it has come to.
Signals ==
  /\ exited => reaped /\ phase # "first" /\ pc \in {"streams", "done"}
  /\ phase = "first" /\ pc \notin {"streams", "done"} => ~signalled /\ ~survived
  /\ phase = "term" => timedOut \/ survived
  /\ phase = "kill" /\ ~timedOut /\ ~survived => ~signalled

LEMMA SignalsStep ==
  ASSUME TypeOK, Signals, [Next]_vars
  PROVE  Signals'
<1>1. CASE UNCHANGED vars
  BY <1>1 DEF vars, cleanup, command, Signals
<1>2. CASE Kernel \/ Time
  BY <1>2 DEF Kernel, Time, command, Signals
<1>3. CASE Bind \/ Communicated \/ List \/ Streams
  BY <1>3 DEF Bind, Communicated, List, Streams, command, Signals
<1>4. ASSUME GivenUp, ~exited, pc \notin {"streams", "done"},
             UNCHANGED <<timedOut, survived, exited>>
      PROVE  Signals'
  <2>1. timedOut' = timedOut /\ survived' = survived /\ exited' = exited
    BY <1>4
  <2>2. CASE proc' = proc /\ signalled' = signalled /\ phase = "kill" /\ pc' = "streams"
    BY <1>4, <2>1, <2>2, GivenUpDoes DEF Signals
  <2>3. CASE signalled' = TRUE /\ phase' = "kill" /\ (phase = "term" \/ timedOut) /\ pc' = "scan"
    BY <1>4, <2>1, <2>3 DEF Signals
  <2>4. CASE signalled' = TRUE /\ phase = "first" /\ phase' = phase /\ pc' = "streams"
    BY <1>4, <2>1, <2>4 DEF Signals
  <2> QED
    BY <1>4, <2>2, <2>3, <2>4, GivenUpDoes
<1>5. ASSUME Retreat, ~exited, pc \notin {"streams", "done"},
             UNCHANGED <<timedOut, survived, exited>>
      PROVE  Signals'
  BY <1>4, <1>5 DEF Retreat, Rescan, Signals
<1>6. CASE Scan
  BY <1>4, <1>6 DEF Scan, command, Signals
<1>7. CASE \E p \in Pid : Stat(p)
  BY <1>5, <1>7, Retreats DEF Stat, command, Signals
<1>8. CASE Bound \/ Open \/ Again
  BY <1>5, <1>8, Retreats DEF Bound, Open, Again, command, Signals
<1>9. CASE Scanned
  <2>1. CASE Found /\ phase = "first" /\ UNCHANGED <<exited, timedOut>>
    <3>1. ~signalled /\ ~exited' /\ timedOut' = timedOut /\ pc' = "scan"
      BY <1>9, <2>1 DEF Scanned, Found, WaitFor, Signals
    <3>2. CASE live = {} /\ ~timedOut
      BY <2>1, <3>1, <3>2 DEF Found, WaitFor, Signals
    <3>3. CASE live # {} \/ timedOut
      <4>1. phase' = "term" /\ survived' = (live # {} /\ ~timedOut)
        BY <2>1, <3>3 DEF Found, WaitFor
      <4>2. timedOut' \/ survived'
        BY <3>1, <3>3, <4>1
      <4> QED
        BY <3>1, <4>1, <4>2 DEF Signals
    <3> QED
      BY <3>2, <3>3
  <2>2. CASE SeenGone /\ phase # "first" /\ UNCHANGED <<survived, timedOut>>
    BY <1>9, <2>2 DEF SeenGone, Signals
  <2> QED
    BY <1>5, <1>9, <2>1, <2>2, Retreats DEF Scanned, Signals
<1> QED
  BY <1>1, <1>2, <1>3, <1>6, <1>7, <1>8, <1>9 DEF Next, Runner

-----------------------------------------------------------------------------
(***************************************************************************)
(* Births.                                                                 *)
(***************************************************************************)

\* What is known of a process was born, and the number of the leader goes
\* only to somebody else.
Born ==
  /\ \A h \in handles \cup foreign : h[2] <= proc[h[1]].born
  /\ <<Root, 1>> \notin foreign /\ proc[Root].born >= 1
  /\ proc[Root].born > 1 => ~Own(Root)
  /\ Own(Root) => proc[Root].group = Root

LEMMA BornStep ==
  ASSUME Typed, Born, [Next]_vars
  PROVE  Born'
<1>0. /\ TypeOK /\ Root \in Pid /\ handles \subseteq Births /\ foreign \subseteq Births
      /\ \A p \in Pid : proc[p].born \in Nat
  BY ProcType, GroupAssumption DEF Typed, TypeOK, Process
<1>1. CASE UNCHANGED vars
  BY <1>1 DEF vars, cleanup, Born, Own, Birth
<1>2. CASE Kernel
  <2>1. handles' = handles
    BY <1>2 DEF Kernel
  <2>2. PICK p \in Pid : /\ \A q \in Pid \ {p} : proc'[q] = proc[q]
                         /\ ForkedAs(p) \/ ForeignAs(p) \/ Stays(p)
    BY <1>0, <1>2, KernelDoes
  <2>3. CASE ForkedAs(p)
    BY <1>0, <2>1, <2>2, <2>3 DEF ForkedAs, Born, Own, Birth, Births
  <2>4. CASE ForeignAs(p)
    BY <1>0, <2>1, <2>2, <2>4 DEF ForeignAs, Born, Own, Birth, Births
  <2>5. CASE Stays(p)
    BY <1>0, <2>1, <2>2, <2>5 DEF Stays, Born, Own, Birth, Births
  <2> QED
    BY <2>2, <2>3, <2>4, <2>5
<1>3. CASE Time
  BY <1>3 DEF Time, Born, Own, Birth
<1>4. CASE Runner
  <2>1. \A h \in handles' : h[1] \in Pid /\ h[2] <= proc[h[1]].born
    <3>1. handles' = handles \/ (Bind /\ handles' = {<<Root, 1>>})
            \/ (Again /\ handles' = handles \cup {<<at, proc[at].born>>})
      BY <1>4, Retreats DEF Runner, Bind, Communicated, Scan, List, Stat, Bound, Open, Again,
        Scanned, Streams
    <3>2. Again => at \in Pid
      BY DEF Typed, AtHand, Again
    <3> QED
      BY <1>0, <3>1, <3>2 DEF Born, Births
  <2>2. foreign' = foreign /\ \A p \in Pid : proc'[p].born = proc[p].born
                                              /\ proc'[p].group = proc[p].group
    BY <1>0, <1>4, RunnerDoes, RunnerKeeps
  <2> QED
    BY <1>0, <2>1, <2>2 DEF Born, Own, Birth, Births
<1> QED
  BY <1>1, <1>2, <1>3, <1>4 DEF Next

\* Somebody else is in the group only if its number is given away, which a
\* scan finds out before it starts.
Others ==
  /\ \A p \in Pid : ~Own(p) => Alive(p) /\ (proc[p].group = Root => proc[Root].born > 1)
  /\ Scanning => proc[Root].born = 1
  /\ handles \cap foreign = {}

OwnInv == Typed /\ Signals /\ Born /\ ("scanReuse" \notin scenario.faults => Others)

\* A scan starts after a look at the leader, and binds a member it has at hand.
LEMMA ScanStep ==
  ASSUME TypeOK, Runner
  PROVE  /\ Scanning' => Scanning \/ (pc = "scan" /\ ~LeaderChanged)
         /\ \/ handles' = handles
            \/ Bind /\ handles' = {<<Root, 1>>}
            \/ /\ pc = "again" /\ handles' = handles \cup {<<at, proc[at].born>>}
               /\ Alive(at) /\ proc[at].group = Root
<1>1. Retreat => ~Scanning'
  BY GivenUpDoes DEF Retreat, Rescan, Scanning
<1>2. CASE Bind \/ Communicated \/ Streams \/ List
  BY <1>2 DEF Bind, Communicated, Streams, List, Scanning
<1>3. CASE Scan
  BY <1>1, <1>3, GivenUpDoes DEF Scan, Scanning
<1>4. CASE (\E p \in Pid : Stat(p)) \/ Bound \/ Open
  BY <1>1, <1>4, Retreats DEF Stat, Bound, Open, Scanning
<1>5. CASE Again
  BY <1>1, <1>5, Retreats DEF Again, Scanning
<1>6. CASE Scanned
  BY <1>1, <1>6, Retreats DEF Scanned, Scanning
<1> QED
  BY <1>2, <1>3, <1>4, <1>5, <1>6 DEF Runner

LEMMA OthersStep ==
  ASSUME Typed, Born, Others, "scanReuse" \notin scenario.faults, [Next]_vars
  PROVE  Others'
<1>0. /\ TypeOK /\ Root \in Pid /\ handles \subseteq Births /\ foreign \subseteq Births
      /\ \A p \in Pid : proc[p].born \in Nat /\ Birth(p) = <<p, proc[p].born>>
  BY ProcType, GroupAssumption DEF Typed, TypeOK, Process, Birth
<1>1. CASE UNCHANGED vars
  BY <1>1 DEF vars, cleanup, Others, Own, Birth, Alive, Scanning
<1>2. CASE Kernel
  <2>1. handles' = handles /\ pc' = pc
    BY <1>2 DEF Kernel
  <2>2. PICK p \in Pid : /\ \A q \in Pid \ {p} : proc'[q] = proc[q]
                         /\ ForkedAs(p) \/ ForeignAs(p) \/ Stays(p)
    BY <1>0, <1>2, KernelDoes
  <2>3. CASE ForkedAs(p)
    <3>1. <<p, proc[p].born + 1>> \notin foreign
      BY <1>0 DEF Born
    <3> QED
      BY <1>0, <2>1, <2>2, <2>3, <3>1 DEF ForkedAs, Others, Own, Birth, Alive, Scanning
  <2>4. CASE ForeignAs(p)
    <3>1. <<p, proc[p].born + 1>> \notin handles
      BY <1>0 DEF Born
    <3>2. ~Scanning /\ foreign' = foreign \cup {<<p, proc[p].born + 1>>}
      BY <2>4 DEF ForeignAs
    <3>3. ~Own(Root) \/ p = Root => proc'[Root].born > 1
      BY <1>0, <2>2, <2>4 DEF ForeignAs, Born, Own
    <3>4. ASSUME NEW q \in Pid, ~Own(q)'
          PROVE  Alive(q)' /\ (proc'[q].group = Root => proc'[Root].born > 1)
      <4>1. CASE q = p
        BY <1>0, <2>4, <3>3, <4>1 DEF ForeignAs, Alive
      <4>2. CASE q # p
        <5>1. ~Own(q) /\ proc'[q] = proc[q]
          BY <1>0, <2>2, <3>2, <3>4, <4>2 DEF Own, Birth
        <5> QED
          BY <1>0, <3>3, <2>2, <5>1 DEF Others, Alive, Born
      <4> QED
        BY <4>1, <4>2
    <3> QED
      BY <1>0, <2>1, <3>1, <3>2, <3>4 DEF Others, Scanning
  <2>5. CASE Stays(p)
    <3>1. \A q \in Pid : /\ proc'[q].born = proc[q].born /\ Own(q)' = Own(q)
                         /\ ~Own(q) => (Alive(q) => Alive(q)') /\ proc'[q].group = proc[q].group
      BY <2>2, <2>5 DEF Stays, Own, Birth, Alive
    <3> QED
      BY <1>0, <2>1, <2>5, <3>1 DEF Stays, Others, Scanning
  <2> QED
    BY <2>2, <2>3, <2>4, <2>5
<1>3. CASE Time
  BY <1>3 DEF Time, Others, Own, Birth, Alive, Scanning
<1>4. CASE Runner
  <2>1. foreign' = foreign
    BY <1>0, <1>4, RunnerDoes
  <2>2. \A p \in Targets : p \in Pid => Own(p)
    BY <1>0 DEF Targets, Exited, Others, Own
  <2>3. \A p \in Pid : /\ proc'[p].born = proc[p].born /\ Own(p)' = Own(p)
                       /\ proc'[p].group = proc[p].group
                       /\ ~Own(p) => Alive(p)'
    BY <1>0, <1>4, <2>1, <2>2, RunnerKeeps DEF Own, Birth, Alive, Others
  <2>4. Scanning' => proc[Root].born = 1
    <3>1. CASE Scanning
      BY <3>1 DEF Others
    <3>2. CASE ~LeaderChanged
      BY <1>0, <3>2 DEF LeaderChanged, Others, Born, Alive
    <3> QED
      BY <1>0, <1>4, <3>1, <3>2, ScanStep
  <2>5. handles' \cap foreign = {}
    <3>1. CASE handles' = handles
      BY <3>1 DEF Others
    <3>2. CASE handles' = {<<Root, 1>>}
      BY <3>2 DEF Born
    <3>3. CASE /\ pc = "again" /\ handles' = handles \cup {<<at, proc[at].born>>}
               /\ proc[at].group = Root
      <4>1. at \in Pid /\ Own(at)
        BY <1>0, <3>3 DEF Typed, AtHand, Scanning, Others
      <4> QED
        BY <1>0, <3>3, <4>1 DEF Own, Others
    <3> QED
      BY <1>0, <1>4, <3>1, <3>2, <3>3, ScanStep
  <2> QED
    BY <1>0, <2>1, <2>3, <2>4, <2>5 DEF Others
<1> QED
  BY <1>1, <1>2, <1>3, <1>4 DEF Next

\* Where nothing is yet known of anybody.
LEMMA Starts ==
  ASSUME Init
  PROVE  Typed /\ Signals /\ Born /\ Others
<1>1. Typed
  BY TypeInit
<1>2. Signals
  BY DEF Init, Signals
<1>3. Root \in Pid /\ proc[Root].born = 1 /\ proc[Root].group = Root
  BY GroupAssumption DEF Init
<1>4. Born /\ Others
  BY <1>3 DEF Init, Born, Others, Own, Scanning
<1> QED
  BY <1>1, <1>2, <1>4

\* Whatever the processes do, only processes of the command are bound, and
\* nobody was signalled whose exit code is taken.
THEOREM OwnIsTouched == Spec => []TouchesOwnOnly
<1>1. Init => OwnInv
  BY Starts DEF OwnInv
<1>2. OwnInv /\ [Next]_vars => OwnInv'
  <2> SUFFICES ASSUME OwnInv, [Next]_vars
               PROVE  OwnInv'
    OBVIOUS
  <2>1. Typed' /\ Signals' /\ Born'
    BY TypeStep, SignalsStep, BornStep DEF OwnInv, Typed
  <2>2. scenario' = scenario
    BY DEF Next, vars
  <2>3. "scanReuse" \notin scenario.faults => Others'
    BY OthersStep DEF OwnInv
  <2> QED
    BY <2>1, <2>2, <2>3 DEF OwnInv
<1>3. OwnInv => TouchesOwnOnly
  BY DEF OwnInv, TouchesOwnOnly, Typed, Signals, Others, AcceptedUntouched, BindsOwn, Accepted,
    Complete, TypeOK
<1> QED
  BY <1>1, <1>2, <1>3, PTL DEF Spec

-----------------------------------------------------------------------------
(***************************************************************************)
(* A complete cleanup.                                                     *)
(***************************************************************************)

Members == {p \in Pid : Alive(p) /\ Own(p) /\ proc[p].group = Root}

\* A member is found, at hand, or still to be read.
Covered ==
  /\ pc \in {"stat", "bound", "open", "again"} =>
       Members \subseteq todo \cup live \cup (IF pc = "stat" THEN {} ELSE {at})
  /\ exited => Members = {} /\ \A h \in handles : Exited(h)

GoneInv == Typed /\ Signals /\ Born /\ ("lateFork" \notin scenario.faults => Covered)
\* Nobody becomes a member once the command is over, and who is gone stays so.
LEMMA Leaving ==
  ASSUME Typed, Born, "lateFork" \notin scenario.faults, [Next]_vars,
         pc \notin {"bind", "communicate"}
  PROVE  /\ Members' \subseteq Members
         /\ \A h \in handles : Exited(h) => Exited(h)'
<1>0. /\ TypeOK /\ Root \in Pid /\ handles \subseteq Births
      /\ \A p \in Pid : proc[p].born \in Nat /\ Birth(p) = <<p, proc[p].born>>
  BY ProcType, GroupAssumption DEF Typed, TypeOK, Process, Birth
<1>1. CASE UNCHANGED vars
  BY <1>1 DEF vars, cleanup, Members, Own, Birth, Alive, Exited
<1>2. CASE Kernel
  <2>1. PICK p \in Pid : /\ \A q \in Pid \ {p} : proc'[q] = proc[q]
                         /\ ForkedAs(p) \/ ForeignAs(p) \/ Stays(p)
    BY <1>0, <1>2, KernelDoes
  <2>2. ~ForkedAs(p)
    BY DEF ForkedAs
  <2>3. CASE ForeignAs(p)
    <3>1. \A q \in Pid \ {p} : Own(q)' => Own(q)
      BY <2>1, <2>3 DEF ForeignAs, Own, Birth
    <3>2. ~Own(p)'
      BY <2>3 DEF ForeignAs, Own, Birth
    <3>3. \A h \in handles : h[1] = p => Exited(h)'
      BY <1>0, <2>3 DEF ForeignAs, Born, Exited, Birth
    <3>4. \A h \in handles : h[1] # p => h[1] \in Pid \ {p}
      BY <1>0 DEF Births
    <3> QED
      BY <2>1, <3>1, <3>2, <3>3, <3>4 DEF Members, Alive, Exited, Birth
  <2>4. CASE Stays(p)
    <3>1. \A q \in Pid : /\ Own(q)' = Own(q)
                         /\ Alive(q)' => Alive(q)
                         /\ proc'[q].group = Root /\ Own(q) => proc[q].group = Root
      BY <2>1, <2>4 DEF Stays, Own, Birth, Alive, Born
    <3>2. \A h \in handles : h[1] \in Pid /\ proc'[h[1]].born = proc[h[1]].born
      BY <1>0, <2>1, <2>4 DEF Stays, Births
    <3> QED
      BY <3>1, <3>2 DEF Members, Exited, Birth
  <2> QED
    BY <2>1, <2>2, <2>3, <2>4
<1>3. CASE Time
  BY <1>3 DEF Time, Members, Own, Birth, Alive, Exited
<1>4. CASE Runner
  <2>1. foreign' = foreign
    BY <1>0, <1>4, RunnerDoes
  <2>2. \A p \in Pid : /\ proc'[p].born = proc[p].born /\ proc'[p].group = proc[p].group
                       /\ Alive(p)' => Alive(p)
    BY <1>0, <1>4, RunnerKeeps DEF Alive
  <2>3. \A h \in handles : h[1] \in Pid
    BY <1>0 DEF Births
  <2> QED
    BY <2>1, <2>2, <2>3 DEF Members, Own, Birth, Exited
<1> QED
  BY <1>1, <1>2, <1>3, <1>4 DEF Next

LEMMA CoveredStep ==
  ASSUME Typed, Signals, Born, Covered, "lateFork" \notin scenario.faults, [Next]_vars
  PROVE  Covered'
<1>0. TypeOK
  BY DEF Typed
<1>1. CASE pc \in {"bind", "communicate"}
  <2>1. ~exited /\ exited' = exited /\ pc' \notin {"stat", "bound", "open", "again"}
    BY <1>0, <1>1 DEF Signals, Next, vars, cleanup, Kernel, Time, Runner, Bind, Communicated, Scan,
      List, Stat, Bound, Open, Again, Scanned, Streams
  <2> QED
    BY <2>1 DEF Covered
<1> SUFFICES ASSUME pc \notin {"bind", "communicate"}
             PROVE  Covered'
  BY <1>1
<1>2. /\ Members' \subseteq Members
      /\ \A h \in handles : Exited(h) => Exited(h)'
  BY Leaving
<1>3. CASE UNCHANGED vars \/ Kernel \/ Time
  <2>1. UNCHANGED <<pc, todo, live, at, exited, handles>>
    BY <1>3 DEF vars, cleanup, scan, Kernel, Time
  <2> QED
    BY <1>2, <2>1 DEF Covered
<1>4. ASSUME pc' \in {"scan", "streams"}, ~exited'
      PROVE  Covered'
  BY <1>4 DEF Covered
<1>5. ASSUME Retreat, ~exited'
      PROVE  Covered'
  BY <1>0, <1>4, <1>5, GivenUpDoes DEF Retreat, Rescan
<1>6. CASE Streams
  BY <1>2, <1>6 DEF Streams, Covered
<1>7. CASE Scan
  <2>1. ~exited'
    BY <1>7 DEF Scan, Signals
  <2>2. pc' \in {"list", "scan", "streams"}
    BY <1>0, <1>7, GivenUpDoes DEF Scan
  <2> QED
    BY <2>1, <2>2 DEF Covered
<1>8. CASE List
  BY <1>8 DEF List, Covered, Signals, Members, Own, Birth, Alive
<1>9. CASE \E p \in Pid : Stat(p)
  <2>1. PICK p \in Pid : Stat(p)
    BY <1>9
  <2>2. ~exited' /\ live' = live /\ todo' = todo \ {p}
    BY <2>1 DEF Stat, Signals
  <2>3. CASE pc' = pc /\ p \notin Members
    BY <1>2, <2>1, <2>2, <2>3 DEF Stat, Covered
  <2>4. CASE pc' \in {"bound", "open"} /\ at' = p
    BY <1>2, <2>1, <2>2, <2>4 DEF Stat, Covered
  <2> QED
    BY <1>5, <2>1, <2>2, <2>3, <2>4, Retreats DEF Stat, Members
<1>10. CASE Bound \/ Again
  <2>1. ~exited' /\ todo' = todo /\ pc \in {"bound", "again"}
    BY <1>10 DEF Bound, Again, Signals
  <2>2. CASE pc' = "stat" /\ live' = live \cup {at}
    BY <1>2, <2>1, <2>2 DEF Covered
  <2> QED
    BY <1>5, <1>10, <2>1, <2>2, Retreats DEF Bound, Again
<1>11. CASE Open
  <2>1. ~exited' /\ todo' = todo /\ live' = live /\ at' = at /\ pc = "open"
    BY <1>11 DEF Open, Signals
  <2>2. CASE pc' = "again"
    BY <1>2, <2>1, <2>2 DEF Covered
  <2> QED
    BY <1>5, <1>11, <2>1, <2>2, Retreats DEF Open
<1>12. CASE Scanned
  <2>1. ~exited /\ handles' = handles
    BY <1>12 DEF Scanned, Signals
  <2>2. CASE Found /\ exited' = exited
    BY <1>4, <2>1, <2>2 DEF Found, WaitFor
  <2>3. CASE Gone /\ SeenGone
    <3>1. Members = {}
      BY <1>12, <2>3 DEF Scanned, Gone, Covered
    <3> QED
      BY <1>2, <2>1, <2>3, <3>1 DEF Gone, SeenGone, Covered
  <2> QED
    BY <1>5, <1>12, <2>1, <2>2, <2>3, Retreats DEF Scanned
<1> QED
  BY <1>3, <1>6, <1>7, <1>8, <1>9, <1>10, <1>11, <1>12 DEF Next, Runner, Bind, Communicated

\* A cleanup that is called complete has left nobody behind: no scan passes
\* over a member that was there when it began, and none comes later, unless
\* processes fork while the group is looked up.
THEOREM CleanupIsComplete == Spec => []CompleteMeansGone
<1>1. Init => GoneInv
  BY Starts DEF GoneInv, Covered, Init
<1>2. GoneInv /\ [Next]_vars => GoneInv'
  <2> SUFFICES ASSUME GoneInv, [Next]_vars
               PROVE  GoneInv'
    OBVIOUS
  <2>1. Typed' /\ Signals' /\ Born'
    BY TypeStep, SignalsStep, BornStep DEF GoneInv, Typed
  <2>2. scenario' = scenario
    BY DEF Next, vars
  <2>3. "lateFork" \notin scenario.faults => Covered'
    BY CoveredStep DEF GoneInv
  <2> QED
    BY <2>1, <2>2, <2>3 DEF GoneInv
<1>3. GoneInv => CompleteMeansGone
  BY DEF GoneInv, Covered, Members, CompleteMeansGone, Complete, Exited, Birth
<1> QED
  BY <1>1, <1>2, <1>3, PTL DEF Spec
=============================================================================
