------------------------------ MODULE OwnedGroup ------------------------------
(***************************************************************************)
(* One command of the private build (run, build_tracer.py): it runs in a   *)
(* process group of its own; when it is over, or out of time, the group is *)
(* looked up in /proc, its members are bound by a pidfd and ended, and the *)
(* result says whether the group is proved to be gone.                     *)
(*                                                                         *)
(* /proc is not read at once: the leader, the list of numbers, one stat    *)
(* after the other, the leader again, while processes fork, leave the      *)
(* group and end, and the kernel gives free numbers to somebody else.  A   *)
(* process may end at any time: SIGTERM adds nothing to what it may do.    *)
(* The output itself and the failure of the launch are left out.           *)
(***************************************************************************)
EXTENDS Naturals, FiniteSets

CONSTANTS
  Pid, Root, None,
  Scenario  \* bounds: the numbers there are, how often one is given to a
            \* process, and what may happen besides, of "leave" (the group),
            \* "lateFork" (after the end of the command, or of its time), "bind"
            \* (no pidfd to be had), "reuse" of a number, and "scanReuse" (also
            \* during a scan)

ASSUME GroupAssumption ==
  /\ Root \in Pid /\ None \notin Pid
  /\ \A s \in Scenario : Root \in s.pids /\ s.pids \subseteq Pid /\ s.births \in Nat \ {0}

VARIABLES
  scenario,                 \* the one of this run
  proc,                     \* the process that has a number, or had it last
  foreign,                  \* the births of processes that are somebody else's
  pc, phase,                \* the runner; phase: what a scan is for
  handles,                  \* the births that the pidfds refer to
  todo, live, at, seen, fd, \* a scan: numbers to read, found, and the one at hand
  due, last,                \* the time of a wait is over; this is its last scan
  timedOut, late,           \* late: a wait of the cleanup was over
  exited, error, survived, streams, reaped,
  signalled                 \* somebody was sent a signal

scan == <<todo, live, at, seen, fd>>
command == <<timedOut, streams, reaped>>
cleanup == <<proc, foreign, pc, phase, handles, scan, due, last, late, command, exited,
             error, survived, signalled>>
vars == <<scenario, cleanup>>

Process == [state : {"free", "live", "zombie"}, group : Pid \cup {None}, born : 0..scenario.births,
            pipe : BOOLEAN]
Births == Pid \X (0..scenario.births)

TypeOK ==
  /\ scenario \in Scenario
  /\ proc \in [Pid -> Process] /\ foreign \subseteq Births
  /\ pc \in {"bind", "communicate", "scan", "list", "stat", "bound", "open", "again",
             "streams", "done"}
  /\ phase \in {"first", "term", "kill"}
  /\ handles \subseteq Births /\ \A h, k \in handles : h[1] = k[1] => h = k
  /\ todo \subseteq Pid /\ live \subseteq {h[1] : h \in handles} /\ at \in Pid \cup {None}
  /\ seen \in 0..scenario.births /\ fd \in 0..scenario.births
  /\ {due, last, timedOut, late, exited, error, survived, streams, reaped, signalled}
       \subseteq BOOLEAN

Init ==
  /\ scenario \in Scenario
  /\ proc = [p \in Pid |-> IF p = Root
               THEN [state |-> "live", group |-> Root, born |-> 1, pipe |-> TRUE]
               ELSE [state |-> "free", group |-> None, born |-> 0, pipe |-> FALSE]]
  /\ foreign = {} /\ pc = "bind" /\ phase = "first" /\ handles = {}
  /\ todo = {} /\ live = {} /\ at = None /\ seen = 0 /\ fd = 0
  /\ due = FALSE /\ last = FALSE /\ timedOut = FALSE /\ late = FALSE
  /\ exited = FALSE /\ error = FALSE /\ survived = FALSE /\ streams = FALSE /\ reaped = FALSE
  /\ signalled = FALSE

-----------------------------------------------------------------------------
(***************************************************************************)
(* The kernel.                                                             *)
(***************************************************************************)

Alive(p) == proc[p].state = "live"
Birth(p) == <<p, proc[p].born>>
Own(p) == Birth(p) \notin foreign
Exited(h) == Birth(h[1]) # h \/ ~Alive(h[1])
Scanning == pc \in {"list", "stat", "bound", "open", "again"}

\* A number is free once it is reaped and no group has it.
Free(p) == /\ proc[p].state = "free" /\ proc[p].born < scenario.births /\ p \in scenario.pids
           /\ \A q \in Pid : proc[q].state # "free" => proc[q].group # p

Become(p, group, pipe) == proc' = [proc EXCEPT
  ![p] = [state |-> "live", group |-> group, born |-> @.born + 1, pipe |-> pipe]]

Fork(p, c) ==
  /\ pc \in {"bind", "communicate"} \/ "lateFork" \in scenario.faults
  /\ Alive(p) /\ Own(p) /\ Free(c) /\ c # Root
  /\ Become(c, proc[p].group, proc[p].pipe)
  /\ UNCHANGED foreign

\* Somebody else's process leads a group, and outlives the run, or is in one.
Foreign(p, group) ==
  /\ "reuse" \in scenario.faults /\ (Scanning => "scanReuse" \in scenario.faults)
  /\ Free(p) /\ (group = p \/ (Alive(group) /\ ~Own(group)))
  /\ Become(p, group, FALSE)
  /\ foreign' = foreign \cup {<<p, proc[p].born + 1>>}

Close(p) == Alive(p) /\ proc[p].pipe /\ proc' = [proc EXCEPT ![p].pipe = FALSE]
            /\ UNCHANGED foreign

Leave(p) == /\ "leave" \in scenario.faults /\ Alive(p) /\ Own(p) /\ proc[p].group # p
            /\ proc' = [proc EXCEPT ![p].group = p] /\ UNCHANGED foreign

Killed(ps) == [p \in Pid |-> IF p \in ps /\ Alive(p)
                 THEN [proc[p] EXCEPT !.state = "zombie", !.pipe = FALSE] ELSE proc[p]]

Exit(p) == Alive(p) /\ Own(p) /\ proc' = Killed({p}) /\ UNCHANGED foreign

Reaped(s, p) == IF s[p].state = "zombie" THEN [s EXCEPT ![p].state = "free"] ELSE s

\* The root is reaped by the runner, the others by whoever has them.
Reap(p) == /\ proc[p].state = "zombie" /\ Birth(p) # <<Root, 1>>
           /\ proc' = Reaped(proc, p) /\ UNCHANGED foreign

-----------------------------------------------------------------------------
(***************************************************************************)
(* The command.                                                            *)
(***************************************************************************)

Bind ==
  /\ pc = "bind" /\ pc' = "communicate"
  /\ \/ handles' = {<<Root, 1>>} /\ UNCHANGED error
     \/ "bind" \in scenario.faults /\ error' = TRUE /\ UNCHANGED handles
  /\ UNCHANGED <<proc, foreign, phase, scan, due, last, late, command, exited, survived,
                 signalled>>

\* Both streams have ended, and so has the command.
StreamsEnd == (\A p \in Pid : ~proc[p].pipe) /\ proc[Root].state # "live"

Communicated ==
  /\ pc = "communicate"
  /\ \/ /\ StreamsEnd /\ proc' = Reaped(proc, Root)
        /\ reaped' = TRUE /\ streams' = TRUE /\ UNCHANGED timedOut
     \/ timedOut' = TRUE /\ UNCHANGED <<proc, reaped, streams>>
  /\ pc' = IF ~error THEN "scan" ELSE IF timedOut' THEN "streams" ELSE "done"
  /\ UNCHANGED <<foreign, phase, handles, scan, due, last, late, exited, error, survived,
                 signalled>>

\* After a timeout what is left of the streams is read for half a second.
Streams ==
  /\ pc = "streams" /\ pc' = "done"
  /\ IF timedOut /\ StreamsEnd
     THEN proc' = Reaped(proc, Root) /\ reaped' = TRUE /\ streams' = TRUE
     ELSE UNCHANGED <<proc, reaped, streams>>
  /\ UNCHANGED <<foreign, phase, handles, scan, due, last, late, timedOut, exited, error, survived,
                 signalled>>

\* The result.
Complete == exited /\ streams /\ ~error
Accepted == pc = "done" /\ ~timedOut /\ ~survived /\ Complete

-----------------------------------------------------------------------------
(***************************************************************************)
(* What follows a scan.                                                    *)
(***************************************************************************)

Rescan == pc' = "scan" /\ UNCHANGED <<proc, signalled, phase, due, error>>
WaitFor(p) == pc' = "scan" /\ phase' = p /\ due' = FALSE

Kill == /\ proc' = Killed({h[1] : h \in {k \in handles : ~Exited(k)}})
        /\ signalled' = TRUE

\* The group was not seen to end: it is killed, unless it was before, and
\* waited for, unless the command had ended and nobody was found.
GivenUp ==
  CASE phase = "first" /\ ~timedOut -> Kill /\ pc' = "streams" /\ UNCHANGED <<phase, due>>
    [] phase = "term" \/ (phase = "first" /\ timedOut) -> Kill /\ WaitFor("kill")
    [] phase = "kill" -> pc' = "streams" /\ UNCHANGED <<proc, signalled, phase, due>>

\* What cannot be read is read again.
Uncertain == IF last THEN GivenUp /\ UNCHANGED error ELSE Rescan

\* A number is not whose it was.  The last scan of a wait does not say so.
Changed == GivenUp /\ IF last THEN UNCHANGED error ELSE error' = TRUE

\* The group is known: its members are sent SIGTERM.
Found ==
  /\ WaitFor(IF live = {} /\ ~timedOut THEN "kill" ELSE "term")
  /\ survived' = (live # {} /\ ~timedOut)
  /\ signalled' = (signalled \/ live # {})
  /\ UNCHANGED <<proc, error>>

\* Mutant for CompleteMeansGone: who was bound before is not waited for.
GoneByScan == live = {}

\* Nobody is in the group, and who was once bound is gone.
Gone == live = {} /\ \A h \in handles : Exited(h)

SeenGone ==
  /\ exited' = TRUE /\ proc' = Reaped(proc, Root) /\ reaped' = TRUE
  /\ pc' = "streams" /\ UNCHANGED <<phase, due, error, signalled>>

-----------------------------------------------------------------------------
(***************************************************************************)
(* A scan of the group (_live_group_members).                              *)
(***************************************************************************)

IsBound(p) == \E h \in handles : h[1] = p

\* Mutant for BindsOwn: the leader is not looked at.
LeaderNeverChanged == FALSE

\* The number of the leader is another process's.
LeaderChanged == proc[Root].state # "free" /\ Birth(Root) # <<Root, 1>>

\* Mutant for Ends: a scan that fails is tried again, whatever the time.
ScanForever ==
  /\ pc = "scan" /\ live' = {} /\ last' = FALSE
  /\ IF LeaderChanged THEN Changed
     ELSE pc' = "list" /\ UNCHANGED <<proc, signalled, phase, due, error>>
  /\ UNCHANGED <<foreign, handles, todo, at, seen, fd, late, command, exited, survived>>

\* Out of time the first scan is given up, and a wait scans once more.
Scan ==
  /\ pc = "scan" /\ live' = {} /\ last' = (due /\ phase # "first")
  /\ IF due /\ phase = "first" THEN GivenUp /\ error' = TRUE
     ELSE IF LeaderChanged
     THEN GivenUp /\ IF last' THEN UNCHANGED error ELSE error' = TRUE
     ELSE pc' = "list" /\ UNCHANGED <<proc, signalled, phase, due, error>>
  /\ UNCHANGED <<foreign, handles, todo, at, seen, fd, late, command, exited, survived>>

List ==
  /\ pc = "list" /\ pc' = "stat"
  /\ todo' = {p \in Pid : proc[p].state # "free"}
  /\ UNCHANGED <<proc, foreign, phase, handles, live, at, seen, fd, due, last, late, command,
                 exited, error, survived,
                 signalled>>

Stat(p) ==
  /\ pc = "stat" /\ p \in todo /\ todo' = todo \ {p}
  /\ IF proc[p].state = "free" THEN Uncertain /\ UNCHANGED <<at, seen>>
     ELSE IF proc[p].group # Root \/ ~Alive(p)
     THEN UNCHANGED <<proc, signalled, pc, phase, due, error, at, seen>>
     ELSE /\ at' = p /\ seen' = proc[p].born
          /\ IF IsBound(p) /\ Birth(p) \notin handles THEN Changed
             ELSE /\ pc' = IF IsBound(p) THEN "bound" ELSE "open"
                  /\ UNCHANGED <<proc, signalled, phase, due, error>>
  /\ UNCHANGED <<foreign, handles, live, fd, last, late, command, exited, survived>>

\* Who is bound already must still be there.
Bound ==
  /\ pc = "bound"
  /\ IF Exited(<<at, seen>>) THEN Changed /\ UNCHANGED live
     ELSE live' = live \cup {at} /\ pc' = "stat" /\ UNCHANGED <<proc, signalled, phase, due, error>>
  /\ UNCHANGED <<foreign, handles, todo, at, seen, fd, last, late, command, exited, survived>>

Open ==
  /\ pc = "open"
  /\ IF proc[at].state = "free" THEN Uncertain /\ UNCHANGED fd
     ELSE fd' = proc[at].born /\ pc' = "again" /\ UNCHANGED <<proc, signalled, phase, due, error>>
  /\ UNCHANGED <<foreign, handles, todo, live, at, seen, last, late, command, exited, survived>>

\* A new member is looked at again with its pidfd at hand.
Again ==
  /\ pc = "again"
  /\ IF proc[at].state = "free" THEN Uncertain /\ UNCHANGED <<live, handles>>
     ELSE IF Alive(at) /\ proc[at].group = Root /\ proc[at].born = seen /\ fd = seen
     THEN /\ handles' = handles \cup {<<at, fd>>} /\ live' = live \cup {at}
          /\ pc' = "stat" /\ UNCHANGED <<proc, signalled, phase, due, error>>
     ELSE Changed /\ UNCHANGED <<live, handles>>
  /\ UNCHANGED <<foreign, todo, at, seen, fd, last, late, command, exited, survived>>

Scanned ==
  /\ pc = "stat" /\ todo = {}
  /\ IF LeaderChanged THEN Changed /\ UNCHANGED <<survived, exited, reaped>>
     ELSE IF phase = "first" THEN Found /\ UNCHANGED <<exited, reaped>>
     ELSE /\ UNCHANGED survived
          /\ IF Gone THEN SeenGone ELSE
               /\ UNCHANGED <<exited, reaped>>
               /\ Uncertain
  /\ UNCHANGED <<foreign, handles, scan, last, late, timedOut, streams>>

\* The time of a scan, or of a wait, is over.
Time ==
  /\ pc \notin {"bind", "communicate", "streams", "done"} /\ ~due
  /\ due' = TRUE /\ late' = TRUE
  /\ UNCHANGED <<proc, foreign, pc, phase, handles, scan, last, command, exited, error, survived,
                 signalled>>

-----------------------------------------------------------------------------
Kernel ==
  /\ pc # "done"
  /\ \E p \in Pid : \/ \E c \in Pid : Fork(p, c)
                    \/ \E g \in Pid : Foreign(p, g)
                    \/ Close(p) \/ Leave(p) \/ Exit(p) \/ Reap(p)
  /\ UNCHANGED <<pc, phase, handles, scan, due, last, late, command, exited, error, survived,
                 signalled>>

Runner == Bind \/ Communicated \/ Scan \/ List \/ (\E p \in Pid : Stat(p)) \/ Bound \/ Open
            \/ Again \/ Scanned \/ Streams

Next ==
  \/ UNCHANGED scenario /\ (Kernel \/ Runner \/ Time)
  \/ pc = "done" /\ UNCHANGED vars

\* The runner goes on, and time passes; nothing is assumed of the processes.
Spec == Init /\ [][Next]_vars /\ WF_cleanup(Runner) /\ WF_cleanup(Time)

-----------------------------------------------------------------------------
(***************************************************************************)
(* Properties.                                                             *)
(***************************************************************************)

\* A cleanup that is called complete has left nobody in the group, and no
\* bound process that left it: a build tree is not written to behind the
\* back of who reads it.  Processes that fork while the group is looked up
\* and killed are the exception: one scan that sees nobody may overlook them.
CompleteMeansGone == "lateFork" \notin scenario.faults /\ pc = "done" /\ Complete =>
  \A p \in Pid : Alive(p) /\ Own(p) => proc[p].group # Root /\ Birth(p) \notin handles

\* A command whose exit code is taken was left alone: nobody in its group was
\* signalled, whatever the scans came across.
AcceptedUntouched == Accepted => reaped /\ ~signalled

\* No process of somebody else is bound, and so none is signalled, unless the
\* number of the group is given away within a scan.
BindsOwn == "scanReuse" \notin scenario.faults => handles \cap foreign = {}

\* The runner ends, whatever the processes do and however often a scan fails.
Ends == <>(pc = "done")

\* Only processes of the command are bound, and signalled only if it is not
\* accepted.
TouchesOwnOnly == TypeOK /\ AcceptedUntouched /\ BindsOwn
=============================================================================
