---------------------------- MODULE OwnedSnapshot ----------------------------
(***************************************************************************)
(* Snapshots of a traced process tree: the controller (control.py) freezes *)
(* the tree, samples it while it is held, and resumes it; the tracer, a    *)
(* patched strace, holds every thread at its next stop, joins the fork     *)
(* event of a parent with the first stop of its child, and sends a record  *)
(* of every birth and exit.  It waits for the acknowledgement of a record  *)
(* before it goes on, and takes commands also while it waits.              *)
(*                                                                         *)
(* One phase, and every thread a process of its own; exec records, which   *)
(* change no roster, the journal and the packet format are left out.  The  *)
(* tracer is modelled from owned_snapshot.inc, which has no tests of its   *)
(* own order of events.                                                    *)
(***************************************************************************)
EXTENDS Naturals, Sequences, FiniteSets

CONSTANTS
  Tid, Root, None,
  Scenario       \* bounds: the threads there may be, how many holds, and what
                 \* may happen besides, of "kill", "time", "vfork"

ASSUME SnapshotAssumption ==
  /\ Root \in Tid /\ None \notin Tid
  /\ \A s \in Scenario : Root \in s.tids /\ s.tids \subseteq Tid /\ s.holds \in Nat

VARIABLES
  scenario,                             \* the one of this run
  st, why, told, child, intr, vforked,  \* the kernel: threads and their stops
  tpc, cont, tseq, rows, held,          \* the tracer
  joins,                                \*   its births, see Joins
  freezing, needInterrupt, allHeld,
  cpc, cseq, threads, births, hold,     \* the controller
  snapshots, failure, spoiled,
  toCtl, toTracer                       \* the channel

kernel == <<st, why, told, child, intr, vforked>>
tracer == <<tpc, cont, tseq, rows, held, joins, freezing, needInterrupt, allHeld>>
controller == <<cpc, cseq, threads, births, hold, snapshots, failure, spoiled>>
channel == <<toCtl, toTracer>>
system == <<kernel, tracer, controller, channel>>
vars == <<scenario, system>>

Kinds == {"BIRTH", "EXIT", "HELD", "RESUMED", "ERROR"}
Record == [kind : Kinds, seq : Nat, tid : Tid \cup {None}, creator : Tid \cup {None},
           roster : SUBSET Tid]
Command == [kind : {"FREEZE", "RESUME", "ACK"}, n : Nat]

\* The creator a fork event named, the children whose first stop came, and the
\* births the controller acknowledged.
Joins == [creator : [Tid -> Tid \cup {None}], stopped : SUBSET Tid, acked : SUBSET Tid]

TypeOK ==
  /\ scenario \in Scenario
  /\ st \in [Tid -> {"unborn", "born", "running", "stopped", "dead", "gone"}]
  /\ why \in [Tid -> {"none", "new", "fork", "trap"}]
  /\ told \in [Tid -> BOOLEAN] /\ intr \in [Tid -> BOOLEAN]
  /\ child \in [Tid -> Tid \cup {None}]
  /\ vforked \subseteq Tid
  /\ tpc \in {"run", "ack", "exited"}
  /\ tpc = "ack" => cont # <<>>
  /\ tseq \in Nat /\ cseq \in Nat
  /\ rows \subseteq Tid /\ held \subseteq Tid
  /\ joins \in Joins
  /\ joins.acked \subseteq {c \in joins.stopped : joins.creator[c] # None}
  /\ freezing \in BOOLEAN /\ needInterrupt \in BOOLEAN /\ allHeld \in BOOLEAN
  /\ cpc \in {"idle", "freezing", "frozen", "sampled", "resuming", "failed",
              "stopping", "stopped", "unproved", "survivor"}
  /\ threads \subseteq births /\ births \subseteq Tid
  /\ hold \in [held : BOOLEAN, resumed : BOOLEAN, roster : SUBSET Tid]
  /\ snapshots \in 0..scenario.holds /\ failure \in BOOLEAN /\ spoiled \in BOOLEAN
  /\ toCtl \in Seq(Record) /\ toTracer \in Seq(Command)

\* After the launch: the root is recorded and runs.
Init ==
  /\ scenario \in Scenario
  /\ st = [t \in Tid |-> IF t = Root THEN "running" ELSE "unborn"]
  /\ why = [t \in Tid |-> "none"] /\ told = [t \in Tid |-> FALSE]
  /\ child = [t \in Tid |-> None] /\ intr = [t \in Tid |-> FALSE]
  /\ vforked = {}
  /\ tpc = "run" /\ cont = <<>> /\ tseq = 1 /\ rows = {Root} /\ held = {}
  /\ joins = [creator |-> [t \in Tid |-> None], stopped |-> {}, acked |-> {}]
  /\ freezing = FALSE /\ needInterrupt = FALSE /\ allHeld = FALSE
  /\ cpc = "idle" /\ cseq = 1 /\ threads = {Root} /\ births = {Root}
  /\ hold = [held |-> FALSE, resumed |-> FALSE, roster |-> {}]
  /\ snapshots = 0 /\ failure = FALSE /\ spoiled = FALSE
  /\ toCtl = <<>> /\ toTracer = <<>>

-----------------------------------------------------------------------------
(***************************************************************************)
(* The kernel.                                                             *)
(***************************************************************************)

\* A child lives, and is traced, from its birth on; it runs first to a stop.
Live(t) == st[t] \in {"born", "running", "stopped"}

\* The parent of a vfork sleeps, and no interrupt stops it, while the child
\* neither ends nor execs.
Awake(t) == st[t] = "running" /\ ~(t \in vforked /\ Live(child[t]))

\* The parent stops with its event; the child has yet to be scheduled.
Fork(p, c) ==
  /\ Awake(p) /\ c \in scenario.tids /\ st[c] = "unborn"
  /\ st' = [st EXCEPT ![p] = "stopped", ![c] = "born"]
  /\ why' = [why EXCEPT ![p] = "fork", ![c] = "new"]
  /\ told' = [told EXCEPT ![p] = FALSE, ![c] = FALSE]
  /\ child' = [child EXCEPT ![p] = c]
  /\ intr' = [intr EXCEPT ![p] = FALSE]
  /\ vforked' \in {vforked \ {p}} \cup (IF "vfork" \in scenario.faults THEN {vforked \cup {p}} ELSE {})
  /\ UNCHANGED <<tracer, controller, channel>>

\* The child stops before it runs anything of its own.
FirstStop(c) ==
  /\ st[c] = "born" /\ st' = [st EXCEPT ![c] = "stopped"]
  /\ UNCHANGED <<why, told, child, intr, vforked, tracer, controller, channel>>

\* An interrupted thread stops; any other stop comes instead of this one.
Trap(t) ==
  /\ Awake(t) /\ intr[t]
  /\ st' = [st EXCEPT ![t] = "stopped"] /\ why' = [why EXCEPT ![t] = "trap"]
  /\ told' = [told EXCEPT ![t] = FALSE] /\ intr' = [intr EXCEPT ![t] = FALSE]
  /\ UNCHANGED <<child, vforked, tracer, controller, channel>>

Exit(t) ==
  /\ Awake(t) /\ st' = [st EXCEPT ![t] = "dead"]
  /\ UNCHANGED <<why, told, child, intr, vforked, tracer, controller, channel>>

\* A child of a vfork execs.
Release(p) ==
  /\ p \in vforked /\ Awake(child[p]) /\ vforked' = vforked \ {p}
  /\ UNCHANGED <<st, why, told, child, intr, tracer, controller, channel>>

Killed(t) ==
  /\ "kill" \in scenario.faults /\ cpc # "stopping"
  /\ Live(t) /\ st' = [st EXCEPT ![t] = "dead"]
  /\ UNCHANGED <<why, told, child, intr, vforked, tracer, controller, channel>>

Restarted(s, ts) == [t \in Tid |-> IF t \in ts /\ s[t] = "stopped" THEN "running" ELSE s[t]]
\* Mutant for StopLeavesNobody: the tracer's threads survive it.
DeadWithRoot == [st EXCEPT ![Root] = "dead"]
\* The tracer asks for PTRACE_O_EXITKILL: its threads end with it.
AllDead == [t \in Tid |-> IF Live(t) THEN "dead" ELSE st[t]]

-----------------------------------------------------------------------------
(***************************************************************************)
(* The tracer.                                                             *)
(***************************************************************************)

OwnedFail ==
  /\ tpc' = "exited" /\ st' = AllDead
  /\ toCtl' = Append(toCtl, [kind |-> "ERROR", seq |-> 0, tid |-> None,
                             creator |-> None, roster |-> {}])

\* A record is sent and the tracer waits; then what it was doing goes on.
Send(kind, tid, roster, next) ==
  /\ tseq' = tseq + 1 /\ tpc' = "ack" /\ cont' = Append(cont, next)
  /\ toCtl' = Append(toCtl, [kind |-> kind, seq |-> tseq + 1, tid |-> tid,
                             creator |-> IF kind = "BIRTH" THEN joins'.creator[tid] ELSE None,
                             roster |-> roster])

\* A half of a birth is missing, or its acknowledgement: child and parent wait.
Pending(j, t) == \E c \in Tid \ j.acked :
  (c \in j.stopped /\ c = t) \/ (j.creator[c] # None /\ t \in {c, j.creator[c]})

\* A stop is held while the tree is frozen or a birth is to be joined.
HoldOrRestart(t) ==
  IF freezing \/ Pending(joins', t)
  THEN held' = held \cup {t} /\ UNCHANGED st
  ELSE held' = held /\ st' = Restarted(st, {t})

Join(c, t) == Send("BIRTH", c, {}, [kind |-> "BIRTH", tid |-> t, birth |-> c])

\* Mutant for NoSpuriousFailure: the child's stop is expected after the event.
ChildStopOrdered(t) ==
  /\ joins' = [joins EXCEPT !.stopped = @ \cup {t}] /\ rows' = rows \cup {t}
  /\ IF joins.creator[t] # None
     THEN Join(t, t) /\ UNCHANGED <<st, held>>
     ELSE OwnedFail /\ UNCHANGED <<held, cont, tseq>>

ChildStop(t) ==
  /\ joins' = [joins EXCEPT !.stopped = @ \cup {t}] /\ rows' = rows \cup {t}
  /\ IF joins.creator[t] # None
     THEN Join(t, t) /\ UNCHANGED <<st, held>>
     ELSE HoldOrRestart(t) /\ UNCHANGED <<tpc, cont, tseq, toCtl>>

BirthEvent(t) ==
  /\ joins' = [joins EXCEPT !.creator[child[t]] = t] /\ UNCHANGED rows
  /\ IF child[t] \in joins.stopped
     THEN Join(child[t], t) /\ UNCHANGED <<st, held>>
     ELSE HoldOrRestart(t) /\ UNCHANGED <<tpc, cont, tseq, toCtl>>

Other(t) ==
  /\ UNCHANGED <<joins, rows>>
  /\ HoldOrRestart(t) /\ UNCHANGED <<tpc, cont, tseq, toCtl>>

Exits(t) ==
  /\ UNCHANGED <<joins, rows>>
  /\ IF t \notin rows
     THEN st' = [st EXCEPT ![t] = "gone"] /\ UNCHANGED <<held, tpc, cont, tseq, toCtl>>
     ELSE IF Pending(joins', t)
     THEN OwnedFail /\ UNCHANGED <<held, cont, tseq>>
     ELSE /\ Send("EXIT", t, {}, [kind |-> "EXIT", tid |-> t, birth |-> None])
          /\ st' = [st EXCEPT ![t] = "gone"] /\ UNCHANGED held

Waitable(t) == (st[t] = "stopped" /\ ~told[t]) \/ st[t] = "dead"

Wait(t) ==
  /\ tpc = "run" /\ Waitable(t)
  /\ told' = [told EXCEPT ![t] = TRUE]
  /\ CASE st[t] = "dead" -> Exits(t)
       [] st[t] # "dead" /\ why[t] = "new" -> ChildStop(t)
       [] st[t] # "dead" /\ why[t] = "fork" -> BirthEvent(t)
       [] st[t] # "dead" /\ why[t] = "trap" -> Other(t)
  /\ UNCHANGED <<why, child, intr, vforked, freezing, needInterrupt, allHeld, controller, toTracer>>

Interrupt ==
  /\ tpc = "run" /\ freezing /\ needInterrupt
  /\ needInterrupt' = FALSE
  /\ intr' = [t \in Tid |-> intr[t] \/ (t \in rows \ held /\ st[t] = "running")]
  /\ UNCHANGED <<st, why, told, child, vforked, tpc, cont, tseq, rows, held, joins, freezing, allHeld,
                 controller, channel>>

\* Mutant for HoldIsStill and RosterIsExact: who is not held yet is not waited for.
TryHeldUnheld ==
  /\ tpc = "run" /\ freezing /\ ~allHeld
  /\ \A t \in Tid : ~Waitable(t)
  /\ \E t \in Tid : Live(t)
  /\ \A c \in Tid : c \in joins.stopped \/ joins.creator[c] # None => c \in joins.acked
  /\ Send("HELD", None, rows, [kind |-> "HELD", tid |-> None, birth |-> None])
  /\ UNCHANGED <<kernel, rows, held, joins, freezing, needInterrupt, allHeld,
                 controller, toTracer>>

\* Only when no stop is left to take of those who live, every birth is joined and
\* all are held.
TryHeld ==
  /\ tpc = "run" /\ freezing /\ ~allHeld
  /\ \A t \in Tid : ~Waitable(t)
  /\ \E t \in Tid : Live(t)
  /\ \A c \in Tid : c \in joins.stopped \/ joins.creator[c] # None => c \in joins.acked
  /\ rows \subseteq held
  /\ Send("HELD", None, rows, [kind |-> "HELD", tid |-> None, birth |-> None])
  /\ UNCHANGED <<kernel, rows, held, joins, freezing, needInterrupt, allHeld,
                 controller, toTracer>>

Resume ==
  /\ st' = Restarted(st, rows) /\ held' = held \ rows
  /\ freezing' = FALSE /\ allHeld' = FALSE
  /\ Send("RESUMED", None, {}, [kind |-> "RESUMED", tid |-> None, birth |-> None])
  /\ UNCHANGED needInterrupt

\* Commands come between two stops, and in the place of an acknowledgement.
TakeCommand ==
  /\ tpc \in {"run", "ack"} /\ toTracer # <<>>
  /\ LET c == Head(toTracer) IN
       /\ ~(tpc = "ack" /\ c = [kind |-> "ACK", n |-> tseq])
       /\ CASE c.kind = "FREEZE" /\ ~freezing ->
                 /\ freezing' = TRUE /\ needInterrupt' = TRUE
                 /\ UNCHANGED <<st, held, allHeld, tpc, cont, tseq, toCtl>>
            [] c.kind = "RESUME" /\ allHeld -> Resume
            [] OTHER -> OwnedFail /\ UNCHANGED <<held, freezing, needInterrupt, allHeld, cont, tseq>>
  /\ toTracer' = Tail(toTracer)
  /\ UNCHANGED <<why, told, child, intr, vforked, rows, joins, controller>>

\* Mutant for ResumeFreesAll: only the thread at hand goes on after a birth.
BirthAckedAlone(c, t) ==
  LET now == [joins EXCEPT !.acked = @ \cup {c}]
      free == IF freezing \/ Pending(now, t) THEN {} ELSE {t}
  IN /\ joins' = now /\ st' = Restarted(st, free)
     /\ held' = (held \cup {t}) \ free
     /\ UNCHANGED <<rows, allHeld>>

\* What follows the acknowledgement of a birth: its holds are let go.
BirthAcked(c, t) ==
  LET now == [joins EXCEPT !.acked = @ \cup {c}]
      free == IF freezing THEN {} ELSE {u \in (held \cap rows) \cup {t} : ~Pending(now, u)}
  IN /\ joins' = now /\ st' = Restarted(st, free)
     /\ held' = (held \cup {t}) \ free
     /\ UNCHANGED <<rows, allHeld>>

TakeAck ==
  /\ tpc = "ack" /\ toTracer # <<>> /\ Head(toTracer) = [kind |-> "ACK", n |-> tseq]
  /\ toTracer' = Tail(toTracer)
  /\ LET last == cont[Len(cont)]
     IN CASE last.kind = "BIRTH" -> BirthAcked(last.birth, last.tid)
          [] last.kind = "EXIT" -> rows' = rows \ {last.tid} /\ UNCHANGED <<joins, st, held, allHeld>>
          [] last.kind = "HELD" -> allHeld' = TRUE /\ UNCHANGED <<joins, st, held, rows>>
          [] last.kind = "RESUMED" -> UNCHANGED <<joins, st, held, rows, allHeld>>
  /\ cont' = SubSeq(cont, 1, Len(cont) - 1)
  /\ tpc' = IF Len(cont) = 1 THEN "run" ELSE "ack"
  /\ UNCHANGED <<why, told, child, intr, vforked, tseq, freezing, needInterrupt, controller, toCtl>>

\* strace ends with the last of its threads.
TracerEnds ==
  /\ tpc = "run" /\ rows = {} /\ \A t \in Tid : ~Live(t)
  /\ tpc' = "exited"
  /\ UNCHANGED <<kernel, cont, tseq, rows, held, joins, freezing, needInterrupt, allHeld,
                 controller, channel>>

-----------------------------------------------------------------------------
(***************************************************************************)
(* The controller.                                                         *)
(***************************************************************************)

\* The tracer can be told something only while it lives.
Tell(kind, n) == toTracer' = IF tpc = "exited" THEN toTracer
                             ELSE Append(toTracer, [kind |-> kind, n |-> n])

InHold == cpc \in {"freezing", "frozen", "sampled", "resuming"}

Acceptable(r) ==
  /\ r.kind # "ERROR" /\ r.seq = cseq + 1
  /\ CASE r.kind = "BIRTH" -> /\ r.creator \in threads /\ r.tid \notin births
                              /\ Live(r.tid)
       [] r.kind = "EXIT" -> r.tid \in threads
       [] r.kind = "HELD" -> InHold /\ r.roster = threads /\ r.roster # {}
       [] r.kind = "RESUMED" -> InHold

Apply(r) ==
  /\ cseq' = r.seq
  /\ threads' = CASE r.kind = "BIRTH" -> threads \cup {r.tid}
                  [] r.kind = "EXIT" -> threads \ {r.tid}
                  [] OTHER -> threads
  /\ births' = IF r.kind = "BIRTH" THEN births \cup {r.tid} ELSE births
  /\ hold' = CASE r.kind = "HELD" -> [hold EXCEPT !.held = TRUE, !.roster = r.roster]
               [] r.kind = "RESUMED" -> [hold EXCEPT !.resumed = TRUE]
               [] OTHER -> hold
  /\ Tell("ACK", r.seq)

\* A failure ends everything but the cleanup, which goes on past it.
Fails == failure' = TRUE /\ cpc' = IF cpc = "stopping" THEN cpc ELSE "failed"

Receive ==
  /\ cpc \in {"idle", "freezing", "resuming", "stopping"} /\ toCtl # <<>>
  /\ LET r == Head(toCtl) IN
       IF Acceptable(r)
       THEN Apply(r) /\ UNCHANGED <<cpc, failure>>
       ELSE Fails /\ UNCHANGED <<cseq, threads, births, hold, toTracer>>
  /\ toCtl' = Tail(toCtl)
  /\ UNCHANGED <<kernel, tracer, snapshots, spoiled>>

\* The channel is drained first; a record may come right after.
Freeze ==
  /\ cpc = "idle" /\ toCtl = <<>> /\ snapshots < scenario.holds
  /\ snapshots' = snapshots + 1
  /\ hold' = [held |-> FALSE, resumed |-> FALSE, roster |-> {}]
  /\ Tell("FREEZE", snapshots + 1)
  /\ IF tpc = "exited" THEN Fails ELSE cpc' = "freezing" /\ UNCHANGED failure
  /\ UNCHANGED <<kernel, tracer, cseq, threads, births, spoiled, toCtl>>

Held ==
  /\ cpc = "freezing" /\ hold.held /\ cpc' = "frozen"
  /\ UNCHANGED <<kernel, tracer, cseq, threads, births, hold, snapshots, failure, spoiled, channel>>

\* The sample is checked against the roster; a bad one is still resumed from.
Sample ==
  /\ cpc = "frozen" /\ cpc' = "sampled"
  /\ spoiled' = (tpc = "exited" \/ \E t \in hold.roster : ~Live(t))
  /\ UNCHANGED <<kernel, tracer, cseq, threads, births, hold, snapshots, failure, channel>>

SendResume ==
  /\ cpc = "sampled"
  /\ Tell("RESUME", snapshots)
  /\ IF tpc = "exited" THEN Fails ELSE cpc' = "resuming" /\ UNCHANGED failure
  /\ UNCHANGED <<kernel, tracer, cseq, threads, births, hold, snapshots, spoiled, toCtl>>

Resumed ==
  /\ cpc = "resuming" /\ hold.resumed
  /\ IF spoiled THEN Fails ELSE cpc' = "idle" /\ UNCHANGED failure
  /\ UNCHANGED <<kernel, tracer, cseq, threads, births, hold, snapshots, spoiled, channel>>

\* Mutant for FreezeEnds: the window is only watched while the tree is held.
ExpireHeld ==
  /\ InHold /\ Fails
  /\ \/ "time" \in scenario.faults /\ cpc # "freezing"
     \/ tpc = "exited" /\ cpc \in {"freezing", "resuming"}
  /\ UNCHANGED <<kernel, tracer, cseq, threads, births, hold, snapshots, spoiled, channel>>

\* The window is over, or the tracer is seen to have ended.
Expire ==
  /\ InHold /\ Fails
  /\ \/ "time" \in scenario.faults
     \/ tpc = "exited" /\ cpc \in {"freezing", "resuming"}
  /\ UNCHANGED <<kernel, tracer, cseq, threads, births, hold, snapshots, spoiled, channel>>

\* After a failure, or when the traced command has returned.
Stop ==
  /\ cpc = "failed" \/ (cpc = "idle" /\ tpc = "exited")
  /\ cpc' = "stopping"
  /\ UNCHANGED <<kernel, tracer, cseq, threads, births, hold, snapshots, failure, spoiled, channel>>

\* The pidfds of recorded processes, and of the tracer, are signalled.
Signal(t) ==
  /\ cpc = "stopping" /\ failure /\ t \in births /\ Live(t)
  /\ st' = [st EXCEPT ![t] = "dead"]
  /\ UNCHANGED <<why, told, child, intr, vforked, tracer, controller, channel>>

SignalTracer ==
  /\ cpc = "stopping" /\ failure /\ tpc # "exited"
  /\ tpc' = "exited" /\ st' = AllDead
  /\ UNCHANGED <<why, told, child, intr, vforked, cont, tseq, rows, held, joins, freezing, needInterrupt,
                 allHeld, controller, channel>>

\* All that was bound is gone; an exit that was never recorded is a failure.
Stopped ==
  /\ cpc = "stopping" /\ tpc = "exited" /\ \A t \in births : ~Live(t)
  /\ toCtl = <<>>
  /\ cpc' = IF failure \/ threads # {} THEN "unproved" ELSE "stopped"
  /\ UNCHANGED <<kernel, tracer, cseq, threads, births, hold, snapshots, failure, spoiled, channel>>

\* Whoever outlives five seconds of SIGTERM and five of SIGKILL is given up.
GiveUp ==
  /\ cpc = "stopping" /\ "time" \in scenario.faults
  /\ tpc # "exited" \/ \E t \in births : Live(t)
  /\ cpc' = "survivor" /\ failure' = TRUE
  /\ UNCHANGED <<kernel, tracer, cseq, threads, births, hold, snapshots, spoiled, channel>>

-----------------------------------------------------------------------------
Threads == \E t \in Tid : (\E c \in Tid : Fork(t, c)) \/ Exit(t) \/ Release(t) \/ Killed(t)
Kernel == \E t \in Tid : Trap(t) \/ FirstStop(t)
Tracer == (\E t \in Tid : Wait(t)) \/ Interrupt \/ TryHeld \/ TakeCommand \/ TakeAck \/ TracerEnds
Controller == Receive \/ Held \/ Sample \/ SendResume \/ Resumed \/ Stop \/ Stopped
                \/ (\E t \in Tid : Signal(t)) \/ SignalTracer

Over == cpc \in {"stopped", "unproved", "survivor"}

Next ==
  \/ ~Over /\ UNCHANGED scenario /\ (Threads \/ Kernel \/ Tracer \/ Controller \/ Freeze \/ Expire \/ GiveUp)
  \/ Over /\ UNCHANGED vars

\* The tracer polls again and again, and the controller wakes it while it waits
\* for a hold; a stop that is due comes, and so does the first stop of a child.
\* Nothing is assumed of the threads.
Spec == Init /\ [][Next]_vars
          /\ WF_system(Kernel) /\ WF_system(Tracer) /\ WF_system(Controller) /\ WF_system(Expire)

-----------------------------------------------------------------------------
(***************************************************************************)
(* Properties.                                                             *)
(***************************************************************************)

\* A child that never ran, of a parent that was killed before its event was
\* taken: nobody has told the tracer of it while its first stop is to come.
Overlooked(c) ==
  /\ st[c] \in {"born", "stopped"} /\ why[c] = "new" /\ joins.creator[c] = None
  /\ \E p \in Tid : child[p] = c /\ st[p] \in {"dead", "gone"}

\* While the controller samples, nothing runs, and whoever lives is stopped and
\* in the roster: no birth was lost in the freeze.  The one exception is a
\* child that has not run, and whose parent was killed in its fork.
HoldIsStill == cpc \in {"frozen", "sampled"} =>
  \A t \in Tid : Live(t) => IF t \in hold.roster THEN st[t] = "stopped" ELSE Overlooked(t)

\* The roster counts no thread that is gone, unless it was killed in the hold.
RosterIsExact == "kill" \notin scenario.faults /\ cpc \in {"frozen", "sampled"} =>
  hold.roster = {t \in Tid : Live(t)}

\* Without kills and with time enough nothing fails, in whatever order births,
\* exits, commands and acknowledgements cross; but a snapshot that is asked
\* for while the command ends does.
NoSpuriousFailure == scenario.faults = {} /\ failure => rows = {}

\* The tracer never forgets a stop: whoever is stopped, and was taken, is held
\* or waits for the acknowledgement that is under way.
NoneForgotten == tpc = "run" =>
  \A t \in Tid : st[t] = "stopped" /\ told[t] => t \in held

\* Between two snapshots only a birth that is not joined yet holds anybody.
ResumeFreesAll == tpc = "run" /\ ~freezing =>
  \A t \in held : st[t] = "stopped" => Pending(joins, t)

\* When the cleanup returns nobody is left, recorded or not, unless it gave up
\* and said so.
StopLeavesNobody == cpc \in {"stopped", "unproved"} => \A t \in Tid : ~Live(t)

\* A cleanup without a failure has recorded all births and all exits.
CleanStopIsComplete == "kill" \notin scenario.faults /\ cpc = "stopped" =>
  births = {t \in Tid : st[t] # "unborn"} /\ threads = {}

\* A freeze comes to an end, held or failed, and so does a resume.
FreezeEnds == cpc = "freezing" ~> cpc # "freezing"
FailureEnds == cpc = "failed" ~> Over
\* What tracer and controller hold and record agrees with the threads.
Consistent ==
  TypeOK /\ RosterIsExact /\ NoneForgotten /\ ResumeFreesAll /\ CleanStopIsComplete

\* Freezes and failures both come to their end.
Ends == FreezeEnds /\ FailureEnds
=============================================================================
