---------------------------- MODULE LinuxObserver ----------------------------
(***************************************************************************)
(* The ptrace observer of a build: it launches a command, is told by       *)
(* waitpid of every fork, exec and exit of the processes that come of it,  *)
(* writes them to an event log, and derives a witness from the log.        *)
(*                                                                         *)
(* The kernel reports the stops of different processes in any order; a     *)
(* process may be killed between a report and what the observer does about *)
(* it; the alarm of the time limit strikes between any two steps, also     *)
(* while the observer cleans up.  The hash chain of the log is left out (a *)
(* row is where it is), and so are start times, file identities and the    *)
(* hashing of files.  A clone or a vfork is a fork.                        *)
(***************************************************************************)
EXTENDS Naturals, SequencesExt, FiniteSets

CONSTANTS
  Proc, Root, None,
  Image, Initial, Build,  \* the images, the launcher's own, and the build's
  Scenario                \* what is observed: the images the caller expects, in
                          \* the order it gave them, and the limits it sets; and
                          \* as bounds the processes there may be, the images
                          \* they may run, how often each may exec, and what
                          \* may go wrong, of "kill", "time", "exit"

Codes == {"zero", "nonzero", "signal"}

ASSUME ObserverAssumption ==
  /\ Root \in Proc /\ None \notin Proc \cup Image \cup Codes
  /\ {Initial, Build} \subseteq Image
  /\ \A s \in Scenario : /\ s.processes \in Nat \ {0} /\ s.events \in Nat /\ s.events > 3
                         /\ Root \in s.procs /\ s.procs \subseteq Proc
                         /\ Range(s.expected) \cup s.images \subseteq Image \ {Initial}

VARIABLES
  scenario,     \* the one of this run
  kernel,       \* what every process is doing, see Process
  execs,        \* the images every process really ran, in order
  alarm,        \* the timer: set, due, struck, or struck too late to be an error
  pc, status,   \* status: what waitpid returned
  live, known, pending, initialStop, earlyStops,
  log, error, witness

tracees == <<kernel, execs>>
registry == <<live, known, pending, initialStop, earlyStops>>
trace == <<tracees, alarm, pc, status, registry, log, error, witness>>
vars == <<scenario, trace>>

Stops == {"start", "fork", "exec", "exit"}
Ended == {"dead", "reaped"}

\* told: the stop, or the death, was returned by waitpid.
Process == [
  state : {"unborn", "running"} \cup Stops \cup Ended, told : BOOLEAN,
  parent : Proc \cup {None}, image : Image, child : Proc \cup {None},
  code : Codes \cup {None}]

Row == [kind : {"run", "spawn", "image", "exit", "reap", "archive", "error", "end"},
        pid : Proc \cup {None}, value : Proc \cup Image \cup Codes \cup {"failed", "observed", None},
        origin : {"fork", "exec", None}]

TypeOK ==
  /\ scenario \in Scenario
  /\ kernel \in [Proc -> Process] /\ execs \in [Proc -> Seq(Image)]
  /\ alarm \in {"set", "due", "struck", "late"}
  /\ pc \in {"launch", "wait", "handle", "continue", "sealed", "failed", "cleanup",
             "ended", "abandoned", "exited"}
  /\ status \in [pid : Proc \cup {None}, kind : Stops \cup {"dead"}]
  /\ live \subseteq Proc /\ known \subseteq Proc
  /\ pending \in [Proc -> Codes \cup {None}]
  /\ initialStop \subseteq known /\ earlyStops \subseteq Proc \ known
  /\ log \in Seq(Row) /\ error \in BOOLEAN /\ witness \in BOOLEAN

R(kind, pid, value, origin) == [kind |-> kind, pid |-> pid, value |-> value, origin |-> origin]

Init ==
  /\ scenario \in Scenario
  /\ kernel = [p \in Proc |-> [state |-> "unborn", told |-> FALSE, parent |-> None,
                               image |-> Initial, child |-> None, code |-> None]]
  /\ execs = [p \in Proc |-> <<>>]
  /\ alarm = "set" /\ pc = "launch" /\ status = [pid |-> None, kind |-> "dead"]
  /\ live = {} /\ known = {} /\ pending = [p \in Proc |-> None]
  /\ initialStop = {} /\ earlyStops = {}
  /\ log = <<>> /\ error = FALSE /\ witness = FALSE

-----------------------------------------------------------------------------
(***************************************************************************)
(* The processes, as ptrace shows them.                                    *)
(***************************************************************************)

observer == <<alarm, pc, status, registry, log, error, witness>>

\* The command runs, or a process it started does; the launcher only execs.
Runs(p) == kernel[p].state = "running" /\ (p = Root => execs[p] # <<>>)

\* The child is born stopped; its stop and its parent's are reported apart.
Fork(p, c) ==
  /\ Runs(p) /\ kernel[c].state = "unborn" /\ c \in scenario.procs \ {Root}
  /\ kernel' = [kernel EXCEPT ![p].state = "fork", ![p].told = FALSE, ![p].child = c,
                              ![c].state = "start", ![c].parent = p,
                              ![c].image = kernel[p].image]
  /\ UNCHANGED <<execs, observer>>

Exec(p, i) ==
  /\ kernel[p].state = "running" /\ Len(execs[p]) < scenario.execs
  /\ kernel' = [kernel EXCEPT ![p].state = "exec", ![p].told = FALSE, ![p].image = i]
  /\ execs' = [execs EXCEPT ![p] = Append(@, i)]
  /\ UNCHANGED observer

\* A launcher that cannot exec exits with 125.
Exit(p, code) ==
  /\ kernel[p].state = "running" /\ code # "signal" /\ (Runs(p) \/ code = "nonzero")
  /\ code = "nonzero" => "exit" \in scenario.faults
  /\ kernel' = [kernel EXCEPT ![p].state = "exit", ![p].told = FALSE, ![p].code = code]
  /\ UNCHANGED <<execs, observer>>

\* A process that is already exiting keeps its code.
Dead(ps) == [p \in Proc |->
  IF p \in ps /\ kernel[p].state \notin {"unborn"} \cup Ended
  THEN [kernel[p] EXCEPT !.state = "dead", !.told = FALSE,
                         !.code = IF @ = None THEN "signal" ELSE @]
  ELSE kernel[p]]

Killed(p) ==
  /\ "kill" \in scenario.faults
  /\ Dead({p}) # kernel /\ kernel' = Dead({p})
  /\ UNCHANGED <<execs, observer>>

Tracees == \E p \in Proc :
  \/ \E c \in Proc : Fork(p, c)
  \/ \E i \in scenario.images : Exec(p, i)
  \/ \E code \in Codes : Exit(p, code)
  \/ Killed(p)

Stopped(p) == kernel[p].state \in Stops
Continued(p) == [kernel EXCEPT ![p].state = IF @ = "exit" THEN "dead" ELSE "running",
                               ![p].told = FALSE]

-----------------------------------------------------------------------------
(***************************************************************************)
(* The observer: it launches the command, then takes one status at a time. *)
(***************************************************************************)

\* Mutant for TerminalRowsFit: one place is kept, for the end alone.
ReservedForEnd(kind) == IF kind \in {"end", "archive"} THEN 0 ELSE 1

\* A row that does not fit is an error; two places are kept for the last rows.
Reserved(kind) == IF kind \in {"error", "end"} THEN 0 ELSE IF kind = "archive" THEN 1 ELSE 2
Fits(rows) == \A n \in DOMAIN rows : Len(log) + n - 1 < scenario.events - Reserved(rows[n].kind)

Raise == pc' = "failed"

\* The rows that fit are written, also before the one that raises.
Logs(rows, next) == \E n \in 0..Len(rows) :
  /\ Fits(SubSeq(rows, 1, n))
  /\ log' = log \o SubSeq(rows, 1, n)
  /\ IF n = Len(rows) THEN pc' = next ELSE ~Fits(SubSeq(rows, 1, n + 1)) /\ Raise

Launch ==
  /\ pc = "launch"
  /\ kernel' = [kernel EXCEPT ![Root].state = "start"]
  /\ live' = {Root}
  /\ Logs(<<R("run", Root, None, None)>>, "wait")
  /\ UNCHANGED <<execs, alarm, status, known, pending, initialStop, earlyStops, error, witness>>

WaitPid(p) ==
  /\ pc = "wait" /\ live # {}
  /\ Len(log) < scenario.events - 2
  /\ (Stopped(p) /\ ~kernel[p].told) \/ kernel[p].state = "dead"
  /\ status' = [pid |-> p, kind |-> kernel[p].state] /\ pc' = "handle"
  /\ kernel' = [kernel EXCEPT ![p].told = TRUE,
                              ![p].state = IF @ = "dead" THEN "reaped" ELSE @]
  /\ UNCHANGED <<execs, alarm, registry, log, error, witness>>

EventLimitReached ==
  /\ pc = "wait" /\ live # {} /\ Len(log) >= scenario.events - 2
  /\ Raise
  /\ UNCHANGED <<tracees, alarm, status, registry, log, error, witness>>

\* Mutant for Sound: the exit status of a wait status that is a signal's is 0.
WaitCodeOfSignal(p) == IF kernel[p].code = "signal" THEN "zero" ELSE kernel[p].code
WaitCode(p) == kernel[p].code

\* A death ptrace did not announce is recorded from the wait status itself.
Terminal(p) ==
  /\ LET code == WaitCode(p)
         late == p \in known /\ pending[p] = None
         rows == (IF late THEN <<R("exit", p, code, None)>> ELSE <<>>)
                   \o <<R("reap", p, code, None)>>
     IN /\ pending' = [pending EXCEPT ![p] = IF late THEN code ELSE @]
        /\ IF pending'[p] # code
           THEN Raise /\ UNCHANGED <<log, live>>
           ELSE Logs(rows, "wait") /\ live' = IF Fits(rows) THEN live \ {p} ELSE live
  /\ UNCHANGED <<kernel, known, initialStop, earlyStops>>

\* The image is read while the process is stopped; a dead one has none.
Captured(p, origin, next) ==
  IF Stopped(p) THEN Logs(<<R("image", p, kernel[p].image, origin)>>, next)
                ELSE Raise /\ UNCHANGED log

\* Mutant for NoneForgotten: the launcher is registered, and not continued.
RootStopsForGood ==
  /\ known' = known \cup {Root}
  /\ Logs(<<R("spawn", Root, None, None)>>, "wait")
  /\ UNCHANGED <<kernel, live, pending, initialStop, earlyStops>>

RootStops ==
  /\ known' = known \cup {Root}
  /\ Logs(<<R("spawn", Root, None, None)>>, "continue")
  /\ UNCHANGED <<kernel, live, pending, initialStop, earlyStops>>

ChildStops(p) ==
  /\ initialStop' = initialStop \ {p}
  /\ Captured(p, "fork", "continue")
  /\ UNCHANGED <<kernel, live, known, pending, earlyStops>>

\* Mutant for OrderNeverFails: an early stop is an error.
StopsUnregistered(p) == Raise /\ UNCHANGED <<kernel, registry, log>>

\* The child's stop came before its parent's fork: it stays stopped until then.
StopsEarly(p) ==
  /\ earlyStops' = earlyStops \cup {p} /\ pc' = "wait"
  /\ UNCHANGED <<kernel, live, known, pending, initialStop, log>>

Forks(p) ==
  LET c == kernel[p].child
      spawn == R("spawn", c, p, "fork")
      early == c \in earlyStops
      image == R("image", c, kernel[c].image, "fork")
  IN IF ~Stopped(p) THEN Raise /\ UNCHANGED <<kernel, registry, log>>
     ELSE /\ live' = live \cup {c}
          /\ IF c \in known \/ Cardinality(known) >= scenario.processes
             THEN Raise /\ UNCHANGED <<kernel, known, initialStop, earlyStops, log>>
             ELSE /\ known' = known \cup {c}
                  /\ earlyStops' = earlyStops \ {c}
                  /\ initialStop' = IF early THEN initialStop ELSE initialStop \cup {c}
                  /\ CASE ~early -> Logs(<<spawn>>, "continue") /\ UNCHANGED kernel
                       [] early /\ Stopped(c) -> /\ Logs(<<spawn, image>>, "continue")
                                                 /\ kernel' = IF Fits(<<spawn, image>>)
                                                              THEN Continued(c) ELSE kernel
                       [] OTHER -> Logs(<<spawn>>, "failed") /\ UNCHANGED kernel
          /\ UNCHANGED pending

Execs(p) ==
  /\ Captured(p, "exec", "continue")
  /\ UNCHANGED <<kernel, registry>>

\* A process that is gone by now is left to its wait status.
Exits(p) ==
  /\ IF Stopped(p)
     THEN /\ pending' = [pending EXCEPT ![p] = kernel[p].code]
          /\ Logs(<<R("exit", p, kernel[p].code, None)>>, "continue")
     ELSE pc' = "continue" /\ UNCHANGED <<pending, log>>
  /\ UNCHANGED <<kernel, live, known, initialStop, earlyStops>>

\* The branches of the loop, in the order the code takes them.
Handle ==
  /\ pc = "handle"
  /\ LET p == status.pid IN
       CASE status.kind = "dead" -> Terminal(p)
         [] status.kind # "dead" /\ p = Root /\ p \notin known -> RootStops
         [] status.kind # "dead" /\ p \in initialStop -> ChildStops(p)
         [] status.kind = "start" /\ p \notin known /\ p # Root -> StopsEarly(p)
         [] status.kind = "fork" /\ p \in known -> Forks(p)
         [] status.kind = "exec" /\ p \in known -> Execs(p)
         [] status.kind = "exit" /\ p \in known -> Exits(p)
  /\ UNCHANGED <<execs, alarm, status, error, witness>>

\* Only a process on its way out may be gone.
Continue ==
  /\ pc = "continue"
  /\ IF Stopped(status.pid)
     THEN kernel' = Continued(status.pid) /\ pc' = "wait"
     ELSE /\ IF status.kind = "exit" THEN pc' = "wait" ELSE Raise
          /\ UNCHANGED kernel
  /\ UNCHANGED <<execs, alarm, status, registry, log, error, witness>>

-----------------------------------------------------------------------------
(***************************************************************************)
(* The end: the checks and the seal, or the error; then the cleanup.       *)
(***************************************************************************)

ImageRows(image) == {n \in DOMAIN log :
  log[n].kind = "image" /\ log[n].origin = "exec" /\ log[n].value = image}
Exited(codes) == {n \in DOMAIN log : log[n].kind = "exit" /\ log[n].value \in codes}

ImagesSeen ==
  /\ ImageRows(Build) # {}
  /\ \A image \in Range(scenario.expected) : \E n \in ImageRows(image) : log[n].pid # Root

Complete ==
  /\ ImagesSeen
  /\ Exited({"nonzero", "signal"}) = {}
  /\ earlyStops \cup initialStop = {}

Seal ==
  /\ pc = "wait" /\ live = {}
  /\ IF Complete THEN Logs(<<R("archive", None, None, None)>>, "sealed")
                 ELSE Raise /\ UNCHANGED log
  /\ UNCHANGED <<tracees, alarm, status, registry, error, witness>>

\* Leaving the try: what is to be killed includes the stops never matched.
Finally ==
  /\ pc' = "cleanup" /\ live' = live \cup earlyStops
  /\ UNCHANGED <<tracees, status, known, pending, initialStop, earlyStops, witness>>

Sealed == pc = "sealed" /\ Finally /\ UNCHANGED <<alarm, log, error>>

RecordError ==
  /\ pc = "failed" /\ Finally
  /\ log' = Append(log, R("error", None, None, None)) /\ error' = TRUE
  /\ UNCHANGED alarm

Kill(p) ==
  /\ pc = "cleanup" /\ p \in live
  /\ Dead({p}) # kernel /\ kernel' = Dead({p})
  /\ UNCHANGED <<execs, alarm, pc, status, registry, log, error, witness>>

End ==
  /\ pc = "cleanup" /\ \A p \in live : kernel[p].state \in Ended
  /\ kernel' = [p \in Proc |-> IF p \in live THEN [kernel[p] EXCEPT !.state = "reaped"]
                                              ELSE kernel[p]]
  /\ LET end == <<R("end", None, IF error THEN "failed" ELSE "observed", None)>>
     IN /\ log' = IF Fits(end) THEN log \o end ELSE log
        /\ pc' = IF Fits(end) THEN "ended" ELSE "abandoned"
  /\ UNCHANGED <<execs, alarm, status, registry, error, witness>>

-----------------------------------------------------------------------------
(***************************************************************************)
(* What the log must say for a witness to be derived from it.              *)
(***************************************************************************)

Before(n, kind, p) == \E m \in 1..(n - 1) : log[m].kind = kind /\ log[m].pid = p
Spawned == {log[n].pid : n \in {m \in DOMAIN log : log[m].kind = "spawn"}}
HasEnd == log # <<>> /\ Last(log).kind = "end"

WellFormed ==
  /\ Len(log) >= 3 /\ log[1].kind = "run"
  /\ Last(log).kind = "end" /\ Last(log).value = "observed"
  /\ log[Len(log) - 1].kind = "archive"
  /\ Cardinality(Spawned) <= scenario.processes
  /\ \A n \in 2..(Len(log) - 1) :
       LET row == log[n] IN
       CASE row.kind = "spawn" -> /\ ~Before(n, "spawn", row.pid)
                                  /\ row.pid # Root => Before(n, "spawn", row.value)
         [] row.kind = "image" -> Before(n, "spawn", row.pid) /\ ~Before(n, "exit", row.pid)
         [] row.kind = "exit" -> Before(n, "image", row.pid) /\ ~Before(n, "exit", row.pid)
         [] row.kind = "reap" -> /\ ~Before(n, "reap", row.pid)
                                 /\ \E m \in 1..(n - 1) : log[m] = [row EXCEPT !.kind = "exit"]
         [] row.kind = "archive" -> \A p \in Spawned : Before(n, "reap", p)
         [] OTHER -> FALSE
  /\ Root \in Spawned

Descendants(p) == FoldLeft(LAMBDA found, row :
  IF row.kind = "spawn" /\ row.value \in found THEN found \cup {row.pid} ELSE found, {p}, log)

First(ns) == CHOOSE n \in ns : \A m \in ns : n <= m

\* Each expected image takes the first process that ran it and is not taken.
Selected ==
  LET builder == log[First(ImageRows(Build))].pid
      Candidates(image, used) == {n \in ImageRows(image) :
        log[n].pid \in Descendants(builder) \ ({Root, builder} \cup used)}
      Take(used, image) ==
        IF None \in used \/ Candidates(image, used) = {} THEN {None}
        ELSE used \cup {log[First(Candidates(image, used))].pid}
  IN FoldLeft(Take, {}, scenario.expected)

Derives ==
  /\ WellFormed
  /\ ImageRows(Build) # {} /\ None \notin Selected
  /\ Exited({"nonzero", "signal"}) = {}

-----------------------------------------------------------------------------
\* Mutant for NoSurvivor: the options of the trace are without EXITKILL.
LeaveWithoutExitKill ==
  /\ pc' = "exited"
  /\ UNCHANGED <<tracees, alarm, status, registry, log, error>>

\* When the observer is gone, the kernel kills what it traced (EXITKILL); the
\* launcher is only marked so after its first stop.
Leave ==
  /\ kernel' = Dead({p \in Proc : p # Root \/ kernel[p].state # "start"})
  /\ pc' = "exited"
  /\ UNCHANGED <<execs, alarm, status, registry, log, error>>

Finish == pc = "ended" /\ witness' = (~error /\ Derives) /\ Leave
Abandon == pc = "abandoned" /\ Leave /\ UNCHANGED witness

\* The deadline seen by the loop, before the timer's own signal.
TimeOut ==
  /\ pc = "wait" /\ live # {} /\ Raise
  /\ "time" \in scenario.faults /\ alarm = "set" /\ alarm' = "due"
  /\ UNCHANGED <<tracees, status, registry, log, error, witness>>

\* Mutant for Terminates: the deadline is only looked at between two statuses.
AlarmUnarmed ==
  /\ "time" \in scenario.faults /\ alarm = "due"
  /\ pc \in {"wait", "handle", "continue", "sealed"}
  /\ alarm' = "struck" /\ Raise
  /\ UNCHANGED <<tracees, status, registry, log, error, witness>>

\* The signal raises wherever it strikes; in the cleanup, it ends the cleanup.
Alarm ==
  /\ "time" \in scenario.faults /\ alarm \in {"set", "due"}
  /\ \/ /\ pc \in {"wait", "handle", "continue", "sealed"}
        /\ alarm' = "struck" /\ Raise
        /\ UNCHANGED <<tracees, status, registry, log, error, witness>>
     \/ /\ pc = "failed" /\ Finally
        /\ alarm' = "struck" /\ error' = TRUE /\ UNCHANGED log
     \/ /\ pc \in {"cleanup", "ended"}
        /\ alarm' = "late" /\ pc' = "abandoned"
        /\ UNCHANGED <<tracees, status, registry, log, error, witness>>

Observer ==
  \/ Launch \/ (\E p \in Proc : WaitPid(p)) \/ EventLimitReached \/ Handle \/ Continue
  \/ Seal \/ Sealed \/ RecordError \/ (\E p \in Proc : Kill(p)) \/ End \/ Finish \/ Abandon

Next ==
  \/ pc # "exited" /\ UNCHANGED scenario /\ (Tracees \/ Observer \/ TimeOut \/ Alarm)
  \/ pc = "exited" /\ UNCHANGED vars

\* The timer strikes in the end; nothing is assumed of the processes.
Spec == Init /\ [][Next]_vars /\ WF_trace(Observer) /\ WF_trace(Alarm)

-----------------------------------------------------------------------------
(***************************************************************************)
(* Properties.                                                             *)
(***************************************************************************)

\* Where the log says what p execed.
ExecRows(p) == {n \in DOMAIN log :
  log[n].kind = "image" /\ log[n].origin = "exec" /\ log[n].pid = p}

\* A log a witness is derived from tells the truth: the processes it names
\* are those that ran, with their parents, the images they execed in order,
\* and all of them are gone with code zero (_derive and the loop of _capture).
Sound == Derives =>
  /\ Spawned = {p \in Proc : kernel[p].state # "unborn"}
  /\ \A p \in Spawned :
       /\ kernel[p].state = "reaped" /\ kernel[p].code = "zero"
       /\ Cardinality(ExecRows(p)) = Len(execs[p])
       /\ \A n \in ExecRows(p) :
            log[n].value = execs[p][Cardinality({m \in ExecRows(p) : m <= n})]
       /\ p # Root => R("spawn", p, kernel[p].parent, "fork") \in Range(log)

\* A trace the observer itself calls observed has the structure the reader of
\* the log asks for, whatever the order of the reports was.
ObservedIsWellFormed ==
  HasEnd /\ Last(log).value = "observed" => WellFormed

\* The order of the reports never fails a trace: when it fails, a process was
\* killed or exited badly, a limit was reached, time ran out, or an image the
\* caller asked for did not run.
OrderNeverFails == pc = "failed" =>
  \/ \E p \in Proc : kernel[p].code \in {"nonzero", "signal"}
  \/ Cardinality(known) >= scenario.processes \/ Len(log) >= scenario.events - 2
  \/ alarm # "set"
  \/ live = {} /\ ~ImagesSeen

\* Whoever is stopped while the observer waits is a child whose parent's fork
\* is still to be reported: no other process is left behind stopped.
NoneForgotten == pc = "wait" =>
  \A p \in Proc : Stopped(p) /\ kernel[p].told => p \in earlyStops

\* When the observer is gone no process is left running; the exception is the
\* launcher, before its first stop, when the timer interrupts the cleanup.
NoSurvivor == pc = "exited" =>
  \A p \in Proc : \/ kernel[p].state \in {"unborn"} \cup Ended
                  \/ p = Root /\ kernel[p].state = "start" /\ alarm = "late"

\* A failed trace that is cleaned up has both its rows, the error and the end
\* ("Normal events reserve two terminal slots for a failed trace"); only the
\* alarm takes them, in the cleanup or after the archive's row was written.
TerminalRowsFit == pc = "abandoned" =>
  alarm = "late" \/ (alarm = "struck" /\ \E n \in DOMAIN log : log[n].kind = "archive")

\* With its timer the observer comes to an end, whatever the processes do.
Terminates == "time" \in scenario.faults => <>(pc = "exited")
\* The observer's registry and log agree with the processes it traces.
Consistent == TypeOK /\ NoneForgotten /\ ObservedIsWellFormed
=============================================================================
