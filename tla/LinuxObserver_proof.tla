------------------------- MODULE LinuxObserver_proof -------------------------
(***************************************************************************)
(* Proofs about the ptrace observer: for any processes, images and limits, *)
(* every order of reports, and every fault.                                *)
(***************************************************************************)
EXTENDS LinuxObserver, SequenceTheorems, FiniteSetTheorems, TLAPS

-----------------------------------------------------------------------------
(***************************************************************************)
(* The log, row by row.                                                    *)
(***************************************************************************)

HasRow(s, kind, p) == \E n \in DOMAIN s : s[n].kind = kind /\ s[n].pid = p
Bad(s) == \E n \in DOMAIN s : s[n].kind = "exit" /\ s[n].value \in {"nonzero", "signal"}
Earlier(s, n, kind, p) == \E m \in 1..(n - 1) : s[m].kind = kind /\ s[m].pid = p

\* What a reader asks of row n.
Good(s, n) ==
  CASE s[n].kind = "spawn" -> /\ ~Earlier(s, n, "spawn", s[n].pid)
                              /\ s[n].pid # Root => Earlier(s, n, "spawn", s[n].value)
    [] s[n].kind = "image" -> Earlier(s, n, "spawn", s[n].pid) /\ ~Earlier(s, n, "exit", s[n].pid)
    [] s[n].kind = "exit" -> Earlier(s, n, "image", s[n].pid) /\ ~Earlier(s, n, "exit", s[n].pid)
    [] s[n].kind = "reap" -> /\ ~Earlier(s, n, "reap", s[n].pid)
                             /\ \E m \in 1..(n - 1) : s[m] = [s[n] EXCEPT !.kind = "exit"]
    [] OTHER -> FALSE

\* A log that begins with the run, and the rows a reader asks for.
Proper(s) == \A n \in 2..Len(s) : Good(s, n)
Kinds == {"spawn", "image", "exit", "reap"}
Plain(s) == /\ s \in Seq(Row) /\ Len(s) >= 1 /\ s[1].kind = "run"
            /\ \A n \in 2..Len(s) : s[n].kind \in Kinds

-----------------------------------------------------------------------------
(***************************************************************************)
(* The processes.                                                          *)
(***************************************************************************)

State(p) == kernel[p].state
Code(p) == kernel[p].code
Gone(p) == State(p) \in Ended

\* What is true of processes whoever observes them.
Family ==
  /\ \A p \in Proc : State(p) = "unborn" => Code(p) = None /\ ~kernel[p].told
  /\ \A p \in Proc : kernel[p].child # None =>
       /\ kernel[p].child # Root /\ State(kernel[p].child) # "unborn"
       /\ kernel[kernel[p].child].parent = p
  /\ \A p \in Proc : State(p) = "fork" => kernel[p].child # None
  /\ \A p \in Proc : Gone(p) => Code(p) # None
  /\ \A p \in Proc : Code(p) # None => State(p) = "exit" \/ Gone(p)
  /\ \A p \in Proc : State(p) = "exit" => Code(p) \in {"zero", "nonzero"}
  /\ Code(Root) = "zero" => execs[Root] # <<>>

\* Before the launch there is nothing.
Unlaunched ==
  /\ live = {} /\ known = {} /\ initialStop = {} /\ earlyStops = {} /\ log = <<>> /\ ~error
  /\ \A p \in Proc : State(p) = "unborn" /\ pending[p] = None /\ execs[p] = <<>> /\ kernel[p].told = FALSE

-----------------------------------------------------------------------------
(***************************************************************************)
(* What the observer knows while it takes statuses.                        *)
(***************************************************************************)

Loop == pc \in {"wait", "handle", "continue"}

\* The status of p is about to be handled.
AtHand(p) == pc = "handle" /\ status.pid = p

\* A fork the observer has not handled.
Unhandled(p) == State(p) = "fork" /\ (~kernel[p].told \/ AtHand(p))

\* Who is not known has not run; its parent's fork is still to be handled.
Strangers ==
  /\ \A p \in Proc \ known : /\ State(p) \in {"unborn", "start"} \cup Ended
                             /\ Code(p) \in {None, "signal"} /\ pending[p] = None
  /\ \A c \in Proc \ (known \cup {Root}) : State(c) # "unborn" =>
       \E p \in Proc : kernel[p].child = c /\ (Unhandled(p) \/ Code(p) = "signal")
  /\ \A p \in Proc : Unhandled(p) => kernel[p].child \notin known

\* Who is known, and how far.
Registry ==
  /\ known # {} => Root \in known
  /\ IsFiniteSet(known) /\ Cardinality(known) <= scenario.processes
  /\ Root \notin initialStop \cup earlyStops
  /\ \A p \in known \cup earlyStops : State(p) # "unborn"
  /\ \A p \in initialStop : State(p) \in {"start"} \cup Ended /\ Code(p) \in {None, "signal"}
  /\ \A p \in known \ initialStop : State(p) = "start" => kernel[p].told
  /\ \A p \in known \ live : State(p) = "reaped"
  /\ \A p \in Proc : pending[p] # None =>
       /\ pending[p] = Code(p)
       /\ State(p) = "exit" => kernel[p].told /\ ~AtHand(p)

\* The status that was taken, and what is left of it.
Current ==
  /\ pc # "wait" => status.pid \in Proc
  /\ pc # "wait" /\ status.kind \in Stops =>
       \/ State(status.pid) = status.kind /\ kernel[status.pid].told
       \/ State(status.pid) = "dead" /\ (Code(status.pid) = "signal" \/ status.kind = "exit")
  /\ pc = "handle" /\ status.kind = "dead" => State(status.pid) = "reaped"
  /\ pc = "handle" /\ status.kind = "start" => status.pid \notin known \/ status.pid \in initialStop
  /\ pc = "handle" /\ status.kind \in Stops \ {"start"} => status.pid \in known \ initialStop
  /\ pc = "continue" => status.kind \in Stops /\ status.pid \in known \ initialStop
  /\ \A p \in Proc : Stopped(p) /\ kernel[p].told => p \in earlyStops \/ (pc # "wait" /\ p = status.pid)

\* What the log s says of the known processes K and their recorded codes P.
Says(s, K, P) ==
  /\ Plain(s) /\ (Bad(s) \/ Proper(s))
  /\ \A p \in Proc : HasRow(s, "spawn", p) <=> p \in K
  /\ \A p \in Proc : HasRow(s, "exit", p) <=> P[p] # None
  /\ \A n \in DOMAIN s : s[n].kind = "exit" =>
       s[n].pid \in Proc /\ s[n] = R("exit", s[n].pid, P[s[n].pid], None)
  /\ \A n \in DOMAIN s : s[n].kind = "spawn" => s[n].pid \in Proc

\* The log tells what the observer knows.
Told ==
  /\ ~error /\ Says(log, known, pending)
  /\ \A p \in Proc : HasRow(log, "reap", p) => State(p) = "reaped" /\ ~AtHand(p)
  /\ \A p \in known \ live : HasRow(log, "reap", p)

\* Who has run has an image in the log.
Imaged ==
  /\ Root \notin known => execs[Root] = <<>>
  /\ \A p \in Proc : State(p) \in {"running", "fork"} \/ Code(p) = "zero" =>
       HasRow(log, "image", p) \/ (p = Root /\ execs[Root] = <<>>)
  /\ pc = "continue" /\ State(status.pid) \in {"start", "exec"} =>
       HasRow(log, "image", status.pid) \/ (status.pid = Root /\ execs[Root] = <<>>)

InLoop == Strangers /\ Registry /\ Current /\ Told /\ Imaged

-----------------------------------------------------------------------------
(***************************************************************************)
(* After the loop.                                                         *)
(***************************************************************************)

\* A sealed log.
SealedLog ==
  /\ Len(log) >= 2 /\ log[1].kind = "run" /\ log[Len(log)].kind = "archive"
  /\ \A n \in 2..Len(log) - 1 : Good(log, n)
  /\ Cardinality(Spawned) <= scenario.processes /\ Root \in Spawned
  /\ \A p \in Spawned : Earlier(log, Len(log), "reap", p)

NoEnd == \A n \in DOMAIN log : log[n].kind # "end"
Archived == \E n \in DOMAIN log : log[n].kind = "archive"
Late == alarm = "struck" /\ Archived

Phases ==
  /\ pc = "launch" => Unlaunched
  /\ Loop => InLoop
  /\ pc = "sealed" \/ (pc = "cleanup" /\ ~error) => SealedLog
  /\ pc \notin {"ended", "abandoned", "exited"} => NoEnd

Places ==
  /\ pc = "launch" \/ Loop => Len(log) <= scenario.events - 2
  /\ pc = "sealed" => Len(log) <= scenario.events - 1 /\ Archived
  /\ pc = "failed" => Len(log) <= scenario.events - 2 \/ Late
  /\ pc = "cleanup" => Len(log) <= scenario.events - 1 \/ Late

RootHeld ==
  /\ State(Root) \notin {"unborn", "reaped"} => Root \in live
  /\ pc = "ended" => State(Root) # "start"
  /\ pc = "abandoned" => State(Root) # "start" \/ alarm = "late"

-----------------------------------------------------------------------------
(***************************************************************************)
(* What a record does to the log.                                          *)
(***************************************************************************)

LEMMA FitsOne ==
  ASSUME log \in Seq(Row), NEW a \in Row
  PROVE  Fits(<<a>>) <=> Len(log) < scenario.events - Reserved(a.kind)
<1>1. DOMAIN <<a>> = {1} /\ <<a>>[1] = a
  OBVIOUS
<1>2. Len(log) \in Nat
  OBVIOUS
<1>3. Len(log) + 1 - 1 = Len(log)
  BY <1>2
<1> QED
  BY <1>1, <1>3 DEF Fits

LEMMA FitsTwo ==
  ASSUME log \in Seq(Row), NEW a \in Row, NEW b \in Row, Reserved(a.kind) = Reserved(b.kind),
         scenario.events \in Nat
  PROVE  /\ Fits(<<a>>) <=> Len(log) < scenario.events - Reserved(b.kind)
         /\ Fits(<<a, b>>) <=> Len(log) + 1 < scenario.events - Reserved(b.kind)
<1>1. DOMAIN <<a, b>> = {1, 2} /\ <<a, b>>[1] = a /\ <<a, b>>[2] = b
  OBVIOUS
<1>2. Len(log) \in Nat /\ Reserved(b.kind) \in {0, 1, 2}
  BY DEF Reserved
<1>3. Len(log) + 1 - 1 = Len(log) /\ Len(log) + 2 - 1 = Len(log) + 1
  BY <1>2
<1>4. Fits(<<a, b>>) <=> /\ Len(log) < scenario.events - Reserved(a.kind)
                         /\ Len(log) + 1 < scenario.events - Reserved(b.kind)
  BY <1>1, <1>3 DEF Fits
<1>5. Len(log) + 1 < scenario.events - Reserved(b.kind) => Len(log) < scenario.events - Reserved(b.kind)
  BY <1>2
<1> QED
  BY <1>4, <1>5, FitsOne

LEMMA LogsOne ==
  ASSUME log \in Seq(Row), NEW a \in Row, NEW next, Logs(<<a>>, next)
  PROVE  \/ Fits(<<a>>) /\ log' = Append(log, a) /\ pc' = next
         \/ ~Fits(<<a>>) /\ log' = log /\ pc' = "failed"
<1>1. /\ <<a>> \in Seq(Row) /\ Len(<<a>>) = 1 /\ 0..1 = {0, 1} /\ 0 + 1 = 1
      /\ SubSeq(<<a>>, 1, 0) = <<>> /\ SubSeq(<<a>>, 1, 1) = <<a>>
  <2>1. <<a>> \in Seq(Row) /\ Len(<<a>>) = 1
    OBVIOUS
  <2>2. SubSeq(<<a>>, 1, 0) = <<>>
    BY SubSeqEmpty
  <2>3. SubSeq(<<a>>, 1, 1) = <<a>>
    BY <2>1, SubSeqFull
  <2>4. 0..1 = {0, 1} /\ 0 + 1 = 1
    OBVIOUS
  <2> QED
    BY <2>1, <2>2, <2>3, <2>4
<1>2. log \o <<>> = log /\ log \o <<a>> = Append(log, a)
  BY AppendIsConcat, ConcatEmptySeq
<1>3. PICK n \in 0..1 :
        /\ Fits(SubSeq(<<a>>, 1, n))
        /\ log' = log \o SubSeq(<<a>>, 1, n)
        /\ IF n = 1 THEN pc' = next ELSE ~Fits(SubSeq(<<a>>, 1, n + 1)) /\ Raise
  BY <1>1 DEF Logs
<1>4. CASE n = 0
  BY <1>1, <1>2, <1>3, <1>4 DEF Raise
<1>5. CASE n = 1
  BY <1>1, <1>2, <1>3, <1>5
<1> QED
  BY <1>1, <1>4, <1>5

LEMMA Pair ==
  ASSUME NEW a \in Row, NEW b \in Row
  PROVE  <<a>> \o <<b>> = <<a, b>>
<1> DEFINE r == <<a>> \o <<b>>
<1>1. /\ <<a>> \in Seq(Row) /\ <<b>> \in Seq(Row)
      /\ Len(<<a>>) = 1 /\ <<a>>[1] = a /\ Len(<<b>>) = 1 /\ <<b>>[1] = b
      /\ <<a, b>> \in Seq(Row) /\ Len(<<a, b>>) = 2 /\ <<a, b>>[1] = a /\ <<a, b>>[2] = b
  OBVIOUS
<1>2. /\ r \in Seq(Row) /\ Len(r) = Len(<<a>>) + Len(<<b>>)
      /\ \A i \in 1..Len(<<a>>) + Len(<<b>>) :
           r[i] = IF i <= Len(<<a>>) THEN <<a>>[i] ELSE <<b>>[i - Len(<<a>>)]
  BY <1>1, ConcatProperties
<1> HIDE DEF r
<1>3. Len(r) = 2 /\ r[1] = a /\ r[2] = b
  BY <1>1, <1>2
<1>4. r = <<a, b>>
  BY <1>1, <1>2, <1>3, SeqEqual
<1> QED
  BY <1>4 DEF r

LEMMA LogsTwo ==
  ASSUME log \in Seq(Row), NEW a \in Row, NEW b \in Row, NEW next, Logs(<<a, b>>, next),
         Reserved(a.kind) = Reserved(b.kind), scenario.events \in Nat
  PROVE  \/ Fits(<<a, b>>) /\ log' = Append(Append(log, a), b) /\ pc' = next
         \/ ~Fits(<<a, b>>) /\ Fits(<<a>>) /\ log' = Append(log, a) /\ pc' = "failed"
         \/ ~Fits(<<a, b>>) /\ ~Fits(<<a>>) /\ log' = log /\ pc' = "failed"
<1>1. /\ <<a, b>> \in Seq(Row) /\ Len(<<a, b>>) = 2
      /\ 0..2 = {0, 1, 2} /\ 0 + 1 = 1 /\ 1 + 1 = 2
      /\ SubSeq(<<a, b>>, 1, 0) = <<>> /\ SubSeq(<<a, b>>, 1, 1) = <<a>>
      /\ SubSeq(<<a, b>>, 1, 2) = <<a, b>>
  <2>1. <<a, b>> \in Seq(Row) /\ Len(<<a, b>>) = 2 /\ <<a, b>>[1] = a
    OBVIOUS
  <2>2. SubSeq(<<a, b>>, 1, 0) = <<>>
    BY SubSeqEmpty
  <2>3. SubSeq(<<a, b>>, 1, 2) = <<a, b>>
    BY <2>1, SubSeqFull
  <2>4. SubSeq(<<a, b>>, 1, 1) = <<a>>
    <3> DEFINE s == SubSeq(<<a, b>>, 1, 1)
    <3>1. s \in Seq(Row) /\ Len(s) = 1 /\ s[1] = a
      <4>1. 1 \in Int /\ \A i \in 1..1 : <<a, b>>[i] \in Row
        BY <2>1
      <4>2. \A i \in 1..1 - 1 + 1 : s[i] = <<a, b>>[1 + i - 1]
        BY <4>1, SubSeqProperties
      <4>3. s[1] = a
        BY <2>1, <4>2
      <4> QED
        BY <4>1, <4>3, SubSeqProperties
    <3>2. <<a>> \in Seq(Row) /\ Len(<<a>>) = 1 /\ <<a>>[1] = a
      OBVIOUS
    <3> HIDE DEF s
    <3>3. s = <<a>>
      BY <3>1, <3>2, SeqEqual
    <3> QED
      BY <3>3 DEF s
  <2>5. 0..2 = {0, 1, 2} /\ 0 + 1 = 1 /\ 1 + 1 = 2
    OBVIOUS
  <2> QED
    BY <2>1, <2>2, <2>3, <2>4, <2>5
<1>2. /\ log \o <<>> = log /\ log \o <<a>> = Append(log, a)
      /\ log \o <<a, b>> = Append(Append(log, a), b)
  <2>1. log \o <<>> = log /\ log \o <<a>> = Append(log, a)
    BY AppendIsConcat, ConcatEmptySeq
  <2>2. Append(log, a) \in Seq(Row) /\ <<a>> \in Seq(Row) /\ <<b>> \in Seq(Row)
    BY AppendProperties
  <2>3. <<a>> \o <<b>> = <<a, b>>
    BY Pair
  <2>4. Append(Append(log, a), b) = (log \o <<a>>) \o <<b>>
    BY <2>1, <2>2, AppendIsConcat
  <2> QED
    BY <2>1, <2>2, <2>3, <2>4, ConcatAssociative
<1>3. PICK n \in 0..2 :
        /\ Fits(SubSeq(<<a, b>>, 1, n))
        /\ log' = log \o SubSeq(<<a, b>>, 1, n)
        /\ IF n = 2 THEN pc' = next ELSE ~Fits(SubSeq(<<a, b>>, 1, n + 1)) /\ Raise
  BY <1>1 DEF Logs
<1>4. Fits(<<a, b>>) => Fits(<<a>>)
  BY FitsTwo DEF Reserved
<1>5. CASE n = 0
  BY <1>1, <1>2, <1>3, <1>4, <1>5 DEF Raise
<1>6. CASE n = 1
  BY <1>1, <1>2, <1>3, <1>4, <1>6 DEF Raise
<1>7. CASE n = 2
  BY <1>1, <1>2, <1>3, <1>7
<1> QED
  BY <1>1, <1>5, <1>6, <1>7

LEMMA Longer ==
  ASSUME NEW S, NEW s \in Seq(S), NEW a \in S, NEW r, r = Append(s, a)
  PROVE  /\ r \in Seq(S) /\ Len(r) = Len(s) + 1 /\ Len(s) \in Nat
         /\ DOMAIN r = 1..Len(s) + 1 /\ DOMAIN s = 1..Len(s)
         /\ r[Len(s) + 1] = a
         /\ \A n \in 1..Len(s) : r[n] = s[n]
<1>1. /\ r \in Seq(S) /\ Len(r) = Len(s) + 1 /\ r[Len(s) + 1] = a
      /\ \A n \in 1..Len(s) : r[n] = s[n]
  BY AppendProperties
<1> QED
  BY <1>1

-----------------------------------------------------------------------------
(***************************************************************************)
(* What a step does to the processes, one at a time.                       *)
(***************************************************************************)

LEMMA ForkDoes ==
  ASSUME TypeOK, NEW p \in Proc, NEW c \in Proc, Fork(p, c)
  PROVE  /\ kernel' \in [Proc -> Process] /\ p # c /\ c # Root
         /\ kernel[p].state = "running" /\ kernel[c].state = "unborn"
         /\ kernel'[p].state = "fork" /\ ~kernel'[p].told /\ kernel'[p].child = c
         /\ kernel'[p].parent = kernel[p].parent /\ kernel'[p].code = kernel[p].code
         /\ kernel'[c].state = "start" /\ kernel'[c].parent = p /\ kernel'[c].told = kernel[c].told
         /\ kernel'[c].child = kernel[c].child /\ kernel'[c].code = kernel[c].code
         /\ \A q \in Proc \ {p, c} : kernel'[q] = kernel[q]
<1>1. kernel \in [Proc -> Process] /\ kernel[p] \in Process /\ kernel[c] \in Process
  BY DEF TypeOK
<1>2. kernel[p].state = "running" /\ kernel[c].state = "unborn" /\ c # Root /\ p # c
  BY DEF Fork, Runs
<1>3. kernel' = [kernel EXCEPT ![p].state = "fork", ![p].told = FALSE, ![p].child = c,
                               ![c].state = "start", ![c].parent = p,
                               ![c].image = kernel[p].image]
  BY DEF Fork
<1>4. /\ kernel'[p] = [kernel[p] EXCEPT !.state = "fork", !.told = FALSE, !.child = c]
      /\ kernel'[c] = [kernel[c] EXCEPT !.state = "start", !.parent = p, !.image = kernel[p].image]
      /\ \A q \in Proc \ {p, c} : kernel'[q] = kernel[q]
      /\ DOMAIN kernel' = Proc /\ kernel' = [q \in Proc |-> kernel'[q]]
  BY <1>1, <1>2, <1>3
<1>5. kernel'[p] \in Process /\ kernel'[c] \in Process
  BY <1>1, <1>4 DEF Process, Stops
<1>6. kernel' \in [Proc -> Process]
  BY <1>1, <1>4, <1>5
<1> QED
  BY <1>1, <1>2, <1>4, <1>6 DEF Process

LEMMA ExecDoes ==
  ASSUME TypeOK, NEW p \in Proc, NEW i \in Image, Exec(p, i)
  PROVE  /\ kernel' \in [Proc -> Process] /\ execs' \in [Proc -> Seq(Image)]
         /\ kernel[p].state = "running"
         /\ kernel'[p].state = "exec" /\ ~kernel'[p].told /\ kernel'[p].child = kernel[p].child
         /\ kernel'[p].parent = kernel[p].parent /\ kernel'[p].code = kernel[p].code
         /\ \A q \in Proc \ {p} : kernel'[q] = kernel[q] /\ execs'[q] = execs[q]
<1>1. kernel \in [Proc -> Process] /\ kernel[p] \in Process
  BY DEF TypeOK
<1>2. /\ kernel'[p] = [kernel[p] EXCEPT !.state = "exec", !.told = FALSE, !.image = i]
      /\ \A q \in Proc \ {p} : kernel'[q] = kernel[q]
      /\ kernel' = [q \in Proc |-> kernel'[q]]
  BY <1>1 DEF Exec
<1>3. kernel'[p] \in Process
  BY <1>1, <1>2 DEF Process, Stops
<1>4. kernel' \in [Proc -> Process]
  BY <1>1, <1>2, <1>3
<1>5. execs' \in [Proc -> Seq(Image)] /\ \A q \in Proc \ {p} : execs'[q] = execs[q]
  <2>1. Append(execs[p], i) \in Seq(Image)
    BY AppendProperties DEF TypeOK
  <2> QED
    BY <2>1 DEF Exec, TypeOK
<1> QED
  BY <1>1, <1>2, <1>4, <1>5 DEF Process, Exec

LEMMA ExitDoes ==
  ASSUME TypeOK, NEW p \in Proc, NEW code \in Codes, Exit(p, code)
  PROVE  /\ kernel' \in [Proc -> Process]
         /\ kernel[p].state = "running" /\ code \in {"zero", "nonzero"}
         /\ code = "zero" /\ p = Root => execs[p] # <<>>
         /\ kernel'[p].state = "exit" /\ ~kernel'[p].told /\ kernel'[p].child = kernel[p].child
         /\ kernel'[p].parent = kernel[p].parent /\ kernel'[p].code = code
         /\ \A q \in Proc \ {p} : kernel'[q] = kernel[q]
<1>1. kernel \in [Proc -> Process] /\ kernel[p] \in Process
  BY DEF TypeOK
<1>2. /\ kernel'[p] = [kernel[p] EXCEPT !.state = "exit", !.told = FALSE, !.code = code]
      /\ \A q \in Proc \ {p} : kernel'[q] = kernel[q]
      /\ kernel' = [q \in Proc |-> kernel'[q]]
  BY <1>1 DEF Exit
<1>3. kernel'[p] \in Process
  BY <1>1, <1>2 DEF Process, Stops
<1>4. kernel' \in [Proc -> Process]
  BY <1>1, <1>2, <1>3
<1>5. code \in {"zero", "nonzero"} /\ (code = "zero" /\ p = Root => execs[p] # <<>>)
  BY DEF Exit, Runs, Codes
<1> QED
  BY <1>1, <1>2, <1>4, <1>5 DEF Process, Exit

\* Whom a death does not reach stays as he is.
LEMMA DeadDoes ==
  ASSUME TypeOK, NEW ps, kernel' = Dead(ps)
  PROVE  /\ kernel' \in [Proc -> Process]
         /\ \A q \in Proc : q \in ps /\ kernel[q].state \notin {"unborn"} \cup Ended =>
              /\ kernel'[q].state = "dead" /\ ~kernel'[q].told
              /\ kernel'[q].child = kernel[q].child /\ kernel'[q].parent = kernel[q].parent
              /\ kernel'[q].code = IF kernel[q].code = None THEN "signal" ELSE kernel[q].code
         /\ \A q \in Proc : ~(q \in ps /\ kernel[q].state \notin {"unborn"} \cup Ended) =>
              kernel'[q] = kernel[q]
<1>1. \A q \in Proc : kernel[q] \in Process
  BY DEF TypeOK
<1>2. \A q \in Proc : kernel'[q] =
        IF q \in ps /\ kernel[q].state \notin {"unborn"} \cup Ended
        THEN [kernel[q] EXCEPT !.state = "dead", !.told = FALSE,
                               !.code = IF @ = None THEN "signal" ELSE @]
        ELSE kernel[q]
  BY DEF Dead
<1>3. kernel' = [q \in Proc |-> kernel'[q]]
  BY DEF Dead
<1>4. ASSUME NEW q \in Proc, q \in ps, kernel[q].state \notin {"unborn"} \cup Ended
      PROVE  /\ kernel'[q] \in Process
             /\ kernel'[q].state = "dead" /\ ~kernel'[q].told
             /\ kernel'[q].child = kernel[q].child /\ kernel'[q].parent = kernel[q].parent
             /\ kernel'[q].code = IF kernel[q].code = None THEN "signal" ELSE kernel[q].code
  <2>1. kernel'[q] = [kernel[q] EXCEPT !.state = "dead", !.told = FALSE,
                                       !.code = IF @ = None THEN "signal" ELSE @]
    BY <1>2, <1>4
  <2> QED
    BY <1>1, <2>1 DEF Process, Ended, Codes
<1>5. \A q \in Proc : kernel'[q] \in Process
  BY <1>1, <1>2, <1>4
<1> QED
  BY <1>2, <1>3, <1>4, <1>5

LEMMA ContinuedDoes ==
  ASSUME TypeOK, NEW p \in Proc, kernel' = Continued(p)
  PROVE  /\ kernel' \in [Proc -> Process]
         /\ kernel'[p].state = IF kernel[p].state = "exit" THEN "dead" ELSE "running"
         /\ ~kernel'[p].told /\ kernel'[p].child = kernel[p].child
         /\ kernel'[p].parent = kernel[p].parent /\ kernel'[p].code = kernel[p].code
         /\ \A q \in Proc \ {p} : kernel'[q] = kernel[q]
<1>1. kernel \in [Proc -> Process] /\ kernel[p] \in Process
  BY DEF TypeOK
<1>2. /\ kernel'[p] = [kernel[p] EXCEPT !.state = IF @ = "exit" THEN "dead" ELSE "running",
                                        !.told = FALSE]
      /\ \A q \in Proc \ {p} : kernel'[q] = kernel[q]
      /\ kernel' = [q \in Proc |-> kernel'[q]]
  BY <1>1 DEF Continued
<1>3. kernel'[p] \in Process
  BY <1>1, <1>2 DEF Process, Ended
<1>4. kernel' \in [Proc -> Process]
  BY <1>1, <1>2, <1>3
<1> QED
  BY <1>1, <1>2, <1>4 DEF Process

LEMMA LaunchDoes ==
  ASSUME TypeOK, Launch
  PROVE  /\ kernel' \in [Proc -> Process] /\ Root \in Proc
         /\ kernel'[Root].state = "start" /\ kernel'[Root].told = kernel[Root].told
         /\ kernel'[Root].child = kernel[Root].child
         /\ kernel'[Root].parent = kernel[Root].parent /\ kernel'[Root].code = kernel[Root].code
         /\ \A q \in Proc \ {Root} : kernel'[q] = kernel[q]
<1>1. Root \in Proc /\ kernel \in [Proc -> Process] /\ kernel[Root] \in Process
  BY ObserverAssumption DEF TypeOK
<1>2. /\ kernel'[Root] = [kernel[Root] EXCEPT !.state = "start"]
      /\ \A q \in Proc \ {Root} : kernel'[q] = kernel[q]
      /\ kernel' = [q \in Proc |-> kernel'[q]]
  BY <1>1 DEF Launch
<1>3. kernel'[Root] \in Process
  BY <1>1, <1>2 DEF Process, Stops
<1>4. kernel' \in [Proc -> Process]
  BY <1>1, <1>2, <1>3
<1> QED
  BY <1>1, <1>2, <1>4 DEF Process

LEMMA WaitPidDoes ==
  ASSUME TypeOK, NEW p \in Proc, WaitPid(p)
  PROVE  /\ kernel' \in [Proc -> Process]
         /\ status' \in [pid : Proc \cup {None}, kind : Stops \cup {"dead"}]
         /\ status'.pid = p /\ status'.kind = kernel[p].state
         /\ (kernel[p].state \in Stops /\ ~kernel[p].told) \/ kernel[p].state = "dead"
         /\ kernel'[p].state = IF kernel[p].state = "dead" THEN "reaped" ELSE kernel[p].state
         /\ kernel'[p].told /\ kernel'[p].child = kernel[p].child
         /\ kernel'[p].parent = kernel[p].parent /\ kernel'[p].code = kernel[p].code
         /\ \A q \in Proc \ {p} : kernel'[q] = kernel[q]
<1>1. kernel \in [Proc -> Process] /\ kernel[p] \in Process
  BY DEF TypeOK
<1>2. /\ kernel'[p] = [kernel[p] EXCEPT !.told = TRUE, !.state = IF @ = "dead" THEN "reaped" ELSE @]
      /\ \A q \in Proc \ {p} : kernel'[q] = kernel[q]
      /\ kernel' = [q \in Proc |-> kernel'[q]]
  BY <1>1 DEF WaitPid
<1>3. kernel'[p] \in Process
  BY <1>1, <1>2 DEF Process, Ended
<1>4. kernel' \in [Proc -> Process]
  BY <1>1, <1>2, <1>3
<1>5. (kernel[p].state \in Stops /\ ~kernel[p].told) \/ kernel[p].state = "dead"
  BY DEF WaitPid, Stopped
<1>6. status' = [pid |-> p, kind |-> kernel[p].state]
  BY DEF WaitPid
<1> QED
  BY <1>1, <1>2, <1>4, <1>5, <1>6 DEF Process

LEMMA EndDoes ==
  ASSUME TypeOK, End
  PROVE  /\ kernel' \in [Proc -> Process]
         /\ \A q \in live : /\ kernel[q].state \in Ended /\ kernel'[q].state = "reaped"
                            /\ kernel'[q].told = kernel[q].told /\ kernel'[q].child = kernel[q].child
                            /\ kernel'[q].parent = kernel[q].parent
                            /\ kernel'[q].code = kernel[q].code
         /\ \A q \in Proc \ live : kernel'[q] = kernel[q]
<1>1. live \subseteq Proc /\ \A q \in Proc : kernel[q] \in Process
  BY DEF TypeOK
<1>2. /\ \A q \in live : kernel'[q] = [kernel[q] EXCEPT !.state = "reaped"]
      /\ \A q \in Proc \ live : kernel'[q] = kernel[q]
      /\ kernel' = [q \in Proc |-> kernel'[q]]
  BY <1>1 DEF End
<1>3. \A q \in live : kernel'[q] \in Process
  <2> TAKE q \in live
  <2>1. kernel[q] \in Process /\ kernel'[q] = [kernel[q] EXCEPT !.state = "reaped"]
    BY <1>1, <1>2
  <2> QED
    BY <2>1 DEF Process, Ended
<1>4. \A q \in Proc : kernel'[q] \in Process
  BY <1>1, <1>2, <1>3
<1>5. kernel' \in [Proc -> Process]
  BY <1>2, <1>4
<1>6. \A q \in live : kernel[q].state \in Ended
  BY DEF End
<1>7. ASSUME NEW q \in live
      PROVE  /\ kernel'[q].state = "reaped" /\ kernel'[q].told = kernel[q].told
             /\ kernel'[q].child = kernel[q].child /\ kernel'[q].parent = kernel[q].parent
             /\ kernel'[q].code = kernel[q].code
  <2>1. kernel[q] \in Process /\ kernel'[q] = [kernel[q] EXCEPT !.state = "reaped"]
    BY <1>1, <1>2
  <2> QED
    BY ONLY <2>1 DEF Process
<1> QED
  BY <1>2, <1>5, <1>6, <1>7

-----------------------------------------------------------------------------
(***************************************************************************)
(* The steps of the processes.                                             *)
(***************************************************************************)

LEMMA ForkKeeps ==
  ASSUME TypeOK, Family, NEW p \in Proc, NEW c \in Proc, Fork(p, c), UNCHANGED scenario
  PROVE  Family' /\ (Loop /\ InLoop => InLoop')
<1> DEFINE Does ==
      /\ p # c /\ c # Root
      /\ kernel[p].state = "running" /\ kernel[c].state = "unborn"
      /\ kernel'[p].state = "fork" /\ ~kernel'[p].told /\ kernel'[p].child = c
      /\ kernel'[p].parent = kernel[p].parent /\ kernel'[p].code = kernel[p].code
      /\ kernel'[c].state = "start" /\ kernel'[c].parent = p /\ kernel'[c].told = kernel[c].told
      /\ kernel'[c].child = kernel[c].child /\ kernel'[c].code = kernel[c].code
      /\ \A q \in Proc \ {p, c} : kernel'[q] = kernel[q]
<1>1. Does
  BY ForkDoes
<1>2. UNCHANGED <<execs, alarm, pc, status, live, known, pending, initialStop, earlyStops, log, error>>
  BY DEF Fork, observer, registry
<1>3. /\ None \notin Proc /\ None \notin Codes /\ Root \in Proc
      /\ \A q \in Proc : kernel[q].child \in Proc \cup {None}
      /\ live \subseteq Proc /\ known \subseteq Proc /\ initialStop \subseteq known
      /\ earlyStops \subseteq Proc
  BY ObserverAssumption DEF TypeOK, Process
<1>4. kernel[p].code = None /\ kernel[c].code = None /\ ~kernel[c].told
  BY <1>1 DEF Family, State, Code, Gone, Ended
<1>5. Family'
  BY <1>1, <1>2, <1>3, <1>4 DEF Family, State, Code, Gone, Ended
<1>6. ASSUME Loop, InLoop PROVE InLoop'
  <2>1. p \in known /\ c \notin known /\ pending[c] = None
    BY <1>1, <1>6 DEF InLoop, Strangers, Registry, State, Ended
  <2>2. pc # "wait" /\ status.kind \in Stops => status.pid # p /\ status.pid # c
    BY <1>1, <1>6 DEF InLoop, Current, State, Stops
  <2>3. Strangers'
    <3>1. ASSUME NEW q \in Proc \ known
          PROVE  /\ kernel'[q].state \in {"unborn", "start"} \cup Ended
                 /\ kernel'[q].code \in {None, "signal"} /\ pending[q] = None
      <4>1. q # p /\ kernel[q].state \in {"unborn", "start"} \cup Ended
            /\ kernel[q].code \in {None, "signal"} /\ pending[q] = None
        BY <1>6, <2>1, <3>1 DEF InLoop, Strangers, State, Code
      <4> QED
        BY <1>1, <1>4, <4>1, <3>1
    <3>2. ASSUME NEW d \in Proc \ (known \cup {Root}), kernel'[d].state # "unborn"
          PROVE  \E q \in Proc : kernel'[q].child = d /\ (Unhandled(q)' \/ kernel'[q].code = "signal")
      <4>1. CASE d = c
        BY <1>1, <4>1 DEF Unhandled, State
      <4>2. CASE d # c
        <5>1. d # p /\ kernel[d].state # "unborn"
          BY <1>1, <2>1, <3>2, <4>2
        <5>2. PICK q \in Proc : kernel[q].child = d /\ (Unhandled(q) \/ kernel[q].code = "signal")
          BY <1>6, <3>2, <5>1 DEF InLoop, Strangers, State, Code
        <5>3. q # p /\ q # c
          BY <1>1, <1>3, <1>4, <4>2, <5>2 DEF Unhandled, State, Codes
        <5> QED
          BY <1>1, <1>2, <5>2, <5>3 DEF Unhandled, State, AtHand
      <4> QED
        BY <4>1, <4>2
    <3>3. ASSUME NEW q \in Proc, Unhandled(q)' PROVE kernel'[q].child \notin known
      <4>1. CASE q = p
        BY <1>1, <2>1, <4>1
      <4>2. CASE q # p
        <5>1. q # c /\ Unhandled(q)
          BY <1>1, <1>2, <3>3, <4>2 DEF Unhandled, State, AtHand
        <5> QED
          BY <1>1, <1>6, <4>2, <5>1 DEF InLoop, Strangers
      <4> QED
        BY <4>1, <4>2
    <3> QED
      BY <1>2, <3>1, <3>2, <3>3 DEF Strangers, State, Code
  <2>4. Registry'
    <3>1. \A q \in known \cup earlyStops : kernel'[q].state # "unborn"
      BY <1>1, <1>3, <1>6 DEF InLoop, Registry, State
    <3>2. \A q \in initialStop : kernel'[q].state \in {"start"} \cup Ended /\ kernel'[q].code \in {None, "signal"}
      <4>1. \A q \in initialStop : q # c /\ q # p
        BY <1>1, <1>3, <1>6, <2>1 DEF InLoop, Registry, State, Ended
      <4> QED
        BY <1>1, <1>3, <1>6, <4>1 DEF InLoop, Registry, State, Code
    <3>3. \A q \in known \ initialStop : kernel'[q].state = "start" => kernel'[q].told
      BY <1>1, <1>3, <1>6, <2>1 DEF InLoop, Registry, State
    <3>4. \A q \in known \ live : kernel'[q].state = "reaped"
      BY <1>1, <1>3, <1>6, <2>1 DEF InLoop, Registry, State
    <3>5. \A q \in Proc : pending[q] # None =>
            /\ pending[q] = kernel'[q].code
            /\ kernel'[q].state = "exit" => kernel'[q].told /\ ~AtHand(q)'
      BY <1>1, <1>2, <1>4, <1>6, <2>1 DEF InLoop, Registry, State, Code, AtHand
    <3>6. /\ known' # {} => Root \in known'
          /\ IsFiniteSet(known') /\ Cardinality(known') <= scenario'.processes
          /\ Root \notin initialStop' \cup earlyStops'
      BY <1>2, <1>6 DEF InLoop, Registry
    <3> QED
      BY <1>2, <3>1, <3>2, <3>3, <3>4, <3>5, <3>6 DEF Registry, State, Code
  <2>5. Current'
    BY <1>1, <1>2, <1>4, <1>6, <2>1, <2>2 DEF InLoop, Current, State, Code, Stopped, Stops
  <2>6. Told'
    BY <1>1, <1>2, <1>6 DEF InLoop, Told, State, AtHand
  <2>7. Imaged'
    BY <1>1, <1>2, <1>4, <1>6, <2>1, <2>2 DEF InLoop, Imaged, Current, State, Code, Stops
  <2> QED
    BY <2>3, <2>4, <2>5, <2>6, <2>7 DEF InLoop
<1> QED
  BY <1>5, <1>6

LEMMA ExecKeeps ==
  ASSUME TypeOK, Family, NEW p \in Proc, NEW i \in Image, Exec(p, i), UNCHANGED scenario
  PROVE  Family' /\ (Loop /\ InLoop => InLoop')
<1> DEFINE Does ==
      /\ kernel[p].state = "running"
      /\ kernel'[p].state = "exec" /\ ~kernel'[p].told /\ kernel'[p].child = kernel[p].child
      /\ kernel'[p].parent = kernel[p].parent /\ kernel'[p].code = kernel[p].code
      /\ \A q \in Proc \ {p} : kernel'[q] = kernel[q] /\ execs'[q] = execs[q]
<1>1. Does
  BY ExecDoes
<1>2. UNCHANGED <<scenario, alarm, pc, status, live, known, pending, initialStop, earlyStops, log, error>>
  BY DEF Exec, observer, registry
<1>3. /\ None \notin Proc /\ None \notin Codes /\ Root \in Proc
      /\ \A q \in Proc : kernel[q].child \in Proc \cup {None}
      /\ live \subseteq Proc /\ known \subseteq Proc /\ initialStop \subseteq known
      /\ earlyStops \subseteq Proc
  BY ObserverAssumption DEF TypeOK, Process
<1>4. kernel[p].code = None
  BY <1>1 DEF Family, State, Code, Gone, Ended
<1>5. Family'
  BY <1>1, <1>2, <1>3, <1>4 DEF Family, State, Code, Gone, Ended, Codes
<1>6. ASSUME Loop, InLoop PROVE InLoop'
  <2>1. p \in known /\ p \in live
    BY <1>1, <1>3, <1>6 DEF InLoop, Strangers, Registry, State, Ended
  <2>2. pc # "wait" /\ status.kind \in Stops => status.pid # p
    BY <1>1, <1>6 DEF InLoop, Current, State, Stops
  <2>3. Strangers'
    <3>1. \A q \in Proc : Unhandled(q)' <=> Unhandled(q)
      BY <1>1, <1>2 DEF Unhandled, State, AtHand
    <3>2. \A q \in Proc : /\ kernel'[q].child = kernel[q].child /\ kernel'[q].code = kernel[q].code
                          /\ kernel'[q].state = "unborn" <=> kernel[q].state = "unborn"
                          /\ q # p => kernel'[q].state = kernel[q].state
      BY <1>1
    <3> QED
      BY <1>2, <1>6, <2>1, <3>1, <3>2 DEF InLoop, Strangers, State, Code
  <2>4. Registry'
    <3>1. \A q \in known \cup earlyStops : kernel'[q].state # "unborn"
      BY <1>1, <1>3, <1>6 DEF InLoop, Registry, State
    <3>2. \A q \in initialStop : kernel'[q].state \in {"start"} \cup Ended /\ kernel'[q].code \in {None, "signal"}
      BY <1>1, <1>3, <1>6 DEF InLoop, Registry, State, Code, Ended
    <3>3. \A q \in known \ initialStop : kernel'[q].state = "start" => kernel'[q].told
      BY <1>1, <1>3, <1>6 DEF InLoop, Registry, State
    <3>4. \A q \in known \ live : kernel'[q].state = "reaped"
      BY <1>1, <1>3, <1>6, <2>1 DEF InLoop, Registry, State
    <3>5. \A q \in Proc : pending[q] # None =>
            /\ pending[q] = kernel'[q].code
            /\ kernel'[q].state = "exit" => kernel'[q].told /\ ~AtHand(q)'
      BY <1>1, <1>2, <1>4, <1>6, <2>1 DEF InLoop, Registry, State, Code, AtHand
    <3>6. /\ known' # {} => Root \in known'
          /\ IsFiniteSet(known') /\ Cardinality(known') <= scenario'.processes
          /\ Root \notin initialStop' \cup earlyStops'
      BY <1>2, <1>6 DEF InLoop, Registry
    <3> QED
      BY <1>2, <3>1, <3>2, <3>3, <3>4, <3>5, <3>6 DEF Registry, State, Code
  <2>5. Current'
    BY <1>1, <1>2, <1>4, <1>6, <2>1, <2>2 DEF InLoop, Current, State, Code, Stopped, Stops
  <2>6. Told'
    BY <1>1, <1>2, <1>6 DEF InLoop, Told, State, AtHand
  <2>7. Imaged'
    BY <1>1, <1>2, <1>3, <1>4, <1>6, <2>1, <2>2 DEF InLoop, Imaged, Current, State, Code, Stops, Codes
  <2> QED
    BY <2>3, <2>4, <2>5, <2>6, <2>7 DEF InLoop
<1> QED
  BY <1>5, <1>6

LEMMA ExitKeeps ==
  ASSUME TypeOK, Family, NEW p \in Proc, NEW code \in Codes, Exit(p, code), UNCHANGED scenario
  PROVE  Family' /\ (Loop /\ InLoop => InLoop')
<1> DEFINE Does ==
      /\ kernel[p].state = "running"
      /\ kernel'[p].state = "exit" /\ ~kernel'[p].told /\ kernel'[p].child = kernel[p].child
      /\ kernel'[p].parent = kernel[p].parent /\ kernel'[p].code = code
      /\ code \in {"zero", "nonzero"} /\ (code = "zero" /\ p = Root => execs[p] # <<>>)
      /\ \A q \in Proc \ {p} : kernel'[q] = kernel[q] 
<1>1. Does
  BY ExitDoes
<1>2. UNCHANGED <<scenario, execs, alarm, pc, status, live, known, pending, initialStop, earlyStops, log, error>>
  BY DEF Exit, observer, registry
<1>3. /\ None \notin Proc /\ None \notin Codes /\ Root \in Proc
      /\ \A q \in Proc : kernel[q].child \in Proc \cup {None}
      /\ live \subseteq Proc /\ known \subseteq Proc /\ initialStop \subseteq known
      /\ earlyStops \subseteq Proc
  BY ObserverAssumption DEF TypeOK, Process
<1>4. kernel[p].code = None
  BY <1>1 DEF Family, State, Code, Gone, Ended
<1>5. Family'
  BY <1>1, <1>2, <1>3, <1>4 DEF Family, State, Code, Gone, Ended, Codes
<1>6. ASSUME Loop, InLoop PROVE InLoop'
  <2>1. p \in known /\ p \in live
    BY <1>1, <1>3, <1>6 DEF InLoop, Strangers, Registry, State, Ended
  <2>2. pc # "wait" /\ status.kind \in Stops => status.pid # p
    BY <1>1, <1>6 DEF InLoop, Current, State, Stops
  <2>3. Strangers'
    <3>1. \A q \in Proc : Unhandled(q)' <=> Unhandled(q)
      BY <1>1, <1>2 DEF Unhandled, State, AtHand
    <3>2. \A q \in Proc : /\ kernel'[q].child = kernel[q].child 
                          /\ kernel'[q].state = "unborn" <=> kernel[q].state = "unborn"
                          /\ q # p => kernel'[q] = kernel[q]
                          /\ kernel[q].code = "signal" => kernel'[q].code = "signal"
      BY <1>1, <1>3, <1>4 DEF Codes
    <3> QED
      BY <1>2, <1>6, <2>1, <3>1, <3>2 DEF InLoop, Strangers, State, Code
  <2>4. Registry'
    <3>1. \A q \in known \cup earlyStops : kernel'[q].state # "unborn"
      BY <1>1, <1>3, <1>6 DEF InLoop, Registry, State
    <3>2. \A q \in initialStop : kernel'[q].state \in {"start"} \cup Ended /\ kernel'[q].code \in {None, "signal"}
      BY <1>1, <1>3, <1>6 DEF InLoop, Registry, State, Code, Ended
    <3>3. \A q \in known \ initialStop : kernel'[q].state = "start" => kernel'[q].told
      BY <1>1, <1>3, <1>6 DEF InLoop, Registry, State
    <3>4. \A q \in known \ live : kernel'[q].state = "reaped"
      BY <1>1, <1>3, <1>6, <2>1 DEF InLoop, Registry, State
    <3>5. \A q \in Proc : pending[q] # None =>
            /\ pending[q] = kernel'[q].code
            /\ kernel'[q].state = "exit" => kernel'[q].told /\ ~AtHand(q)'
      BY <1>1, <1>2, <1>4, <1>6, <2>1 DEF InLoop, Registry, State, Code, AtHand
    <3>6. /\ known' # {} => Root \in known'
          /\ IsFiniteSet(known') /\ Cardinality(known') <= scenario'.processes
          /\ Root \notin initialStop' \cup earlyStops'
      BY <1>2, <1>6 DEF InLoop, Registry
    <3> QED
      BY <1>2, <3>1, <3>2, <3>3, <3>4, <3>5, <3>6 DEF Registry, State, Code
  <2>5. Current'
    BY <1>1, <1>2, <1>4, <1>6, <2>1, <2>2 DEF InLoop, Current, State, Code, Stopped, Stops
  <2>6. Told'
    BY <1>1, <1>2, <1>6 DEF InLoop, Told, State, AtHand
  <2>7. Imaged'
    BY <1>1, <1>2, <1>3, <1>4, <1>6, <2>1, <2>2 DEF InLoop, Imaged, Current, State, Code, Stops, Codes
  <2> QED
    BY <2>3, <2>4, <2>5, <2>6, <2>7 DEF InLoop
<1> QED
  BY <1>5, <1>6

LEMMA DeadKeeps ==
  ASSUME TypeOK, Family, NEW ps, kernel' = Dead(ps), UNCHANGED <<scenario, execs>>
  PROVE  Family' /\ (UNCHANGED observer /\ Loop /\ InLoop => InLoop')
<1> DEFINE Hit(q) == q \in ps /\ kernel[q].state \notin {"unborn"} \cup Ended
<1> DEFINE Does ==
      /\ \A q \in Proc : Hit(q) =>
           /\ kernel'[q].state = "dead" /\ ~kernel'[q].told
           /\ kernel'[q].child = kernel[q].child /\ kernel'[q].parent = kernel[q].parent
           /\ kernel'[q].code = IF kernel[q].code = None THEN "signal" ELSE kernel[q].code
      /\ \A q \in Proc : ~Hit(q) => kernel'[q] = kernel[q]
<1>1. Does
  BY DeadDoes
<1>2. UNCHANGED <<scenario, execs>>
  OBVIOUS
<1>3. /\ None \notin Proc /\ None \notin Codes /\ Root \in Proc
      /\ \A q \in Proc : kernel[q].child \in Proc \cup {None} /\ kernel[q].code \in Codes \cup {None}
      /\ live \subseteq Proc /\ known \subseteq Proc /\ initialStop \subseteq known
      /\ earlyStops \subseteq Proc
  BY ObserverAssumption DEF TypeOK, Process
<1>4. \A q \in Proc :
        /\ kernel'[q].child = kernel[q].child /\ kernel'[q].parent = kernel[q].parent
        /\ kernel'[q].state = "unborn" <=> kernel[q].state = "unborn"
        /\ kernel'[q].state = kernel[q].state \/ (kernel'[q].state = "dead" /\ kernel[q].state # "reaped")
        /\ kernel[q].code # None => kernel'[q].code = kernel[q].code
        /\ kernel[q].code = None => kernel'[q].code \in {None, "signal"}
        /\ kernel'[q].state # "dead" => kernel'[q] = kernel[q]
        /\ kernel'[q].told => kernel'[q] = kernel[q]
  BY <1>1 DEF Ended
<1>5. \A q \in Proc : kernel'[q].state \in Ended => kernel'[q].code # None
  <2> TAKE q \in Proc
  <2>1. CASE Hit(q)
    BY <1>1, <1>3, <2>1 DEF Codes
  <2>2. CASE ~Hit(q)
    BY <1>1, <2>2 DEF Family, Gone, State, Code
  <2> QED
    BY <2>1, <2>2
<1> HIDE DEF Does, Hit
<1>6. Family'
  <2>1. \A q \in Proc : kernel'[q].state = "unborn" => kernel'[q].code = None /\ ~kernel'[q].told
    BY <1>4 DEF Family, State, Code
  <2>2. \A q \in Proc : kernel'[q].child # None =>
          /\ kernel'[q].child # Root /\ kernel'[kernel'[q].child].state # "unborn"
          /\ kernel'[kernel'[q].child].parent = q
    BY <1>3, <1>4 DEF Family, State
  <2>3. \A q \in Proc : kernel'[q].state = "fork" => kernel'[q].child # None
    BY <1>4 DEF Family, State
  <2>4. \A q \in Proc : kernel'[q].code # None => kernel'[q].state = "exit" \/ kernel'[q].state \in Ended
    BY <1>4, <1>1 DEF Family, State, Code, Gone, Ended, Hit, Does
  <2>5. \A q \in Proc : kernel'[q].state = "exit" => kernel'[q].code \in {"zero", "nonzero"}
    BY <1>4 DEF Family, State, Code
  <2>6. kernel'[Root].code = "zero" => execs'[Root] # <<>>
    BY <1>2, <1>3, <1>4 DEF Family, Code
  <2> QED
    BY <1>5, <2>1, <2>2, <2>3, <2>4, <2>5, <2>6 DEF Family, State, Code, Gone
<1>7. ASSUME UNCHANGED observer, Loop, InLoop PROVE InLoop'
  <2>0. UNCHANGED <<scenario, execs, alarm, pc, status, live, known, pending, initialStop, earlyStops, log, error>>
    BY <1>7 DEF observer, registry
  <2>1. Strangers'
    <3>1. ASSUME NEW q \in Proc, Unhandled(q) PROVE Unhandled(q)' \/ kernel'[q].code = "signal"
      <4>1. kernel[q].code = None
        BY <3>1 DEF Unhandled, Family, State, Code, Gone, Ended
      <4>2. CASE kernel'[q].state = "dead"
        BY <1>4, <1>5, <4>1, <4>2 DEF Ended
      <4>3. CASE kernel'[q].state # "dead"
        BY <2>0, <1>4, <3>1, <4>3 DEF Unhandled, State, AtHand
      <4> QED
        BY <4>2, <4>3
    <3>2. \A q \in Proc : Unhandled(q)' => Unhandled(q)
      BY <2>0, <1>4 DEF Unhandled, State, AtHand
    <3>3. ASSUME NEW q \in Proc \ known
          PROVE  /\ kernel'[q].state \in {"unborn", "start"} \cup Ended
                 /\ kernel'[q].code \in {None, "signal"} /\ pending[q] = None
      BY <1>4, <1>7 DEF InLoop, Strangers, State, Code, Ended
    <3>4. ASSUME NEW d \in Proc \ (known \cup {Root}), kernel'[d].state # "unborn"
          PROVE  \E q \in Proc : kernel'[q].child = d /\ (Unhandled(q)' \/ kernel'[q].code = "signal")
      <4>1. PICK q \in Proc : kernel[q].child = d /\ (Unhandled(q) \/ kernel[q].code = "signal")
        BY <1>4, <1>7, <3>4 DEF InLoop, Strangers, State, Code
      <4> QED
        BY <1>3, <1>4, <3>1, <4>1 DEF Codes
    <3>5. \A q \in Proc : Unhandled(q)' => kernel'[q].child \notin known
      BY <1>4, <1>7, <3>2 DEF InLoop, Strangers
    <3> QED
      BY <2>0, <3>3, <3>4, <3>5 DEF Strangers, State, Code
  <2>2. Registry'
    <3>1. \A q \in known \cup earlyStops : kernel'[q].state # "unborn"
      BY <1>3, <1>4, <1>7 DEF InLoop, Registry, State
    <3>2. \A q \in initialStop : kernel'[q].state \in {"start"} \cup Ended /\ kernel'[q].code \in {None, "signal"}
      BY <1>3, <1>4, <1>7 DEF InLoop, Registry, State, Code, Ended
    <3>3. \A q \in known \ initialStop : kernel'[q].state = "start" => kernel'[q].told
      BY <1>3, <1>4, <1>7 DEF InLoop, Registry, State
    <3>4. \A q \in known \ live : kernel'[q].state = "reaped"
      BY <1>3, <1>4, <1>7 DEF InLoop, Registry, State
    <3>5. \A q \in Proc : pending[q] # None =>
            /\ pending[q] = kernel'[q].code
            /\ kernel'[q].state = "exit" => kernel'[q].told /\ ~AtHand(q)'
      BY <2>0, <1>4, <1>7 DEF InLoop, Registry, State, Code, AtHand
    <3>6. /\ known' # {} => Root \in known'
          /\ IsFiniteSet(known') /\ Cardinality(known') <= scenario'.processes
          /\ Root \notin initialStop' \cup earlyStops'
      BY <2>0, <1>7 DEF InLoop, Registry
    <3> QED
      BY <2>0, <3>1, <3>2, <3>3, <3>4, <3>5, <3>6 DEF Registry, State, Code
  <2>3. Current'
    <3>1. \A q \in Proc : Stopped(q)' /\ kernel'[q].told => q \in earlyStops \/ (pc # "wait" /\ q = status.pid)
      BY <1>4, <1>7 DEF InLoop, Current, Stopped, Stops
    <3>2. pc # "wait" /\ status.kind \in Stops =>
            \/ kernel'[status.pid].state = status.kind /\ kernel'[status.pid].told
            \/ /\ kernel'[status.pid].state = "dead"
               /\ kernel'[status.pid].code = "signal" \/ status.kind = "exit"
      <4>1. SUFFICES ASSUME pc # "wait", status.kind \in Stops
                     PROVE  \/ kernel'[status.pid].state = status.kind /\ kernel'[status.pid].told
                            \/ /\ kernel'[status.pid].state = "dead"
                               /\ kernel'[status.pid].code = "signal" \/ status.kind = "exit"
        OBVIOUS
      <4>2. status.pid \in Proc
        BY <1>7, <4>1 DEF InLoop, Current
      <4>3. CASE kernel[status.pid].state = "dead"
        BY <1>1, <1>7, <4>1, <4>2, <4>3 DEF InLoop, Current, State, Code, Hit, Does, Ended, Stops
      <4>4. CASE kernel[status.pid].state # "dead" /\ kernel'[status.pid].state = "dead"
        <5>1. kernel[status.pid].state = status.kind
          BY <1>7, <4>1, <4>4 DEF InLoop, Current, State
        <5>2. status.kind # "exit" => kernel[status.pid].code = None
          BY <4>1, <4>2, <5>1 DEF Family, State, Code, Gone, Ended, Stops
        <5>3. kernel'[status.pid].code # None
          BY <1>5, <4>2, <4>4 DEF Ended
        <5> QED
          BY <1>4, <4>2, <4>4, <5>2, <5>3
      <4>5. CASE kernel[status.pid].state # "dead" /\ kernel'[status.pid].state # "dead"
        BY <1>4, <1>7, <4>1, <4>2, <4>5 DEF InLoop, Current, State
      <4> QED
        BY <4>3, <4>4, <4>5
    <3>3. pc = "handle" /\ status.kind = "dead" => kernel'[status.pid].state = "reaped"
      BY <1>4, <1>7 DEF InLoop, Current, State
    <3> QED
      BY <2>0, <1>7, <3>1, <3>2, <3>3 DEF InLoop, Current, State, Code
  <2>4. Told'
    BY <2>0, <1>4, <1>7 DEF InLoop, Told, State, AtHand
  <2>5. Imaged'
    <3>1. \A q \in Proc : kernel'[q].code = "zero" => kernel[q].code = "zero"
      BY <1>3, <1>4 DEF Codes
    <3>2. pc = "continue" => status.pid \in Proc
      BY <1>7 DEF InLoop, Current
    <3> QED
      BY <2>0, <1>4, <1>7, <3>1, <3>2 DEF InLoop, Imaged, State, Code
  <2> QED
    BY <2>1, <2>2, <2>3, <2>4, <2>5 DEF InLoop
<1> QED
  BY <1>6, <1>7

-----------------------------------------------------------------------------
(***************************************************************************)
(* The steps of the loop.                                                  *)
(***************************************************************************)

LEMMA WaitPidKeeps ==
  ASSUME TypeOK, Family, InLoop, NEW p \in Proc, WaitPid(p), UNCHANGED scenario
  PROVE  Family' /\ InLoop'
<1> DEFINE Does ==
      /\ status'.pid = p /\ status'.kind = kernel[p].state
      /\ (kernel[p].state \in Stops /\ ~kernel[p].told) \/ kernel[p].state = "dead"
      /\ kernel'[p].state = IF kernel[p].state = "dead" THEN "reaped" ELSE kernel[p].state
      /\ kernel'[p].told /\ kernel'[p].child = kernel[p].child
      /\ kernel'[p].parent = kernel[p].parent /\ kernel'[p].code = kernel[p].code
      /\ \A q \in Proc \ {p} : kernel'[q] = kernel[q]
<1>1. Does
  BY WaitPidDoes
<1>2. /\ UNCHANGED <<scenario, execs, alarm, live, known, pending, initialStop, earlyStops, log, error>>
      /\ pc = "wait" /\ pc' = "handle"
  BY DEF WaitPid, registry
<1>3. /\ None \notin Proc /\ None \notin Codes /\ Root \in Proc
      /\ \A q \in Proc : kernel[q].child \in Proc \cup {None}
      /\ live \subseteq Proc /\ known \subseteq Proc /\ initialStop \subseteq known
      /\ earlyStops \subseteq Proc
  BY ObserverAssumption DEF TypeOK, Process
<1>4. Family'
  BY <1>1, <1>2, <1>3 DEF Family, State, Code, Gone, Ended, Stops
<1>5. kernel[p].state \notin {"unborn", "reaped"}
  BY <1>1 DEF Stops
<1>6. \A q \in Proc : /\ kernel'[q].child = kernel[q].child /\ kernel'[q].code = kernel[q].code
                      /\ kernel'[q].state = "unborn" <=> kernel[q].state = "unborn"
                      /\ kernel'[q].state = kernel[q].state \/ (kernel'[q].state = "reaped" /\ kernel[q].state = "dead")
                      /\ q # p => kernel'[q] = kernel[q]
  BY <1>1
<1>7. Strangers'
  <2>1. ASSUME NEW q \in Proc PROVE Unhandled(q)' <=> Unhandled(q)
    <3>1. CASE q = p
      BY <1>1, <1>2, <3>1 DEF Unhandled, State, AtHand, Stops
    <3>2. CASE q # p
      BY <1>1, <1>2, <3>2 DEF Unhandled, State, AtHand
    <3> QED
      BY <3>1, <3>2
  <2> QED
    BY <1>2, <1>6, <2>1 DEF InLoop, Strangers, State, Code, Ended
<1>8. Registry'
  <2>1. \A q \in known \cup earlyStops : kernel'[q].state # "unborn"
    BY <1>3, <1>6 DEF InLoop, Registry, State
  <2>2. \A q \in initialStop : kernel'[q].state \in {"start"} \cup Ended /\ kernel'[q].code \in {None, "signal"}
    BY <1>3, <1>6 DEF InLoop, Registry, State, Code, Ended
  <2>3. \A q \in known \ initialStop : kernel'[q].state = "start" => kernel'[q].told
    BY <1>1, <1>3, <1>6 DEF InLoop, Registry, State
  <2>4. \A q \in known \ live : kernel'[q].state = "reaped"
    BY <1>3, <1>6 DEF InLoop, Registry, State
  <2>5. \A q \in Proc : pending[q] # None =>
          /\ pending[q] = kernel'[q].code
          /\ kernel'[q].state = "exit" => kernel'[q].told /\ ~AtHand(q)'
    BY <1>1, <1>2, <1>6 DEF InLoop, Registry, State, Code, AtHand
  <2>6. /\ known' # {} => Root \in known'
        /\ IsFiniteSet(known') /\ Cardinality(known') <= scenario'.processes
        /\ Root \notin initialStop' \cup earlyStops'
    BY <1>2 DEF InLoop, Registry
  <2> QED
    BY <1>2, <2>1, <2>2, <2>3, <2>4, <2>5, <2>6 DEF Registry, State, Code
<1>9. Current'
  <2>1. status'.kind = "start" => p \notin known \/ p \in initialStop
    BY <1>1 DEF InLoop, Registry, State, Stops
  <2>2. status'.kind \in Stops \ {"start"} => p \in known \ initialStop
    BY <1>1, <1>3 DEF InLoop, Registry, Strangers, State, Stops, Ended
  <2>3. \A q \in Proc : Stopped(q)' /\ kernel'[q].told => q \in earlyStops \/ q = p
    BY <1>2, <1>6 DEF InLoop, Current, Stopped
  <2>4. /\ status'.kind \in Stops => kernel'[p].state = status'.kind /\ kernel'[p].told
        /\ status'.kind = "dead" => kernel'[p].state = "reaped"
    BY <1>1 DEF Stops
  <2>5. status'.pid = p
    BY <1>1
  <2> HIDE DEF Does
  <2> QED
    BY <1>2, <2>1, <2>2, <2>3, <2>4, <2>5 DEF Current, State
<1>10. Told'
  <2>1. \A q \in Proc : HasRow(log, "reap", q) => kernel[q].state = "reaped"
    BY DEF InLoop, Told, State
  <2>2. \A q \in Proc : HasRow(log, "reap", q) => kernel'[q].state = "reaped" /\ ~AtHand(q)'
    BY <1>1, <1>5, <1>6, <2>1 DEF AtHand
  <2> QED
    BY <1>2, <2>2 DEF InLoop, Told, State
<1>11. Imaged'
  BY <1>2, <1>6 DEF InLoop, Imaged, State, Code
<1> QED
  BY <1>4, <1>7, <1>8, <1>9, <1>10, <1>11 DEF InLoop

LEMMA ContinueKeeps ==
  ASSUME TypeOK, Family, InLoop, pc = "continue", Stopped(status.pid), Continue, UNCHANGED scenario
  PROVE  Family' /\ InLoop'
<1> DEFINE p == status.pid
<1>0. p \in Proc /\ status.kind \in Stops /\ p \in known \ initialStop
      /\ kernel[p].state = status.kind /\ kernel[p].told
  BY DEF InLoop, Current, State, Stopped, Stops
<1> DEFINE Does ==
      /\ kernel'[p].state = IF kernel[p].state = "exit" THEN "dead" ELSE "running"
      /\ ~kernel'[p].told /\ kernel'[p].child = kernel[p].child
      /\ kernel'[p].parent = kernel[p].parent /\ kernel'[p].code = kernel[p].code
      /\ \A q \in Proc \ {p} : kernel'[q] = kernel[q]
<1>1. Does
  <2>1. kernel' = Continued(p)
    BY DEF Continue
  <2> HIDE DEF p
  <2> QED
    BY <1>0, <2>1, ContinuedDoes
<1>2. /\ UNCHANGED <<scenario, execs, alarm, status, live, known, pending, initialStop, earlyStops, log, error>>
      /\ pc' = "wait"
  BY DEF Continue, registry
<1>3. /\ None \notin Proc /\ None \notin Codes /\ Root \in Proc
      /\ \A q \in Proc : kernel[q].child \in Proc \cup {None}
      /\ live \subseteq Proc /\ known \subseteq Proc /\ initialStop \subseteq known
      /\ earlyStops \subseteq Proc
  BY ObserverAssumption DEF TypeOK, Process
<1> HIDE DEF p
<1>4. Family'
  <2>1. kernel[p].code # None <=> kernel[p].state = "exit"
    BY <1>0, <1>3 DEF Family, State, Code, Gone, Ended, Stops, Codes
  <2>2. \A q \in Proc : /\ kernel'[q].child = kernel[q].child /\ kernel'[q].code = kernel[q].code
                        /\ kernel'[q].parent = kernel[q].parent
                        /\ kernel'[q].state = "unborn" <=> kernel[q].state = "unborn"
    BY <1>0, <1>1 DEF Stops
  <2>3. \A q \in Proc : kernel'[q].state = "unborn" => kernel'[q].code = None /\ ~kernel'[q].told
    BY <1>1 DEF Family, State, Code
  <2>4. \A q \in Proc : kernel'[q].child # None =>
          /\ kernel'[q].child # Root /\ kernel'[kernel'[q].child].state # "unborn"
          /\ kernel'[kernel'[q].child].parent = q
    BY <1>3, <2>2 DEF Family, State
  <2>5. \A q \in Proc : kernel'[q].state = "fork" => kernel'[q].child # None
    BY <1>1 DEF Family, State
  <2>6. \A q \in Proc : kernel'[q].state \in Ended => kernel'[q].code # None
    BY <1>1, <2>1 DEF Family, State, Code, Gone, Ended
  <2>7. \A q \in Proc : kernel'[q].code # None => kernel'[q].state = "exit" \/ kernel'[q].state \in Ended
    BY <1>1, <2>1 DEF Family, State, Code, Gone, Ended
  <2>8. \A q \in Proc : kernel'[q].state = "exit" => kernel'[q].code \in {"zero", "nonzero"}
    BY <1>1 DEF Family, State, Code
  <2>9. kernel'[Root].code = "zero" => execs'[Root] # <<>>
    BY <1>2, <1>3, <2>2 DEF Family, Code
  <2> QED
    BY <2>3, <2>4, <2>5, <2>6, <2>7, <2>8, <2>9 DEF Family, State, Code, Gone
<1>6. \A q \in Proc : /\ kernel'[q].child = kernel[q].child /\ kernel'[q].code = kernel[q].code
                      /\ kernel'[q].state = "unborn" <=> kernel[q].state = "unborn"
                      /\ q # p => kernel'[q] = kernel[q]
  BY <1>0, <1>1 DEF Stops
<1>7. Strangers'
  <2>1. ASSUME NEW q \in Proc PROVE Unhandled(q)' <=> Unhandled(q)
    <3>1. CASE q = p
      BY <1>0, <1>1, <1>2, <3>1 DEF Unhandled, State, AtHand
    <3>2. CASE q # p
      BY <1>1, <1>2, <3>2 DEF Unhandled, State, AtHand
    <3> QED
      BY <3>1, <3>2
  <2> QED
    BY <1>0, <1>2, <1>6, <2>1 DEF InLoop, Strangers, State, Code, Ended
<1>8. Registry'
  <2>1. \A q \in known \cup earlyStops : kernel'[q].state # "unborn"
    BY <1>3, <1>6 DEF InLoop, Registry, State
  <2>2. \A q \in initialStop : kernel'[q].state \in {"start"} \cup Ended /\ kernel'[q].code \in {None, "signal"}
    BY <1>0, <1>3, <1>6 DEF InLoop, Registry, State, Code, Ended
  <2>3. \A q \in known \ initialStop : kernel'[q].state = "start" => kernel'[q].told
    BY <1>1, <1>3, <1>6 DEF InLoop, Registry, State
  <2>4. \A q \in known \ live : kernel'[q].state = "reaped"
    BY <1>0, <1>3, <1>6 DEF InLoop, Registry, State, Stops
  <2>5. \A q \in Proc : pending[q] # None =>
          /\ pending[q] = kernel'[q].code
          /\ kernel'[q].state = "exit" => kernel'[q].told /\ ~AtHand(q)'
    BY <1>1, <1>2, <1>6 DEF InLoop, Registry, State, Code, AtHand
  <2>6. /\ known' # {} => Root \in known'
        /\ IsFiniteSet(known') /\ Cardinality(known') <= scenario'.processes
        /\ Root \notin initialStop' \cup earlyStops'
    BY <1>2 DEF InLoop, Registry
  <2> QED
    BY <1>2, <2>1, <2>2, <2>3, <2>4, <2>5, <2>6 DEF Registry, State, Code
<1>9. Current'
  <2>1. \A q \in Proc : Stopped(q)' /\ kernel'[q].told => q \in earlyStops
    BY <1>1, <1>2, <1>6 DEF InLoop, Current, Stopped, p
  <2> QED
    BY <1>2, <2>1 DEF Current
<1>10. Told'
  <2>1. \A q \in Proc : HasRow(log, "reap", q) => kernel[q].state = "reaped"
    BY DEF InLoop, Told, State
  <2>2. \A q \in Proc : HasRow(log, "reap", q) => kernel'[q].state = "reaped" /\ ~AtHand(q)'
    BY <1>0, <1>2, <1>6, <2>1 DEF AtHand, Stops
  <2> QED
    BY <1>2, <2>2 DEF InLoop, Told, State
<1>11. Imaged'
  <2>1. \A q \in Proc : kernel'[q].state \in {"running", "fork"} \/ kernel'[q].code = "zero" =>
          HasRow(log, "image", q) \/ (q = Root /\ execs[Root] = <<>>)
    <3> TAKE q \in Proc
    <3>1. CASE q # p
      BY <1>6, <3>1 DEF InLoop, Imaged, State, Code
    <3>2. CASE q = p
      BY <1>0, <1>1, <1>6, <3>2 DEF InLoop, Imaged, State, Code, Stops, p
    <3> QED
      BY <3>1, <3>2
  <2> QED
    BY <1>2, <2>1 DEF InLoop, Imaged, State, Code
<1> QED
  BY <1>4, <1>7, <1>8, <1>9, <1>10, <1>11 DEF InLoop

-----------------------------------------------------------------------------
(***************************************************************************)
(* What one more row does to what the log says.                            *)
(***************************************************************************)

\* The rows a reader accepts next; one that tells of a failure may be less.
Acceptable(s, a) ==
  \/ /\ a.kind = "spawn" /\ ~HasRow(s, "spawn", a.pid)
     /\ a.pid # Root => HasRow(s, "spawn", a.value)
  \/ a.kind = "image" /\ HasRow(s, "spawn", a.pid) /\ ~HasRow(s, "exit", a.pid)
  \/ /\ a.kind = "exit" /\ ~HasRow(s, "exit", a.pid)
     /\ HasRow(s, "image", a.pid) \/ a.value \in {"nonzero", "signal"}
  \/ /\ a.kind = "reap" /\ ~HasRow(s, "reap", a.pid)
     /\ \E m \in DOMAIN s : s[m] = [a EXCEPT !.kind = "exit"]

LEMMA RowsAfter ==
  ASSUME NEW s \in Seq(Row), NEW a \in Row, NEW r, r = Append(s, a)
  PROVE  /\ \A k, q : HasRow(r, k, q) <=> HasRow(s, k, q) \/ (a.kind = k /\ a.pid = q)
         /\ Bad(r) <=> Bad(s) \/ (a.kind = "exit" /\ a.value \in {"nonzero", "signal"})
         /\ \A k, q : \A n \in 1..Len(s) : Earlier(r, n, k, q) <=> Earlier(s, n, k, q)
         /\ \A k, q : Earlier(r, Len(s) + 1, k, q) <=> HasRow(s, k, q)
<1>1. /\ r \in Seq(Row) /\ Len(r) = Len(s) + 1 /\ Len(s) \in Nat
      /\ DOMAIN r = 1..Len(s) + 1 /\ DOMAIN s = 1..Len(s)
      /\ r[Len(s) + 1] = a
      /\ \A n \in 1..Len(s) : r[n] = s[n]
  BY Longer
<1>2. DOMAIN r = 1..Len(s) \cup {Len(s) + 1}
  BY <1>1
<1>3. ASSUME NEW k, NEW q PROVE HasRow(r, k, q) <=> HasRow(s, k, q) \/ (a.kind = k /\ a.pid = q)
  <2>1. CASE HasRow(r, k, q)
    <3>1. PICK n \in 1..Len(s) \cup {Len(s) + 1} : r[n].kind = k /\ r[n].pid = q
      BY <1>2, <2>1 DEF HasRow
    <3> QED
      BY <1>1, <2>1, <3>1 DEF HasRow
  <2>2. CASE HasRow(s, k, q)
    BY <1>1, <1>2, <2>2 DEF HasRow
  <2>3. CASE a.kind = k /\ a.pid = q
    BY <1>1, <1>2, <2>3 DEF HasRow
  <2> QED
    BY <2>1, <2>2, <2>3
<1>4. Bad(r) <=> Bad(s) \/ (a.kind = "exit" /\ a.value \in {"nonzero", "signal"})
  <2>1. CASE Bad(r)
    <3>1. PICK n \in 1..Len(s) \cup {Len(s) + 1} : r[n].kind = "exit" /\ r[n].value \in {"nonzero", "signal"}
      BY <1>2, <2>1 DEF Bad
    <3> QED
      BY <1>1, <2>1, <3>1 DEF Bad
  <2>2. CASE Bad(s)
    BY <1>1, <1>2, <2>2 DEF Bad
  <2>3. CASE a.kind = "exit" /\ a.value \in {"nonzero", "signal"}
    BY <1>1, <1>2, <2>3 DEF Bad
  <2> QED
    BY <2>1, <2>2, <2>3
<1>5. ASSUME NEW k, NEW q, NEW n \in 1..Len(s) PROVE Earlier(r, n, k, q) <=> Earlier(s, n, k, q)
  <2>1. \A m \in 1..(n - 1) : r[m] = s[m]
    BY <1>1
  <2> QED
    BY <2>1 DEF Earlier
<1>6. ASSUME NEW k, NEW q PROVE Earlier(r, Len(s) + 1, k, q) <=> HasRow(s, k, q)
  <2>1. Len(s) + 1 - 1 = Len(s)
    BY <1>1
  <2> QED
    BY <1>1, <2>1 DEF Earlier, HasRow
<1> QED
  BY <1>3, <1>4, <1>5, <1>6

LEMMA GoodAfter ==
  ASSUME NEW s \in Seq(Row), NEW a \in Row, NEW r, r = Append(s, a)
  PROVE  \A n \in 1..Len(s) : Good(s, n) => Good(r, n)
<1>1. /\ Len(s) \in Nat /\ \A n \in 1..Len(s) : r[n] = s[n]
  BY Longer
<1>2. \A k, q : \A n \in 1..Len(s) : Earlier(r, n, k, q) <=> Earlier(s, n, k, q)
  BY RowsAfter
<1>3. ASSUME NEW n \in 1..Len(s), Good(s, n) PROVE Good(r, n)
  <2>1. r[n] = s[n] /\ \A m \in 1..(n - 1) : r[m] = s[m]
    BY <1>1
  <2>2. \A k, q : Earlier(r, n, k, q) <=> Earlier(s, n, k, q)
    BY <1>2
  <2> QED
    BY <1>3, <2>1, <2>2 DEF Good
<1> QED
  BY <1>3

LEMMA ProperAfter ==
  ASSUME NEW s, Plain(s), NEW a \in Row, Acceptable(s, a), NEW r, r = Append(s, a), Bad(s) \/ Proper(s)
  PROVE  Plain(r) /\ (Bad(r) \/ Proper(r))
<1>0. s \in Seq(Row) /\ Len(s) >= 1
  BY DEF Plain
<1>1. /\ r \in Seq(Row) /\ Len(r) = Len(s) + 1 /\ Len(s) \in Nat
      /\ r[Len(s) + 1] = a
      /\ \A n \in 1..Len(s) : r[n] = s[n]
      /\ DOMAIN s = 1..Len(s)
  BY <1>0, Longer
<1>2. 2..Len(r) = 2..Len(s) \cup {Len(s) + 1} /\ 2..Len(s) \subseteq 1..Len(s) /\ 1 \in 1..Len(s)
  BY <1>0, <1>1
<1>3. Plain(r)
  <2>1. a.kind \in Kinds
    BY DEF Acceptable, Kinds
  <2> QED
    BY <1>0, <1>1, <1>2, <2>1 DEF Plain
<1>4. Bad(r) <=> Bad(s) \/ (a.kind = "exit" /\ a.value \in {"nonzero", "signal"})
  BY <1>0, RowsAfter
<1>5. CASE Bad(r)
  BY <1>3, <1>5
<1>6. CASE ~Bad(r)
  <2>1. \A n \in 2..Len(s) : Good(r, n)
    BY <1>0, <1>2, <1>4, <1>6, GoodAfter DEF Proper
  <2>2. Good(r, Len(s) + 1)
    <3>1. \A k, q : Earlier(r, Len(s) + 1, k, q) <=> HasRow(s, k, q)
      BY <1>0, RowsAfter
    <3>2. Len(s) + 1 - 1 = Len(s)
      BY <1>1
    <3>3. (\E m \in DOMAIN s : s[m] = [a EXCEPT !.kind = "exit"]) =>
            \E m \in 1..(Len(s) + 1 - 1) : r[m] = [a EXCEPT !.kind = "exit"]
      BY <1>1, <3>2
    <3> QED
      BY <1>1, <1>4, <1>6, <3>1, <3>3 DEF Acceptable, Good
  <2> QED
    BY <1>2, <1>3, <2>1, <2>2 DEF Proper
<1> QED
  BY <1>5, <1>6

LEMMA SaysSpawn ==
  ASSUME NEW s, NEW K, NEW P, Says(s, K, P), NEW p \in Proc \ K, NEW v, NEW o, NEW r,
         p # Root => v \in K \cap Proc,
         R("spawn", p, v, o) \in Row, r = Append(s, R("spawn", p, v, o))
  PROVE  Says(r, K \cup {p}, P)
<1> DEFINE a == R("spawn", p, v, o)
<1>1. a \in Row /\ a.kind = "spawn" /\ a.pid = p /\ a.value = v /\ r = Append(s, a)
  BY DEF R
<1> HIDE DEF a
<1>2. Plain(s) /\ s \in Seq(Row) /\ (Bad(s) \/ Proper(s))
  BY DEF Says, Plain
<1>3. Acceptable(s, a)
  BY <1>1 DEF Says, Acceptable
<1>4. Plain(r) /\ (Bad(r) \/ Proper(r))
  BY <1>1, <1>2, <1>3, ProperAfter
<1>5. \A k, q : HasRow(r, k, q) <=> HasRow(s, k, q) \/ (a.kind = k /\ a.pid = q)
  BY <1>1, <1>2, RowsAfter
<1>6. DOMAIN r = DOMAIN s \cup {Len(s) + 1} /\ r[Len(s) + 1] = a /\ \A n \in DOMAIN s : r[n] = s[n]
  BY <1>1, <1>2, Longer
<1> QED
  BY <1>1, <1>4, <1>5, <1>6 DEF Says

LEMMA SaysImage ==
  ASSUME NEW s, NEW K, NEW P, Says(s, K, P), NEW p \in Proc, p \in K, P[p] = None,
         NEW v, NEW o, NEW r,
         R("image", p, v, o) \in Row, r = Append(s, R("image", p, v, o))
  PROVE  Says(r, K, P)
<1> DEFINE a == R("image", p, v, o)
<1>1. a \in Row /\ a.kind = "image" /\ a.pid = p /\ r = Append(s, a)
  BY DEF R
<1> HIDE DEF a
<1>2. Plain(s) /\ s \in Seq(Row) /\ (Bad(s) \/ Proper(s))
  BY DEF Says, Plain
<1>3. Acceptable(s, a)
  BY <1>1 DEF Says, Acceptable
<1>4. Plain(r) /\ (Bad(r) \/ Proper(r))
  BY <1>1, <1>2, <1>3, ProperAfter
<1>5. \A k, q : HasRow(r, k, q) <=> HasRow(s, k, q) \/ (a.kind = k /\ a.pid = q)
  BY <1>1, <1>2, RowsAfter
<1>6. DOMAIN r = DOMAIN s \cup {Len(s) + 1} /\ r[Len(s) + 1] = a /\ \A n \in DOMAIN s : r[n] = s[n]
  BY <1>1, <1>2, Longer
<1> QED
  BY <1>1, <1>4, <1>5, <1>6 DEF Says

LEMMA SaysExit ==
  ASSUME NEW s, NEW K, NEW P \in [Proc -> Codes \cup {None}], Says(s, K, P), NEW p \in Proc, P[p] = None,
         NEW code \in Codes, code # None, HasRow(s, "image", p) \/ code \in {"nonzero", "signal"}, NEW r,
         R("exit", p, code, None) \in Row, r = Append(s, R("exit", p, code, None)),
         NEW Q, Q = [P EXCEPT ![p] = code]
  PROVE  Says(r, K, Q)
<1> DEFINE a == R("exit", p, code, None)
<1>1. a \in Row /\ a.kind = "exit" /\ a.pid = p /\ a.value = code /\ r = Append(s, a) /\ a = R("exit", p, code, None)
  BY DEF R
<1> HIDE DEF a
<1>2. Plain(s) /\ s \in Seq(Row) /\ (Bad(s) \/ Proper(s))
  BY DEF Says, Plain
<1>3. Acceptable(s, a)
  BY <1>1 DEF Says, Acceptable
<1>4. Plain(r) /\ (Bad(r) \/ Proper(r))
  BY <1>1, <1>2, <1>3, ProperAfter
<1>5. \A k, q : HasRow(r, k, q) <=> HasRow(s, k, q) \/ (a.kind = k /\ a.pid = q)
  BY <1>1, <1>2, RowsAfter
<1>6. /\ DOMAIN r = DOMAIN s \cup {Len(s) + 1} /\ r[Len(s) + 1] = a /\ \A n \in DOMAIN s : r[n] = s[n]
  BY <1>1, <1>2, Longer
<1>7. Q[p] = code /\ \A q \in Proc \ {p} : Q[q] = P[q]
  OBVIOUS
<1>8. ~HasRow(s, "exit", p)
  BY DEF Says
<1>9. ASSUME NEW n \in DOMAIN s, s[n].kind = "exit"
      PROVE  s[n].pid \in Proc /\ s[n] = R("exit", s[n].pid, Q[s[n].pid], None)
  <2>1. s[n].pid \in Proc /\ s[n] = R("exit", s[n].pid, P[s[n].pid], None)
    BY <1>9 DEF Says
  <2>2. s[n].pid # p
    BY <1>8, <1>9 DEF HasRow
  <2> QED
    BY <1>7, <2>1, <2>2
<1>10. \A n \in DOMAIN r : r[n].kind = "exit" => r[n].pid \in Proc /\ r[n] = R("exit", r[n].pid, Q[r[n].pid], None)
  BY <1>1, <1>6, <1>7, <1>9
<1>11. \A n \in DOMAIN r : r[n].kind = "spawn" => r[n].pid \in Proc
  BY <1>1, <1>6 DEF Says
<1>12. /\ \A q \in Proc : HasRow(r, "spawn", q) <=> q \in K
       /\ \A q \in Proc : HasRow(r, "exit", q) <=> Q[q] # None
  BY <1>1, <1>5, <1>7 DEF Says
<1> QED
  BY <1>4, <1>10, <1>11, <1>12 DEF Says

LEMMA SaysReap ==
  ASSUME NEW s, NEW K, NEW P, Says(s, K, P), NEW p \in Proc, ~HasRow(s, "reap", p),
         P[p] # None, NEW r,
         R("reap", p, P[p], None) \in Row, r = Append(s, R("reap", p, P[p], None))
  PROVE  Says(r, K, P)
<1> DEFINE a == R("reap", p, P[p], None)
<1>1. /\ a \in Row /\ a.kind = "reap" /\ a.pid = p /\ r = Append(s, a)
      /\ [a EXCEPT !.kind = "exit"] = R("exit", p, P[p], None)
  BY DEF R
<1> HIDE DEF a
<1>2. Plain(s) /\ s \in Seq(Row) /\ (Bad(s) \/ Proper(s))
  BY DEF Says, Plain
<1>3. PICK m \in DOMAIN s : s[m].kind = "exit" /\ s[m].pid = p
  BY DEF Says, HasRow
<1>4. s[m] = R("exit", p, P[p], None)
  BY <1>3 DEF Says
<1>5. Acceptable(s, a)
  BY <1>1, <1>4 DEF Acceptable
<1>6. Plain(r) /\ (Bad(r) \/ Proper(r))
  BY <1>1, <1>2, <1>5, ProperAfter
<1>7. \A k, q : HasRow(r, k, q) <=> HasRow(s, k, q) \/ (a.kind = k /\ a.pid = q)
  BY <1>1, <1>2, RowsAfter
<1>8. DOMAIN r = DOMAIN s \cup {Len(s) + 1} /\ r[Len(s) + 1] = a /\ \A n \in DOMAIN s : r[n] = s[n]
  BY <1>1, <1>2, Longer
<1> QED
  BY <1>1, <1>6, <1>7, <1>8 DEF Says

-----------------------------------------------------------------------------
(***************************************************************************)
(* The rows written while statuses are taken: two places are left.         *)
(***************************************************************************)

Room == Len(log) <= scenario.events - 2

LEMMA Rows ==
  /\ \A p \in Proc : R("run", p, None, None) \in Row /\ R("spawn", p, None, None) \in Row
  /\ \A p, q \in Proc : R("spawn", p, q, "fork") \in Row
  /\ \A p \in Proc, i \in Image, o \in {"fork", "exec"} : R("image", p, i, o) \in Row
  /\ \A p \in Proc, code \in Codes \cup {None} :
       R("exit", p, code, None) \in Row /\ R("reap", p, code, None) \in Row
  /\ R("archive", None, None, None) \in Row /\ R("error", None, None, None) \in Row
  /\ R("end", None, "failed", None) \in Row /\ R("end", None, "observed", None) \in Row
BY DEF R, Row

LEMMA Scenarios == TypeOK => scenario.events \in Nat /\ scenario.events > 3 /\ scenario.processes \in Nat \ {0}
BY ObserverAssumption DEF TypeOK

LEMMA OneRow ==
  ASSUME TypeOK, NEW a \in Row, a.kind \in Kinds \cup {"run"}, NEW next, Logs(<<a>>, next), Room,
         UNCHANGED scenario
  PROVE  /\ log' \in Seq(Row) /\ Room'
         /\ \/ Fits(<<a>>) /\ log' = Append(log, a) /\ pc' = next
            \/ ~Fits(<<a>>) /\ log' = log /\ pc' = "failed" /\ Len(log') >= scenario.events - 2
<1>1. log \in Seq(Row) /\ Len(log) \in Nat /\ scenario.events \in Nat
  BY Scenarios DEF TypeOK
<1>2. Reserved(a.kind) = 2
  BY DEF Reserved, Kinds
<1>3. Fits(<<a>>) <=> Len(log) < scenario.events - 2
  BY <1>1, <1>2, FitsOne
<1>4. CASE Fits(<<a>>) /\ log' = Append(log, a) /\ pc' = next
  <2>1. log' \in Seq(Row) /\ Len(log') = Len(log) + 1
    BY <1>1, <1>4, Longer
  <2> QED
    BY <1>1, <1>3, <1>4, <2>1 DEF Room
<1>5. CASE ~Fits(<<a>>) /\ log' = log /\ pc' = "failed"
  BY <1>1, <1>3, <1>5 DEF Room
<1> QED
  BY <1>1, <1>4, <1>5, LogsOne

LEMMA TwoRows ==
  ASSUME TypeOK, NEW a \in Row, NEW b \in Row, a.kind \in Kinds, b.kind \in Kinds,
         NEW next, Logs(<<a, b>>, next), Room, UNCHANGED scenario
  PROVE  /\ log' \in Seq(Row) /\ Room'
         /\ \/ Fits(<<a, b>>) /\ log' = Append(Append(log, a), b) /\ pc' = next
            \/ /\ ~Fits(<<a, b>>) /\ pc' = "failed" /\ Len(log') >= scenario.events - 2
               /\ log' = log \/ log' = Append(log, a)
<1>1. log \in Seq(Row) /\ Len(log) \in Nat /\ scenario.events \in Nat
  BY Scenarios DEF TypeOK
<1>2. Reserved(a.kind) = 2 /\ Reserved(b.kind) = 2
  BY DEF Reserved, Kinds
<1>3. /\ Fits(<<a>>) <=> Len(log) < scenario.events - 2
      /\ Fits(<<a, b>>) <=> Len(log) + 1 < scenario.events - 2
  BY <1>1, <1>2, FitsTwo
<1>4. /\ Append(log, a) \in Seq(Row) /\ Len(Append(log, a)) = Len(log) + 1
      /\ Append(Append(log, a), b) \in Seq(Row) /\ Len(Append(Append(log, a), b)) = Len(log) + 1 + 1
  <2>1. Append(log, a) \in Seq(Row) /\ Len(Append(log, a)) = Len(log) + 1
    BY <1>1, AppendProperties
  <2> QED
    BY <2>1, AppendProperties
<1>5. CASE Fits(<<a, b>>) /\ log' = Append(Append(log, a), b) /\ pc' = next
  BY <1>1, <1>3, <1>4, <1>5 DEF Room
<1>6. CASE ~Fits(<<a, b>>) /\ Fits(<<a>>) /\ log' = Append(log, a) /\ pc' = "failed"
  BY <1>1, <1>3, <1>4, <1>6 DEF Room
<1>7. CASE ~Fits(<<a, b>>) /\ ~Fits(<<a>>) /\ log' = log /\ pc' = "failed"
  BY <1>1, <1>3, <1>7 DEF Room
<1> QED
  BY <1>1, <1>2, <1>5, <1>6, <1>7, LogsTwo

LEMMA StillNoEnd ==
  ASSUME TypeOK, NoEnd, NEW a \in Row, a.kind # "end", log' = log \/ log' = Append(log, a)
  PROVE  NoEnd'
<1>1. CASE log' = log
  BY <1>1 DEF NoEnd
<1>2. CASE log' = Append(log, a)
  <2>1. log \in Seq(Row)
    BY DEF TypeOK
  <2>2. /\ DOMAIN log' = 1..Len(log) + 1 /\ DOMAIN log = 1..Len(log) /\ Len(log) \in Nat
        /\ log'[Len(log) + 1] = a /\ \A n \in 1..Len(log) : log'[n] = log[n]
    BY <1>2, <2>1, Longer
  <2>3. 1..Len(log) + 1 = 1..Len(log) \cup {Len(log) + 1}
    BY <2>2
  <2> QED
    BY <2>2, <2>3 DEF NoEnd
<1> QED
  BY <1>1, <1>2

LEMMA StillNoEndTwo ==
  ASSUME TypeOK, NoEnd, NEW a \in Row, NEW b \in Row, a.kind # "end", b.kind # "end",
         log' = Append(Append(log, a), b)
  PROVE  NoEnd'
<1>1. log \in Seq(Row)
  BY DEF TypeOK
<1> DEFINE s == Append(log, a)
<1>2. /\ s \in Seq(Row) /\ DOMAIN s = 1..Len(log) + 1 /\ DOMAIN log = 1..Len(log) /\ Len(log) \in Nat
      /\ s[Len(log) + 1] = a /\ \A n \in 1..Len(log) : s[n] = log[n]
  BY <1>1, Longer
<1> HIDE DEF s
<1>3. log' = Append(s, b)
  BY DEF s
<1>4. /\ DOMAIN log' = 1..Len(s) + 1 /\ DOMAIN s = 1..Len(s) /\ Len(s) \in Nat
      /\ log'[Len(s) + 1] = b /\ \A n \in 1..Len(s) : log'[n] = s[n]
  BY <1>2, <1>3, Longer
<1>5. /\ 1..Len(s) + 1 = 1..Len(s) \cup {Len(s) + 1}
      /\ 1..Len(log) + 1 = 1..Len(log) \cup {Len(log) + 1}
  BY <1>2, <1>4
<1>6. \A n \in DOMAIN s : s[n].kind # "end"
  BY <1>2, <1>5 DEF NoEnd
<1> QED
  BY <1>4, <1>5, <1>6 DEF NoEnd

-----------------------------------------------------------------------------
(***************************************************************************)
(* What the observer does about a status, branch by branch.                *)
(***************************************************************************)

Ready == TypeOK /\ Family /\ InLoop /\ Room /\ NoEnd /\ RootHeld

Same == UNCHANGED <<scenario, execs, alarm, status, error, witness>>

Outcome ==
  /\ TypeOK' /\ Family' /\ (Loop' => InLoop') /\ OrderNeverFails' /\ Room' /\ NoEnd'
  /\ pc' \in {"wait", "continue", "failed"}

LEMMA TerminalKeeps ==
  ASSUME Ready, Same, pc = "handle", NEW p, p = status.pid, status.kind = "dead", Terminal(p)
  PROVE  Outcome
<1> DEFINE code == kernel[p].code
           exit == R("exit", p, code, None)
           reap == R("reap", p, code, None)
<1>1. /\ p \in Proc /\ kernel[p].state = "reaped" /\ code # None /\ code \in Codes
      /\ pending \in [Proc -> Codes \cup {None}] /\ None \notin Proc /\ None \notin Codes
      /\ live \subseteq Proc /\ log \in Seq(Row) /\ known \subseteq Proc
  BY ObserverAssumption DEF Ready, InLoop, Current, State, TypeOK, Family, Gone, Ended, Code, Process
<1>2. /\ UNCHANGED <<kernel, known, initialStop, earlyStops, scenario, execs, alarm, status, error, witness>>
      /\ pending' = [pending EXCEPT ![p] = IF p \in known /\ pending[p] = None THEN code ELSE @]
  BY DEF Terminal, Same, WaitCode
<1>3. /\ p \notin known => code = "signal" /\ pending[p] = None
      /\ pending[p] # None => pending[p] = code
  BY <1>1 DEF Ready, InLoop, Strangers, Registry, Code
<1>4. exit \in Row /\ reap \in Row /\ exit.kind = "exit" /\ reap.kind = "reap"
      /\ exit.pid = p /\ reap.pid = p
  BY <1>1, Rows DEF R
<1>5. pending' \in [Proc -> Codes \cup {None}] /\ \A q \in Proc \ {p} : pending'[q] = pending[q]
  BY <1>1, <1>2
<1>6. ASSUME pc' \in {"wait", "continue", "failed"}, log' \in Seq(Row), live' \subseteq Proc
      PROVE  TypeOK' /\ Family'
  <2>1. Family'
    BY <1>2 DEF Ready, Family, State, Code, Gone
  <2>2. TypeOK'
    BY <1>2, <1>5, <1>6 DEF Ready, TypeOK
  <2> QED
    BY <2>1, <2>2
<1>7. ASSUME pc' = "wait", live' = live \ {p}, p \in known, pending'[p] = code,
             Says(log', known, pending'),
             \A q \in Proc : HasRow(log, "image", q) => HasRow(log', "image", q),
             \A q \in Proc : HasRow(log', "reap", q) <=> HasRow(log, "reap", q) \/ q = p
      PROVE  InLoop'
  <2>1. \A q \in Proc : Unhandled(q)' <=> Unhandled(q)
    BY <1>1, <1>2, <1>7 DEF Unhandled, State, AtHand
  <2>2. Strangers'
    BY <1>2, <1>5, <1>7, <2>1 DEF Ready, InLoop, Strangers, State, Code
  <2>3. Registry'
    <3>1. \A q \in known \ live' : kernel[q].state = "reaped"
      BY <1>1, <1>7 DEF Ready, InLoop, Registry, State
    <3>2. \A q \in Proc : pending'[q] # None =>
            /\ pending'[q] = kernel[q].code
            /\ kernel[q].state = "exit" => kernel[q].told /\ ~AtHand(q)'
      BY <1>1, <1>2, <1>5, <1>7 DEF Ready, InLoop, Registry, State, Code, AtHand
    <3> QED
      BY <1>2, <3>1, <3>2 DEF Ready, InLoop, Registry, State, Code
  <2>4. Current'
    BY <1>1, <1>2, <1>7 DEF Ready, InLoop, Current, Stopped, Stops
  <2>5. Told'
    <3>1. \A q \in Proc : HasRow(log', "reap", q) => kernel[q].state = "reaped" /\ ~AtHand(q)'
      BY <1>1, <1>7 DEF Ready, InLoop, Told, State, AtHand
    <3>2. \A q \in known \ live' : HasRow(log', "reap", q)
      BY <1>1, <1>7 DEF Ready, InLoop, Told
    <3> QED
      BY <1>2, <1>7, <3>1, <3>2 DEF Ready, InLoop, Told, State
  <2>6. Imaged'
    BY <1>2, <1>7 DEF Ready, InLoop, Imaged, State, Code
  <2> QED
    BY <2>2, <2>3, <2>4, <2>5, <2>6 DEF InLoop
<1>8. ASSUME pc' = "failed", code = "signal" \/ Len(log') >= scenario.events - 2
      PROVE  OrderNeverFails'
  BY <1>1, <1>2, <1>8 DEF OrderNeverFails
<1>9. Room /\ NoEnd /\ TypeOK
  BY DEF Ready
<1>10. CASE pending'[p] # code
  <2>1. pc' = "failed" /\ log' = log /\ live' = live
    BY <1>10 DEF Terminal, WaitCode, Raise
  <2>2. code = "signal"
    BY <1>1, <1>2, <1>3, <1>10
  <2> QED
    BY <1>1, <1>2, <1>6, <1>8, <1>9, <2>1, <2>2 DEF Outcome, Loop, Room, NoEnd
<1>11. CASE p \in known /\ pending[p] = None
  <2>1. pending'[p] = code /\ pending' = [pending EXCEPT ![p] = code]
    BY <1>1, <1>2, <1>11
  <2>2. <<exit>> \o <<reap>> = <<exit, reap>>
    BY <1>4, Pair
  <2>3. Logs(<<exit, reap>>, "wait") /\ live' = IF Fits(<<exit, reap>>) THEN live \ {p} ELSE live
    BY <1>11, <2>1, <2>2 DEF Terminal, WaitCode
  <2>4. /\ log' \in Seq(Row) /\ Room'
        /\ \/ Fits(<<exit, reap>>) /\ log' = Append(Append(log, exit), reap) /\ pc' = "wait"
           \/ /\ ~Fits(<<exit, reap>>) /\ pc' = "failed" /\ Len(log') >= scenario.events - 2
              /\ log' = log \/ log' = Append(log, exit)
    BY <1>2, <1>4, <1>9, <2>3, TwoRows DEF Kinds
  <2>5. CASE pc' = "failed"
    <3>1. NoEnd'
      BY <1>4, <1>9, <2>4, <2>5, StillNoEnd
    <3>2. live' \subseteq Proc
      BY <1>1, <2>3
    <3> QED
      BY <1>6, <1>8, <2>4, <2>5, <3>1, <3>2 DEF Outcome, Loop
  <2>6. CASE pc' = "wait"
    <3> DEFINE s == Append(log, exit)
    <3>1. log' = Append(s, reap) /\ live' = live \ {p}
      BY <2>3, <2>4, <2>6
    <3>2. NoEnd'
      BY <1>4, <1>9, <3>1, StillNoEndTwo
    <3>4. Says(log, known, pending) /\ (HasRow(log, "image", p) \/ code \in {"nonzero", "signal"})
      BY <1>1 DEF Ready, InLoop, Told, Imaged, Family, Code, Codes
    <3>5. exit = R("exit", p, code, None) /\ reap = R("reap", p, code, None)
      OBVIOUS
    <3> HIDE DEF exit, reap, code
    <3>3. s \in Seq(Row) /\ \A k, q : HasRow(s, k, q) <=> HasRow(log, k, q) \/ (exit.kind = k /\ exit.pid = q)
      <4>1. s \in Seq(Row)
        BY <1>1, <1>4, AppendProperties
      <4> QED
        BY <1>1, <1>4, <4>1, RowsAfter
    <3>6. Says(s, known, pending')
      <4>1. R("exit", p, code, None) \in Row /\ s = Append(log, R("exit", p, code, None))
        BY <1>4, <3>5
      <4> HIDE DEF s
      <4> QED
        <5>1. /\ Says(log, known, pending) /\ pending \in [Proc -> Codes \cup {None}] /\ pending[p] = None
              /\ HasRow(log, "image", p) \/ code \in {"nonzero", "signal"}
              /\ p \in Proc /\ code \in Codes /\ code # None
              /\ R("exit", p, code, None) \in Row
          BY <1>1, <1>11, <3>4, <4>1
        <5>2. \A Q : Q = [pending EXCEPT ![p] = code] => Says(s, known, Q)
          BY ONLY <4>1, <5>1, SaysExit
        <5> QED
          BY <2>1, <5>2
    <3>7. \A k, q : HasRow(log', k, q) <=> HasRow(s, k, q) \/ (reap.kind = k /\ reap.pid = q)
      BY <1>4, <3>1, <3>3, RowsAfter
    <3>8. ~HasRow(log, "reap", p)
      BY <1>1 DEF Ready, InLoop, Told, AtHand
    <3>9. ~HasRow(s, "reap", p)
      BY <1>4, <3>3, <3>8
    <3> HIDE DEF s
    <3>10. Says(log', known, pending')
      BY <1>1, <1>4, <2>1, <3>1, <3>5, <3>6, <3>9, SaysReap
    <3>11. /\ \A q \in Proc : HasRow(log, "image", q) => HasRow(log', "image", q)
           /\ \A q \in Proc : HasRow(log', "reap", q) <=> HasRow(log, "reap", q) \/ q = p
      BY <1>4, <3>3, <3>7
    <3>12. InLoop'
      BY <1>7, <1>11, <2>1, <2>6, <3>1, <3>10, <3>11
    <3>13. live' \subseteq Proc
      BY <1>1, <3>1
    <3>14. OrderNeverFails'
      BY <2>6 DEF OrderNeverFails
    <3> QED
      BY <1>6, <2>4, <2>6, <3>2, <3>12, <3>13, <3>14 DEF Outcome
  <2> QED
    BY <2>4, <2>5, <2>6
<1>12. CASE p \in known /\ pending[p] # None
  <2>1. pending'[p] = code /\ pending[p] = code /\ pending' = pending
    BY <1>1, <1>2, <1>3, <1>12
  <2>2. <<>> \o <<reap>> = <<reap>>
    <3>1. <<reap>> \in Seq(Row)
      BY <1>4
    <3> QED
      BY <3>1, ConcatEmptySeq
  <2>3. Logs(<<reap>>, "wait") /\ live' = IF Fits(<<reap>>) THEN live \ {p} ELSE live
    BY <1>12, <2>1, <2>2 DEF Terminal, WaitCode
  <2>4. /\ log' \in Seq(Row) /\ Room'
        /\ \/ Fits(<<reap>>) /\ log' = Append(log, reap) /\ pc' = "wait"
           \/ ~Fits(<<reap>>) /\ log' = log /\ pc' = "failed" /\ Len(log') >= scenario.events - 2
    BY <1>2, <1>4, <1>9, <2>3, OneRow DEF Kinds
  <2>5. NoEnd'
    BY <1>4, <1>9, <2>4, StillNoEnd
  <2>6. live' \subseteq Proc
    BY <1>1, <2>3
  <2>7. CASE pc' = "failed"
    BY <1>6, <1>8, <2>4, <2>5, <2>6, <2>7 DEF Outcome, Loop
  <2>8. CASE pc' = "wait"
    <3>1. log' = Append(log, reap) /\ live' = live \ {p}
      BY <2>3, <2>4, <2>8
    <3>2. Says(log, known, pending) /\ ~HasRow(log, "reap", p)
      BY <1>1 DEF Ready, InLoop, Told, AtHand
    <3>3. reap = R("reap", p, pending[p], None)
      BY <2>1
    <3> HIDE DEF exit, reap, code
    <3>4. Says(log', known, pending')
      BY <1>1, <1>4, <1>12, <2>1, <3>1, <3>2, <3>3, SaysReap
    <3>5. \A k, q : HasRow(log', k, q) <=> HasRow(log, k, q) \/ (reap.kind = k /\ reap.pid = q)
      <4>1. log \in Seq(Row) /\ reap \in Row /\ log' = Append(log, reap)
        BY <1>1, <1>4, <1>9, <3>1
      <4> QED
        BY ONLY <4>1, RowsAfter
    <3>6. InLoop'
      BY <1>4, <1>7, <1>12, <2>1, <2>8, <3>1, <3>4, <3>5
    <3>7. OrderNeverFails'
      BY <2>8 DEF OrderNeverFails
    <3> QED
      BY <1>6, <2>4, <2>5, <2>6, <2>8, <3>6, <3>7 DEF Outcome
  <2> QED
    BY <2>4, <2>7, <2>8
<1>13. p \notin known => pending'[p] # code
  BY <1>1, <1>2, <1>3
<1> QED
  BY <1>10, <1>11, <1>12, <1>13

LEMMA RootStopsKeeps ==
  ASSUME Ready, Same, pc = "handle", Root = status.pid, status.kind \in Stops, Root \notin known, RootStops
  PROVE  Outcome
<1> DEFINE a == R("spawn", Root, None, None)
<1>1. /\ Root \in Proc /\ None \notin Proc /\ None \notin Codes /\ log \in Seq(Row)
      /\ live \subseteq Proc /\ known \subseteq Proc /\ initialStop \subseteq known
      /\ earlyStops \subseteq Proc \ known
  BY ObserverAssumption DEF Ready, TypeOK
<1>2. /\ UNCHANGED <<kernel, live, pending, initialStop, earlyStops, scenario, execs, alarm, status, error, witness>>
      /\ known = {} /\ known' = {Root}
  BY DEF RootStops, Same, Ready, InLoop, Registry
<1>3. /\ a \in Row /\ a.kind = "spawn" /\ a.pid = Root
  BY <1>1, Rows DEF R
<1>4. /\ log' \in Seq(Row) /\ Room'
      /\ \/ Fits(<<a>>) /\ log' = Append(log, a) /\ pc' = "continue"
         \/ ~Fits(<<a>>) /\ log' = log /\ pc' = "failed" /\ Len(log') >= scenario.events - 2
  BY <1>2, <1>3, OneRow DEF Kinds, Ready, RootStops
<1>5. NoEnd'
  BY <1>3, <1>4, StillNoEnd DEF Ready
<1>6. Root \notin earlyStops
  BY DEF Ready, InLoop, Registry
<1>7. Family'
  BY <1>2 DEF Ready, Family, State, Code, Gone
<1>8. TypeOK'
  BY <1>1, <1>2, <1>4, <1>6 DEF Ready, TypeOK
<1>9. CASE pc' = "failed"
  BY <1>2, <1>4, <1>5, <1>7, <1>8, <1>9 DEF Outcome, Loop, OrderNeverFails
<1>10. CASE pc' = "continue"
  <2>0. log' = Append(log, a)
    BY <1>4, <1>10
  <2>1. status.kind = "start" /\ known = {} /\ initialStop = {} /\ pending[Root] = None
    BY <1>1 DEF Ready, InLoop, Current, Registry, Strangers, Stops
  <2>2. kernel[Root].state \in {"start", "dead"} /\ (kernel[Root].state = "start" => kernel[Root].told)
    BY <2>1 DEF Ready, InLoop, Current, State, Stops
  <2>3. Root \in live
    BY <2>2 DEF Ready, RootHeld, State
  <2>5. Says(log', known', pending')
    <3>1. Says(log, known, pending) /\ a = R("spawn", Root, None, None) /\ known' = known \cup {Root}
      BY <1>2, <2>1 DEF Ready, InLoop, Told
    <3>2. Says(log', known \cup {Root}, pending)
      BY <1>1, <1>3, <2>0, <2>1, <3>1, SaysSpawn
    <3> QED
      BY <1>2, <3>1, <3>2
  <2> HIDE DEF a
  <2>4. \A k, q : HasRow(log', k, q) <=> HasRow(log, k, q) \/ (a.kind = k /\ a.pid = q)
    BY <1>1, <1>3, <2>0, RowsAfter
  <2>6. Strangers'
    <3>1. ASSUME NEW q \in Proc PROVE Unhandled(q)' <=> Unhandled(q)
      BY <1>2, <1>10, <2>2 DEF Unhandled, State, AtHand
    <3>2. \A q \in Proc : Unhandled(q) => kernel[q].child # Root
      BY <1>1 DEF Ready, Family, Unhandled, State
    <3> QED
      BY <1>2, <2>1, <3>1, <3>2 DEF Ready, InLoop, Strangers, State, Code
  <2>7. Registry'
    <3>1. IsFiniteSet(known') /\ Cardinality(known') <= scenario'.processes
      <4>1. IsFiniteSet({Root}) /\ Cardinality({Root}) = 1
        BY FS_Singleton
      <4> QED
        BY <1>2, <4>1, Scenarios DEF Ready
    <3>2. \A q \in Proc : pending[q] # None =>
            /\ pending[q] = kernel[q].code
            /\ kernel[q].state = "exit" => kernel[q].told /\ ~AtHand(q)'
      BY <1>10 DEF Ready, InLoop, Registry, State, Code, AtHand
    <3>3. \A q \in known' \cup earlyStops' : kernel'[q].state # "unborn"
      BY <1>2, <2>2 DEF Ready, InLoop, Registry, State
    <3>4. \A q \in known' \ live' : kernel'[q].state = "reaped"
      BY <1>2, <2>3
    <3>5. \A q \in known' \ initialStop' : kernel'[q].state = "start" => kernel'[q].told
      BY <1>2, <2>2
    <3> QED
      BY <1>2, <1>6, <2>1, <3>1, <3>2, <3>3, <3>4, <3>5 DEF Registry, State, Code
  <2>8. Current'
    BY <1>2, <1>10, <2>1 DEF Ready, InLoop, Current, State, Code, Stopped, Stops
  <2>9. Told'
    <3>1. \A q \in Proc : HasRow(log', "reap", q) => kernel[q].state = "reaped" /\ ~AtHand(q)'
      BY <1>3, <1>10, <2>4 DEF Ready, InLoop, Told, State, AtHand
    <3> QED
      BY <1>2, <2>3, <2>5, <3>1 DEF Ready, InLoop, Told, State
  <2>10. Imaged'
    BY <1>2, <2>4 DEF Ready, InLoop, Imaged, State, Code
  <2>11. OrderNeverFails'
    BY <1>10 DEF OrderNeverFails
  <2> QED
    BY <1>4, <1>5, <1>7, <1>8, <1>10, <2>6, <2>7, <2>8, <2>9, <2>10, <2>11 DEF Outcome, InLoop
<1> QED
  BY <1>4, <1>9, <1>10

LEMMA ChildStopsKeeps ==
  ASSUME Ready, Same, pc = "handle", NEW p, p = status.pid, status.kind \in Stops, p \in initialStop, ChildStops(p)
  PROVE  Outcome
<1> DEFINE a == R("image", p, kernel[p].image, "fork")
<1>1. /\ Root \in Proc /\ None \notin Proc /\ None \notin Codes /\ log \in Seq(Row)
      /\ live \subseteq Proc /\ known \subseteq Proc /\ initialStop \subseteq known
      /\ earlyStops \subseteq Proc \ known
      /\ p \in Proc /\ p \in known /\ kernel[p].image \in Image /\ kernel[p].code \in Codes \cup {None}
  BY ObserverAssumption DEF Ready, TypeOK, Process
<1>2. /\ UNCHANGED <<kernel, live, known, pending, earlyStops, scenario, execs, alarm, status, error, witness>>
      /\ initialStop' = initialStop \ {p}
  BY DEF ChildStops, Same
<1>3. /\ a \in Row /\ a.kind = "image" /\ a.pid = p
  BY <1>1, Rows DEF R
<1>4. kernel[p].state \in {"start"} \cup Ended /\ kernel[p].code \in {None, "signal"}
  BY DEF Ready, InLoop, Registry, State, Code
<1>5. Family'
  BY <1>2 DEF Ready, Family, State, Code, Gone
<1>6. ASSUME log' \in Seq(Row), pc' \in {"continue", "failed"} PROVE TypeOK'
  BY <1>1, <1>2, <1>6 DEF Ready, TypeOK
<1>7. CASE ~Stopped(p)
  <2>1. pc' = "failed" /\ log' = log
    BY <1>7 DEF ChildStops, Captured, Raise
  <2>2. kernel[p].code = "signal"
    BY <1>1, <1>4, <1>7 DEF Ready, Family, State, Code, Gone, Stopped, Stops
  <2>3. OrderNeverFails'
    BY <1>1, <1>2, <2>2 DEF OrderNeverFails
  <2> QED
    BY <1>1, <1>2, <1>5, <1>6, <2>1, <2>3 DEF Outcome, Loop, Ready, Room, NoEnd
<1>8. CASE Stopped(p)
  <2>1. Logs(<<a>>, "continue")
    BY <1>8 DEF ChildStops, Captured
  <2>2. /\ log' \in Seq(Row) /\ Room'
        /\ \/ Fits(<<a>>) /\ log' = Append(log, a) /\ pc' = "continue"
           \/ ~Fits(<<a>>) /\ log' = log /\ pc' = "failed" /\ Len(log') >= scenario.events - 2
    BY <1>2, <1>3, <2>1, OneRow DEF Kinds, Ready
  <2>3. NoEnd'
    BY <1>3, <2>2, StillNoEnd DEF Ready
  <2>4. CASE pc' = "failed"
    BY <1>2, <1>5, <1>6, <2>2, <2>3, <2>4 DEF Outcome, Loop, OrderNeverFails
  <2>5. CASE pc' = "continue"
    <3>0. log' = Append(log, a)
      BY <2>2, <2>5
    <3>1. kernel[p].state = "start" /\ kernel[p].told
      BY <1>4, <1>8 DEF Ready, InLoop, Current, State, Stopped, Stops, Ended
    <3>2. kernel[p].code = None /\ pending[p] = None
      BY <1>1, <3>1 DEF Ready, InLoop, Registry, Family, State, Code, Gone, Ended
    <3>5. Says(log', known', pending')
      <4>1. Says(log, known, pending)
        BY DEF Ready, InLoop, Told
      <4>2. Says(log', known, pending)
        BY <1>1, <1>3, <3>0, <3>2, <4>1, SaysImage
      <4> QED
        BY <1>2, <4>2
    <3> HIDE DEF a
    <3>4. \A k, q : HasRow(log', k, q) <=> HasRow(log, k, q) \/ (a.kind = k /\ a.pid = q)
      BY <1>1, <1>3, <3>0, RowsAfter
    <3>6. Strangers'
      <4>1. ASSUME NEW q \in Proc PROVE Unhandled(q)' <=> Unhandled(q)
        BY <1>2, <2>5, <3>1 DEF Unhandled, State, AtHand
      <4> QED
        BY <1>2, <4>1 DEF Ready, InLoop, Strangers, State, Code
    <3>7. Registry'
      <4>2. \A q \in Proc : pending[q] # None =>
              /\ pending[q] = kernel[q].code
              /\ kernel[q].state = "exit" => kernel[q].told /\ ~AtHand(q)'
        BY <2>5 DEF Ready, InLoop, Registry, State, Code, AtHand
      <4>5. \A q \in known' \ initialStop' : kernel'[q].state = "start" => kernel'[q].told
        BY <1>2, <3>1 DEF Ready, InLoop, Registry, State
      <4> QED
        BY <1>2, <4>2, <4>5 DEF Ready, InLoop, Registry, State, Code
    <3>8. Current'
      BY <1>1, <1>2, <2>5 DEF Ready, InLoop, Current, State, Code, Stopped, Stops
    <3>9. Told'
      <4>1. \A q \in Proc : HasRow(log', "reap", q) => kernel[q].state = "reaped" /\ ~AtHand(q)'
        BY <1>3, <2>5, <3>4 DEF Ready, InLoop, Told, State, AtHand
      <4>2. \A q \in known \ live : HasRow(log', "reap", q)
        BY <1>1, <3>4 DEF Ready, InLoop, Told
      <4> QED
        BY <1>2, <3>5, <4>1, <4>2 DEF Ready, InLoop, Told, State
    <3>10. Imaged'
      BY <1>2, <1>3, <3>4 DEF Ready, InLoop, Imaged, State, Code
    <3>11. OrderNeverFails'
      BY <2>5 DEF OrderNeverFails
    <3> QED
      BY <1>5, <1>6, <2>2, <2>3, <2>5, <3>6, <3>7, <3>8, <3>9, <3>10, <3>11 DEF Outcome, InLoop
  <2> QED
    BY <2>2, <2>4, <2>5
<1> QED
  BY <1>7, <1>8

LEMMA StopsEarlyKeeps ==
  ASSUME Ready, Same, pc = "handle", NEW p, p = status.pid, status.kind = "start",
         p \notin known, p # Root, StopsEarly(p)
  PROVE  Outcome
<1>1. /\ p \in Proc /\ known \subseteq Proc /\ initialStop \subseteq known
      /\ earlyStops \subseteq Proc \ known
  BY DEF Ready, InLoop, Current, TypeOK
<1>2. /\ UNCHANGED <<kernel, live, known, pending, initialStop, log, scenario, execs, alarm, status, error, witness>>
      /\ earlyStops' = earlyStops \cup {p} /\ pc' = "wait"
  BY DEF StopsEarly, Same
<1>3. kernel[p].state \in {"start", "dead"}
  BY DEF Ready, InLoop, Current, State, Stops
<1>4. Family'
  BY <1>2 DEF Ready, Family, State, Code, Gone
<1>5. TypeOK'
  BY <1>1, <1>2 DEF Ready, TypeOK
<1>6. Strangers'
  <2>1. ASSUME NEW q \in Proc PROVE Unhandled(q)' <=> Unhandled(q)
    BY <1>2, <1>3 DEF Unhandled, State, AtHand
  <2> QED
    BY <1>2, <2>1 DEF Ready, InLoop, Strangers, State, Code
<1>7. Registry'
  <2>1. \A q \in Proc : pending[q] # None =>
          /\ pending[q] = kernel[q].code
          /\ kernel[q].state = "exit" => kernel[q].told /\ ~AtHand(q)'
    BY <1>2 DEF Ready, InLoop, Registry, State, Code, AtHand
  <2>2. \A q \in known' \cup earlyStops' : kernel'[q].state # "unborn"
    BY <1>2, <1>3 DEF Ready, InLoop, Registry, State
  <2> QED
    BY <1>2, <2>1, <2>2 DEF Ready, InLoop, Registry, State, Code
<1>8. Current'
  BY <1>2 DEF Ready, InLoop, Current, Stopped
<1>9. Told'
  <2>1. \A q \in Proc : HasRow(log, "reap", q) => kernel[q].state = "reaped" /\ ~AtHand(q)'
    BY <1>2 DEF Ready, InLoop, Told, State, AtHand
  <2> QED
    BY <1>2, <2>1 DEF Ready, InLoop, Told, State
<1>10. Imaged'
  BY <1>2 DEF Ready, InLoop, Imaged, State, Code
<1> QED
  BY <1>2, <1>4, <1>5, <1>6, <1>7, <1>8, <1>9, <1>10
     DEF Outcome, InLoop, OrderNeverFails, Ready, Room, NoEnd

LEMMA ExecsKeeps ==
  ASSUME Ready, Same, pc = "handle", NEW p, p = status.pid, status.kind = "exec", Execs(p)
  PROVE  Outcome
<1> DEFINE a == R("image", p, kernel[p].image, "exec")
<1>1. /\ Root \in Proc /\ None \notin Proc /\ None \notin Codes /\ log \in Seq(Row)
      /\ live \subseteq Proc /\ known \subseteq Proc /\ initialStop \subseteq known
      /\ p \in Proc /\ p \in known \ initialStop /\ kernel[p].image \in Image
  BY ObserverAssumption DEF Ready, TypeOK, Process, InLoop, Current, Stops
<1>2. UNCHANGED <<kernel, live, known, pending, initialStop, earlyStops, scenario, execs, alarm, status, error, witness>>
  BY DEF Execs, Same, registry
<1>3. /\ a \in Row /\ a.kind = "image" /\ a.pid = p
  BY <1>1, Rows DEF R
<1>4. \/ kernel[p].state = "exec"
      \/ kernel[p].state = "dead" /\ kernel[p].code = "signal"
  BY DEF Ready, InLoop, Current, State, Code, Stops
<1>5. Family'
  BY <1>2 DEF Ready, Family, State, Code, Gone
<1>6. ASSUME log' \in Seq(Row), pc' \in {"continue", "failed"} PROVE TypeOK'
  BY <1>1, <1>2, <1>6 DEF Ready, TypeOK
<1>7. CASE ~Stopped(p)
  <2>1. pc' = "failed" /\ log' = log
    BY <1>7 DEF Execs, Captured, Raise
  <2>2. kernel[p].code = "signal"
    BY <1>4, <1>7 DEF Stopped, Stops
  <2>3. OrderNeverFails'
    BY <1>1, <1>2, <2>2 DEF OrderNeverFails
  <2> QED
    BY <1>1, <1>2, <1>5, <1>6, <2>1, <2>3 DEF Outcome, Loop, Ready, Room, NoEnd
<1>8. CASE Stopped(p)
  <2>1. Logs(<<a>>, "continue")
    BY <1>8 DEF Execs, Captured
  <2>2. /\ log' \in Seq(Row) /\ Room'
        /\ \/ Fits(<<a>>) /\ log' = Append(log, a) /\ pc' = "continue"
           \/ ~Fits(<<a>>) /\ log' = log /\ pc' = "failed" /\ Len(log') >= scenario.events - 2
    BY <1>2, <1>3, <2>1, OneRow DEF Kinds, Ready
  <2>3. NoEnd'
    BY <1>3, <2>2, StillNoEnd DEF Ready
  <2>4. CASE pc' = "failed"
    BY <1>2, <1>5, <1>6, <2>2, <2>3, <2>4 DEF Outcome, Loop, OrderNeverFails
  <2>5. CASE pc' = "continue"
    <3>0. log' = Append(log, a)
      BY <2>2, <2>5
    <3>1. kernel[p].state = "exec"
      BY <1>4, <1>8 DEF Stopped, Stops
    <3>2. pending[p] = None
      BY <1>1, <3>1 DEF Ready, InLoop, Registry, Family, State, Code, Gone, Ended
    <3>5. Says(log', known', pending')
      <4>1. Says(log, known, pending)
        BY DEF Ready, InLoop, Told
      <4>2. Says(log', known, pending)
        BY <1>1, <1>3, <3>0, <3>2, <4>1, SaysImage
      <4> QED
        BY <1>2, <4>2
    <3> HIDE DEF a
    <3>4. \A k, q : HasRow(log', k, q) <=> HasRow(log, k, q) \/ (a.kind = k /\ a.pid = q)
      BY <1>1, <1>3, <3>0, RowsAfter
    <3>6. Strangers'
      <4>1. ASSUME NEW q \in Proc PROVE Unhandled(q)' <=> Unhandled(q)
        BY <1>2, <2>5, <3>1 DEF Unhandled, State, AtHand
      <4> QED
        BY <1>2, <4>1 DEF Ready, InLoop, Strangers, State, Code
    <3>7. Registry'
      <4>2. \A q \in Proc : pending[q] # None =>
              /\ pending[q] = kernel[q].code
              /\ kernel[q].state = "exit" => kernel[q].told /\ ~AtHand(q)'
        BY <2>5 DEF Ready, InLoop, Registry, State, Code, AtHand
      <4> QED
        BY <1>2, <4>2 DEF Ready, InLoop, Registry, State, Code
    <3>8. Current'
      BY <1>1, <1>2, <2>5 DEF Ready, InLoop, Current, State, Code, Stopped, Stops
    <3>9. Told'
      <4>1. \A q \in Proc : HasRow(log', "reap", q) => kernel[q].state = "reaped" /\ ~AtHand(q)'
        BY <1>3, <2>5, <3>4 DEF Ready, InLoop, Told, State, AtHand
      <4>2. \A q \in known \ live : HasRow(log', "reap", q)
        BY <1>1, <3>4 DEF Ready, InLoop, Told
      <4> QED
        BY <1>2, <3>5, <4>1, <4>2 DEF Ready, InLoop, Told, State
    <3>10. Imaged'
      BY <1>2, <1>3, <3>4 DEF Ready, InLoop, Imaged, State, Code
    <3>11. OrderNeverFails'
      BY <2>5 DEF OrderNeverFails
    <3> QED
      BY <1>5, <1>6, <2>2, <2>3, <2>5, <3>6, <3>7, <3>8, <3>9, <3>10, <3>11 DEF Outcome, InLoop
  <2> QED
    BY <2>2, <2>4, <2>5
<1> QED
  BY <1>7, <1>8

LEMMA ExitsKeeps ==
  ASSUME Ready, Same, pc = "handle", NEW p, p = status.pid, status.kind = "exit", Exits(p)
  PROVE  Outcome
<1> DEFINE code == kernel[p].code
           a == R("exit", p, code, None)
<1>1. /\ Root \in Proc /\ None \notin Proc /\ None \notin Codes /\ log \in Seq(Row)
      /\ live \subseteq Proc /\ known \subseteq Proc /\ initialStop \subseteq known
      /\ p \in Proc /\ p \in known \ initialStop
      /\ pending \in [Proc -> Codes \cup {None}] /\ code \in Codes \cup {None}
  BY ObserverAssumption DEF Ready, TypeOK, Process, InLoop, Current, Stops
<1>2. UNCHANGED <<kernel, live, known, initialStop, earlyStops, scenario, execs, alarm, status, error, witness>>
  BY DEF Exits, Same
<1>3. a \in Row /\ a.kind = "exit" /\ a.pid = p
  BY <1>1, Rows DEF R
<1>4. (kernel[p].state = "exit" /\ kernel[p].told) \/ kernel[p].state = "dead"
  BY DEF Ready, InLoop, Current, State, Code, Stops
<1>5. Family'
  BY <1>2 DEF Ready, Family, State, Code, Gone
<1>6. ASSUME log' \in Seq(Row), pc' \in {"continue", "failed"}, pending' \in [Proc -> Codes \cup {None}]
      PROVE  TypeOK'
  BY <1>1, <1>2, <1>6 DEF Ready, TypeOK
<1>7. ASSUME NEW q \in Proc, pc' = "continue" PROVE Unhandled(q)' <=> Unhandled(q)
  BY <1>2, <1>4, <1>7 DEF Unhandled, State, AtHand
<1>8. CASE ~Stopped(p)
  <2>1. pc' = "continue" /\ pending' = pending /\ log' = log
    BY <1>8 DEF Exits
  <2>2. kernel[p].state = "dead"
    BY <1>4, <1>8 DEF Stopped, Stops
  <2>3. Strangers'
    BY <1>2, <1>7, <2>1 DEF Ready, InLoop, Strangers, State, Code
  <2>4. Registry'
    <3>1. \A q \in Proc : pending[q] # None =>
            /\ pending[q] = kernel[q].code
            /\ kernel[q].state = "exit" => kernel[q].told /\ ~AtHand(q)'
      BY <2>1 DEF Ready, InLoop, Registry, State, Code, AtHand
    <3> QED
      BY <1>2, <2>1, <3>1 DEF Ready, InLoop, Registry, State, Code
  <2>5. Current'
    BY <1>1, <1>2, <2>1 DEF Ready, InLoop, Current, State, Code, Stopped, Stops
  <2>6. Told'
    <3>1. \A q \in Proc : HasRow(log, "reap", q) => kernel[q].state = "reaped" /\ ~AtHand(q)'
      BY <2>1 DEF Ready, InLoop, Told, State, AtHand
    <3> QED
      BY <1>2, <2>1, <3>1 DEF Ready, InLoop, Told, State
  <2>7. Imaged'
    BY <1>2, <2>1, <2>2 DEF Ready, InLoop, Imaged, State, Code
  <2> QED
    BY <1>1, <1>2, <1>5, <1>6, <2>1, <2>3, <2>4, <2>5, <2>6, <2>7
       DEF Outcome, InLoop, OrderNeverFails, Ready, Room, NoEnd
<1>9. CASE Stopped(p)
  <2>1. /\ kernel[p].state = "exit" /\ kernel[p].told /\ code \in {"zero", "nonzero"} /\ pending[p] = None
        /\ code \in Codes /\ code # None
    BY <1>1, <1>4, <1>9 DEF Stopped, Stops, Ready, Family, InLoop, Registry, AtHand, State, Code, Codes
  <2>2. Logs(<<a>>, "continue") /\ pending' = [pending EXCEPT ![p] = code]
    BY <1>9 DEF Exits
  <2>3. /\ log' \in Seq(Row) /\ Room'
        /\ \/ Fits(<<a>>) /\ log' = Append(log, a) /\ pc' = "continue"
           \/ ~Fits(<<a>>) /\ log' = log /\ pc' = "failed" /\ Len(log') >= scenario.events - 2
    BY <1>2, <1>3, <2>2, OneRow DEF Kinds, Ready
  <2>4. NoEnd'
    BY <1>3, <2>3, StillNoEnd DEF Ready
  <2>5. /\ pending' \in [Proc -> Codes \cup {None}] /\ pending'[p] = code
        /\ \A q \in Proc \ {p} : pending'[q] = pending[q]
    BY <1>1, <2>1, <2>2
  <2>6. CASE pc' = "failed"
    BY <1>2, <1>5, <1>6, <2>3, <2>4, <2>5, <2>6 DEF Outcome, Loop, OrderNeverFails
  <2>7. CASE pc' = "continue"
    <3>1. log' = Append(log, a)
      BY <2>3, <2>7
    <3>2. Says(log', known', pending')
      <4>1. Says(log, known, pending) /\ (HasRow(log, "image", p) \/ code \in {"nonzero", "signal"})
        <5>1. code = "zero" => HasRow(log, "image", p)
          BY <1>1 DEF Ready, InLoop, Imaged, Family, Code
        <5> QED
          BY <2>1, <5>1 DEF Ready, InLoop, Told
      <4>2. R("exit", p, code, None) \in Row /\ log' = Append(log, R("exit", p, code, None))
        BY <1>3, <3>1
      <4> HIDE DEF a, code
      <4>3. \A Q : Q = [pending EXCEPT ![p] = code] => Says(log', known, Q)
        BY ONLY <1>1, <2>1, <4>1, <4>2, SaysExit
      <4> QED
        BY <1>2, <2>2, <4>3
    <3> HIDE DEF a
    <3>3. \A k, q : HasRow(log', k, q) <=> HasRow(log, k, q) \/ (a.kind = k /\ a.pid = q)
      BY <1>1, <1>3, <3>1, RowsAfter
    <3>4. Strangers'
      BY <1>1, <1>2, <1>7, <2>5, <2>7 DEF Ready, InLoop, Strangers, State, Code
    <3>5. Registry'
      <4>1. \A q \in Proc : pending'[q] # None =>
              /\ pending'[q] = kernel[q].code
              /\ kernel[q].state = "exit" => kernel[q].told /\ ~AtHand(q)'
        BY <2>1, <2>5, <2>7 DEF Ready, InLoop, Registry, State, Code, AtHand
      <4> QED
        BY <1>2, <4>1 DEF Ready, InLoop, Registry, State, Code
    <3>6. Current'
      BY <1>1, <1>2, <2>7 DEF Ready, InLoop, Current, State, Code, Stopped, Stops
    <3>7. Told'
      <4>1. \A q \in Proc : HasRow(log', "reap", q) => kernel[q].state = "reaped" /\ ~AtHand(q)'
        BY <1>3, <2>7, <3>3 DEF Ready, InLoop, Told, State, AtHand
      <4>2. \A q \in known \ live : HasRow(log', "reap", q)
        BY <1>1, <3>3 DEF Ready, InLoop, Told
      <4> QED
        BY <1>2, <3>2, <4>1, <4>2 DEF Ready, InLoop, Told, State
    <3>8. Imaged'
      BY <1>2, <2>1, <3>3 DEF Ready, InLoop, Imaged, State, Code
    <3>9. OrderNeverFails'
      BY <2>7 DEF OrderNeverFails
    <3> QED
      BY <1>5, <1>6, <2>3, <2>4, <2>5, <2>7, <3>4, <3>5, <3>6, <3>7, <3>8, <3>9 DEF Outcome, InLoop
  <2> QED
    BY <2>3, <2>6, <2>7
<1> QED
  BY <1>8, <1>9

LEMMA ForksKeeps ==
  ASSUME Ready, Same, pc = "handle", NEW p, p = status.pid, status.kind = "fork", Forks(p)
  PROVE  Outcome
<1> DEFINE c == kernel[p].child
           spawn == R("spawn", c, p, "fork")
           image == R("image", c, kernel[c].image, "fork")
<1>1. /\ Root \in Proc /\ None \notin Proc /\ None \notin Codes /\ log \in Seq(Row)
      /\ live \subseteq Proc /\ known \subseteq Proc /\ initialStop \subseteq known
      /\ earlyStops \subseteq Proc \ known
      /\ p \in Proc /\ p \in known \ initialStop /\ kernel \in [Proc -> Process]
      /\ \A q \in Proc : kernel[q].child \in Proc \cup {None}
  BY ObserverAssumption DEF Ready, TypeOK, Process, InLoop, Current, Stops
<1>2. UNCHANGED <<scenario, execs, alarm, status, error, witness, pending>>
  BY DEF Forks, Same, registry
<1>3. \/ kernel[p].state = "fork" /\ kernel[p].told
      \/ kernel[p].state = "dead" /\ kernel[p].code = "signal"
  BY DEF Ready, InLoop, Current, State, Code, Stops
<1>4. Family /\ TypeOK /\ InLoop /\ Room /\ NoEnd
  BY DEF Ready
<1>5. CASE ~Stopped(p)
  <2>1. pc' = "failed" /\ UNCHANGED <<kernel, registry, log>>
    BY <1>5 DEF Forks, Raise
  <2>2. kernel[p].code = "signal"
    BY <1>3, <1>5 DEF Stopped, Stops
  <2>3. OrderNeverFails'
    BY <1>1, <2>1, <2>2 DEF OrderNeverFails
  <2>4. Family'
    BY <1>2, <1>4, <2>1 DEF Family, State, Code, Gone
  <2>5. TypeOK'
    BY <1>2, <1>4, <2>1 DEF TypeOK, registry
  <2> QED
    BY <1>2, <1>4, <2>1, <2>3, <2>4, <2>5 DEF Outcome, Loop, Room, NoEnd
<1>6. CASE Stopped(p)
  <2>1. kernel[p].state = "fork" /\ kernel[p].told
    BY <1>3, <1>6 DEF Stopped, Stops
  <2>2. /\ c \in Proc /\ c # Root /\ kernel[c].state # "unborn" /\ kernel[c].parent = p /\ c \notin known
    BY <1>1, <1>4, <2>1 DEF Family, State, InLoop, Strangers, Unhandled, AtHand
  <2>3. /\ kernel[c].state \in {"start"} \cup Ended /\ kernel[c].code \in {None, "signal"} /\ pending[c] = None
        /\ kernel[c].image \in Image
    BY <1>1, <1>4, <2>2 DEF InLoop, Strangers, State, Code, Process
  <2>4. /\ spawn \in Row /\ spawn.kind = "spawn" /\ spawn.pid = c
        /\ image \in Row /\ image.kind = "image" /\ image.pid = c
    BY <1>1, <2>2, <2>3, Rows DEF R
  <2>5. live' = live \cup {c}
    BY <1>6 DEF Forks
  <2>6. CASE Cardinality(known) >= scenario.processes
    <3>1. pc' = "failed" /\ UNCHANGED <<kernel, known, initialStop, earlyStops, log>>
      BY <1>6, <2>6 DEF Forks, Raise
    <3>2. OrderNeverFails'
      BY <1>2, <2>6, <3>1 DEF OrderNeverFails
    <3>3. Family'
      BY <1>2, <1>4, <3>1 DEF Family, State, Code, Gone
    <3>4. TypeOK'
      BY <1>1, <1>2, <1>4, <2>2, <2>5, <3>1 DEF TypeOK
    <3> QED
      BY <1>2, <1>4, <3>1, <3>2, <3>3, <3>4 DEF Outcome, Loop, Room, NoEnd
  <2>7. CASE ~(Cardinality(known) >= scenario.processes)
    <3>1. /\ known' = known \cup {c}
          /\ earlyStops' = earlyStops \ {c}
          /\ initialStop' = IF c \in earlyStops THEN initialStop ELSE initialStop \cup {c}
      BY <1>6, <2>2, <2>7 DEF Forks
    <3>3. \/ c \notin earlyStops /\ Logs(<<spawn>>, "continue") /\ UNCHANGED kernel
          \/ /\ c \in earlyStops /\ Stopped(c) /\ Logs(<<spawn, image>>, "continue")
             /\ kernel' = IF Fits(<<spawn, image>>) THEN Continued(c) ELSE kernel
          \/ c \in earlyStops /\ ~Stopped(c) /\ Logs(<<spawn>>, "failed") /\ UNCHANGED kernel
      BY <1>6, <2>2, <2>7 DEF Forks
    <3>4. IsFiniteSet(known') /\ Cardinality(known') <= scenario'.processes
      <4>1. IsFiniteSet(known) /\ Cardinality(known) < scenario.processes
        <5>1. IsFiniteSet(known) /\ scenario.processes \in Nat
          BY <1>4, Scenarios DEF InLoop, Registry
        <5>2. Cardinality(known) \in Nat
          BY <5>1, FS_CardinalityType
        <5> QED
          BY <2>7, <5>1, <5>2
      <4>2. IsFiniteSet(known \cup {c}) /\ Cardinality(known \cup {c}) = Cardinality(known) + 1
        BY <2>2, <4>1, FS_AddElement
      <4>3. Cardinality(known) \in Nat /\ scenario.processes \in Nat
        BY <1>4, <4>1, FS_CardinalityType, Scenarios
      <4> QED
        BY <1>2, <3>1, <4>1, <4>2, <4>3
    <3>5. ASSUME log' \in Seq(Row), pc' \in {"continue", "failed"}, kernel' \in [Proc -> Process]
          PROVE  TypeOK'
      BY <1>1, <1>2, <1>4, <2>2, <2>5, <3>1, <3>5 DEF TypeOK
    <3> HIDE DEF c, spawn, image
    <3>6. p # c /\ p \in known /\ Root \in known
      BY <1>1, <1>4, <2>2 DEF InLoop, Registry
    <3>7. ASSUME pc' = "continue", \A q \in Proc \ {c} : kernel'[q] = kernel[q],
                 kernel'[c].child = kernel[c].child, kernel'[c].code = kernel[c].code,
                 \/ kernel'[c] = kernel[c] /\ initialStop' = initialStop \cup {c} /\ c \notin earlyStops
                 \/ /\ kernel[c].state = "start" /\ kernel'[c].state = "running" /\ ~kernel'[c].told
                    /\ initialStop' = initialStop /\ HasRow(log', "image", c),
                 Says(log', known', pending'),
                 \A q \in Proc : HasRow(log, "image", q) => HasRow(log', "image", q),
                 \A q \in Proc : HasRow(log', "reap", q) <=> HasRow(log, "reap", q)
          PROVE  InLoop'
      <4>1. ASSUME NEW q \in Proc PROVE Unhandled(q)' <=> Unhandled(q) /\ q # p
        <5>1. CASE q = c
          BY <2>3, <3>6, <3>7, <5>1 DEF Unhandled, State, Ended
        <5>2. CASE q # c
          BY <1>2, <2>1, <3>7, <5>2 DEF Unhandled, State, AtHand
        <5> QED
          BY <5>1, <5>2
      <4>2. Strangers'
        <5>1. ASSUME NEW q \in Proc \ known'
              PROVE  /\ kernel'[q].state \in {"unborn", "start"} \cup Ended
                     /\ kernel'[q].code \in {None, "signal"} /\ pending'[q] = None
          BY <1>2, <1>4, <3>1, <3>7 DEF InLoop, Strangers, State, Code
        <5>2. ASSUME NEW d \in Proc \ (known' \cup {Root}), kernel'[d].state # "unborn"
              PROVE  \E q \in Proc : kernel'[q].child = d /\ (Unhandled(q)' \/ kernel'[q].code = "signal")
          <6>1. d # c /\ d \in Proc \ (known \cup {Root}) /\ kernel[d].state # "unborn"
            BY <3>1, <3>7, <5>2
          <6>2. PICK q \in Proc : kernel[q].child = d /\ (Unhandled(q) \/ kernel[q].code = "signal")
            BY <1>4, <6>1 DEF InLoop, Strangers, State, Code
          <6>3. q # p
            BY <6>1, <6>2 DEF c
          <6> QED
            BY <3>7, <4>1, <6>2, <6>3
        <5>3. ASSUME NEW q \in Proc, Unhandled(q)' PROVE kernel'[q].child \notin known'
          <6>1. Unhandled(q) /\ q # p /\ q # c
            BY <2>3, <4>1, <5>3 DEF Unhandled, State, Ended
          <6>2. kernel[q].child # None /\ kernel[q].child \notin known
            BY <1>4, <6>1 DEF InLoop, Strangers, Family, Unhandled, State
          <6>3. kernel[q].child # c
            BY <1>4, <2>2, <6>1, <6>2 DEF Family
          <6> QED
            BY <3>1, <3>7, <6>1, <6>2, <6>3
        <5> QED
          BY <5>1, <5>2, <5>3 DEF Strangers, State, Code
      <4>3. Registry'
        <5>1. \A q \in known' \cup earlyStops' : kernel'[q].state # "unborn"
          BY <1>1, <1>4, <2>2, <3>1, <3>7 DEF InLoop, Registry, State
        <5>2. \A q \in initialStop' : kernel'[q].state \in {"start"} \cup Ended /\ kernel'[q].code \in {None, "signal"}
          BY <1>1, <1>4, <2>2, <2>3, <3>7 DEF InLoop, Registry, State, Code
        <5>3. \A q \in known' \ initialStop' : kernel'[q].state = "start" => kernel'[q].told
          BY <1>1, <1>4, <2>2, <3>1, <3>7 DEF InLoop, Registry, State
        <5>4. \A q \in known' \ live' : kernel'[q].state = "reaped"
          BY <1>1, <1>4, <2>2, <2>5, <3>1, <3>7 DEF InLoop, Registry, State
        <5>5. \A q \in Proc : pending'[q] # None =>
                /\ pending'[q] = kernel'[q].code
                /\ kernel'[q].state = "exit" => kernel'[q].told /\ ~AtHand(q)'
          BY <1>2, <1>4, <2>3, <3>7 DEF InLoop, Registry, State, Code, AtHand
        <5>6. Root \notin initialStop' \cup earlyStops' /\ (known' # {} => Root \in known')
          BY <1>4, <2>2, <3>1, <3>6 DEF InLoop, Registry
        <5> QED
          BY <3>4, <5>1, <5>2, <5>3, <5>4, <5>5, <5>6 DEF Registry, State, Code
      <4>4. Current'
        <5>1. \A q \in Proc : Stopped(q)' /\ kernel'[q].told => q \in earlyStops' \/ q = status.pid
          <6> TAKE q \in Proc
          <6>1. CASE q = c
            BY <1>4, <2>2, <3>6, <3>7, <6>1 DEF InLoop, Current, Stopped, Stops
          <6>2. CASE q # c
            BY <1>4, <3>1, <3>7, <6>2 DEF InLoop, Current, Stopped
          <6> QED
            BY <6>1, <6>2
        <5>2. kernel'[p] = kernel[p] /\ p \in known' \ initialStop'
          BY <1>1, <3>1, <3>6, <3>7
        <5> QED
          BY <1>1, <1>2, <2>1, <3>7, <5>1, <5>2 DEF Current, State, Code, Stops
      <4>5. Told'
        <5>1. \A q \in Proc : HasRow(log', "reap", q) => kernel'[q].state = "reaped" /\ ~AtHand(q)'
          <6> TAKE q \in Proc
          <6>1. CASE q = c
            BY <1>4, <2>2, <3>7, <6>1 DEF InLoop, Told, State, AtHand
          <6>2. CASE q # c
            BY <1>4, <3>7, <6>2 DEF InLoop, Told, State, AtHand
          <6> QED
            BY <6>1, <6>2
        <5>2. \A q \in known' \ live' : HasRow(log', "reap", q)
          BY <1>1, <1>4, <2>5, <3>1, <3>7 DEF InLoop, Told
        <5> QED
          BY <1>2, <1>4, <3>7, <5>1, <5>2 DEF InLoop, Told, State
      <4>6. Imaged'
        <5>1. \A q \in Proc : kernel'[q].state \in {"running", "fork"} \/ kernel'[q].code = "zero" =>
                HasRow(log', "image", q) \/ (q = Root /\ execs[Root] = <<>>)
          BY <1>1, <1>4, <2>3, <3>7 DEF InLoop, Imaged, State, Code, Codes, Ended
        <5>2. kernel'[p].state = "fork"
          BY <1>1, <2>1, <3>6, <3>7
        <5> QED
          BY <1>2, <3>1, <3>6, <5>1, <5>2 DEF Imaged, State, Code
      <4> QED
        BY <4>2, <4>3, <4>4, <4>5, <4>6 DEF InLoop
    <3>8. spawn = R("spawn", c, p, "fork") /\ image = R("image", c, kernel[c].image, "fork")
      BY DEF spawn, image, c
    <3>9. ASSUME NEW s, s = Append(log, spawn)
          PROVE  /\ s \in Seq(Row) /\ Says(s, known', pending)
                 /\ \A k, q : HasRow(s, k, q) <=> HasRow(log, k, q) \/ (k = "spawn" /\ q = c)
      <4>1. s \in Seq(Row)
        BY <1>1, <2>4, <3>9, AppendProperties
      <4>2. \A k, q : HasRow(s, k, q) <=> HasRow(log, k, q) \/ (spawn.kind = k /\ spawn.pid = q)
        <5>1. log \in Seq(Row) /\ spawn \in Row /\ s = Append(log, spawn)
          BY <1>1, <2>4, <3>9
        <5> QED
          BY ONLY <5>1, RowsAfter
      <4>3. /\ Says(log, known, pending) /\ c \in Proc \ known /\ p \in known \cap Proc
            /\ R("spawn", c, p, "fork") \in Row /\ s = Append(log, R("spawn", c, p, "fork"))
        BY <1>1, <1>4, <2>2, <2>4, <3>8, <3>9 DEF InLoop, Told
      <4>4. Says(s, known \cup {c}, pending)
        BY ONLY <4>3, SaysSpawn
      <4> QED
        BY <2>4, <3>1, <4>1, <4>2, <4>4
    <3>10. ASSUME UNCHANGED kernel PROVE Family'
      BY <1>2, <1>4, <3>10 DEF Family, State, Code, Gone
    <3>11. CASE c \notin earlyStops /\ Logs(<<spawn>>, "continue") /\ UNCHANGED kernel
      <4>1. /\ log' \in Seq(Row) /\ Room'
            /\ \/ log' = Append(log, spawn) /\ pc' = "continue"
               \/ log' = log /\ pc' = "failed" /\ Len(log') >= scenario.events - 2
        BY <1>2, <1>4, <2>4, <3>11, OneRow DEF Kinds
      <4>2. NoEnd'
        BY <1>4, <2>4, <4>1, StillNoEnd
      <4>3. TypeOK' /\ Family'
        BY <1>1, <3>5, <3>10, <3>11, <4>1
      <4>4. CASE pc' = "failed"
        BY <1>2, <4>1, <4>2, <4>3, <4>4 DEF Outcome, Loop, OrderNeverFails
      <4>5. CASE pc' = "continue"
        <5>1. /\ Says(log', known', pending)
              /\ \A k, q : HasRow(log', k, q) <=> HasRow(log, k, q) \/ (k = "spawn" /\ q = c)
          BY <3>9, <4>1, <4>5
        <5>2. InLoop'
          BY <1>2, <3>1, <3>7, <3>11, <4>5, <5>1
        <5> QED
          BY <4>1, <4>2, <4>3, <4>5, <5>2 DEF Outcome, OrderNeverFails
      <4> QED
        BY <4>1, <4>4, <4>5
    <3>12. CASE /\ c \in earlyStops /\ Stopped(c) /\ Logs(<<spawn, image>>, "continue")
                /\ kernel' = IF Fits(<<spawn, image>>) THEN Continued(c) ELSE kernel
      <4>1. /\ log' \in Seq(Row) /\ Room'
            /\ \/ Fits(<<spawn, image>>) /\ log' = Append(Append(log, spawn), image) /\ pc' = "continue"
               \/ /\ ~Fits(<<spawn, image>>) /\ pc' = "failed" /\ Len(log') >= scenario.events - 2
                  /\ log' = log \/ log' = Append(log, spawn)
        BY <1>2, <1>4, <2>4, <3>12, TwoRows DEF Kinds
      <4>2. CASE pc' = "failed"
        <5>1. NoEnd' /\ UNCHANGED kernel
          BY <1>4, <2>4, <3>12, <4>1, <4>2, StillNoEnd
        <5>2. TypeOK' /\ Family'
          BY <1>1, <3>5, <3>10, <4>1, <4>2, <5>1
        <5> QED
          BY <1>2, <4>1, <4>2, <5>1, <5>2 DEF Outcome, Loop, OrderNeverFails
      <4>3. CASE pc' = "continue"
        <5>1. /\ kernel' = Continued(c) /\ log' = Append(Append(log, spawn), image)
              /\ kernel[c].state = "start" /\ kernel[c].code = None
          BY <1>4, <2>2, <2>3, <3>12, <4>1, <4>3 DEF Stopped, Stops, Ended, Family, State, Code, Gone
        <5>2. NoEnd'
          BY <1>4, <2>4, <5>1, StillNoEndTwo
        <5>3. /\ kernel' \in [Proc -> Process]
              /\ kernel'[c].state = "running" /\ ~kernel'[c].told
              /\ kernel'[c].child = kernel[c].child /\ kernel'[c].parent = kernel[c].parent
              /\ kernel'[c].code = kernel[c].code
              /\ \A q \in Proc \ {c} : kernel'[q] = kernel[q]
          BY <1>4, <2>2, <5>1, ContinuedDoes
        <5>4. TypeOK'
          BY <3>5, <4>1, <4>3, <5>3
        <5>5. Family'
          <6>1. \A q \in Proc : /\ kernel'[q].child = kernel[q].child /\ kernel'[q].parent = kernel[q].parent
                                /\ kernel'[q].code = kernel[q].code
                                /\ \/ kernel'[q].state = kernel[q].state /\ kernel'[q].told = kernel[q].told
                                   \/ kernel'[q].state = "running" /\ kernel[q].state = "start"
            BY <5>1, <5>3
          <6>2. /\ execs' = execs /\ Family
                /\ \A q \in Proc : kernel[q].child \in Proc \cup {None} /\ (kernel[q].state = "start" => kernel[q].code = None)
            BY <1>1, <1>2, <1>4 DEF Family, State, Code, Gone, Ended, TypeOK, Process
          <6> QED
            BY ONLY <6>1, <6>2, ObserverAssumption DEF Family, State, Code, Gone, Ended
        <5> DEFINE s == Append(log, spawn)
        <5>6. log' = Append(s, image)
          BY <5>1
        <5>7. /\ s \in Seq(Row) /\ Says(s, known', pending)
              /\ \A k, q : HasRow(s, k, q) <=> HasRow(log, k, q) \/ (k = "spawn" /\ q = c)
          BY <3>9
        <5> HIDE DEF s
        <5>8. \A k, q : HasRow(log', k, q) <=> HasRow(s, k, q) \/ (image.kind = k /\ image.pid = q)
          BY <2>4, <5>1, <5>6, <5>7, RowsAfter
        <5>9. Says(log', known', pending)
          <6>1. /\ c \in Proc /\ c \in known' /\ pending[c] = None
                /\ R("image", c, kernel[c].image, "fork") \in Row
                /\ log' = Append(s, R("image", c, kernel[c].image, "fork"))
            BY <2>2, <2>3, <2>4, <3>1, <3>8, <5>1, <5>6
          <6> QED
            BY ONLY <5>7, <6>1, SaysImage
        <5>10. InLoop'
          <6>1. initialStop' = initialStop /\ kernel[c].state = "start"
            BY <3>1, <3>12, <5>1
          <6>2. /\ HasRow(log', "image", c)
                /\ \A q \in Proc : HasRow(log, "image", q) => HasRow(log', "image", q)
                /\ \A q \in Proc : HasRow(log', "reap", q) <=> HasRow(log, "reap", q)
            BY <2>4, <5>7, <5>8
          <6>3. Says(log', known', pending')
            BY <1>2, <5>9
          <6> QED
            BY ONLY <3>7, <4>3, <5>3, <6>1, <6>2, <6>3
        <5> QED
          BY <4>1, <4>3, <5>2, <5>4, <5>5, <5>10 DEF Outcome, OrderNeverFails
      <4> QED
        BY <4>1, <4>2, <4>3
    <3>13. CASE c \in earlyStops /\ ~Stopped(c) /\ Logs(<<spawn>>, "failed") /\ UNCHANGED kernel
      <4>1. /\ log' \in Seq(Row) /\ Room' /\ pc' = "failed"
            /\ log' = Append(log, spawn) \/ log' = log
        BY <1>2, <1>4, <2>4, <3>13, OneRow DEF Kinds
      <4>2. NoEnd'
        BY <1>4, <2>4, <4>1, StillNoEnd
      <4>3. TypeOK' /\ Family'
        BY <1>1, <3>5, <3>10, <3>13, <4>1
      <4>4. kernel[c].code = "signal"
        BY <1>4, <2>2, <2>3, <3>13 DEF Stopped, Stops, Family, State, Code, Gone
      <4>5. OrderNeverFails'
        BY <2>2, <3>13, <4>4 DEF OrderNeverFails
      <4> QED
        BY <4>1, <4>2, <4>3, <4>5 DEF Outcome, Loop
    <3> QED
      BY <3>3, <3>11, <3>12, <3>13
  <2> QED
    BY <2>6, <2>7
<1> QED
  BY <1>5, <1>6

LEMMA HandleKeeps ==
  ASSUME Ready, Handle, UNCHANGED scenario
  PROVE  Outcome /\ RootHeld'
<1> DEFINE p == status.pid
<1>2. /\ pc = "handle" /\ Same /\ p \in Proc /\ status.kind \in Stops \cup {"dead"}
      /\ initialStop \subseteq known /\ Root \notin initialStop
      /\ status.kind = "start" => p \notin known \/ p \in initialStop
      /\ status.kind \in Stops \ {"start"} => p \in known \ initialStop
      /\ status.kind = "dead" => kernel[p].state = "reaped"
  BY DEF Handle, Same, Ready, TypeOK, InLoop, Current, Registry, State
<1>3. /\ CASE status.kind = "dead" -> Terminal(p)
           [] status.kind # "dead" /\ p = Root /\ p \notin known -> RootStops
           [] status.kind # "dead" /\ p \in initialStop -> ChildStops(p)
           [] status.kind = "start" /\ p \notin known /\ p # Root -> StopsEarly(p)
           [] status.kind = "fork" /\ p \in known -> Forks(p)
           [] status.kind = "exec" /\ p \in known -> Execs(p)
           [] status.kind = "exit" /\ p \in known -> Exits(p)
  BY DEF Handle
<1> HIDE DEF p
<1>4. ASSUME UNCHANGED kernel, \A q \in live : q \in live' \/ kernel[q].state = "reaped",
             pc' \in {"wait", "continue", "failed"}
      PROVE  RootHeld'
  BY <1>4 DEF RootHeld, Ready, State
<1>5. CASE status.kind = "dead"
  <2>1. Terminal(p)
    BY <1>3, <1>5
  <2>2. Outcome
    BY <1>2, <1>5, <2>1, TerminalKeeps DEF p
  <2>3. UNCHANGED kernel /\ live \ {p} \subseteq live'
    BY <2>1 DEF Terminal
  <2> QED
    BY <1>2, <1>4, <1>5, <2>2, <2>3 DEF Outcome
<1>6. CASE status.kind \in Stops /\ p = Root /\ p \notin known
  <2>1. RootStops
    BY <1>2, <1>3, <1>6 DEF Stops
  <2>2. Outcome
    BY <1>2, <1>6, <2>1, RootStopsKeeps DEF p
  <2> QED
    BY <1>4, <2>1, <2>2 DEF Outcome, RootStops
<1>7. CASE status.kind \in Stops /\ p \in initialStop
  <2>1. ChildStops(p)
    BY <1>2, <1>3, <1>7 DEF Stops
  <2>2. Outcome
    BY <1>2, <1>7, <2>1, ChildStopsKeeps DEF p
  <2> QED
    BY <1>4, <2>1, <2>2 DEF Outcome, ChildStops
<1>8. CASE status.kind = "start" /\ p \notin known /\ p # Root
  <2>1. StopsEarly(p)
    BY <1>2, <1>3, <1>8
  <2>2. Outcome
    BY <1>2, <1>8, <2>1, StopsEarlyKeeps DEF p
  <2> QED
    BY <1>4, <2>1, <2>2 DEF Outcome, StopsEarly
<1>9. CASE status.kind = "fork"
  <2>1. Forks(p)
    BY <1>2, <1>3, <1>9 DEF Stops
  <2>2. Outcome
    BY <1>2, <1>9, <2>1, ForksKeeps DEF p
  <2>3. CASE kernel' = kernel
    <3>1. live \subseteq live'
      BY <2>1 DEF Forks, registry
    <3> QED
      BY <1>4, <2>2, <2>3, <3>1 DEF Outcome
  <2>4. CASE kernel' # kernel
    <3>1. kernel' = Continued(kernel[p].child) /\ live' = live \cup {kernel[p].child}
      BY <2>1, <2>4 DEF Forks
    <3>2. \A q \in Proc \ {kernel[p].child} : kernel'[q] = kernel[q]
      BY <3>1 DEF Continued, Ready, TypeOK
    <3> QED
      BY <2>2, <3>1, <3>2, ObserverAssumption DEF Outcome, RootHeld, Ready, State
  <2> QED
    BY <2>2, <2>3, <2>4
<1>10. CASE status.kind = "exec"
  <2>1. Execs(p)
    BY <1>2, <1>3, <1>10 DEF Stops
  <2>2. Outcome
    BY <1>2, <1>10, <2>1, ExecsKeeps DEF p
  <2> QED
    BY <1>4, <2>1, <2>2 DEF Outcome, Execs, registry
<1>11. CASE status.kind = "exit"
  <2>1. Exits(p)
    BY <1>2, <1>3, <1>11 DEF Stops
  <2>2. Outcome
    BY <1>2, <1>11, <2>1, ExitsKeeps DEF p
  <2> QED
    BY <1>4, <2>1, <2>2 DEF Outcome, Exits
<1> QED
  BY <1>2, <1>5, <1>6, <1>7, <1>8, <1>9, <1>10, <1>11 DEF Stops

-----------------------------------------------------------------------------
(***************************************************************************)
(* The inductive invariant, and the steps that leave most of it alone.     *)
(***************************************************************************)

Ends == ObservedIsWellFormed /\ TerminalRowsFit /\ NoSurvivor /\ OrderNeverFails
Inv == TypeOK /\ Family /\ Phases /\ Places /\ RootHeld /\ Ends

LEMMA NoEndOf ==
  ASSUME NEW s \in Seq(Row), \A n \in DOMAIN s : s[n].kind # "end"
  PROVE  ~(s # <<>> /\ Last(s).kind = "end")
<1>1. SUFFICES ASSUME s # <<>> PROVE Last(s).kind # "end"
  OBVIOUS
<1>2. Len(s) \in DOMAIN s /\ Last(s) = s[Len(s)]
  BY <1>1, EmptySeq DEF Last
<1> QED
  BY <1>2

LEMMA NotEndedYet == TypeOK' /\ NoEnd' => ObservedIsWellFormed'
BY NoEndOf DEF TypeOK, NoEnd, ObservedIsWellFormed, HasEnd

LEMMA SameLog ==
  ASSUME ObservedIsWellFormed, UNCHANGED <<log, scenario>>
  PROVE  ObservedIsWellFormed'
<1>1. Spawned' = Spawned /\ HasEnd' = HasEnd
  BY DEF Spawned, HasEnd
<1>2. \A n, kind, p : Before(n, kind, p)' <=> Before(n, kind, p)
  BY DEF Before
<1>3. WellFormed => WellFormed'
  BY <1>1, <1>2 DEF WellFormed
<1> QED
  BY <1>1, <1>3 DEF ObservedIsWellFormed

\* What the loop starts from.
LEMMA InvReady == Inv /\ Loop => Ready
BY DEF Inv, Loop, Ready, Phases, Places, Room

\* A step the observer takes no notice of.
LEMMA Apart ==
  ASSUME Inv, pc \notin {"launch", "exited"}, UNCHANGED <<scenario, observer>>,
         kernel' \in [Proc -> Process], execs' \in [Proc -> Seq(Image)],
         Family', Loop /\ InLoop => InLoop',
         \A q \in Proc : kernel[q].code \in {"nonzero", "signal"} => kernel'[q].code = kernel[q].code,
         kernel'[Root].state \notin {"unborn", "reaped"} => kernel[Root].state \notin {"unborn", "reaped"},
         kernel'[Root].state = "start" => kernel[Root].state = "start"
  PROVE  Inv'
<1>1. /\ UNCHANGED <<scenario, alarm, pc, status, live, known, pending, initialStop, earlyStops>>
      /\ UNCHANGED <<log, error, witness>>
  BY DEF observer, registry
<1>2. TypeOK'
  BY <1>1 DEF Inv, TypeOK
<1>3. Phases'
  <2>1. Spawned' = Spawned
    BY <1>1 DEF Spawned
  <2>2. SealedLog => SealedLog'
    BY <1>1, <2>1 DEF SealedLog
  <2> QED
    BY <1>1, <2>2 DEF Inv, Phases, Loop, NoEnd
<1>4. Places'
  BY <1>1 DEF Inv, Places, Loop, Archived, Late
<1>5. RootHeld'
  BY <1>1 DEF Inv, RootHeld, State
<1>6. Ends'
  <2>1. OrderNeverFails'
    <3>1. ImagesSeen' <=> ImagesSeen
      BY <1>1 DEF ImagesSeen, ImageRows
    <3> QED
      BY <1>1, <3>1 DEF Inv, Ends, OrderNeverFails
  <2> QED
    BY <1>1, <2>1, SameLog DEF Inv, Ends, TerminalRowsFit, NoSurvivor
<1> QED
  BY <1>2, <1>3, <1>4, <1>5, <1>6 DEF Inv

LEMMA TraceesKeep ==
  ASSUME Inv, pc # "exited", Tracees, UNCHANGED scenario
  PROVE  Inv'
<1>1. TypeOK /\ Family /\ Root \in Proc /\ None \notin Codes /\ scenario.images \subseteq Image
  BY ObserverAssumption DEF Inv, TypeOK
<1>2. pc = "launch" => \A p \in Proc : kernel[p].state = "unborn"
  BY DEF Inv, Phases, Unlaunched, State
<1>3. ASSUME NEW p \in Proc, NEW c \in Proc, Fork(p, c) PROVE Inv'
  <2>1. /\ kernel' \in [Proc -> Process] /\ p # c /\ c # Root
        /\ kernel[p].state = "running" /\ kernel'[p].state = "fork" /\ kernel'[p].code = kernel[p].code
        /\ kernel'[c].code = kernel[c].code /\ \A q \in Proc \ {p, c} : kernel'[q] = kernel[q]
    BY <1>1, <1>3, ForkDoes
  <2>2. Family' /\ (Loop /\ InLoop => InLoop')
    BY <1>1, <1>3, ForkKeeps
  <2>3. UNCHANGED <<execs, observer>> /\ execs \in [Proc -> Seq(Image)]
    BY <1>1, <1>3 DEF Fork, TypeOK
  <2>4. /\ \A q \in Proc : kernel'[q].code = kernel[q].code
        /\ kernel'[Root].state = kernel[Root].state \/ (kernel[Root].state = "running" /\ kernel'[Root].state = "fork")
    <3>1. CASE Root = p
      BY <2>1, <3>1
    <3>2. CASE Root # p
      BY <1>1, <2>1, <3>2
    <3> QED
      BY <3>1, <3>2
  <2> QED
    BY <1>2, <2>1, <2>2, <2>3, <2>4, Apart
<1>4. ASSUME NEW p \in Proc, NEW i \in scenario.images, Exec(p, i) PROVE Inv'
  <2>0. i \in Image
    BY <1>1
  <2>1. /\ kernel' \in [Proc -> Process] /\ execs' \in [Proc -> Seq(Image)]
        /\ kernel[p].state = "running" /\ kernel'[p].state = "exec" /\ kernel'[p].code = kernel[p].code
        /\ \A q \in Proc \ {p} : kernel'[q] = kernel[q]
    BY <1>1, <1>4, <2>0, ExecDoes
  <2>2. Family' /\ (Loop /\ InLoop => InLoop')
    BY <1>1, <1>4, <2>0, ExecKeeps
  <2>3. UNCHANGED observer
    BY <1>4 DEF Exec
  <2>4. /\ \A q \in Proc : kernel'[q].code = kernel[q].code
        /\ kernel'[Root].state = kernel[Root].state \/ (kernel[Root].state = "running" /\ kernel'[Root].state = "exec")
    <3>1. CASE Root = p
      BY <2>1, <3>1
    <3>2. CASE Root # p
      BY <1>1, <2>1, <3>2
    <3> QED
      BY <3>1, <3>2
  <2> QED
    BY <1>2, <2>1, <2>2, <2>3, <2>4, Apart
<1>5. ASSUME NEW p \in Proc, NEW code \in Codes, Exit(p, code) PROVE Inv'
  <2>1. /\ kernel' \in [Proc -> Process]
        /\ kernel[p].state = "running" /\ kernel'[p].state = "exit"
        /\ \A q \in Proc \ {p} : kernel'[q] = kernel[q]
    BY <1>1, <1>5, ExitDoes
  <2>2. Family' /\ (Loop /\ InLoop => InLoop')
    BY <1>1, <1>5, ExitKeeps
  <2>3. UNCHANGED <<execs, observer>> /\ execs \in [Proc -> Seq(Image)]
    BY <1>1, <1>5 DEF Exit, TypeOK
  <2>4. kernel[p].code = None
    BY <1>1, <2>1 DEF Family, State, Code, Gone, Ended
  <2>5. /\ \A q \in Proc : kernel[q].code \in {"nonzero", "signal"} => kernel'[q].code = kernel[q].code
        /\ kernel'[Root].state = kernel[Root].state \/ (kernel[Root].state = "running" /\ kernel'[Root].state = "exit")
    <3>1. CASE Root = p
      BY <1>1, <2>1, <2>4, <3>1 DEF Codes
    <3>2. CASE Root # p
      BY <1>1, <2>1, <2>4, <3>2 DEF Codes
    <3> QED
      BY <3>1, <3>2
  <2> QED
    BY <1>2, <2>1, <2>2, <2>3, <2>5, Apart
<1>6. ASSUME NEW p \in Proc, Killed(p) PROVE Inv'
  <2>1. kernel' = Dead({p}) /\ kernel' # kernel /\ UNCHANGED <<execs, observer>> /\ execs \in [Proc -> Seq(Image)]
    BY <1>1, <1>6 DEF Killed, TypeOK
  <2>2. Family' /\ (Loop /\ InLoop => InLoop')
    BY <1>1, <2>1, DeadKeeps
  <2>3. /\ kernel' \in [Proc -> Process]
        /\ \A q \in Proc : q \in {p} /\ kernel[q].state \notin {"unborn"} \cup Ended =>
             /\ kernel'[q].state = "dead"
             /\ kernel'[q].code = IF kernel[q].code = None THEN "signal" ELSE kernel[q].code
        /\ \A q \in Proc : ~(q \in {p} /\ kernel[q].state \notin {"unborn"} \cup Ended) => kernel'[q] = kernel[q]
    BY <1>1, <2>1, DeadDoes
  <2>4. \E q \in Proc : kernel'[q] # kernel[q]
    BY <1>1, <2>1, <2>3 DEF TypeOK
  <2>5. \E q \in Proc : kernel[q].state # "unborn"
    BY <2>3, <2>4
  <2>6. /\ \A q \in Proc : kernel[q].code \in {"nonzero", "signal"} => kernel'[q].code = kernel[q].code
        /\ kernel'[Root].state = kernel[Root].state
           \/ (kernel[Root].state \notin {"unborn", "reaped"} /\ kernel'[Root].state = "dead")
    <3>1. CASE kernel'[Root] = kernel[Root]
      BY <1>1, <2>3, <3>1 DEF Codes
    <3>2. CASE kernel'[Root] # kernel[Root]
      BY <1>1, <2>3, <3>2 DEF Ended, Codes
    <3> QED
      BY <3>1, <3>2
  <2> QED
    BY <1>2, <2>1, <2>2, <2>3, <2>5, <2>6, Apart
<1> QED
  BY <1>3, <1>4, <1>5, <1>6 DEF Tracees

LEMMA KillKeeps ==
  ASSUME Inv, NEW p \in Proc, Kill(p), UNCHANGED scenario
  PROVE  Inv'
<1>1. /\ TypeOK /\ Family /\ Root \in Proc /\ None \notin Codes /\ execs \in [Proc -> Seq(Image)]
      /\ pc = "cleanup" /\ kernel' = Dead({p}) /\ UNCHANGED <<execs, observer>>
  BY ObserverAssumption DEF Inv, TypeOK, Kill, observer
<1>2. Family' /\ (Loop /\ InLoop => InLoop')
  BY <1>1, DeadKeeps
<1>3. /\ kernel' \in [Proc -> Process]
      /\ \A q \in Proc : q \in {p} /\ kernel[q].state \notin {"unborn"} \cup Ended =>
           /\ kernel'[q].state = "dead"
           /\ kernel'[q].code = IF kernel[q].code = None THEN "signal" ELSE kernel[q].code
      /\ \A q \in Proc : ~(q \in {p} /\ kernel[q].state \notin {"unborn"} \cup Ended) => kernel'[q] = kernel[q]
  BY <1>1, DeadDoes
<1>4. /\ \A q \in Proc : kernel[q].code \in {"nonzero", "signal"} => kernel'[q].code = kernel[q].code
      /\ kernel'[Root].state = kernel[Root].state
         \/ (kernel[Root].state \notin {"unborn", "reaped"} /\ kernel'[Root].state = "dead")
  <2>1. CASE kernel'[Root] = kernel[Root]
    BY <1>1, <1>3, <2>1 DEF Codes
  <2>2. CASE kernel'[Root] # kernel[Root]
    BY <1>1, <1>3, <2>2 DEF Ended, Codes
  <2> QED
    BY <2>1, <2>2
<1> QED
  BY <1>1, <1>2, <1>3, <1>4, Apart

-----------------------------------------------------------------------------
(***************************************************************************)
(* The observer's steps.                                                   *)
(***************************************************************************)

LEMMA LoopStep ==
  ASSUME TypeOK', Family', Loop', InLoop', Room', NoEnd', RootHeld'
  PROVE  Inv'
BY NotEndedYet DEF Inv, Phases, Places, Ends, Loop, Room, TerminalRowsFit, NoSurvivor, OrderNeverFails

LEMMA FailStep ==
  ASSUME TypeOK', Family', pc' = "failed", Room' \/ Late', NoEnd', RootHeld', OrderNeverFails'
  PROVE  Inv'
BY NotEndedYet DEF Inv, Phases, Places, Ends, Loop, Room, TerminalRowsFit, NoSurvivor

LEMMA LaunchKeeps ==
  ASSUME Inv, Launch, UNCHANGED scenario
  PROVE  Inv'
<1> DEFINE a == R("run", Root, None, None)
<1>1. /\ TypeOK /\ Family /\ Unlaunched /\ Room /\ NoEnd
      /\ Root \in Proc /\ None \notin Proc /\ None \notin Codes
  BY ObserverAssumption DEF Inv, Phases, Places, Launch, Room
<1>2. /\ UNCHANGED <<scenario, execs, alarm, status, known, pending, initialStop, earlyStops, error, witness>>
      /\ live' = {Root}
  BY DEF Launch
<1>3. a \in Row /\ a.kind = "run"
  BY <1>1, Rows DEF R
<1>4. /\ log' \in Seq(Row) /\ Room'
      /\ \/ log' = Append(log, a) /\ pc' = "wait"
         \/ log' = log /\ pc' = "failed" /\ Len(log') >= scenario.events - 2
  BY <1>1, <1>2, <1>3, OneRow DEF Launch
<1>5. NoEnd'
  BY <1>1, <1>3, <1>4, StillNoEnd
<1>6. /\ kernel' \in [Proc -> Process]
      /\ kernel'[Root].state = "start" /\ kernel'[Root].told = kernel[Root].told
      /\ kernel'[Root].child = kernel[Root].child /\ kernel'[Root].code = kernel[Root].code
      /\ \A q \in Proc \ {Root} : kernel'[q] = kernel[q]
  BY <1>1, LaunchDoes
<1>7. \A q \in Proc : /\ kernel[q].state = "unborn" /\ kernel[q].code = None /\ ~kernel[q].told
                      /\ kernel[q].child = None
  <2>1. \A q \in Proc : kernel[q].child \in Proc \cup {None}
    BY <1>1 DEF TypeOK, Process
  <2> QED
    BY <1>1, <2>1 DEF Unlaunched, Family, State, Code
<1>8. Family'
  BY <1>1, <1>2, <1>6, <1>7 DEF Family, State, Code, Gone, Ended
<1>9. TypeOK'
  BY <1>1, <1>2, <1>4, <1>6 DEF TypeOK
<1>10. RootHeld'
  BY <1>2, <1>4 DEF RootHeld
<1>11. CASE pc' = "failed"
  <2>1. OrderNeverFails'
    BY <1>2, <1>4, <1>11 DEF OrderNeverFails
  <2> QED
    BY <1>4, <1>5, <1>8, <1>9, <1>10, <1>11, <2>1, FailStep
<1>12. CASE pc' = "wait"
  <2>0. log = <<>> /\ known = {} /\ initialStop = {} /\ earlyStops = {} /\ ~error
        /\ \A q \in Proc : pending[q] = None /\ execs[q] = <<>>
    BY <1>1 DEF Unlaunched
  <2>1. Strangers'
    BY <1>1, <1>2, <1>6, <1>7, <2>0 DEF Strangers, State, Code, Unhandled
  <2>2. Registry'
    <3>1. IsFiniteSet({}) /\ Cardinality({}) = 0
      BY FS_EmptySet
    <3> QED
      BY <1>1, <1>2, <2>0, <3>1, Scenarios DEF Registry
  <2>3. Current'
    BY <1>6, <1>7, <1>12 DEF Current, Stopped, Stops
  <2>4. Told'
    <3>1. log' = <<a>> /\ Len(log') = 1 /\ DOMAIN log' = {1} /\ log'[1] = a
      BY <1>3, <1>4, <1>12, <2>0
    <3>2. 2..1 = {}
      OBVIOUS
    <3>3. \A k, q : k # "run" => ~HasRow(log', k, q)
      BY <1>3, <3>1 DEF HasRow
    <3>4. Plain(log') /\ Proper(log')
      BY <1>3, <1>4, <3>1, <3>2 DEF Plain, Proper
    <3>5. Says(log', known', pending')
      BY <1>2, <1>3, <2>0, <3>1, <3>3, <3>4 DEF Says
    <3> QED
      BY <1>2, <2>0, <3>3, <3>5 DEF Told
  <2>5. Imaged'
    BY <1>1, <1>2, <1>6, <1>7, <1>12, <2>0 DEF Imaged, State, Code, Codes
  <2> QED
    BY <1>4, <1>5, <1>8, <1>9, <1>10, <1>12, <2>1, <2>2, <2>3, <2>4, <2>5, LoopStep DEF Loop, InLoop
<1> QED
  BY <1>4, <1>11, <1>12

LEMMA WaitPidStep ==
  ASSUME Inv, NEW p \in Proc, WaitPid(p), UNCHANGED scenario
  PROVE  Inv'
<1>1. Ready /\ pc' = "handle" /\ UNCHANGED <<execs, alarm, registry, log, error, witness>>
  BY InvReady DEF WaitPid, Loop
<1>2. Family' /\ InLoop'
  BY <1>1, WaitPidKeeps DEF Ready
<1>3. /\ kernel' \in [Proc -> Process]
      /\ status' \in [pid : Proc \cup {None}, kind : Stops \cup {"dead"}]
      /\ kernel[p].state \notin {"unborn", "reaped"}
      /\ kernel'[p].state \in {kernel[p].state, "reaped"}
      /\ \A q \in Proc \ {p} : kernel'[q] = kernel[q]
  BY <1>1, WaitPidDoes DEF Ready, Stops
<1>4. TypeOK'
  BY <1>1, <1>3 DEF Ready, TypeOK, registry
<1>5. RootHeld'
  BY <1>1, <1>3, ObserverAssumption DEF Ready, RootHeld, State, registry
<1>6. Room' /\ NoEnd' /\ Loop'
  BY <1>1 DEF Ready, Room, NoEnd, Loop
<1> QED
  BY <1>2, <1>4, <1>5, <1>6, LoopStep

LEMMA HandleStep ==
  ASSUME Inv, Handle, UNCHANGED scenario
  PROVE  Inv'
<1>1. Outcome /\ RootHeld'
  BY InvReady, HandleKeeps DEF Handle, Loop
<1>2. CASE pc' = "failed"
  BY <1>1, <1>2, FailStep DEF Outcome
<1>3. CASE pc' \in {"wait", "continue"}
  BY <1>1, <1>3, LoopStep DEF Outcome, Loop
<1> QED
  BY <1>1, <1>2, <1>3 DEF Outcome

LEMMA ContinueStep ==
  ASSUME Inv, Continue, UNCHANGED scenario
  PROVE  Inv'
<1>1. /\ Ready /\ pc = "continue" /\ status.pid \in Proc /\ status.kind \in Stops
      /\ UNCHANGED <<scenario, execs, alarm, status, registry, log, error, witness>>
      /\ Root \in Proc
  BY InvReady, ObserverAssumption DEF Continue, Loop, Ready, InLoop, Current
<1>2. Room' /\ NoEnd'
  BY <1>1 DEF Ready, Room, NoEnd
<1>3. CASE Stopped(status.pid)
  <2>1. Family' /\ InLoop'
    BY <1>1, <1>3, ContinueKeeps DEF Ready
  <2>2. pc' = "wait" /\ kernel' = Continued(status.pid)
    BY <1>3 DEF Continue
  <2>3. /\ kernel' \in [Proc -> Process] /\ \A q \in Proc \ {status.pid} : kernel'[q] = kernel[q]
    BY <1>1, <2>2, ContinuedDoes DEF Ready
  <2>4. TypeOK'
    BY <1>1, <2>2, <2>3 DEF Ready, TypeOK, registry
  <2>5. RootHeld'
    BY <1>1, <1>3, <2>2, <2>3 DEF Ready, RootHeld, State, registry, Stopped, Stops
  <2> QED
    BY <1>2, <2>1, <2>2, <2>4, <2>5, LoopStep DEF Loop
<1>4. CASE ~Stopped(status.pid)
  <2>1. UNCHANGED kernel /\ pc' \in {"wait", "failed"} /\ (pc' = "failed" => status.kind # "exit")
    BY <1>4 DEF Continue, Raise
  <2>2. Family' /\ TypeOK'
    BY <1>1, <2>1 DEF Ready, Family, State, Code, Gone, TypeOK, registry
  <2>3. RootHeld'
    BY <1>1, <2>1 DEF Ready, RootHeld, State, registry
  <2>4. CASE pc' = "failed"
    <3>1. kernel[status.pid].code = "signal"
      BY <1>1, <1>4, <2>1, <2>4 DEF Ready, InLoop, Current, State, Code, Stopped
    <3>2. OrderNeverFails'
      BY <1>1, <2>1, <3>1 DEF OrderNeverFails
    <3> QED
      BY <1>2, <2>2, <2>3, <2>4, <3>2, FailStep
  <2>5. CASE pc' = "wait"
    <3>1. Strangers'
      <4>1. \A q \in Proc : Unhandled(q)' <=> Unhandled(q)
        BY <1>1, <2>1, <2>5 DEF Unhandled, State, AtHand
      <4> QED
        BY <1>1, <2>1, <4>1 DEF Ready, InLoop, Strangers, State, Code, registry
    <3>2. Registry'
      <4>1. \A q \in Proc : pending[q] # None =>
              /\ pending[q] = kernel[q].code
              /\ kernel[q].state = "exit" => kernel[q].told /\ ~AtHand(q)'
        BY <1>1, <2>5 DEF Ready, InLoop, Registry, State, Code, AtHand
      <4> QED
        BY <1>1, <2>1, <4>1 DEF Ready, InLoop, Registry, State, Code, registry
    <3>3. Current'
      BY <1>1, <1>4, <2>1, <2>5 DEF Ready, InLoop, Current, Stopped, registry
    <3>4. Told'
      <4>1. \A q \in Proc : HasRow(log, "reap", q) => kernel[q].state = "reaped" /\ ~AtHand(q)'
        BY <1>1, <2>5 DEF Ready, InLoop, Told, State, AtHand
      <4> QED
        BY <1>1, <2>1, <4>1 DEF Ready, InLoop, Told, State, registry
    <3>5. Imaged'
      BY <1>1, <2>1, <2>5 DEF Ready, InLoop, Imaged, State, Code, registry
    <3> QED
      BY <1>2, <2>2, <2>3, <2>5, <3>1, <3>2, <3>3, <3>4, <3>5, LoopStep DEF Loop, InLoop
  <2> QED
    BY <2>1, <2>4, <2>5
<1> QED
  BY <1>3, <1>4

\* The steps that raise and do nothing else.
LEMMA RaiseStep ==
  ASSUME Inv, pc \in {"wait", "handle", "continue", "sealed"}, pc' = "failed",
         UNCHANGED <<scenario, tracees, status, registry, log, error, witness>>,
         alarm' \in {"set", "due", "struck", "late"}, pc = "sealed" => alarm' = "struck",
         alarm' # "set" \/ Len(log) >= scenario.events - 2
  PROVE  Inv'
<1>1. UNCHANGED <<scenario, kernel, execs, status, live, known, pending, initialStop, earlyStops, log, error, witness>>
  BY DEF tracees, registry
<1>2. Family' /\ TypeOK'
  BY <1>1 DEF Inv, Family, State, Code, Gone, TypeOK
<1>3. RootHeld'
  BY <1>1 DEF Inv, RootHeld, State
<1>4. NoEnd'
  BY <1>1 DEF Inv, Phases, NoEnd
<1>5. OrderNeverFails'
  BY <1>1 DEF OrderNeverFails
<1>6. Room' \/ Late'
  BY <1>1 DEF Inv, Places, Loop, Room, Late, Archived
<1> QED
  BY <1>2, <1>3, <1>4, <1>5, <1>6, FailStep

-----------------------------------------------------------------------------
(***************************************************************************)
(* The end of a trace.                                                     *)
(***************************************************************************)

LEMMA KnownAreSpawned ==
  ASSUME TypeOK, Says(log, known, pending)
  PROVE  Spawned = known
<1>1. \A p \in Proc : HasRow(log, "spawn", p) <=> p \in known
  BY DEF Says
<1>2. \A n \in DOMAIN log : log[n].kind = "spawn" => log[n].pid \in Proc
  BY DEF Says
<1>3. known \subseteq Proc
  BY DEF TypeOK
<1> QED
  BY <1>1, <1>2, <1>3 DEF Spawned, HasRow

LEMMA SpawnedStays ==
  ASSUME log \in Seq(Row), NEW a \in Row, a.kind # "spawn", log' = Append(log, a)
  PROVE  Spawned' = Spawned
<1>1. /\ Len(log) \in Nat /\ DOMAIN log' = 1..Len(log) + 1 /\ DOMAIN log = 1..Len(log)
      /\ log'[Len(log) + 1] = a /\ \A n \in 1..Len(log) : log'[n] = log[n]
  BY Longer
<1>2. {n \in DOMAIN log' : log'[n].kind = "spawn"} = {n \in DOMAIN log : log[n].kind = "spawn"}
  <2>1. DOMAIN log' = DOMAIN log \cup {Len(log) + 1}
    BY <1>1
  <2> QED
    BY <1>1, <2>1
<1> QED
  BY <1>1, <1>2 DEF Spawned

LEMMA SealCompletes ==
  ASSUME Ready, pc = "wait", live = {}, Complete, Logs(<<R("archive", None, None, None)>>, "sealed"),
         UNCHANGED scenario
  PROVE  /\ log' \in Seq(Row) /\ Len(log') <= scenario.events - 1 /\ pc' = "sealed"
         /\ SealedLog' /\ Archived' /\ NoEnd'
<1> DEFINE a == R("archive", None, None, None)
<1>1. /\ TypeOK /\ log \in Seq(Row) /\ Len(log) \in Nat /\ scenario.events \in Nat
      /\ Len(log) <= scenario.events - 2 /\ known \subseteq Proc
  BY Scenarios DEF Ready, TypeOK, Room
<1>2. a \in Row /\ a.kind = "archive"
  BY Rows DEF R
<1>3. Fits(<<a>>)
  <2>1. Fits(<<a>>) <=> Len(log) < scenario.events - 1
    BY <1>1, <1>2, FitsOne DEF Reserved
  <2> QED
    BY <1>1, <2>1
<1>4. log' = Append(log, a) /\ pc' = "sealed"
  BY <1>1, <1>2, <1>3, LogsOne
<1> HIDE DEF a
<1>5. /\ log' \in Seq(Row) /\ Len(log') = Len(log) + 1 /\ DOMAIN log' = 1..Len(log) + 1
      /\ DOMAIN log = 1..Len(log) /\ log'[Len(log) + 1] = a /\ \A n \in 1..Len(log) : log'[n] = log[n]
  BY <1>1, <1>2, <1>4, Longer
<1>6. /\ Says(log, known, pending) /\ \A p \in known : HasRow(log, "reap", p)
      /\ Len(log) >= 1 /\ log[1].kind = "run"
  BY DEF Ready, InLoop, Told, Says, Plain
<1>7. \A k, q : HasRow(log', k, q) <=> HasRow(log, k, q) \/ (a.kind = k /\ a.pid = q)
  BY <1>1, <1>2, <1>4, RowsAfter
<1>8. ~Bad(log)
  BY DEF Complete, Exited, Bad
<1>9. Proper(log)
  BY <1>6, <1>8 DEF Says
<1>10. \A n \in 2..Len(log) : Good(log', n)
  <2>1. \A n \in 1..Len(log) : Good(log, n) => Good(log', n)
    BY <1>1, <1>2, <1>4, GoodAfter
  <2> QED
    BY <1>1, <1>9, <2>1 DEF Proper
<1>11. Spawned = known
  BY <1>1, <1>6, KnownAreSpawned
<1>12. Spawned' = Spawned
  BY <1>1, <1>2, <1>4, SpawnedStays
<1>13. Root \in known
  <2>1. PICK n \in DOMAIN log : log[n].kind = "image"
    BY DEF Complete, ImagesSeen, ImageRows
  <2>2. n \in 2..Len(log)
    BY <1>1, <1>5, <1>6, <2>1
  <2>3. Earlier(log, n, "spawn", log[n].pid)
    BY <1>9, <2>1, <2>2 DEF Proper, Good
  <2>4. PICK m \in 1..(n - 1) : log[m].kind = "spawn"
    BY <2>3 DEF Earlier
  <2>5. m \in DOMAIN log
    BY <1>1, <1>5, <2>2
  <2>6. log[m].pid \in known
    BY <1>6, <2>4, <2>5 DEF Says, HasRow
  <2> QED
    BY <2>6 DEF Ready, InLoop, Registry
<1>14. SealedLog'
  <2>1. \A p \in known : Earlier(log', Len(log'), "reap", p)
    <3>1. \A k, q : Earlier(log', Len(log) + 1, k, q) <=> HasRow(log, k, q)
      BY <1>1, <1>2, <1>4, RowsAfter
    <3> QED
      BY <1>5, <1>6, <3>1
  <2>2. Cardinality(known) <= scenario.processes
    BY DEF Ready, InLoop, Registry
  <2>3. 2..Len(log') - 1 = 2..Len(log) /\ Len(log') >= 2 /\ log'[1].kind = "run"
        /\ log'[Len(log')].kind = "archive"
    BY <1>1, <1>2, <1>5, <1>6
  <2> QED
    BY <1>10, <1>11, <1>12, <1>13, <2>1, <2>2, <2>3 DEF SealedLog
<1>15. NoEnd'
  BY <1>1, <1>2, <1>4, StillNoEnd DEF Ready
<1>16. Archived'
  BY <1>1, <1>2, <1>5 DEF Archived
<1> QED
  BY <1>1, <1>4, <1>5, <1>14, <1>15, <1>16

LEMMA SealFails ==
  ASSUME Ready, pc = "wait", live = {}, ~Complete
  PROVE  (\E p \in Proc : kernel[p].code \in {"nonzero", "signal"}) \/ ~ImagesSeen
<1>1. /\ known \subseteq Proc /\ initialStop \subseteq known /\ earlyStops \subseteq Proc \ known
      /\ None \notin Codes
  BY ObserverAssumption DEF Ready, TypeOK
<1>2. CASE ~ImagesSeen
  BY <1>2
<1>3. CASE Exited({"nonzero", "signal"}) # {}
  <2>1. PICK n \in DOMAIN log : log[n].kind = "exit" /\ log[n].value \in {"nonzero", "signal"}
    BY <1>3 DEF Exited
  <2>2. log[n].pid \in Proc /\ log[n].value = pending[log[n].pid]
    BY <2>1 DEF Ready, InLoop, Told, Says, R
  <2>3. pending[log[n].pid] = kernel[log[n].pid].code
    BY <1>1, <2>1, <2>2 DEF Ready, InLoop, Registry, Code, Codes
  <2> QED
    BY <2>1, <2>2, <2>3
<1>4. CASE earlyStops # {}
  <2>1. PICK c \in earlyStops : TRUE
    BY <1>4
  <2>2. c \in Proc \ (known \cup {Root}) /\ kernel[c].state # "unborn"
    BY <1>1, <2>1 DEF Ready, InLoop, Registry, State
  <2>3. PICK q \in Proc : Unhandled(q) \/ kernel[q].code = "signal"
    BY <2>2 DEF Ready, InLoop, Strangers, State, Code
  <2>4. ~Unhandled(q)
    <3>1. SUFFICES ASSUME kernel[q].state = "fork" PROVE FALSE
      BY DEF Unhandled, State
    <3>2. q \in known
      BY <3>1 DEF Ready, InLoop, Strangers, State, Ended
    <3> QED
      BY <3>1, <3>2 DEF Ready, InLoop, Registry, State
  <2> QED
    BY <2>3, <2>4
<1>5. CASE initialStop # {}
  <2>1. PICK c \in initialStop : TRUE
    BY <1>5
  <2>2. c \in Proc /\ kernel[c].state = "reaped" /\ kernel[c].code \in {None, "signal"}
    BY <1>1, <2>1 DEF Ready, InLoop, Registry, State, Code
  <2>3. kernel[c].code # None
    BY <2>2 DEF Ready, Family, State, Code, Gone, Ended
  <2> QED
    BY <2>2, <2>3
<1> QED
  BY <1>2, <1>3, <1>4, <1>5 DEF Complete

LEMMA SealKeeps ==
  ASSUME Inv, Seal, UNCHANGED scenario
  PROVE  Inv'
<1>1. /\ Ready /\ TypeOK /\ pc = "wait" /\ live = {}
      /\ UNCHANGED <<scenario, kernel, execs, alarm, status, live, known, pending, initialStop, earlyStops, error, witness>>
  BY InvReady DEF Seal, Loop, Ready, tracees, registry
<1>2. Family'
  BY <1>1 DEF Ready, Family, State, Code, Gone
<1>3. ASSUME log' \in Seq(Row), pc' \in {"sealed", "failed"} PROVE TypeOK' /\ RootHeld'
  BY <1>1, <1>3 DEF Ready, TypeOK, RootHeld, State
<1>4. CASE Complete
  <2>1. /\ log' \in Seq(Row) /\ Len(log') <= scenario.events - 1 /\ pc' = "sealed"
        /\ SealedLog' /\ Archived' /\ NoEnd'
    BY <1>1, <1>4, SealCompletes DEF Seal
  <2>2. TypeOK' /\ RootHeld'
    BY <1>3, <2>1
  <2> QED
    BY <1>1, <1>2, <2>1, <2>2, NotEndedYet
       DEF Inv, Phases, Places, Ends, Loop, TerminalRowsFit, NoSurvivor, OrderNeverFails
<1>5. CASE ~Complete
  <2>1. pc' = "failed" /\ log' = log
    BY <1>5 DEF Seal, Raise
  <2>2. ImagesSeen' <=> ImagesSeen
    BY <1>1, <2>1 DEF ImagesSeen, ImageRows
  <2>3. OrderNeverFails'
    BY <1>1, <1>5, <2>1, <2>2, SealFails DEF OrderNeverFails
  <2>4. TypeOK' /\ RootHeld'
    BY <1>1, <1>3, <2>1 DEF TypeOK
  <2>5. Room' /\ NoEnd'
    BY <1>1, <2>1 DEF Ready, Room, NoEnd
  <2> QED
    BY <1>2, <2>1, <2>3, <2>4, <2>5, FailStep
<1> QED
  BY <1>4, <1>5

LEMMA SealedKeeps ==
  ASSUME Inv, Sealed, UNCHANGED scenario
  PROVE  Inv'
<1>1. /\ TypeOK /\ pc = "sealed" /\ pc' = "cleanup" /\ live' = live \cup earlyStops
      /\ UNCHANGED <<scenario, kernel, execs, alarm, status, known, pending, initialStop, earlyStops>>
      /\ UNCHANGED <<log, error, witness>>
  BY DEF Inv, Sealed, Finally, tracees
<1>2. Family' /\ TypeOK' /\ RootHeld'
  BY <1>1 DEF Inv, Family, State, Code, Gone, TypeOK, RootHeld
<1>3. Spawned' = Spawned
  BY <1>1 DEF Spawned
<1>4. SealedLog' /\ NoEnd'
  BY <1>1, <1>3 DEF Inv, Phases, SealedLog, NoEnd
<1>5. Len(log') <= scenario'.events - 1
  BY <1>1 DEF Inv, Places
<1> QED
  BY <1>1, <1>2, <1>4, <1>5, NotEndedYet
     DEF Inv, Phases, Places, Ends, Loop, TerminalRowsFit, NoSurvivor, OrderNeverFails

LEMMA RecordErrorKeeps ==
  ASSUME Inv, RecordError, UNCHANGED scenario
  PROVE  Inv'
<1> DEFINE a == R("error", None, None, None)
<1>1. /\ TypeOK /\ pc = "failed" /\ pc' = "cleanup" /\ live' = live \cup earlyStops
      /\ UNCHANGED <<scenario, kernel, execs, alarm, status, known, pending, initialStop, earlyStops, witness>>
      /\ log' = Append(log, a) /\ error'
  BY DEF Inv, RecordError, Finally, tracees
<1>2. a \in Row /\ a.kind = "error"
  BY Rows DEF R
<1> HIDE DEF a
<1>3. log \in Seq(Row) /\ Len(log) \in Nat /\ scenario.events \in Nat
  BY <1>1, Scenarios DEF TypeOK
<1>4. /\ log' \in Seq(Row) /\ Len(log') = Len(log) + 1 /\ DOMAIN log = 1..Len(log)
      /\ DOMAIN log' = 1..Len(log) + 1 /\ \A n \in 1..Len(log) : log'[n] = log[n]
  BY <1>1, <1>2, <1>3, Longer
<1>5. Family' /\ RootHeld'
  BY <1>1 DEF Inv, Family, State, Code, Gone, RootHeld
<1>6. TypeOK'
  <2>1. error' \in BOOLEAN
    BY DEF RecordError
  <2> QED
    BY <1>1, <1>4, <2>1 DEF TypeOK
<1>7. NoEnd'
  BY <1>1, <1>2, StillNoEnd DEF Inv, Phases
<1>8. Len(log') <= scenario'.events - 1 \/ Late'
  <2>1. CASE Len(log) <= scenario.events - 2
    BY <1>1, <1>3, <1>4, <2>1
  <2>2. CASE Late
    <3>1. 1..Len(log) \subseteq 1..Len(log) + 1
      BY <1>3
    <3> QED
      BY <1>1, <1>4, <2>2, <3>1 DEF Late, Archived
  <2> QED
    BY <1>1, <2>1, <2>2 DEF Inv, Places
<1> QED
  BY <1>1, <1>5, <1>6, <1>7, <1>8, NotEndedYet
     DEF Inv, Phases, Places, Ends, Loop, TerminalRowsFit, NoSurvivor, OrderNeverFails

LEMMA SealedIsWellFormed ==
  ASSUME SealedLog, log \in Seq(Row), NEW a \in Row, a.kind = "end", a.value = "observed",
         log' = Append(log, a), UNCHANGED scenario
  PROVE  WellFormed'
<1>1. Len(log) \in Nat /\ Len(log) >= 2 /\ log[1].kind = "run" /\ log[Len(log)].kind = "archive"
  BY DEF SealedLog
<1>2. /\ log' \in Seq(Row) /\ Len(log') = Len(log) + 1 /\ DOMAIN log' = 1..Len(log) + 1
      /\ DOMAIN log = 1..Len(log) /\ log'[Len(log) + 1] = a /\ \A n \in 1..Len(log) : log'[n] = log[n]
  BY Longer
<1>3. Len(log') - 1 = Len(log) /\ Last(log') = a /\ Len(log') >= 3
  BY <1>1, <1>2 DEF Last
<1>4. Spawned' = Spawned
  BY SpawnedStays
<1>5. \A k, q : \A n \in 1..Len(log) : Earlier(log', n, k, q) <=> Earlier(log, n, k, q)
  BY RowsAfter
<1>6. \A n, k, q : Before(n, k, q)' <=> Earlier(log', n, k, q)
  BY DEF Before, Earlier
<1>7. \A n \in 2..Len(log) - 1 : Good(log', n)
  <2>1. \A n \in 1..Len(log) : Good(log, n) => Good(log', n)
    BY GoodAfter
  <2> QED
    BY <1>1, <2>1 DEF SealedLog
<1>8. \A p \in Spawned' : Earlier(log', Len(log), "reap", p)
  <2>1. Len(log) \in 1..Len(log)
    BY <1>1
  <2> QED
    BY <1>4, <1>5, <2>1 DEF SealedLog
<1>9. ASSUME NEW n \in 2..Len(log)
      PROVE  CASE log'[n].kind = "spawn" -> /\ ~Earlier(log', n, "spawn", log'[n].pid)
                                            /\ log'[n].pid # Root => Earlier(log', n, "spawn", log'[n].value)
               [] log'[n].kind = "image" -> /\ Earlier(log', n, "spawn", log'[n].pid)
                                            /\ ~Earlier(log', n, "exit", log'[n].pid)
               [] log'[n].kind = "exit" -> /\ Earlier(log', n, "image", log'[n].pid)
                                           /\ ~Earlier(log', n, "exit", log'[n].pid)
               [] log'[n].kind = "reap" -> /\ ~Earlier(log', n, "reap", log'[n].pid)
                                           /\ \E m \in 1..(n - 1) : log'[m] = [log'[n] EXCEPT !.kind = "exit"]
               [] log'[n].kind = "archive" -> \A p \in Spawned' : Earlier(log', n, "reap", p)
               [] OTHER -> FALSE
  <2>1. CASE n = Len(log)
    <3>1. Len(log) \in 1..Len(log)
      BY <1>1
    <3>2. log'[n].kind = "archive"
      BY <1>1, <1>2, <2>1, <3>1
    <3> QED
      BY <1>8, <2>1, <3>2
  <2>2. CASE n # Len(log)
    <3>1. Good(log', n)
      BY <1>1, <1>7, <2>2
    <3>2. log'[n].kind \in {"spawn", "image", "exit", "reap"}
      BY <3>1 DEF Good
    <3> QED
      BY <3>1, <3>2 DEF Good
  <2> QED
    BY <2>1, <2>2
<1>10. Root \in Spawned' /\ Cardinality(Spawned') <= scenario'.processes
  BY <1>4 DEF SealedLog
<1>11. /\ Len(log') >= 3 /\ log'[1].kind = "run"
       /\ Last(log').kind = "end" /\ Last(log').value = "observed"
       /\ log'[Len(log') - 1].kind = "archive"
  <2>1. 1 \in 1..Len(log) /\ Len(log) \in 1..Len(log)
    BY <1>1
  <2> QED
    BY <1>1, <1>2, <1>3, <2>1
<1> QED
  BY ONLY <1>3, <1>6, <1>9, <1>10, <1>11 DEF WellFormed

LEMMA EndKeeps ==
  ASSUME Inv, End, UNCHANGED scenario
  PROVE  Inv'
<1> DEFINE a == R("end", None, IF error THEN "failed" ELSE "observed", None)
<1>1. /\ TypeOK /\ Family /\ pc = "cleanup" /\ Root \in Proc /\ live \subseteq Proc
      /\ UNCHANGED <<scenario, execs, alarm, status, live, known, pending, initialStop, earlyStops, error, witness>>
      /\ log' = IF Fits(<<a>>) THEN log \o <<a>> ELSE log
      /\ pc' = IF Fits(<<a>>) THEN "ended" ELSE "abandoned"
  BY ObserverAssumption DEF Inv, End, TypeOK, registry
<1>2. a \in Row /\ a.kind = "end" /\ a.value = IF error THEN "failed" ELSE "observed"
  BY <1>1, Rows DEF R, TypeOK
<1> HIDE DEF a
<1>3. log \in Seq(Row) /\ Len(log) \in Nat /\ scenario.events \in Nat
  BY <1>1, Scenarios DEF TypeOK
<1>4. Fits(<<a>>) <=> Len(log) < scenario.events
  <2>1. Fits(<<a>>) <=> Len(log) < scenario.events - 0
    BY <1>2, <1>3, FitsOne DEF Reserved
  <2> QED
    BY <1>3, <2>1
<1>5. log' = log \/ log' = Append(log, a)
  BY <1>1, <1>2, <1>3, AppendIsConcat
<1>6. log' \in Seq(Row)
  BY <1>2, <1>3, <1>5, AppendProperties
<1>7. /\ kernel' \in [Proc -> Process]
      /\ \A q \in live : /\ kernel[q].state \in Ended /\ kernel'[q].state = "reaped"
                         /\ kernel'[q].told = kernel[q].told /\ kernel'[q].child = kernel[q].child
                         /\ kernel'[q].parent = kernel[q].parent
                         /\ kernel'[q].code = kernel[q].code
      /\ \A q \in Proc \ live : kernel'[q] = kernel[q]
  BY <1>1, EndDoes
<1>8. TypeOK'
  BY <1>1, <1>6, <1>7 DEF TypeOK
<1>9. \A q \in Proc : /\ kernel'[q].child = kernel[q].child /\ kernel'[q].code = kernel[q].code
                      /\ kernel'[q].parent = kernel[q].parent
                      /\ kernel'[q].state = "unborn" <=> kernel[q].state = "unborn"
                      /\ \/ kernel'[q] = kernel[q]
                         \/ kernel'[q].state = "reaped" /\ kernel[q].state \in Ended
  BY <1>7 DEF Ended
<1>10. Family'
  <2>1. \A q \in Proc : kernel[q].child \in Proc \cup {None}
    BY <1>1 DEF TypeOK, Process
  <2> QED
    BY <1>1, <1>9, <2>1 DEF Family, State, Code, Gone, Ended
<1>11. RootHeld'
  <2>1. kernel'[Root].state \in {"unborn", "reaped"}
    BY <1>1, <1>7 DEF Inv, RootHeld, State
  <2> QED
    BY <2>1 DEF RootHeld, State
<1>12. ObservedIsWellFormed'
  <2>1. CASE ~Fits(<<a>>)
    <3>1. log' = log /\ NoEnd
      BY <1>1, <2>1 DEF Inv, Phases
    <3> QED
      BY <1>8, <3>1, NotEndedYet DEF NoEnd
  <2>2. CASE Fits(<<a>>)
    <3>1. log' = Append(log, a)
      BY <1>1, <1>2, <1>3, <2>2, AppendIsConcat
    <3>2. CASE error
      <4>1. Last(log') = a
        BY <1>2, <1>3, <3>1 DEF Last
      <4> QED
        BY <1>2, <3>2, <4>1 DEF ObservedIsWellFormed
    <3>3. CASE ~error
      <4>1. SealedLog
        BY <1>1, <3>3 DEF Inv, Phases
      <4> QED
        BY <1>1, <1>2, <1>3, <3>1, <3>3, <4>1, SealedIsWellFormed DEF ObservedIsWellFormed
    <3> QED
      BY <3>2, <3>3
  <2> QED
    BY <2>1, <2>2
<1>13. TerminalRowsFit'
  <2>1. SUFFICES ASSUME ~Fits(<<a>>) PROVE alarm = "struck" /\ Archived'
    BY <1>1 DEF TerminalRowsFit, Archived
  <2>2. Late /\ log' = log
    BY <1>1, <1>3, <1>4, <2>1 DEF Inv, Places
  <2> QED
    BY <2>2 DEF Late, Archived
<1> QED
  BY <1>1, <1>8, <1>10, <1>11, <1>12, <1>13
     DEF Inv, Phases, Places, Ends, Loop, NoSurvivor, OrderNeverFails

LEMMA LeaveKeeps ==
  ASSUME Inv, pc \in {"ended", "abandoned"}, Leave, witness' \in BOOLEAN, UNCHANGED scenario
  PROVE  Inv'
<1> DEFINE ps == {p \in Proc : p # Root \/ kernel[p].state # "start"}
<1>1. /\ TypeOK /\ Family /\ Root \in Proc /\ pc' = "exited" /\ kernel' = Dead(ps)
      /\ UNCHANGED <<scenario, execs, alarm, status, live, known, pending, initialStop, earlyStops, log, error>>
  BY ObserverAssumption DEF Inv, Leave, registry
<1>2. \A p \in Proc : p \in ps <=> p # Root \/ kernel[p].state # "start"
  OBVIOUS
<1> HIDE DEF ps
<1>3. Family'
  BY <1>1, DeadKeeps
<1>4. /\ kernel' \in [Proc -> Process]
      /\ \A q \in Proc : q \in ps /\ kernel[q].state \notin {"unborn"} \cup Ended => kernel'[q].state = "dead"
      /\ \A q \in Proc : ~(q \in ps /\ kernel[q].state \notin {"unborn"} \cup Ended) => kernel'[q] = kernel[q]
  BY <1>1, DeadDoes
<1>5. TypeOK'
  BY <1>1, <1>4 DEF TypeOK
<1>6. RootHeld'
  BY <1>1, <1>4 DEF Inv, RootHeld, State, Ended
<1>7. NoSurvivor'
  <2>1. kernel[Root].state = "start" => alarm = "late"
    BY DEF Inv, RootHeld, State
  <2> QED
    BY <1>1, <1>2, <1>4, <2>1 DEF NoSurvivor, Ended
<1>8. ObservedIsWellFormed'
  BY <1>1, SameLog DEF Inv, Ends
<1> QED
  BY <1>1, <1>3, <1>5, <1>6, <1>7, <1>8
     DEF Inv, Phases, Places, Ends, Loop, TerminalRowsFit, OrderNeverFails

LEMMA AlarmKeeps ==
  ASSUME Inv, Alarm, UNCHANGED scenario
  PROVE  Inv'
<1>1. TypeOK /\ alarm \in {"set", "due"}
  BY DEF Inv, Alarm
<1>2. CASE /\ pc \in {"wait", "handle", "continue", "sealed"}
           /\ alarm' = "struck" /\ Raise
           /\ UNCHANGED <<tracees, status, registry, log, error, witness>>
  BY <1>2, RaiseStep DEF Raise
<1>3. CASE /\ pc = "failed" /\ Finally
           /\ alarm' = "struck" /\ error' = TRUE /\ UNCHANGED log
  <2>1. /\ pc' = "cleanup" /\ live' = live \cup earlyStops
        /\ UNCHANGED <<scenario, kernel, execs, status, known, pending, initialStop, earlyStops, log, witness>>
    BY <1>3 DEF Finally, tracees
  <2>2. Family' /\ TypeOK' /\ RootHeld'
    BY <1>1, <1>3, <2>1 DEF Inv, Family, State, Code, Gone, TypeOK, RootHeld
  <2>3. NoEnd'
    BY <1>3, <2>1 DEF Inv, Phases, NoEnd
  <2>4. Len(log') <= scenario'.events - 1
    <3>1. Len(log) <= scenario.events - 2
      BY <1>1, <1>3 DEF Inv, Places, Late
    <3>2. Len(log) \in Nat /\ scenario.events \in Nat
      BY <1>1, Scenarios DEF TypeOK
    <3> QED
      BY <2>1, <3>1, <3>2
  <2> QED
    BY <1>3, <2>1, <2>2, <2>3, <2>4, NotEndedYet
       DEF Inv, Phases, Places, Ends, Loop, TerminalRowsFit, NoSurvivor, OrderNeverFails
<1>4. CASE /\ pc \in {"cleanup", "ended"}
           /\ alarm' = "late" /\ pc' = "abandoned"
           /\ UNCHANGED <<tracees, status, registry, log, error, witness>>
  <2>1. UNCHANGED <<scenario, kernel, execs, status, live, known, pending, initialStop, earlyStops, log, error, witness>>
    BY <1>4 DEF tracees, registry
  <2>2. Family' /\ TypeOK' /\ RootHeld'
    BY <1>4, <2>1 DEF Inv, Family, State, Code, Gone, TypeOK, RootHeld
  <2>3. ObservedIsWellFormed'
    BY <2>1, SameLog DEF Inv, Ends
  <2> QED
    BY <1>4, <2>1, <2>2, <2>3
       DEF Inv, Phases, Places, Ends, Loop, TerminalRowsFit, NoSurvivor, OrderNeverFails
<1> QED
  BY <1>2, <1>3, <1>4 DEF Alarm

-----------------------------------------------------------------------------
(***************************************************************************)
(* The theorems.                                                           *)
(***************************************************************************)

LEMMA InitInv == Init => Inv
<1> SUFFICES ASSUME Init PROVE Inv
  OBVIOUS
<1>1. /\ Root \in Proc /\ None \notin Proc /\ None \notin Codes /\ Initial \in Image
  BY ObserverAssumption
<1>2. \A p \in Proc : /\ kernel[p].state = "unborn" /\ ~kernel[p].told /\ kernel[p].child = None
                      /\ kernel[p].code = None /\ pending[p] = None /\ execs[p] = <<>>
  BY DEF Init
<1>3. log = <<>> /\ pc = "launch" /\ scenario \in Scenario /\ ~error
  BY DEF Init
<1>4. TypeOK
  <2>1. kernel \in [Proc -> Process]
    <3>1. [state |-> "unborn", told |-> FALSE, parent |-> None, image |-> Initial,
           child |-> None, code |-> None] \in Process
      BY <1>1 DEF Process
    <3> QED
      BY <3>1 DEF Init
  <2>2. execs \in [Proc -> Seq(Image)] /\ pending \in [Proc -> Codes \cup {None}] /\ log \in Seq(Row)
    BY DEF Init
  <2>3. status \in [pid : Proc \cup {None}, kind : Stops \cup {"dead"}]
    BY DEF Init
  <2> QED
    BY <2>1, <2>2, <2>3 DEF Init, TypeOK
<1>5. Family
  BY <1>1, <1>2 DEF Family, State, Code, Gone, Ended, Codes
<1>6. Phases
  <2>1. NoEnd
    BY <1>3 DEF NoEnd
  <2>2. Unlaunched
    BY <1>2 DEF Init, Unlaunched, State
  <2> QED
    BY <1>3, <2>1, <2>2 DEF Phases, Loop
<1>7. Places
  <2>1. Len(log) = 0 /\ scenario.events \in Nat /\ scenario.events > 3
    BY <1>3, <1>4, Scenarios
  <2>2. 0 <= scenario.events - 2
    BY <2>1
  <2> QED
    BY <1>3, <2>1, <2>2 DEF Places, Loop
<1>8. RootHeld
  BY <1>1, <1>2, <1>3 DEF RootHeld, State
<1>9. ~HasEnd
  BY <1>3 DEF HasEnd
<1> QED
  BY <1>3, <1>4, <1>5, <1>6, <1>7, <1>8, <1>9
     DEF Inv, Ends, ObservedIsWellFormed, TerminalRowsFit, NoSurvivor, OrderNeverFails

LEMMA NextInv == Inv /\ [Next]_vars => Inv'
<1> SUFFICES ASSUME Inv, [Next]_vars PROVE Inv'
  OBVIOUS
<1>1. CASE UNCHANGED vars
  <2>1. /\ UNCHANGED <<scenario, kernel, execs, alarm, pc, status, live, known, pending>>
        /\ UNCHANGED <<initialStop, earlyStops, log, error, witness>>
    BY <1>1 DEF vars, trace, tracees, registry
  <2>2. TypeOK' /\ Family' /\ RootHeld'
    BY <2>1 DEF Inv, TypeOK, Family, State, Code, Gone, RootHeld
  <2>3. InLoop => InLoop'
    BY <2>1 DEF InLoop, Strangers, Unhandled, AtHand, Registry, Current, Stopped, Told, Imaged, State, Code
  <2>4. Spawned' = Spawned
    BY <2>1 DEF Spawned
  <2>5. Phases' /\ Places'
    BY <2>1, <2>3, <2>4 DEF Inv, Phases, Unlaunched, State, Loop, SealedLog, NoEnd, Places, Late, Archived
  <2>6. Ends'
    <3>1. ImagesSeen' <=> ImagesSeen
      BY <2>1 DEF ImagesSeen, ImageRows
    <3> QED
      BY <2>1, <3>1, SameLog DEF Inv, Ends, TerminalRowsFit, NoSurvivor, OrderNeverFails
  <2> QED
    BY <2>2, <2>5, <2>6 DEF Inv
<1>2. CASE /\ pc # "exited" /\ UNCHANGED scenario
           /\ Tracees \/ Observer \/ TimeOut \/ Alarm
  <2>1. CASE Tracees
    BY <1>2, <2>1, TraceesKeep
  <2>2. CASE Launch
    BY <1>2, <2>2, LaunchKeeps
  <2>3. CASE \E p \in Proc : WaitPid(p)
    BY <1>2, <2>3, WaitPidStep
  <2>4. CASE EventLimitReached
    <3>1. alarm \in {"set", "due", "struck", "late"}
      BY DEF Inv, TypeOK
    <3> QED
      BY <1>2, <2>4, <3>1, RaiseStep DEF EventLimitReached, Raise
  <2>5. CASE Handle
    BY <1>2, <2>5, HandleStep
  <2>6. CASE Continue
    BY <1>2, <2>6, ContinueStep
  <2>7. CASE Seal
    BY <1>2, <2>7, SealKeeps
  <2>8. CASE Sealed
    BY <1>2, <2>8, SealedKeeps
  <2>9. CASE RecordError
    BY <1>2, <2>9, RecordErrorKeeps
  <2>10. CASE \E p \in Proc : Kill(p)
    BY <1>2, <2>10, KillKeeps
  <2>11. CASE End
    BY <1>2, <2>11, EndKeeps
  <2>12. CASE Finish
    <3>1. witness' \in BOOLEAN
      BY <2>12 DEF Finish
    <3> QED
      BY <1>2, <2>12, <3>1, LeaveKeeps DEF Finish
  <2>13. CASE Abandon
    <3>1. witness' \in BOOLEAN
      BY <2>13 DEF Abandon, Inv, TypeOK
    <3> QED
      BY <1>2, <2>13, <3>1, LeaveKeeps DEF Abandon
  <2>14. CASE TimeOut
    BY <1>2, <2>14, RaiseStep DEF TimeOut, Raise
  <2>15. CASE Alarm
    BY <1>2, <2>15, AlarmKeeps
  <2> QED
    BY <1>2, <2>1, <2>2, <2>3, <2>4, <2>5, <2>6, <2>7, <2>8, <2>9, <2>10, <2>11, <2>12, <2>13, <2>14, <2>15
       DEF Observer
<1> QED
  BY <1>1, <1>2 DEF Next

LEMMA Invariance == Spec => []Inv
BY InitInv, NextInv, PTL DEF Spec

\* Kernel, registry, status and log keep their types, for any processes, images
\* and limits.
THEOREM TypeCorrect == Spec => []TypeOK
<1>1. Inv => TypeOK
  BY DEF Inv
<1> QED
  BY <1>1, Invariance, PTL

\* While the observer waits, the only processes that stay stopped after their
\* report are children whose parent's fork is still to come; and a trace the
\* observer calls observed is one the reader of the log accepts.
THEOREM AlwaysConsistent == Spec => []Consistent
<1>1. ASSUME Inv
      PROVE  Consistent
  <2>1. NoneForgotten
    <3>1. SUFFICES ASSUME pc = "wait" PROVE NoneForgotten
      BY DEF NoneForgotten
    <3>2. Current
      BY <1>1, <3>1 DEF Inv, Phases, Loop, InLoop
    <3> QED
      BY <3>1, <3>2 DEF Current, NoneForgotten
  <2> QED
    BY <1>1, <2>1 DEF Inv, Ends, Consistent
<1> QED
  BY <1>1, Invariance, PTL

\* Whatever failed or interrupted the observer, no process outlives it but a
\* launcher that never made its first stop.
THEOREM NobodySurvives == Spec => []NoSurvivor
<1>1. Inv => NoSurvivor
  BY DEF Inv, Ends
<1> QED
  BY <1>1, Invariance, PTL

\* Only the alarm takes the places of the last two rows of a failed trace.
THEOREM LastRowsFit == Spec => []TerminalRowsFit
<1>1. Inv => TerminalRowsFit
  BY DEF Inv, Ends
<1> QED
  BY <1>1, Invariance, PTL

\* No order of the kernel's reports makes the observer fail.
THEOREM AnyOrderIsFine == Spec => []OrderNeverFails
<1>1. Inv => OrderNeverFails
  BY DEF Inv, Ends
<1> QED
  BY <1>1, Invariance, PTL

-----------------------------------------------------------------------------
(***************************************************************************)
(* The truth of the log.                                                   *)
(***************************************************************************)

OfExec(a) == a.kind = "image" /\ a.origin = "exec"
ExecsIn(s, p) == {n \in DOMAIN s : OfExec(s[n]) /\ s[n].pid = p}
Place(s, p, n) == Cardinality({m \in ExecsIn(s, p) : m <= n})

\* The exec rows of p in s are the first k of e, in order.
Reads(s, p, e, k) ==
  /\ Cardinality(ExecsIn(s, p)) = k
  /\ \A n \in ExecsIn(s, p) : s[n].value = e[Place(s, p, n)]

HasFork(s, p, q) == \E n \in DOMAIN s : s[n] = R("spawn", p, q, "fork")

\* What was read in log s is still read in log r.
Keeps(s, r) ==
  /\ \A p, e, k : Reads(s, p, e, k) => Reads(r, p, e, k)
  /\ \A p, q : HasFork(s, p, q) => HasFork(r, p, q)

\* An exec the observer has not handled.
Unread(p) == State(p) = "exec" /\ (~kernel[p].told \/ AtHand(p))

\* Of processes, whoever observes them.
Bare ==
  /\ \A p \in Proc : State(p) = "unborn" => kernel[p].child = None /\ execs[p] = <<>>
  /\ \A p \in Proc : State(p) = "exec" =>
       execs[p] # <<>> /\ kernel[p].image = execs[p][Len(execs[p])]

\* What the log says while statuses are taken; a killed process may have execed
\* unseen.
Faithful ==
  /\ \A p \in Proc \ known : kernel[p].child = None
  /\ \A p \in Proc : Code(p) # "signal" =>
       Reads(log, p, execs[p], IF Unread(p) THEN Len(execs[p]) - 1 ELSE Len(execs[p]))
  /\ \A p \in known \ {Root} : HasFork(log, p, kernel[p].parent)

\* What a sealed log says.
AllTrue ==
  /\ Spawned = {p \in Proc : State(p) # "unborn"}
  /\ \A p \in Proc : State(p) # "unborn" =>
       /\ State(p) = "reaped" /\ Code(p) = "zero"
       /\ Reads(log, p, execs[p], Len(execs[p]))
       /\ p # Root => HasFork(log, p, kernel[p].parent)

Trusted == pc = "sealed" \/ (pc = "cleanup" /\ ~error) \/ (HasEnd /\ Last(log).value = "observed")
Truth == Bare /\ (Loop => Faithful) /\ (Trusted => AllTrue)

LEMMA ExecsAfter ==
  ASSUME NEW s \in Seq(Row), NEW t \in Seq(Row), NEW p
  PROVE  /\ ExecsIn(s, p) \subseteq 1..Len(s) /\ IsFiniteSet(ExecsIn(s, p)) /\ Len(s) \in Nat
         /\ \A n \in 1..Len(s) : n \in ExecsIn(s \o t, p) <=> n \in ExecsIn(s, p)
         /\ \A n \in 1..Len(s) : (s \o t)[n] = s[n]
         /\ \A n \in ExecsIn(s \o t, p) \ 1..Len(s) :
              n - Len(s) \in DOMAIN t /\ n = Len(s) + (n - Len(s)) /\ (s \o t)[n] = t[n - Len(s)]
<1> DEFINE r == s \o t
<1>1. /\ r \in Seq(Row) /\ Len(r) = Len(s) + Len(t)
      /\ \A i \in 1..Len(s) + Len(t) : r[i] = IF i <= Len(s) THEN s[i] ELSE t[i - Len(s)]
  BY ConcatProperties
<1> HIDE DEF r
<1>2. /\ Len(s) \in Nat /\ Len(t) \in Nat /\ DOMAIN s = 1..Len(s) /\ DOMAIN t = 1..Len(t)
      /\ DOMAIN r = 1..Len(s) + Len(t)
  BY <1>1
<1>3. \A n \in 1..Len(s) : n \in DOMAIN r /\ r[n] = s[n]
  BY <1>1, <1>2
<1>4. \A n \in DOMAIN r \ 1..Len(s) : n - Len(s) \in DOMAIN t /\ n = Len(s) + (n - Len(s)) /\ r[n] = t[n - Len(s)]
  BY <1>1, <1>2
<1>5. ExecsIn(s, p) \subseteq 1..Len(s) /\ ExecsIn(r, p) \subseteq DOMAIN r
  BY <1>2 DEF ExecsIn
<1>6. IsFiniteSet(ExecsIn(s, p))
  <2>1. IsFiniteSet(1..Len(s))
    BY <1>2, FS_Interval
  <2> QED
    BY <1>5, <2>1, FS_Subset
<1>7. \A n \in 1..Len(s) : n \in ExecsIn(r, p) <=> n \in ExecsIn(s, p)
  BY <1>2, <1>3 DEF ExecsIn
<1> QED
  BY <1>2, <1>3, <1>4, <1>5, <1>6, <1>7 DEF r

LEMMA KeepsLonger ==
  ASSUME NEW s \in Seq(Row), NEW t \in Seq(Row), \A n \in DOMAIN t : ~OfExec(t[n])
  PROVE  Keeps(s, s \o t)
<1> DEFINE r == s \o t
<1>1. ASSUME NEW p, NEW e, NEW k, Reads(s, p, e, k) PROVE Reads(r, p, e, k)
  <2>1. ExecsIn(r, p) = ExecsIn(s, p) /\ ExecsIn(s, p) \subseteq 1..Len(s)
    <3>1. \A n \in ExecsIn(r, p) : OfExec(r[n])
      BY DEF ExecsIn
    <3>2. /\ \A n \in 1..Len(s) : n \in ExecsIn(r, p) <=> n \in ExecsIn(s, p)
          /\ ExecsIn(s, p) \subseteq 1..Len(s)
          /\ \A n \in ExecsIn(r, p) \ 1..Len(s) : n - Len(s) \in DOMAIN t /\ r[n] = t[n - Len(s)]
      BY ExecsAfter
    <3>3. ExecsIn(r, p) \subseteq 1..Len(s)
      BY <3>1, <3>2
    <3> QED
      BY <3>2, <3>3
  <2>2. \A n \in ExecsIn(s, p) : r[n] = s[n]
    BY <2>1, ExecsAfter
  <2> HIDE DEF r
  <2> QED
    BY <1>1, <2>1, <2>2 DEF Reads, Place
<1>2. ASSUME NEW p, NEW q, HasFork(s, p, q) PROVE HasFork(r, p, q)
  <2>1. PICK n \in DOMAIN s : s[n] = R("spawn", p, q, "fork")
    BY <1>2 DEF HasFork
  <2>2. n \in DOMAIN r /\ r[n] = s[n]
    BY ConcatProperties
  <2> QED
    BY <2>1, <2>2 DEF HasFork
<1> QED
  BY <1>1, <1>2 DEF Keeps

LEMMA ReadsExec ==
  ASSUME NEW s \in Seq(Row), NEW a \in Row, OfExec(a), NEW p, a.pid = p,
         NEW e, NEW k \in Nat, Reads(s, p, e, k), a.value = e[k + 1]
  PROVE  Reads(Append(s, a), p, e, k + 1)
<1> DEFINE r == Append(s, a)
<1> DEFINE E == ExecsIn(s, p)
<1>1. /\ Len(s) \in Nat /\ DOMAIN s = 1..Len(s) /\ DOMAIN r = 1..Len(s) + 1
      /\ r[Len(s) + 1] = a /\ \A n \in 1..Len(s) : r[n] = s[n]
  BY Longer
<1> HIDE DEF r
<1>2. E \subseteq 1..Len(s) /\ IsFiniteSet(E)
  <2>1. <<>> \in Seq(Row)
    OBVIOUS
  <2> QED
    BY <2>1, ExecsAfter
<1>3. ExecsIn(r, p) = E \cup {Len(s) + 1}
  <2>1. DOMAIN r = 1..Len(s) \cup {Len(s) + 1}
    BY <1>1
  <2> QED
    BY <1>1, <2>1 DEF ExecsIn
<1>4. Cardinality(E) = k /\ \A n \in E : s[n].value = e[Place(s, p, n)]
  BY DEF Reads
<1>5. Cardinality(E \cup {Len(s) + 1}) = k + 1
  <2>1. Len(s) + 1 \notin E
    BY <1>1, <1>2
  <2> QED
    BY <1>2, <1>4, <2>1, FS_AddElement
<1>6. \A n \in E : Place(r, p, n) = Place(s, p, n)
  <2>1. ASSUME NEW n \in E PROVE {m \in E \cup {Len(s) + 1} : m <= n} = {m \in E : m <= n}
    BY <1>1, <1>2
  <2> QED
    BY <1>3, <2>1 DEF Place
<1>7. Place(r, p, Len(s) + 1) = k + 1
  <2>1. {m \in E \cup {Len(s) + 1} : m <= Len(s) + 1} = E \cup {Len(s) + 1}
    BY <1>1, <1>2
  <2> QED
    BY <1>3, <1>5, <2>1 DEF Place
<1>8. \A n \in ExecsIn(r, p) : r[n].value = e[Place(r, p, n)]
  <2>1. \A n \in E : r[n].value = e[Place(r, p, n)]
    BY <1>1, <1>2, <1>4, <1>6
  <2> QED
    BY <1>1, <1>3, <1>7, <2>1
<1> HIDE DEF E
<1>9. Reads(r, p, e, k + 1)
  BY <1>3, <1>5, <1>8 DEF Reads
<1> QED
  BY <1>9 DEF r

LEMMA ReadsLonger ==
  ASSUME NEW s \in Seq(Row), NEW p, NEW e \in Seq(Image), NEW i \in Image, NEW k \in Nat, k <= Len(e),
         Reads(s, p, e, k)
  PROVE  Reads(s, p, Append(e, i), k)
<1> DEFINE E == ExecsIn(s, p)
<1> DEFINE P(n) == {m \in E : m <= n}
<1>1. E \subseteq 1..Len(s) /\ IsFiniteSet(E)
  <2>1. <<>> \in Seq(Row)
    OBVIOUS
  <2> QED
    BY <2>1, ExecsAfter
<1>2. Cardinality(E) = k
  BY DEF Reads
<1>3. ASSUME NEW n \in E PROVE Place(s, p, n) \in 1..k
  <2>1. P(n) \subseteq E /\ n \in P(n)
    BY <1>1
  <2>2. IsFiniteSet(P(n)) /\ Cardinality(P(n)) <= Cardinality(E)
    BY <1>1, <2>1, FS_Subset
  <2>3. Cardinality(P(n)) \in Nat /\ Cardinality(P(n)) # 0
    BY <2>1, <2>2, FS_CardinalityType, FS_EmptySet
  <2>4. Place(s, p, n) = Cardinality(P(n))
    BY DEF Place
  <2> QED
    BY <1>2, <2>2, <2>3, <2>4
<1>4. \A m \in 1..k : Append(e, i)[m] = e[m]
  <2>1. \A m \in 1..Len(e) : Append(e, i)[m] = e[m]
    BY AppendProperties
  <2>2. 1..k \subseteq 1..Len(e)
    OBVIOUS
  <2> QED
    BY <2>1, <2>2
<1> QED
  BY <1>3, <1>4 DEF Reads

LEMMA LogsKeep ==
  ASSUME log \in Seq(Row), NEW rows \in Seq(Row), \A n \in DOMAIN rows : ~OfExec(rows[n]),
         NEW next, Logs(rows, next)
  PROVE  /\ Keeps(log, log')
         /\ pc' # "failed" => pc' = next /\ \A n \in DOMAIN rows : \E m \in DOMAIN log' : log'[m] = rows[n]
<1>1. PICK n \in 0..Len(rows) :
        /\ log' = log \o SubSeq(rows, 1, n)
        /\ IF n = Len(rows) THEN pc' = next ELSE Raise
  BY DEF Logs
<1>2. Len(rows) \in Nat /\ DOMAIN rows = 1..Len(rows) /\ n \in Int /\ 1 \in Int
  OBVIOUS
<1>3. 1..n \subseteq DOMAIN rows /\ \A i \in 1..n : rows[i] \in Row
  BY <1>2
<1> DEFINE t == SubSeq(rows, 1, n)
<1>4. t \in Seq(Row) /\ \A m \in DOMAIN t : ~OfExec(t[m])
  <2>1. t \in Seq(Row) /\ Len(t) = n /\ \A i \in 1..n : t[i] = rows[i]
    <3>1. /\ t \in Seq(Row) /\ Len(t) = (IF 1 <= n THEN n - 1 + 1 ELSE 0)
          /\ \A i \in 1..n - 1 + 1 : t[i] = rows[1 + i - 1]
      BY <1>2, <1>3, SubSeqProperties
    <3> HIDE DEF t
    <3>2. \A i \in 1..n : i \in 1..n - 1 + 1 /\ 1 + i - 1 = i
      BY <1>2
    <3>3. (IF 1 <= n THEN n - 1 + 1 ELSE 0) = n
      BY <1>2
    <3>4. \A i \in 1..n : t[i] = rows[i]
      BY <3>1, <3>2
    <3> QED
      BY <3>1, <3>3, <3>4
  <2> HIDE DEF t
  <2>2. DOMAIN t = 1..n
    BY <2>1
  <2> QED
    BY <1>3, <2>1, <2>2
<1>5. Keeps(log, log')
  BY <1>1, <1>4, KeepsLonger
<1>6. ASSUME pc' # "failed", NEW i \in DOMAIN rows
      PROVE  \E m \in DOMAIN log' : log'[m] = rows[i]
  <2>1. n = Len(rows)
    BY <1>1, <1>6 DEF Raise
  <2>2. log' = log \o rows
    BY <1>1, <2>1, SubSeqFull
  <2>3. /\ log' \in Seq(Row) /\ Len(log') = Len(log) + Len(rows)
        /\ \A j \in 1..Len(log) + Len(rows) : log'[j] = IF j <= Len(log) THEN log[j] ELSE rows[j - Len(log)]
    BY <2>2, ConcatProperties
  <2>4. Len(log) \in Nat /\ DOMAIN log' = 1..Len(log) + Len(rows)
    BY <2>3
  <2>5. /\ Len(log) + i \in 1..Len(log) + Len(rows) /\ ~(Len(log) + i <= Len(log))
        /\ Len(log) + i - Len(log) = i
    BY <1>2, <2>4
  <2>6. log'[Len(log) + i] = rows[i]
    BY <2>3, <2>5
  <2> QED
    BY <2>4, <2>5, <2>6
<1>7. pc' # "failed" => pc' = next
  BY <1>1 DEF Raise
<1> QED
  BY <1>5, <1>6, <1>7

LEMMA NoChange == Keeps(log, log)
BY DEF Keeps

\* A step that leaves the log's words true.
LEMMA FaithfulKeeps ==
  ASSUME Faithful, UNCHANGED execs, Keeps(log, log'), known \subseteq known',
         \A q \in Proc : kernel'[q].code # "signal" => Code(q) # "signal" /\ (Unread(q)' <=> Unread(q)),
         \A q \in Proc \ known' : kernel'[q].child = kernel[q].child,
         \A q \in known : kernel'[q].parent = kernel[q].parent,
         \A q \in known' \ (known \cup {Root}) : HasFork(log', q, kernel'[q].parent)
  PROVE  Faithful'
<1>1. \A q \in Proc \ known' : kernel'[q].child = None
  BY DEF Faithful
<1>2. ASSUME NEW q \in Proc, kernel'[q].code # "signal"
      PROVE  Reads(log', q, execs'[q], IF Unread(q)' THEN Len(execs'[q]) - 1 ELSE Len(execs'[q]))
  <2>1. Reads(log, q, execs[q], IF Unread(q) THEN Len(execs[q]) - 1 ELSE Len(execs[q]))
    BY <1>2 DEF Faithful
  <2>2. Reads(log', q, execs[q], IF Unread(q) THEN Len(execs[q]) - 1 ELSE Len(execs[q]))
    BY <2>1 DEF Keeps
  <2> QED
    BY <1>2, <2>2
<1>3. \A q \in known' \ {Root} : HasFork(log', q, kernel'[q].parent)
  BY DEF Faithful, Keeps
<1> QED
  BY <1>1, <1>2, <1>3 DEF Faithful, Code

\* A sealed log stays true while nobody is left to do anything.
LEMMA TrueStays ==
  ASSUME AllTrue, UNCHANGED execs, Keeps(log, log'), Spawned' = Spawned,
         \A q \in Proc : /\ kernel'[q].state = kernel[q].state /\ kernel'[q].code = kernel[q].code
                         /\ kernel'[q].parent = kernel[q].parent
  PROVE  AllTrue'
<1>1. Spawned' = {q \in Proc : kernel'[q].state # "unborn"}
  BY DEF AllTrue, State
<1>2. ASSUME NEW q \in Proc, kernel'[q].state # "unborn"
      PROVE  /\ kernel'[q].state = "reaped" /\ kernel'[q].code = "zero"
             /\ Reads(log', q, execs'[q], Len(execs'[q]))
             /\ q # Root => HasFork(log', q, kernel'[q].parent)
  BY <1>2 DEF AllTrue, State, Code, Keeps
<1> QED
  BY <1>1, <1>2 DEF AllTrue, State, Code

LEMMA NotTrusted ==
  ASSUME TypeOK', NoEnd', pc' # "sealed", pc' = "cleanup" => error'
  PROVE  ~Trusted'
BY NoEndOf DEF TypeOK, NoEnd, Trusted, HasEnd

LEMMA AllIdle == AllTrue => \A p \in Proc : State(p) \in {"unborn", "reaped"}
BY DEF AllTrue

LEMMA ForkTruth ==
  ASSUME Inv, Truth, NEW p \in Proc, NEW c \in Proc, Fork(p, c)
  PROVE  Truth'
<1>1. /\ p # c /\ kernel[p].state = "running" /\ kernel[c].state = "unborn"
      /\ kernel'[p].state = "fork" /\ kernel'[p].parent = kernel[p].parent /\ kernel'[p].code = kernel[p].code
      /\ kernel'[c].state = "start" /\ kernel'[c].code = kernel[c].code
      /\ kernel'[c].child = kernel[c].child
      /\ \A q \in Proc \ {p, c} : kernel'[q] = kernel[q]
  BY ForkDoes DEF Inv
<1>2. UNCHANGED <<execs, pc, status, known, log, error>> /\ known \subseteq Proc
  BY DEF Fork, observer, registry, Inv, TypeOK
<1>3. Bare'
  BY <1>1, <1>2 DEF Truth, Bare, State
<1>4. ASSUME Loop PROVE Faithful'
  <2>1. p \in known /\ c \notin known
    BY <1>1, <1>4 DEF Inv, Phases, InLoop, Strangers, Registry, State, Ended
  <2>2. \A q \in Proc : kernel'[q].code = kernel[q].code /\ (Unread(q)' <=> Unread(q))
    BY <1>1, <1>2 DEF Unread, State, AtHand
  <2>3. Keeps(log, log')
    BY <1>2, NoChange
  <2>4. /\ \A q \in Proc \ known' : kernel'[q].child = kernel[q].child
        /\ \A q \in known : kernel'[q].parent = kernel[q].parent
    BY <1>1, <1>2, <2>1
  <2> QED
    BY <1>2, <1>4, <2>2, <2>3, <2>4, FaithfulKeeps DEF Truth, Code
<1>5. ~Trusted'
  BY <1>1, <1>2, AllIdle DEF Truth, Trusted, HasEnd, State
<1> QED
  BY <1>2, <1>3, <1>4, <1>5 DEF Truth, Loop

LEMMA ExecTruth ==
  ASSUME Inv, Truth, NEW p \in Proc, NEW i \in Image, Exec(p, i)
  PROVE  Truth'
<1>1. /\ kernel[p].state = "running"
      /\ kernel'[p].state = "exec" /\ ~kernel'[p].told /\ kernel'[p].child = kernel[p].child
      /\ kernel'[p].parent = kernel[p].parent /\ kernel'[p].code = kernel[p].code
      /\ \A q \in Proc \ {p} : kernel'[q] = kernel[q] /\ execs'[q] = execs[q]
  BY ExecDoes DEF Inv
<1>2. /\ UNCHANGED <<pc, status, known, log, error>> /\ known \subseteq Proc /\ log \in Seq(Row)
      /\ kernel'[p].image = i /\ execs'[p] = Append(execs[p], i) /\ execs[p] \in Seq(Image)
  BY DEF Exec, observer, registry, Inv, TypeOK, Process
<1>3. execs'[p] # <<>> /\ Len(execs'[p]) = Len(execs[p]) + 1 /\ execs'[p][Len(execs'[p])] = i
  BY <1>2, AppendProperties
<1>4. Bare'
  <2>1. ASSUME NEW q \in Proc
        PROVE  /\ kernel'[q].state = "unborn" => kernel'[q].child = None /\ execs'[q] = <<>>
               /\ kernel'[q].state = "exec" =>
                    execs'[q] # <<>> /\ kernel'[q].image = execs'[q][Len(execs'[q])]
    <3>1. CASE q = p
      BY <1>1, <1>2, <1>3, <3>1
    <3>2. CASE q # p
      BY <1>1, <3>2 DEF Truth, Bare, State
    <3> QED
      BY <3>1, <3>2
  <2> QED
    BY <2>1 DEF Bare, State
<1>5. ASSUME Loop PROVE Faithful'
  <2>1. p \in known /\ ~Unread(p)
    BY <1>1, <1>5 DEF Inv, Phases, InLoop, Strangers, State, Ended, Unread
  <2>2. Unread(p)' /\ \A q \in Proc \ {p} : Unread(q)' <=> Unread(q)
    BY <1>1, <1>2 DEF Unread, State, AtHand
  <2>3. ASSUME NEW q \in Proc, kernel'[q].code # "signal"
        PROVE  Reads(log', q, execs'[q], IF Unread(q)' THEN Len(execs'[q]) - 1 ELSE Len(execs'[q]))
    <3>1. CASE q = p
      <4>1. Reads(log, p, execs[p], Len(execs[p]))
        BY <1>1, <1>5, <2>1, <2>3, <3>1 DEF Truth, Faithful, Code
      <4>2. Reads(log, p, execs'[p], Len(execs[p]))
        BY <1>2, <4>1, ReadsLonger
      <4>3. Len(execs'[p]) - 1 = Len(execs[p])
        BY <1>2, <1>3
      <4> QED
        BY <1>2, <2>2, <3>1, <4>2, <4>3
    <3>2. CASE q # p
      BY <1>1, <1>2, <1>5, <2>2, <2>3, <3>2 DEF Truth, Faithful, Code
    <3> QED
      BY <3>1, <3>2
  <2>4. /\ \A q \in Proc \ known' : kernel'[q].child = None
        /\ \A q \in known' \ {Root} : HasFork(log', q, kernel'[q].parent)
    <3>1. \A q \in Proc : kernel'[q].child = kernel[q].child /\ kernel'[q].parent = kernel[q].parent
      BY <1>1
    <3> QED
      BY <1>2, <1>5, <3>1 DEF Truth, Faithful
  <2> QED
    BY <2>3, <2>4 DEF Faithful, Code
<1>6. ~Trusted'
  BY <1>1, <1>2, AllIdle DEF Truth, Trusted, HasEnd, State
<1> QED
  BY <1>2, <1>4, <1>5, <1>6 DEF Truth, Loop

LEMMA ExitTruth ==
  ASSUME Inv, Truth, NEW p \in Proc, NEW code \in Codes, Exit(p, code)
  PROVE  Truth'
<1>1. /\ kernel[p].state = "running" /\ kernel'[p].state = "exit" /\ kernel'[p].child = kernel[p].child
      /\ kernel'[p].parent = kernel[p].parent
      /\ \A q \in Proc \ {p} : kernel'[q] = kernel[q]
  BY ExitDoes DEF Inv
<1>2. UNCHANGED <<execs, pc, status, known, log, error>> /\ known \subseteq Proc
  BY DEF Exit, observer, registry, Inv, TypeOK
<1>3. Bare'
  BY <1>1, <1>2 DEF Truth, Bare, State
<1>4. ASSUME Loop PROVE Faithful'
  <2>1. kernel[p].code = None /\ None # "signal"
    BY <1>1, ObserverAssumption DEF Inv, Family, State, Code, Gone, Ended, Codes
  <2>2. \A q \in Proc : Unread(q)' <=> Unread(q)
    BY <1>1, <1>2 DEF Unread, State, AtHand
  <2>3. Keeps(log, log')
    BY <1>2, NoChange
  <2>4. \A q \in Proc : /\ kernel'[q].child = kernel[q].child /\ kernel'[q].parent = kernel[q].parent
                        /\ kernel'[q].code # "signal" => Code(q) # "signal"
    BY <1>1, <2>1 DEF Code
  <2> QED
    BY <1>2, <1>4, <2>2, <2>3, <2>4, FaithfulKeeps DEF Truth
<1>5. ~Trusted'
  BY <1>1, <1>2, AllIdle DEF Truth, Trusted, HasEnd, State
<1> QED
  BY <1>2, <1>3, <1>4, <1>5 DEF Truth, Loop

\* A death changes nothing of what a sealed log says, and leaves the rest to
\* the exit rows.
LEMMA DeadTruth ==
  ASSUME Inv, Truth, NEW ps, kernel' = Dead(ps), UNCHANGED <<execs, log, error>>,
         UNCHANGED <<pc, status, known>> \/ (pc' = "exited" /\ pc # "exited")
  PROVE  Truth'
<1>1. /\ \A q \in Proc : q \in ps /\ kernel[q].state \notin {"unborn"} \cup Ended =>
           /\ kernel'[q].state = "dead"
           /\ kernel'[q].child = kernel[q].child /\ kernel'[q].parent = kernel[q].parent
           /\ kernel'[q].code = IF kernel[q].code = None THEN "signal" ELSE kernel[q].code
      /\ \A q \in Proc : ~(q \in ps /\ kernel[q].state \notin {"unborn"} \cup Ended) =>
           kernel'[q] = kernel[q]
  BY DeadDoes DEF Inv
<1>2. Bare'
  BY <1>1 DEF Truth, Bare, State
<1>3. ASSUME Loop, UNCHANGED <<pc, status, known>> PROVE Faithful'
  <2>1. \A q \in Proc : kernel[q].state = "exec" => kernel[q].code = None
    BY DEF Inv, Family, State, Code, Gone, Ended
  <2>2. \A q \in Proc : kernel'[q].code # "signal" => Code(q) # "signal" /\ (Unread(q)' <=> Unread(q))
    <3> TAKE q \in Proc
    <3>1. CASE q \in ps /\ kernel[q].state \notin {"unborn"} \cup Ended
      BY <1>1, <2>1, <3>1 DEF Code, Unread, State
    <3>2. CASE ~(q \in ps /\ kernel[q].state \notin {"unborn"} \cup Ended)
      BY <1>1, <1>3, <3>2 DEF Code, Unread, State, AtHand
    <3> QED
      BY <3>1, <3>2
  <2>3. Keeps(log, log')
    BY NoChange
  <2>4. \A q \in Proc : kernel'[q].child = kernel[q].child /\ kernel'[q].parent = kernel[q].parent
    BY <1>1
  <2>5. known \subseteq Proc
    BY DEF Inv, TypeOK
  <2> QED
    BY <1>3, <2>2, <2>3, <2>4, <2>5, FaithfulKeeps DEF Truth
<1>4. ASSUME Trusted PROVE AllTrue'
  <2>1. \A q \in Proc : kernel'[q] = kernel[q]
    BY <1>1, <1>4, AllIdle DEF Truth, State, Ended
  <2>2. Keeps(log, log') /\ Spawned' = Spawned
    BY NoChange DEF Spawned
  <2> QED
    BY <1>4, <2>1, <2>2, TrueStays DEF Truth
<1>5. Trusted' => Trusted
  BY DEF Trusted, HasEnd
<1> QED
  BY <1>2, <1>3, <1>4, <1>5 DEF Truth, Loop

LEMMA WaitPidTruth ==
  ASSUME Inv, Inv', Truth, NEW p \in Proc, WaitPid(p)
  PROVE  Truth'
<1>1. /\ status'.pid = p
      /\ (kernel[p].state \in Stops /\ ~kernel[p].told) \/ kernel[p].state = "dead"
      /\ kernel'[p].state = IF kernel[p].state = "dead" THEN "reaped" ELSE kernel[p].state
      /\ kernel'[p].child = kernel[p].child
      /\ kernel'[p].parent = kernel[p].parent /\ kernel'[p].code = kernel[p].code
      /\ \A q \in Proc \ {p} : kernel'[q] = kernel[q]
  BY WaitPidDoes DEF Inv
<1>2. /\ UNCHANGED <<execs, known, log, error>> /\ pc = "wait" /\ pc' = "handle" /\ known \subseteq Proc
      /\ kernel'[p].image = kernel[p].image
  BY DEF WaitPid, registry, Inv, TypeOK, Process
<1>3. Bare'
  BY <1>1, <1>2 DEF Truth, Bare, State, Stops
<1>4. Faithful'
  <2>1. \A q \in Proc : Unread(q)' <=> Unread(q)
    BY <1>1, <1>2 DEF Unread, State, AtHand
  <2>2. Keeps(log, log')
    BY <1>2, NoChange
  <2>3. \A q \in Proc : /\ kernel'[q].child = kernel[q].child /\ kernel'[q].parent = kernel[q].parent
                        /\ kernel'[q].code = kernel[q].code
    BY <1>1
  <2> QED
    BY <1>2, <2>1, <2>2, <2>3, FaithfulKeeps DEF Truth, Loop, Code
<1>5. ~Trusted'
  BY <1>2, NotTrusted DEF Inv, Phases
<1> QED
  BY <1>3, <1>4, <1>5 DEF Truth

LEMMA ContinueTruth ==
  ASSUME Inv, Inv', Truth, Continue
  PROVE  Truth'
<1> DEFINE p == status.pid
<1>1. /\ UNCHANGED <<execs, known, log, error, status>> /\ pc = "continue" /\ known \subseteq Proc
      /\ IF Stopped(p) THEN kernel' = Continued(p) /\ pc' = "wait"
                       ELSE UNCHANGED kernel /\ pc' \in {"wait", "failed"}
  BY DEF Continue, registry, Inv, TypeOK, Raise
<1>2. p \in Proc /\ (Stopped(p) => kernel[p].told)
  BY <1>1, ObserverAssumption DEF Inv, Phases, Loop, InLoop, Current, Stopped, State, Stops
<1>3. /\ \A q \in Proc : /\ kernel'[q].child = kernel[q].child /\ kernel'[q].parent = kernel[q].parent
                         /\ kernel'[q].code = kernel[q].code
                         /\ kernel'[q] = kernel[q] \/ (kernel'[q].state \in {"dead", "running"} /\ q = p /\ Stopped(p))
  <2>1. CASE Stopped(p)
    BY <1>1, <1>2, <2>1, ContinuedDoes DEF Inv
  <2>2. CASE ~Stopped(p)
    BY <1>1, <2>2
  <2> QED
    BY <2>1, <2>2
<1> HIDE DEF p
<1>4. Bare'
  BY <1>1, <1>3 DEF Truth, Bare, State
<1>5. Faithful'
  <2>1. \A q \in Proc : Unread(q)' <=> Unread(q)
    BY <1>1, <1>2, <1>3 DEF Unread, State, AtHand
  <2>2. Keeps(log, log')
    BY <1>1, NoChange
  <2> QED
    BY <1>1, <1>3, <2>1, <2>2, FaithfulKeeps DEF Truth, Loop, Code
<1>6. ~Trusted'
  BY <1>1, NotTrusted DEF Inv, Phases
<1> QED
  BY <1>4, <1>5, <1>6 DEF Truth

LEMMA LaunchTruth ==
  ASSUME Inv, Inv', Truth, Launch
  PROVE  Truth'
<1> DEFINE a == R("run", Root, None, None)
<1>1. /\ kernel'[Root].state = "start" /\ kernel'[Root].child = kernel[Root].child
      /\ kernel'[Root].parent = kernel[Root].parent
      /\ \A q \in Proc \ {Root} : kernel'[q] = kernel[q]
  BY LaunchDoes DEF Inv
<1>2. /\ UNCHANGED <<execs, known, error, status>> /\ pc = "launch" /\ Logs(<<a>>, "wait") /\ Root \in Proc
  BY ObserverAssumption DEF Launch
<1>3. /\ log = <<>> /\ known = {} /\ \A q \in Proc : kernel[q].state = "unborn" /\ execs[q] = <<>>
  BY <1>2 DEF Inv, Phases, Unlaunched, State
<1>4. a \in Row /\ a.kind = "run"
  BY <1>2, Rows DEF R
<1> HIDE DEF a
<1>5. Bare'
  BY <1>1, <1>2, <1>3 DEF Truth, Bare, State
<1>6. Faithful'
  <2>1. Keeps(log, log')
    <3>1. <<a>> \in Seq(Row) /\ \A n \in DOMAIN <<a>> : ~OfExec(<<a>>[n])
      BY <1>4 DEF OfExec
    <3>2. log \in Seq(Row)
      BY DEF Inv, TypeOK
    <3> QED
      BY <1>2, <3>1, <3>2, LogsKeep
  <2>2. ASSUME NEW q \in Proc PROVE Reads(log, q, <<>>, 0)
    <3>1. ExecsIn(log, q) = {}
      BY <1>3 DEF ExecsIn
    <3> QED
      BY <3>1, FS_EmptySet DEF Reads
  <2>3. \A q \in Proc : Reads(log', q, execs'[q], Len(execs'[q]))
    BY <1>2, <1>3, <2>1, <2>2 DEF Keeps
  <2>4. \A q \in Proc : ~Unread(q)'
    BY <1>1, <1>2, <1>3 DEF Unread, State
  <2>5. \A q \in Proc : kernel'[q].child = None
    BY <1>1, <1>2, <1>3 DEF Truth, Bare, State
  <2> QED
    BY <1>2, <1>3, <2>3, <2>4, <2>5 DEF Faithful
<1>7. ~Trusted'
  <2>1. pc' \in {"wait", "failed"}
    BY <1>2 DEF Logs, Raise
  <2> QED
    BY <2>1, NotTrusted DEF Inv, Phases
<1> QED
  BY <1>5, <1>6, <1>7 DEF Truth

LEMMA NoExec ==
  ASSUME NEW a \in Row, ~OfExec(a)
  PROVE  <<a>> \in Seq(Row) /\ \A n \in DOMAIN <<a>> : ~OfExec(<<a>>[n])
<1>1. DOMAIN <<a>> = {1} /\ <<a>>[1] = a
  OBVIOUS
<1> QED
  BY <1>1

\* A status that is no exec's, and rows that are no exec's.
LEMMA HandleKeepsFaith ==
  ASSUME Inv, Truth, UNCHANGED <<execs, status>>, pc = "handle", pc' # "handle",
         kernel[status.pid].state # "exec",
         Keeps(log, log'), known \subseteq known', known' \subseteq Proc,
         \A q \in Proc : /\ kernel'[q].child = kernel[q].child /\ kernel'[q].parent = kernel[q].parent
                         /\ kernel'[q].code = kernel[q].code
                         /\ \/ kernel'[q] = kernel[q]
                            \/ kernel'[q].state \in {"dead", "running"} /\ kernel[q].state # "exec",
         \A q \in known' \ (known \cup {Root}) : HasFork(log', q, kernel'[q].parent)
  PROVE  Faithful'
<1>1. \A q \in Proc : Unread(q)' <=> Unread(q)
  BY DEF Unread, State, AtHand
<1>2. known \subseteq Proc
  BY DEF Inv, TypeOK
<1> QED
  BY <1>1, <1>2, FaithfulKeeps DEF Truth, Loop, Code

LEMMA TerminalFaithful ==
  ASSUME Inv, Truth, pc = "handle", NEW p, p = status.pid, status.kind = "dead", Terminal(p),
         pc' # "failed", UNCHANGED <<execs, status>>
  PROVE  pc' # "handle" /\ Faithful'
<1> DEFINE code == WaitCode(p)
<1> DEFINE late == p \in known /\ pending[p] = None
<1> DEFINE rows == (IF late THEN <<R("exit", p, code, None)>> ELSE <<>>) \o <<R("reap", p, code, None)>>
<1>1. /\ UNCHANGED <<kernel, known>> /\ Logs(rows, "wait")
  BY DEF Terminal, Raise
<1>2. p \in Proc /\ kernel[p].state = "reaped" /\ kernel[p].code \in Codes \cup {None} /\ log \in Seq(Row)
  BY DEF Inv, TypeOK, Process, Phases, Loop, InLoop, Current, State
<1>3. R("exit", p, code, None) \in Row /\ R("reap", p, code, None) \in Row
  BY <1>2, Rows DEF WaitCode
<1>4. ~OfExec(R("exit", p, code, None)) /\ ~OfExec(R("reap", p, code, None))
  BY DEF OfExec, R
<1>5. rows \in Seq(Row) /\ \A n \in DOMAIN rows : ~OfExec(rows[n])
  <2> DEFINE x == R("exit", p, code, None)
  <2> DEFINE y == R("reap", p, code, None)
  <2> HIDE DEF x, y
  <2>1. x \in Row /\ y \in Row /\ ~OfExec(x) /\ ~OfExec(y)
    BY <1>3, <1>4 DEF x, y
  <2>2. <<x>> \o <<y>> = <<x, y>> /\ <<>> \o <<y>> = <<y>>
    BY <2>1, Pair, ConcatEmptySeq
  <2>3. /\ <<x, y>> \in Seq(Row) /\ \A n \in DOMAIN <<x, y>> : ~OfExec(<<x, y>>[n])
        /\ <<y>> \in Seq(Row) /\ \A n \in DOMAIN <<y>> : ~OfExec(<<y>>[n])
    <3>1. DOMAIN <<x, y>> = {1, 2} /\ <<x, y>>[1] = x /\ <<x, y>>[2] = y /\ DOMAIN <<y>> = {1} /\ <<y>>[1] = y
      OBVIOUS
    <3> QED
      BY <2>1, <3>1
  <2>4. rows = IF late THEN <<x, y>> ELSE <<y>>
    <3>1. rows = (IF late THEN <<x>> ELSE <<>>) \o <<y>>
      BY DEF x, y
    <3> QED
      BY <2>2, <3>1
  <2> HIDE DEF rows, late
  <2> QED
    BY <2>3, <2>4
<1> HIDE DEF rows
<1>6. Keeps(log, log') /\ pc' = "wait"
  BY <1>1, <1>2, <1>5, LogsKeep
<1>7. known \subseteq Proc
  BY DEF Inv, TypeOK
<1> QED
  BY <1>1, <1>2, <1>6, <1>7, HandleKeepsFaith

LEMMA RootStopsFaithful ==
  ASSUME Inv, Truth, pc = "handle", status.pid = Root, Root \notin known, RootStops, status.kind \in Stops,
         pc' # "failed", UNCHANGED <<execs, status>>
  PROVE  pc' # "handle" /\ Faithful'
<1> DEFINE a == R("spawn", Root, None, None)
<1>1. /\ UNCHANGED kernel /\ known' = known \cup {Root} /\ Logs(<<a>>, "continue")
  BY DEF RootStops
<1>2. Root \in Proc /\ kernel[Root].state # "exec" /\ log \in Seq(Row) /\ known \subseteq Proc
  BY ObserverAssumption DEF Inv, TypeOK, Phases, Loop, InLoop, Strangers, State, Ended
<1>3. <<a>> \in Seq(Row) /\ \A n \in DOMAIN <<a>> : ~OfExec(<<a>>[n])
  <2>1. a \in Row /\ ~OfExec(a)
    BY <1>2, Rows DEF OfExec, R
  <2> QED
    BY <2>1, NoExec
<1> HIDE DEF a
<1>4. Keeps(log, log') /\ pc' = "continue"
  BY <1>1, <1>2, <1>3, LogsKeep
<1> QED
  BY <1>1, <1>2, <1>4, HandleKeepsFaith

LEMMA ChildStopsFaithful ==
  ASSUME Inv, Truth, pc = "handle", NEW p, p = status.pid, p \in initialStop, ChildStops(p),
         pc' # "failed", UNCHANGED <<execs, status>>
  PROVE  pc' # "handle" /\ Faithful'
<1> DEFINE a == R("image", p, kernel[p].image, "fork")
<1>1. /\ UNCHANGED <<kernel, known>> /\ Logs(<<a>>, "continue")
  BY DEF ChildStops, Captured, Raise
<1>2. p \in Proc /\ kernel[p].state # "exec" /\ log \in Seq(Row) /\ known \subseteq Proc /\ kernel[p].image \in Image
  BY DEF Inv, TypeOK, Process, Phases, Loop, InLoop, Registry, State, Ended
<1>3. <<a>> \in Seq(Row) /\ \A n \in DOMAIN <<a>> : ~OfExec(<<a>>[n])
  <2>1. a \in Row /\ ~OfExec(a)
    BY <1>2, Rows DEF OfExec, R
  <2> QED
    BY <2>1, NoExec
<1> HIDE DEF a
<1>4. Keeps(log, log') /\ pc' = "continue"
  BY <1>1, <1>2, <1>3, LogsKeep
<1> QED
  BY <1>1, <1>2, <1>4, HandleKeepsFaith

LEMMA StopsEarlyFaithful ==
  ASSUME Inv, Truth, pc = "handle", NEW p, p = status.pid, p \notin known, StopsEarly(p),
         UNCHANGED <<execs, status>>
  PROVE  pc' # "handle" /\ Faithful'
<1>1. UNCHANGED <<kernel, known, log>> /\ pc' = "wait"
  BY DEF StopsEarly
<1>2. p \in Proc /\ kernel[p].state # "exec" /\ known \subseteq Proc
  BY DEF Inv, TypeOK, Phases, Loop, InLoop, Strangers, Current, State, Ended
<1> QED
  BY <1>1, <1>2, NoChange, HandleKeepsFaith

LEMMA ExitsFaithful ==
  ASSUME Inv, Truth, pc = "handle", NEW p, p = status.pid, status.kind = "exit", Exits(p),
         pc' # "failed", UNCHANGED <<execs, status>>
  PROVE  pc' # "handle" /\ Faithful'
<1> DEFINE a == R("exit", p, kernel[p].code, None)
<1>1. /\ UNCHANGED <<kernel, known>>
      /\ Logs(<<a>>, "continue") \/ (pc' = "continue" /\ log' = log)
  BY DEF Exits
<1>2. /\ p \in Proc /\ kernel[p].state # "exec" /\ log \in Seq(Row) /\ known \subseteq Proc
      /\ kernel[p].code \in Codes \cup {None}
  BY DEF Inv, TypeOK, Process, Phases, Loop, InLoop, Current, State, Stops
<1>3. <<a>> \in Seq(Row) /\ \A n \in DOMAIN <<a>> : ~OfExec(<<a>>[n])
  <2>1. a \in Row /\ ~OfExec(a)
    BY <1>2, Rows DEF OfExec, R
  <2> QED
    BY <2>1, NoExec
<1> HIDE DEF a
<1>4. Keeps(log, log') /\ pc' = "continue"
  BY <1>1, <1>2, <1>3, LogsKeep, NoChange
<1> QED
  BY <1>1, <1>2, <1>4, HandleKeepsFaith

LEMMA ForksFaithful ==
  ASSUME Inv, Truth, pc = "handle", NEW p, p = status.pid, status.kind = "fork", Forks(p),
         pc' # "failed", UNCHANGED <<execs, status>>
  PROVE  pc' # "handle" /\ Faithful'
<1> DEFINE c == kernel[p].child
<1> DEFINE a == R("spawn", c, p, "fork")
<1> DEFINE b == R("image", c, kernel[c].image, "fork")
<1>1. /\ p \in Proc /\ kernel[p].state \in {"fork", "dead"} /\ log \in Seq(Row) /\ known \subseteq Proc
  BY DEF Inv, TypeOK, Phases, Loop, InLoop, Current, State, Stops
<1>2. Stopped(p) /\ kernel[p].state = "fork"
  BY <1>1 DEF Forks, Raise, Stopped, Stops
<1>3. /\ c \in Proc /\ kernel[c].parent = p /\ kernel[c].image \in Image
  BY <1>1, <1>2 DEF Inv, TypeOK, Process, Family, State
<1>4. /\ c \notin known /\ known' = known \cup {c}
      /\ \/ Logs(<<a>>, "continue") /\ UNCHANGED kernel
         \/ Logs(<<a>>, "failed") /\ UNCHANGED kernel
         \/ Stopped(c) /\ Logs(<<a, b>>, "continue") /\ kernel' \in {Continued(c), kernel}
  BY <1>2 DEF Forks, Raise
<1>5. a \in Row /\ b \in Row /\ ~OfExec(a) /\ ~OfExec(b)
  BY <1>1, <1>3, Rows DEF OfExec, R
<1>6. a = R("spawn", c, p, "fork")
  OBVIOUS
<1> HIDE DEF a, b
<1>7. /\ <<a>> \in Seq(Row) /\ \A n \in DOMAIN <<a>> : ~OfExec(<<a>>[n])
      /\ <<a, b>> \in Seq(Row) /\ \A n \in DOMAIN <<a, b>> : ~OfExec(<<a, b>>[n])
      /\ 1 \in DOMAIN <<a>> /\ <<a>>[1] = a /\ 1 \in DOMAIN <<a, b>> /\ <<a, b>>[1] = a
  <2>1. /\ DOMAIN <<a>> = {1} /\ <<a>>[1] = a
        /\ DOMAIN <<a, b>> = {1, 2} /\ <<a, b>>[1] = a /\ <<a, b>>[2] = b
    OBVIOUS
  <2>2. <<a>> \in Seq(Row) /\ <<a, b>> \in Seq(Row)
    BY <1>5
  <2> QED
    BY <1>5, <2>1, <2>2
<1>8. Keeps(log, log') /\ pc' = "continue" /\ \E m \in DOMAIN log' : log'[m] = a
  <2>1. CASE Logs(<<a>>, "continue") \/ Logs(<<a>>, "failed")
    BY <1>1, <1>7, <2>1, LogsKeep
  <2>2. CASE Logs(<<a, b>>, "continue")
    BY <1>1, <1>7, <2>2, LogsKeep
  <2> QED
    BY <1>4, <2>1, <2>2
<1>9. \A q \in Proc : /\ kernel'[q].child = kernel[q].child /\ kernel'[q].parent = kernel[q].parent
                      /\ kernel'[q].code = kernel[q].code
                      /\ \/ kernel'[q] = kernel[q]
                         \/ kernel'[q].state \in {"dead", "running"} /\ kernel[q].state # "exec"
  <2>1. CASE UNCHANGED kernel
    BY <2>1
  <2>2. CASE kernel' = Continued(c)
    <3>1. kernel[c].state # "exec"
      BY <1>3, <1>4 DEF Inv, Phases, Loop, InLoop, Strangers, State, Ended
    <3> QED
      BY <1>3, <2>2, <3>1, ContinuedDoes DEF Inv
  <2> QED
    BY <1>4, <2>1, <2>2
<1>10. HasFork(log', c, kernel'[c].parent)
  BY <1>3, <1>6, <1>8, <1>9 DEF HasFork
<1> HIDE DEF c
<1> QED
  BY <1>1, <1>2, <1>3, <1>4, <1>8, <1>9, <1>10, HandleKeepsFaith

LEMMA ExecsFaithful ==
  ASSUME Inv, Truth, pc = "handle", NEW p, p = status.pid, status.kind = "exec", Execs(p),
         pc' # "failed", UNCHANGED <<execs, status>>
  PROVE  pc' # "handle" /\ Faithful'
<1> DEFINE a == R("image", p, kernel[p].image, "exec")
<1>1. /\ UNCHANGED <<kernel, known>> /\ Logs(<<a>>, "continue") /\ Stopped(p)
  BY DEF Execs, Captured, Raise, registry
<1>2. /\ p \in Proc /\ kernel[p].state = "exec" /\ kernel[p].told
      /\ log \in Seq(Row) /\ known \subseteq Proc /\ kernel[p].image \in Image /\ execs[p] \in Seq(Image)
  BY <1>1 DEF Inv, TypeOK, Process, Phases, Loop, InLoop, Current, State, Stops, Stopped
<1>3. a \in Row /\ OfExec(a) /\ a.pid = p /\ a.value = kernel[p].image
  BY <1>2, Rows DEF OfExec, R
<1> HIDE DEF a
<1>4. log' = Append(log, a) /\ pc' = "continue"
  BY <1>1, <1>2, <1>3, LogsOne
<1>5. execs[p] # <<>> /\ kernel[p].image = execs[p][Len(execs[p])] /\ kernel[p].code = None /\ None # "signal"
  BY <1>2, ObserverAssumption DEF Truth, Bare, Inv, Family, State, Code, Gone, Ended, Codes
<1> DEFINE k == Len(execs[p]) - 1
<1>6. k \in Nat /\ k + 1 = Len(execs[p])
  BY <1>2, <1>5, EmptySeq
<1>7. Reads(log, p, execs[p], k)
  <2>1. Unread(p)
    BY <1>2 DEF Unread, State, AtHand
  <2> QED
    BY <1>2, <1>5, <2>1 DEF Truth, Loop, Faithful, Code
<1>8. Reads(log', p, execs[p], Len(execs[p]))
  <2>1. a.value = execs[p][k + 1]
    BY <1>3, <1>5, <1>6
  <2> HIDE DEF k
  <2>2. Reads(log', p, execs[p], k + 1)
    BY <1>2, <1>3, <1>4, <1>6, <1>7, <2>1, ReadsExec
  <2> QED
    BY <1>6, <2>2
<1>9. ASSUME NEW q \in Proc, q # p, NEW e, NEW j, Reads(log, q, e, j) PROVE Reads(log', q, e, j)
  <2>1. /\ Len(log) \in Nat /\ DOMAIN log = 1..Len(log) /\ DOMAIN log' = 1..Len(log) + 1
        /\ log'[Len(log) + 1] = a /\ \A n \in 1..Len(log) : log'[n] = log[n]
    BY <1>2, <1>3, <1>4, Longer
  <2>2. DOMAIN log' = DOMAIN log \cup {Len(log) + 1}
    BY <2>1
  <2>3. ExecsIn(log', q) = ExecsIn(log, q)
    BY <1>3, <1>9, <2>1, <2>2 DEF ExecsIn
  <2>4. \A n \in ExecsIn(log, q) : log'[n] = log[n]
    BY <2>1 DEF ExecsIn
  <2> QED
    BY <1>9, <2>3, <2>4 DEF Reads, Place
<1>10. ~Unread(p)' /\ \A q \in Proc \ {p} : Unread(q)' <=> Unread(q)
  BY <1>1, <1>2, <1>4 DEF Unread, State, AtHand
<1>11. ASSUME NEW q \in Proc, kernel'[q].code # "signal"
       PROVE  Reads(log', q, execs'[q], IF Unread(q)' THEN Len(execs'[q]) - 1 ELSE Len(execs'[q]))
  <2>1. CASE q = p
    BY <1>8, <1>10, <2>1
  <2>2. CASE q # p
    BY <1>1, <1>9, <1>10, <1>11, <2>2 DEF Truth, Loop, Faithful, Code
  <2> QED
    BY <2>1, <2>2
<1>12. \A q \in known' \ {Root} : HasFork(log', q, kernel'[q].parent)
  <2>1. /\ Len(log) \in Nat /\ DOMAIN log = 1..Len(log) /\ DOMAIN log' = 1..Len(log) + 1
        /\ \A n \in 1..Len(log) : log'[n] = log[n]
    BY <1>2, <1>3, <1>4, Longer
  <2>2. DOMAIN log \subseteq DOMAIN log'
    BY <2>1
  <2> QED
    BY <1>1, <2>1, <2>2 DEF Truth, Loop, Faithful, HasFork
<1>13. \A q \in Proc \ known' : kernel'[q].child = None
  BY <1>1 DEF Truth, Loop, Faithful
<1> QED
  BY <1>4, <1>11, <1>12, <1>13 DEF Faithful, Code

LEMMA HandleTruth ==
  ASSUME Inv, Inv', Truth, Handle, UNCHANGED scenario
  PROVE  Truth'
<1> DEFINE p == status.pid
<1>1. /\ pc = "handle" /\ UNCHANGED <<execs, status, error>> /\ p \in Proc
      /\ status.kind \in Stops \cup {"dead"}
      /\ initialStop \subseteq known /\ Root \notin initialStop
      /\ status.kind = "start" => p \notin known \/ p \in initialStop
      /\ status.kind \in Stops \ {"start"} => p \in known \ initialStop
  BY DEF Handle, Inv, TypeOK, Phases, Loop, InLoop, Current, Registry
<1>2. /\ CASE status.kind = "dead" -> Terminal(p)
           [] status.kind # "dead" /\ p = Root /\ p \notin known -> RootStops
           [] status.kind # "dead" /\ p \in initialStop -> ChildStops(p)
           [] status.kind = "start" /\ p \notin known /\ p # Root -> StopsEarly(p)
           [] status.kind = "fork" /\ p \in known -> Forks(p)
           [] status.kind = "exec" /\ p \in known -> Execs(p)
           [] status.kind = "exit" /\ p \in known -> Exits(p)
  BY DEF Handle
<1> HIDE DEF p
<1>3. \/ status.kind = "dead" /\ Terminal(p)
      \/ status.kind \in Stops /\ p = Root /\ p \notin known /\ RootStops
      \/ status.kind \in Stops /\ p \in initialStop /\ ChildStops(p)
      \/ p \notin known /\ StopsEarly(p)
      \/ status.kind = "fork" /\ Forks(p)
      \/ status.kind = "exec" /\ Execs(p)
      \/ status.kind = "exit" /\ Exits(p)
  <2>1. CASE status.kind = "dead"
    BY <1>2, <2>1
  <2>2. CASE status.kind = "start"
    BY <1>1, <1>2, <2>2 DEF Stops
  <2>3. CASE status.kind = "fork"
    BY <1>1, <1>2, <2>3 DEF Stops
  <2>4. CASE status.kind = "exec"
    BY <1>1, <1>2, <2>4 DEF Stops
  <2>5. CASE status.kind = "exit"
    BY <1>1, <1>2, <2>5 DEF Stops
  <2> QED
    BY <1>1, <2>1, <2>2, <2>3, <2>4, <2>5 DEF Stops
<1>4. pc' # "failed" => pc' # "handle" /\ Faithful'
  BY <1>1, <1>3, TerminalFaithful, RootStopsFaithful, ChildStopsFaithful, StopsEarlyFaithful,
     ForksFaithful, ExecsFaithful, ExitsFaithful DEF p
<1>5. pc' \in {"wait", "continue", "failed"}
  BY <1>1, HandleKeeps, InvReady DEF Outcome, Loop
<1>6. \A q \in Proc : /\ kernel'[q].child = kernel[q].child
                      /\ \/ kernel'[q] = kernel[q]
                         \/ kernel'[q].state \in {"dead", "running"} /\ kernel[q].state \in Stops
  <2>1. CASE UNCHANGED kernel
    BY <2>1
  <2>2. CASE ~UNCHANGED kernel
    <3>1. Forks(p) /\ status.kind = "fork"
      BY <1>3, <2>2 DEF Terminal, RootStops, ChildStops, StopsEarly, Execs, Exits
    <3>2. Stopped(p) /\ Stopped(kernel[p].child) /\ kernel' = Continued(kernel[p].child)
      BY <2>2, <3>1 DEF Forks
    <3>3. kernel[p].state = "fork"
      BY <1>1, <3>1, <3>2 DEF p, Inv, Phases, Loop, InLoop, Current, State, Stops, Stopped
    <3>4. kernel[p].child \in Proc
      BY <1>1, <3>3 DEF Inv, TypeOK, Process, Family, State
    <3> QED
      BY <3>2, <3>4, ContinuedDoes DEF Inv, Stopped
  <2> QED
    BY <2>1, <2>2
<1>7. Bare'
  BY <1>1, <1>6 DEF Truth, Bare, State, Stops
<1>8. ~Trusted'
  BY <1>5, NotTrusted DEF Inv, Phases
<1> QED
  BY <1>4, <1>5, <1>7, <1>8 DEF Truth, Loop

\* When the last process is reaped and the log is complete, it says who ran, and
\* that all of them ended well.
LEMMA SealTruth ==
  ASSUME Inv, Inv', Truth, Seal, UNCHANGED scenario
  PROVE  Truth'
<1> DEFINE a == R("archive", None, None, None)
<1>1. /\ pc = "wait" /\ live = {} /\ UNCHANGED <<kernel, execs, known, error, status>>
      /\ IF Complete THEN Logs(<<a>>, "sealed") ELSE pc' = "failed" /\ log' = log
  BY DEF Seal, tracees, registry, Raise
<1>2. Ready /\ Faithful /\ known \subseteq Proc /\ log \in Seq(Row)
  BY <1>1, InvReady DEF Truth, Loop, Inv, TypeOK
<1>3. Bare'
  BY <1>1 DEF Truth, Bare, State
<1>4. ASSUME Complete PROVE AllTrue'
  <2>1. pc' = "sealed" /\ SealedLog'
    BY <1>1, <1>2, <1>4, SealCompletes
  <2>2. a \in Row /\ a.kind = "archive" /\ ~OfExec(a)
    BY Rows DEF R, OfExec
  <2> HIDE DEF a
  <2>3. log' = Append(log, a)
    BY <1>1, <1>2, <1>4, <2>1, <2>2, LogsOne
  <2>4. Keeps(log, log')
    <3>1. <<a>> \in Seq(Row) /\ \A n \in DOMAIN <<a>> : ~OfExec(<<a>>[n])
      BY <2>2, NoExec
    <3> QED
      BY <1>1, <1>2, <1>4, <3>1, LogsKeep
  <2>5. /\ Strangers /\ Registry /\ Says(log, known, pending)
        /\ \A p \in known : HasRow(log, "reap", p)
    BY <1>1, <1>2 DEF Ready, InLoop, Told
  <2>6. Spawned' = known /\ Root \in known
    <3>1. Spawned = known
      BY <1>2, <2>5, KnownAreSpawned DEF Ready
    <3>2. Root \in Spawned'
      BY <2>1 DEF SealedLog
    <3> QED
      BY <1>2, <2>2, <2>3, <3>1, <3>2, SpawnedStays
  <2>7. Proper(log) /\ ~Bad(log)
    <3>1. ~Bad(log)
      BY <1>4 DEF Complete, Exited, Bad
    <3> QED
      BY <2>5, <3>1 DEF Says
  <2>8. ASSUME NEW p \in known
        PROVE  kernel[p].state = "reaped" /\ kernel[p].code = "zero"
    <3>1. PICK n \in DOMAIN log : log[n].kind = "reap" /\ log[n].pid = p
      BY <2>5 DEF HasRow
    <3>2. n \in 2..Len(log) /\ log[n] \in Row
      BY <1>2, <2>5, <3>1 DEF Says, Plain
    <3>3. PICK m \in 1..(n - 1) : log[m] = [log[n] EXCEPT !.kind = "exit"]
      BY <2>7, <3>1, <3>2 DEF Proper, Good
    <3>4. log[m].kind = "exit" /\ log[m].pid = p /\ m \in DOMAIN log
      BY <1>2, <3>1, <3>2, <3>3 DEF Row
    <3>5. log[m].value = pending[p]
      BY <2>5, <3>4 DEF Says, R
    <3>6. HasRow(log, "exit", p)
      BY <3>4 DEF HasRow
    <3>7. pending[p] # None /\ pending[p] \in Codes \cup {None}
      BY <1>2, <2>5, <3>6 DEF Says, Ready, TypeOK
    <3>8. pending[p] \notin {"nonzero", "signal"}
      BY <2>7, <3>4, <3>5 DEF Bad
    <3> QED
      BY <1>1, <1>2, <2>5, <3>7, <3>8 DEF Registry, Codes, State, Code
  <2>9. ASSUME NEW c \in Proc \ known PROVE kernel[c].state = "unborn"
    <3>1. SUFFICES ASSUME kernel[c].state # "unborn" PROVE FALSE
      OBVIOUS
    <3>2. PICK p \in Proc : kernel[p].child = c /\ (Unhandled(p) \/ Code(p) = "signal")
      BY <2>5, <2>6, <3>1 DEF Strangers, State
    <3>3. p \in known
      BY <1>2, <3>2, ObserverAssumption DEF Faithful
    <3> QED
      BY <2>8, <3>2, <3>3 DEF Unhandled, State, Code
  <2>10. ASSUME NEW p \in known
         PROVE  /\ Reads(log', p, execs[p], Len(execs[p]))
                /\ p # Root => HasFork(log', p, kernel[p].parent)
    <3>1. Reads(log, p, execs[p], Len(execs[p]))
      BY <1>2, <2>8, <2>10 DEF Faithful, Unread, State, Code
    <3>2. p # Root => HasFork(log, p, kernel[p].parent)
      BY <1>2 DEF Faithful
    <3> QED
      BY <2>4, <3>1, <3>2 DEF Keeps
  <2> QED
    BY <1>1, <1>2, <2>6, <2>8, <2>9, <2>10 DEF AllTrue, State, Code
<1>5. ASSUME ~Complete PROVE ~Trusted' /\ ~Loop'
  BY <1>1, <1>5, NotTrusted DEF Inv, Phases, Loop
<1>6. Complete => ~Loop'
  BY <1>1, <1>2, SealCompletes DEF Loop
<1> QED
  BY <1>3, <1>4, <1>5, <1>6 DEF Truth

\* Nothing but the place of the observer changes.
LEMMA StandsTruth ==
  ASSUME Truth, UNCHANGED <<kernel, execs, log>>, Trusted' => Trusted,
         Loop' => Loop /\ UNCHANGED <<pc, status, known>>
  PROVE  Truth'
<1>1. Bare'
  BY DEF Truth, Bare, State
<1>2. Loop' => Faithful'
  BY DEF Truth, Faithful, Unread, State, Code, AtHand
<1>3. Trusted' => AllTrue'
  BY DEF Truth, AllTrue, Spawned, State, Code
<1> QED
  BY <1>1, <1>2, <1>3 DEF Truth

LEMMA FailTruth ==
  ASSUME Inv, Inv', Truth, UNCHANGED <<kernel, execs, log>>, pc' = "failed"
  PROVE  Truth'
<1>1. ~Trusted' /\ ~Loop'
  BY NotTrusted DEF Inv, Phases, Loop
<1> QED
  BY <1>1, StandsTruth

LEMMA SealedTruth ==
  ASSUME Truth, Sealed
  PROVE  Truth'
<1>1. UNCHANGED <<kernel, execs, log, error>> /\ pc = "sealed" /\ pc' = "cleanup"
  BY DEF Sealed, Finally, tracees
<1>2. ~Loop' /\ Trusted
  BY <1>1 DEF Loop, Trusted
<1> QED
  BY <1>1, <1>2, StandsTruth

LEMMA RecordErrorTruth ==
  ASSUME Inv, Inv', Truth, RecordError
  PROVE  Truth'
<1>1. UNCHANGED <<kernel, execs>> /\ pc' = "cleanup" /\ error'
  BY DEF RecordError, Finally, tracees
<1>2. ~Trusted' /\ ~Loop'
  BY <1>1, NotTrusted DEF Inv, Phases, Loop
<1>3. Bare'
  BY <1>1 DEF Truth, Bare, State
<1> QED
  BY <1>2, <1>3 DEF Truth

LEMMA KillTruth ==
  ASSUME Inv, Truth, NEW p \in Proc, Kill(p)
  PROVE  Truth'
<1>1. kernel' = Dead({p}) /\ UNCHANGED <<execs, log, error, pc, status, known>>
  BY DEF Kill, registry
<1> QED
  BY <1>1, DeadTruth

LEMMA EndTruth ==
  ASSUME Inv, Truth, End
  PROVE  Truth'
<1> DEFINE a == R("end", None, IF error THEN "failed" ELSE "observed", None)
<1>1. /\ pc = "cleanup" /\ UNCHANGED <<execs, error>> /\ pc' \in {"ended", "abandoned"}
      /\ log' = log \o <<a>> \/ log' = log
      /\ log \in Seq(Row) /\ error \in BOOLEAN
  BY DEF End, Inv, TypeOK
<1>2. a \in Row /\ a.kind = "end" /\ a.value = (IF error THEN "failed" ELSE "observed") /\ ~OfExec(a)
  BY <1>1, Rows DEF R, OfExec
<1> HIDE DEF a
<1>3. /\ \A q \in live : /\ kernel[q].state \in Ended /\ kernel'[q].state = "reaped"
                         /\ kernel'[q].child = kernel[q].child /\ kernel'[q].code = kernel[q].code
                         /\ kernel'[q].parent = kernel[q].parent
      /\ \A q \in Proc \ live : kernel'[q] = kernel[q]
      /\ live \subseteq Proc
  BY EndDoes DEF Inv, TypeOK
<1>4. Bare'
  <2>1. \A q \in Proc : kernel'[q] = kernel[q]
                        \/ (kernel'[q].state = "reaped" /\ kernel'[q].child = kernel[q].child)
    BY <1>3
  <2> QED
    BY <1>1, <2>1 DEF Truth, Bare, State
<1>5. ASSUME Trusted' PROVE AllTrue'
  <2>1. log' = log \o <<a>> /\ ~error
    <3>1. NoEnd
      BY <1>1 DEF Inv, Phases
    <3>2. ~HasEnd
      BY <1>1, <3>1, NoEndOf DEF NoEnd, HasEnd
    <3>3. HasEnd' /\ Last(log').value = "observed"
      BY <1>1, <1>5 DEF Trusted
    <3>4. log' = log \o <<a>>
      BY <1>1, <3>2, <3>3 DEF HasEnd
    <3>5. Last(log') = a
      <4>1. log' = Append(log, a)
        BY <1>1, <1>2, <3>4, AppendIsConcat
      <4>2. Len(log') = Len(log) + 1 /\ log'[Len(log) + 1] = a
        BY <1>1, <1>2, <4>1, Longer
      <4> QED
        BY <4>2 DEF Last
    <3> QED
      BY <1>2, <3>3, <3>4, <3>5
  <2>2. AllTrue
    BY <1>1, <2>1 DEF Truth, Trusted
  <2>3. \A q \in Proc : /\ kernel'[q].state = kernel[q].state /\ kernel'[q].code = kernel[q].code
                        /\ kernel'[q].parent = kernel[q].parent
    BY <1>3, <2>2, AllIdle DEF State, Ended
  <2>4. Keeps(log, log')
    <3>1. <<a>> \in Seq(Row) /\ \A n \in DOMAIN <<a>> : ~OfExec(<<a>>[n])
      BY <1>2, NoExec
    <3> QED
      BY <1>1, <2>1, <3>1, KeepsLonger
  <2>5. Spawned' = Spawned
    <3>1. log' = Append(log, a)
      BY <1>1, <1>2, <2>1, AppendIsConcat
    <3> QED
      BY <1>1, <1>2, <3>1, SpawnedStays
  <2> QED
    BY <1>1, <2>2, <2>3, <2>4, <2>5, TrueStays
<1> QED
  BY <1>1, <1>4, <1>5 DEF Truth, Loop

LEMMA LeaveTruth ==
  ASSUME Inv, Truth, pc \in {"ended", "abandoned"}, Leave
  PROVE  Truth'
<1>1. /\ kernel' = Dead({p \in Proc : p # Root \/ kernel[p].state # "start"})
      /\ UNCHANGED <<execs, log, error>> /\ pc' = "exited" /\ pc # "exited"
  BY DEF Leave
<1> QED
  BY <1>1, DeadTruth

LEMMA AlarmTruth ==
  ASSUME Inv, Inv', Truth, Alarm
  PROVE  Truth'
<1>1. UNCHANGED <<kernel, execs, log>>
  BY DEF Alarm, Finally, tracees
<1>2. CASE pc' = "failed"
  BY <1>1, <1>2, FailTruth
<1>3. CASE pc' = "cleanup" /\ error'
  <2>1. ~Trusted' /\ ~Loop'
    BY <1>3, NotTrusted DEF Inv, Phases, Loop
  <2> QED
    BY <1>1, <2>1, StandsTruth
<1>4. CASE pc' = "abandoned" /\ UNCHANGED error
  <2>1. ~Loop' /\ (Trusted' => Trusted)
    BY <1>1, <1>4 DEF Loop, Trusted, HasEnd
  <2> QED
    BY <1>1, <2>1, StandsTruth
<1> QED
  BY <1>2, <1>3, <1>4 DEF Alarm, Raise, Finally

LEMMA InitTruth == Init => Truth
<1> SUFFICES ASSUME Init PROVE Truth
  OBVIOUS
<1>1. Bare
  BY DEF Init, Bare, State
<1>2. ~Loop /\ ~Trusted
  BY DEF Init, Loop, Trusted, HasEnd
<1> QED
  BY <1>1, <1>2 DEF Truth

LEMMA NextTruth == Inv /\ Inv' /\ Truth /\ [Next]_vars => Truth'
<1> SUFFICES ASSUME Inv, Inv', Truth, [Next]_vars PROVE Truth'
  OBVIOUS
<1>1. CASE UNCHANGED vars
  <2>1. UNCHANGED <<kernel, execs, log, error, pc, status, known>>
    BY <1>1 DEF vars, trace, tracees, registry
  <2>2. (Trusted' => Trusted) /\ (Loop' => Loop)
    BY <2>1 DEF Trusted, HasEnd, Loop
  <2> QED
    BY <2>1, <2>2, StandsTruth
<1>2. CASE /\ pc # "exited" /\ UNCHANGED scenario
           /\ Tracees \/ Observer \/ TimeOut \/ Alarm
  <2>1. CASE Tracees
    <3>1. scenario.images \subseteq Image
      BY ObserverAssumption DEF Inv, TypeOK
    <3>2. ASSUME NEW p \in Proc, Killed(p) PROVE Truth'
      <4>1. kernel' = Dead({p}) /\ UNCHANGED <<execs, log, error, pc, status, known>>
        BY <3>2 DEF Killed, observer, registry
      <4> QED
        BY <4>1, DeadTruth
    <3> QED
      BY <2>1, <3>1, <3>2, ForkTruth, ExecTruth, ExitTruth DEF Tracees
  <2>2. CASE Launch
    BY <2>2, LaunchTruth
  <2>3. CASE \E p \in Proc : WaitPid(p)
    BY <2>3, WaitPidTruth
  <2>4. CASE EventLimitReached \/ TimeOut
    BY <2>4, FailTruth DEF EventLimitReached, TimeOut, Raise, tracees
  <2>5. CASE Handle
    BY <1>2, <2>5, HandleTruth
  <2>6. CASE Continue
    BY <2>6, ContinueTruth
  <2>7. CASE Seal
    BY <1>2, <2>7, SealTruth
  <2>8. CASE Sealed
    BY <2>8, SealedTruth
  <2>9. CASE RecordError
    BY <2>9, RecordErrorTruth
  <2>10. CASE \E p \in Proc : Kill(p)
    BY <2>10, KillTruth
  <2>11. CASE End
    BY <2>11, EndTruth
  <2>12. CASE Finish \/ Abandon
    BY <2>12, LeaveTruth DEF Finish, Abandon
  <2>13. CASE Alarm
    BY <2>13, AlarmTruth
  <2> QED
    BY <1>2, <2>1, <2>2, <2>3, <2>4, <2>5, <2>6, <2>7, <2>8, <2>9, <2>10, <2>11, <2>12, <2>13
       DEF Observer
<1> QED
  BY <1>1, <1>2 DEF Next

\* A log a witness is derived from tells the truth: it names the processes that
\* ran, with their parents and the images they execed, in order, and all of them
\* are gone with code zero; for any processes and any order of the reports.
THEOREM WitnessedIsTrue == Spec => []Sound
<1>1. ASSUME Inv, Truth
      PROVE  Sound
  <2> SUFFICES ASSUME Derives PROVE Sound
    BY DEF Sound
  <2>0. AllTrue
    <3>1. WellFormed
      BY DEF Derives
    <3>2. HasEnd /\ Last(log).value = "observed"
      BY <1>1, <3>1, EmptySeq DEF WellFormed, HasEnd, Inv, TypeOK
    <3> QED
      BY <1>1, <3>2 DEF Truth, Trusted
  <2>1. Spawned = {p \in Proc : kernel[p].state # "unborn"}
    BY <2>0 DEF AllTrue, State
  <2>2. ASSUME NEW p \in Spawned
        PROVE  /\ kernel[p].state = "reaped" /\ kernel[p].code = "zero"
               /\ Cardinality(ExecRows(p)) = Len(execs[p])
               /\ \A n \in ExecRows(p) :
                    log[n].value = execs[p][Cardinality({m \in ExecRows(p) : m <= n})]
               /\ p # Root => R("spawn", p, kernel[p].parent, "fork") \in Range(log)
    <3>1. p \in Proc /\ State(p) # "unborn"
      BY <2>1 DEF State
    <3>2. ExecRows(p) = ExecsIn(log, p)
      BY DEF ExecRows, ExecsIn, OfExec
    <3>3. Reads(log, p, execs[p], Len(execs[p])) /\ (p # Root => HasFork(log, p, kernel[p].parent))
      BY <2>0, <3>1 DEF AllTrue
    <3> QED
      BY <2>0, <3>1, <3>2, <3>3 DEF AllTrue, State, Code, Reads, Place, HasFork, Range
  <2> QED
    BY <2>1, <2>2 DEF Sound
<1> QED
  BY <1>1, InitInv, NextInv, InitTruth, NextTruth, PTL DEF Spec

=============================================================================
