------------------------- MODULE OwnedSnapshot_proof -------------------------
(***************************************************************************)
(* Proofs about the snapshots of a traced tree, for every number of        *)
(* threads and holds, every order of stops, records, commands and          *)
(* acknowledgements, and every fault.                                      *)
(***************************************************************************)
EXTENDS OwnedSnapshot, SequenceTheorems, TLAPS

-----------------------------------------------------------------------------
(***************************************************************************)
(* The queues.                                                             *)
(***************************************************************************)

LEMMA Grown ==
  ASSUME NEW S, NEW s \in Seq(S), NEW x \in S, NEW r, r = Append(s, x)
  PROVE  /\ r \in Seq(S) /\ r # <<>> /\ Len(r) = Len(s) + 1 /\ Len(s) \in Nat
         /\ DOMAIN r = 1..Len(s) + 1 /\ DOMAIN s = 1..Len(s) /\ Len(s) + 1 \in DOMAIN r
         /\ r[Len(s) + 1] = x
         /\ \A i \in DOMAIN s : i \in DOMAIN r /\ r[i] = s[i]
         /\ \A i \in DOMAIN r : i \in DOMAIN s \/ i = Len(s) + 1
<1>1. /\ r \in Seq(S) /\ r # <<>> /\ Len(r) = Len(s) + 1
      /\ \A i \in 1..Len(s) : r[i] = s[i]
      /\ r[Len(s) + 1] = x
  BY AppendProperties
<1>2. Len(s) \in Nat /\ DOMAIN s = 1..Len(s) /\ DOMAIN r = 1..Len(r)
  BY <1>1
<1> QED
  BY <1>1, <1>2

LEMMA Shortened ==
  ASSUME NEW S, NEW s \in Seq(S), s # <<>>, NEW r, r = Tail(s)
  PROVE  /\ r \in Seq(S) /\ Len(r) = Len(s) - 1 /\ Len(s) \in Nat \ {0}
         /\ 1 \in DOMAIN s /\ Head(s) = s[1] /\ Head(s) \in S
         /\ \A i \in DOMAIN r : i + 1 \in DOMAIN s /\ i + 1 # 1 /\ r[i] = s[i + 1] /\ i \in Nat
         /\ \A i \in DOMAIN s : i # 1 => i - 1 \in DOMAIN r /\ r[i - 1] = s[i] /\ i \in Nat
<1>1. /\ Head(s) \in S /\ r \in Seq(S) /\ Len(r) = Len(s) - 1
      /\ \A i \in 1..Len(r) : r[i] = s[i + 1]
  BY HeadTailProperties
<1>2. Len(s) \in Nat \ {0} /\ DOMAIN s = 1..Len(s) /\ DOMAIN r = 1..Len(r) /\ Head(s) = s[1]
  BY <1>1, EmptySeq
<1> QED
  BY <1>1, <1>2

LEMMA Popped ==
  ASSUME NEW S, NEW s \in Seq(S), s # <<>>, NEW r, r = SubSeq(s, 1, Len(s) - 1)
  PROVE  /\ r \in Seq(S) /\ Len(r) = Len(s) - 1 /\ Len(s) \in Nat \ {0}
         /\ Len(s) \in DOMAIN s /\ s[Len(s)] \in S
         /\ \A i \in DOMAIN r : i \in DOMAIN s /\ i # Len(s) /\ r[i] = s[i]
         /\ \A i \in DOMAIN s : i # Len(s) => i \in DOMAIN r
         /\ Len(s) = 1 => r = <<>>
         /\ r = <<>> => Len(s) = 1
<1>1. Len(s) \in Nat \ {0} /\ DOMAIN s = 1..Len(s) /\ \A i \in 1..Len(s) : s[i] \in S
  BY EmptySeq
<1>2. \A i \in 1..Len(s) - 1 : s[i] \in S
  BY <1>1
<1>3. /\ r \in Seq(S) /\ Len(r) = IF 1 <= Len(s) - 1 THEN Len(s) - 1 - 1 + 1 ELSE 0
      /\ \A i \in 1..Len(s) - 1 - 1 + 1 : r[i] = s[1 + i - 1]
  BY <1>1, <1>2, SubSeqProperties
<1>4. Len(r) = Len(s) - 1 /\ DOMAIN r = 1..Len(s) - 1 /\ \A i \in 1..Len(s) - 1 : r[i] = s[i]
  BY <1>1, <1>3
<1>5. Len(s) = 1 <=> r = <<>>
  <2>1. r # <<>> => Len(r) \in Nat \ {0}
    BY <1>3, EmptySeq
  <2>2. r = <<>> => Len(r) = 0
    BY EmptySeq
  <2>3. Len(s) = 1 => Len(r) = 0
    BY <1>4
  <2>4. Len(r) = 0 => Len(s) = 1
    BY <1>1, <1>4
  <2> QED
    BY <2>1, <2>2, <2>3, <2>4
<1> QED
  BY <1>1, <1>3, <1>4, <1>5

-----------------------------------------------------------------------------
(***************************************************************************)
(* The inductive invariant of threads and tracer.                          *)
(***************************************************************************)

Cont == [kind : {"BIRTH", "EXIT", "HELD", "RESUMED"}, tid : Tid \cup {None},
         birth : Tid \cup {None}]

Has(s, kind) == \E i \in DOMAIN s : s[i].kind = kind
Joining == {cont[i].tid : i \in {k \in DOMAIN cont : cont[k].kind = "BIRTH"}}

\* What the tracer waits with: an acknowledgement goes to the last record, and
\* only that of a resume comes after another.
Waiting ==
  /\ cont \in Seq(Cont)
  /\ tpc = "run" => cont = <<>>
  /\ \A i \in DOMAIN cont :
       /\ cont[i].kind = "BIRTH" => /\ cont[i].tid # None /\ cont[i].birth \in joins.stopped
                                    /\ joins.creator[cont[i].birth] # None
       /\ cont[i].kind = "EXIT" => cont[i].tid # None /\ st[cont[i].tid] = "gone"
       /\ i # 1 => cont[i].kind = "RESUMED"

\* A thread has one parent, and nothing is known of it before it is born.
Family ==
  /\ \A t \in Tid : st[t] = "unborn" =>
       /\ t \notin rows \cup joins.stopped
       /\ joins.creator[t] = None
       /\ \A p \in Tid : child[p] # t
  /\ \A t \in Tid : st[t] = "born" =>
       t \notin rows \cup joins.stopped /\ why[t] = "new" /\ ~told[t]
  /\ \A p, q \in Tid : child[p] # None /\ child[p] = child[q] => p = q
  /\ \A p \in Tid : st[p] = "stopped" =>
       /\ why[p] # "none"
       /\ why[p] = "fork" => /\ child[p] # None
                             /\ ~told[p] => joins.creator[child[p]] = None
       /\ why[p] = "new" /\ ~told[p] => p \notin joins.stopped

\* Whose parent has not told of it either waits for the tracer to hear of it, or
\* can no longer be told of.
Ended(p) == st[p] \in {"dead", "gone"}
ToldLater(p) == st[p] = "stopped" /\ why[p] = "fork" /\ ~told[p]
Fresh(c) == st[c] \in {"born", "stopped"} /\ why[c] = "new" /\ joins.creator[c] = None
Parents == \A c \in Tid : Fresh(c) =>
  \E p \in Tid : child[p] = c /\ (Ended(p) \/ ToldLater(p))

\* Who runs is known to the tracer, and whose stop it took is held or about to
\* be, except in a freeze only for a birth that is not joined.
Taken ==
  /\ \A t \in Tid : st[t] = "running" => t \in rows
  /\ \A t \in Tid : st[t] = "stopped" => t \in rows \/ (why[t] = "new" /\ ~told[t])
  /\ \A t \in held \cup Joining : /\ st[t] \in {"stopped", "dead", "gone"}
                                  /\ st[t] = "stopped" => told[t]
  /\ \A t \in Tid : st[t] = "stopped" /\ told[t] => t \in held \cup Joining
  /\ ~freezing => \A t \in held : st[t] = "stopped" => Pending(joins, t)

\* The tracer has said that all are held, and nobody has resumed them.
AllAreHeld == allHeld \/ Has(cont, "HELD")
AtRest(t) == Live(t) => (st[t] = "stopped" /\ told[t]) \/ Overlooked(t)

Quiet ==
  /\ allHeld => ~Has(cont, "HELD")
  /\ AllAreHeld => freezing /\ ~Has(cont, "BIRTH") /\ \A t \in Tid : AtRest(t)
  /\ tpc = "exited" => \A t \in Tid : ~Live(t)

\* A birth on its way to the controller is that of a thread.
Posted == \A i \in DOMAIN toCtl : toCtl[i].kind = "BIRTH" => toCtl[i].tid # None

Traced == TypeOK /\ Waiting /\ Family /\ Parents /\ Taken /\ Quiet /\ Posted

-----------------------------------------------------------------------------
(***************************************************************************)
(* What a stop or an end does to the tracer.                               *)
(***************************************************************************)

\* What the tracer learns from a stop of t.
Learns(t) ==
  /\ joins' \in Joins /\ joins'.acked = joins.acked
  /\ \/ /\ why[t] = "new" /\ joins'.creator = joins.creator
        /\ joins'.stopped = joins.stopped \cup {t} /\ rows' = rows \cup {t}
     \/ /\ why[t] = "fork" /\ child[t] \in Tid
        /\ joins'.creator = [joins.creator EXCEPT ![child[t]] = t]
        /\ joins'.stopped = joins.stopped /\ rows' = rows
     \/ why[t] = "trap" /\ joins' = joins /\ rows' = rows

Holds(t) ==
  /\ freezing \/ Pending(joins', t)
  /\ held' = held \cup {t} /\ UNCHANGED <<st, tpc, cont, tseq, toCtl>>

GoesOn(t) ==
  /\ ~freezing /\ ~Pending(joins', t)
  /\ st' = [st EXCEPT ![t] = "running"] /\ UNCHANGED <<held, tpc, cont, tseq, toCtl>>

\* The joined birth of c is recorded.
Records(c, t) ==
  /\ c \in joins'.stopped /\ joins'.creator[c] # None
  /\ \/ c = t /\ why[t] = "new"
     \/ c = child[t] /\ why[t] = "fork"
  /\ tpc' = "ack" /\ cont' = Append(cont, [kind |-> "BIRTH", tid |-> t, birth |-> c])
  /\ tseq' = tseq + 1
  /\ toCtl' = Append(toCtl, [kind |-> "BIRTH", seq |-> tseq + 1, tid |-> c,
                             creator |-> joins'.creator[c], roster |-> {}])
  /\ UNCHANGED <<st, held>>

Stops(t) ==
  /\ st[t] = "stopped" /\ ~told[t]
  /\ Learns(t)
  /\ Holds(t) \/ GoesOn(t) \/ \E c \in Tid : Records(c, t)

\* An end goes on record, unless nobody knew t, or its birth is not joined.
Vanishes(t) ==
  /\ t \notin rows /\ st' = [st EXCEPT ![t] = "gone"]
  /\ UNCHANGED <<tpc, cont, tseq, toCtl>>

Betrays(t) == t \in rows /\ Pending(joins, t) /\ OwnedFail /\ UNCHANGED <<cont, tseq>>

Leaves(t) ==
  /\ t \in rows /\ ~Pending(joins, t)
  /\ st' = [st EXCEPT ![t] = "gone"] /\ tpc' = "ack"
  /\ cont' = Append(cont, [kind |-> "EXIT", tid |-> t, birth |-> None])
  /\ tseq' = tseq + 1
  /\ toCtl' = Append(toCtl, [kind |-> "EXIT", seq |-> tseq + 1, tid |-> t,
                             creator |-> None, roster |-> {}])

Dies(t) ==
  /\ st[t] = "dead" /\ UNCHANGED <<joins, rows, held>>
  /\ Vanishes(t) \/ Betrays(t) \/ Leaves(t)

LEMMA WaitDoes ==
  ASSUME TypeOK, Family, NEW t \in Tid, Wait(t)
  PROVE  /\ tpc = "run" /\ told' = [told EXCEPT ![t] = TRUE]
         /\ UNCHANGED <<why, child, intr, vforked, freezing, needInterrupt, allHeld, controller, toTracer>>
         /\ Stops(t) \/ Dies(t)
<1>1. /\ st \in [Tid -> {"unborn", "born", "running", "stopped", "dead", "gone"}]
      /\ why[t] \in {"none", "new", "fork", "trap"} /\ told[t] \in BOOLEAN
      /\ child[t] \in Tid \cup {None} /\ joins \in Joins
  BY DEF TypeOK
<1>2. /\ tpc = "run" /\ Waitable(t) /\ told' = [told EXCEPT ![t] = TRUE]
      /\ UNCHANGED <<why, child, intr, vforked, freezing, needInterrupt, allHeld, controller, toTracer>>
  BY DEF Wait
<1>3. CASE st[t] = "dead"
  <2>1. Exits(t)
    BY <1>3 DEF Wait
  <2>5. UNCHANGED <<joins, rows>>
    BY <2>1 DEF Exits
  <2>2. CASE t \notin rows
    <3>1. st' = [st EXCEPT ![t] = "gone"] /\ UNCHANGED <<held, tpc, cont, tseq, toCtl>>
      BY <2>1, <2>2 DEF Exits
    <3> QED
      BY <1>2, <1>3, <2>2, <2>5, <3>1 DEF Dies, Vanishes
  <2>3. CASE t \in rows /\ Pending(joins', t)
    <3>1. OwnedFail /\ UNCHANGED <<held, cont, tseq>>
      BY <2>1, <2>3 DEF Exits
    <3> QED
      BY <1>2, <1>3, <2>3, <2>5, <3>1 DEF Dies, Betrays
  <2>4. CASE t \in rows /\ ~Pending(joins', t)
    <3>1. /\ Send("EXIT", t, {}, [kind |-> "EXIT", tid |-> t, birth |-> None])
          /\ st' = [st EXCEPT ![t] = "gone"] /\ UNCHANGED held
      BY <2>1, <2>4 DEF Exits
    <3> QED
      BY <1>2, <1>3, <2>4, <2>5, <3>1 DEF Dies, Leaves, Send
  <2> QED
    BY <1>2, <2>2, <2>3, <2>4
<1>4. CASE st[t] # "dead"
  <2>1. st[t] = "stopped" /\ ~told[t] /\ why[t] # "none"
    BY <1>2, <1>4 DEF Waitable, Family
  <2>2. Restarted(st, {t}) = [st EXCEPT ![t] = "running"]
    BY <1>1, <2>1 DEF Restarted
  <2>3. /\ joins.creator \in [Tid -> Tid \cup {None}]
        /\ DOMAIN joins = {"creator", "stopped", "acked"}
    BY <1>1 DEF Joins
  <2>4. ASSUME HoldOrRestart(t), UNCHANGED <<tpc, cont, tseq, toCtl>>
        PROVE  Holds(t) \/ GoesOn(t)
    BY <2>2, <2>4 DEF HoldOrRestart, Holds, GoesOn
  <2>5. ASSUME NEW c \in Tid, Join(c, t), UNCHANGED <<st, held>>,
               c \in joins'.stopped, joins'.creator[c] # None,
               (c = t /\ why[t] = "new") \/ (c = child[t] /\ why[t] = "fork")
        PROVE  Records(c, t)
    BY <2>5 DEF Join, Send, Records
  <2>6. CASE why[t] = "new"
    <3>1. ChildStop(t)
      BY <1>4, <2>6 DEF Wait
    <3>2. /\ joins' \in Joins /\ joins'.acked = joins.acked /\ joins'.creator = joins.creator
          /\ joins'.stopped = joins.stopped \cup {t} /\ rows' = rows \cup {t}
      BY <3>1, <2>3, <1>1 DEF ChildStop, Joins
    <3>3. CASE joins.creator[t] # None
      <4>1. Join(t, t) /\ UNCHANGED <<st, held>>
        BY <3>1, <3>3 DEF ChildStop
      <4>2. Records(t, t)
        BY <2>5, <2>6, <3>2, <3>3, <4>1
      <4> QED
        BY <1>2, <2>1, <2>6, <3>2, <4>2 DEF Stops, Learns
    <3>4. CASE joins.creator[t] = None
      <4>1. HoldOrRestart(t) /\ UNCHANGED <<tpc, cont, tseq, toCtl>>
        BY <3>1, <3>4 DEF ChildStop
      <4> QED
        BY <1>2, <2>1, <2>4, <2>6, <3>2, <4>1 DEF Stops, Learns
    <3> QED
      BY <3>3, <3>4
  <2>7. CASE why[t] = "fork"
    <3>1. BirthEvent(t) /\ child[t] \in Tid
      BY <1>1, <1>4, <2>1, <2>7 DEF Wait, Family
    <3>2. /\ joins' \in Joins /\ joins'.acked = joins.acked
          /\ joins'.creator = [joins.creator EXCEPT ![child[t]] = t]
          /\ joins'.stopped = joins.stopped /\ rows' = rows
      BY <3>1, <2>3, <1>1 DEF BirthEvent, Joins
    <3>3. CASE child[t] \in joins.stopped
      <4>1. Join(child[t], t) /\ UNCHANGED <<st, held>>
        BY <3>1, <3>3 DEF BirthEvent
      <4>2. joins'.creator[child[t]] # None
        BY <2>3, <3>1, <3>2, SnapshotAssumption
      <4>3. Records(child[t], t)
        BY <2>5, <2>7, <3>1, <3>2, <3>3, <4>1, <4>2
      <4> QED
        BY <1>2, <2>1, <2>7, <3>1, <3>2, <4>3 DEF Stops, Learns
    <3>4. CASE child[t] \notin joins.stopped
      <4>1. HoldOrRestart(t) /\ UNCHANGED <<tpc, cont, tseq, toCtl>>
        BY <3>1, <3>4 DEF BirthEvent
      <4> QED
        BY <1>2, <2>1, <2>4, <2>7, <3>1, <3>2, <4>1 DEF Stops, Learns
    <3> QED
      BY <3>3, <3>4
  <2>8. CASE why[t] = "trap"
    <3>1. Other(t)
      BY <1>4, <2>8 DEF Wait
    <3> QED
      BY <1>1, <1>2, <2>1, <2>4, <2>8, <3>1 DEF Other, Stops, Learns
  <2> QED
    BY <1>1, <2>1, <2>6, <2>7, <2>8
<1> QED
  BY <1>3, <1>4

-----------------------------------------------------------------------------
(***************************************************************************)
(* Types.                                                                  *)
(***************************************************************************)

States == {"unborn", "born", "running", "stopped", "dead", "gone"}

KernelTypes ==
  /\ st \in [Tid -> States]
  /\ why \in [Tid -> {"none", "new", "fork", "trap"}]
  /\ told \in [Tid -> BOOLEAN] /\ intr \in [Tid -> BOOLEAN]
  /\ child \in [Tid -> Tid \cup {None}] /\ vforked \subseteq Tid

TracerTypes ==
  /\ tpc \in {"run", "ack", "exited"} /\ (tpc = "ack" => cont # <<>>)
  /\ tseq \in Nat /\ rows \subseteq Tid /\ held \subseteq Tid
  /\ joins \in Joins
  /\ joins.acked \subseteq {c \in joins.stopped : joins.creator[c] # None}
  /\ freezing \in BOOLEAN /\ needInterrupt \in BOOLEAN /\ allHeld \in BOOLEAN

ControllerTypes ==
  /\ scenario \in Scenario /\ cseq \in Nat
  /\ cpc \in {"idle", "freezing", "frozen", "sampled", "resuming", "failed",
              "stopping", "stopped", "unproved", "survivor"}
  /\ threads \subseteq births /\ births \subseteq Tid
  /\ hold \in [held : BOOLEAN, resumed : BOOLEAN, roster : SUBSET Tid]
  /\ snapshots \in 0..scenario.holds /\ failure \in BOOLEAN /\ spoiled \in BOOLEAN

ChannelTypes == toCtl \in Seq(Record) /\ toTracer \in Seq(Command)

LEMMA Types == TypeOK <=> KernelTypes /\ TracerTypes /\ ControllerTypes /\ ChannelTypes
BY DEF TypeOK, KernelTypes, TracerTypes, ControllerTypes, ChannelTypes, States

LEMMA TypesAfter ==
  KernelTypes' /\ TracerTypes' /\ ControllerTypes' /\ ChannelTypes' => TypeOK'
BY DEF TypeOK, KernelTypes, TracerTypes, ControllerTypes, ChannelTypes, States

\* What a step cannot change.
LEMMA Untouched ==
  /\ KernelTypes /\ UNCHANGED <<st, why, told, child, intr, vforked>> => KernelTypes'
  /\ TracerTypes /\ UNCHANGED <<tpc, cont, tseq, rows, held, joins, freezing, needInterrupt, allHeld>>
       => TracerTypes'
  /\ ControllerTypes /\ UNCHANGED <<scenario, cpc, cseq, threads, births, hold, snapshots, failure, spoiled>>
       => ControllerTypes'
  /\ ChannelTypes /\ UNCHANGED <<toCtl, toTracer>> => ChannelTypes'
BY DEF KernelTypes, TracerTypes, ControllerTypes, ChannelTypes

LEMMA AllDeadDoes ==
  ASSUME KernelTypes
  PROVE  /\ AllDead \in [Tid -> States]
         /\ \A t \in Tid : AllDead[t] = IF Live(t) THEN "dead" ELSE st[t]
BY DEF KernelTypes, AllDead, States, Live

LEMMA RestartedDoes ==
  ASSUME KernelTypes, NEW ts
  PROVE  /\ Restarted(st, ts) \in [Tid -> States]
         /\ \A t \in Tid : Restarted(st, ts)[t] =
              IF t \in ts /\ st[t] = "stopped" THEN "running" ELSE st[t]
BY DEF KernelTypes, Restarted, States

LEMMA Messages ==
  ASSUME ChannelTypes
  PROVE  /\ \A r \in Record : toCtl' = Append(toCtl, r) /\ toTracer' = toTracer => ChannelTypes'
         /\ toCtl # <<>> => Head(toCtl) \in Record /\ Tail(toCtl) \in Seq(Record)
         /\ toTracer # <<>> => Head(toTracer) \in Command /\ Tail(toTracer) \in Seq(Command)
         /\ \A kind \in {"FREEZE", "RESUME", "ACK"}, n \in Nat :
              /\ [kind |-> kind, n |-> n] \in Command
              /\ Tell(kind, n) => toTracer' \in Seq(Command)
<1>1. toCtl \in Seq(Record) /\ toTracer \in Seq(Command)
  BY DEF ChannelTypes
<1>2. ASSUME NEW r \in Record
      PROVE  Append(toCtl, r) \in Seq(Record)
  BY <1>1, Grown
<1>3. toCtl # <<>> => Head(toCtl) \in Record /\ Tail(toCtl) \in Seq(Record)
  BY <1>1, HeadTailProperties
<1>4. toTracer # <<>> => Head(toTracer) \in Command /\ Tail(toTracer) \in Seq(Command)
  BY <1>1, HeadTailProperties
<1>5. ASSUME NEW kind \in {"FREEZE", "RESUME", "ACK"}, NEW n \in Nat
      PROVE  /\ [kind |-> kind, n |-> n] \in Command
             /\ Tell(kind, n) => toTracer' \in Seq(Command)
  <2> DEFINE c == [kind |-> kind, n |-> n]
  <2>1. c \in Command
    BY DEF Command
  <2> HIDE DEF c
  <2>2. Append(toTracer, c) \in Seq(Command)
    BY <1>1, <2>1, Grown
  <2> QED
    BY <1>1, <2>1, <2>2 DEF Tell, c
<1> QED
  BY <1>1, <1>2, <1>3, <1>4, <1>5 DEF ChannelTypes

\* A failing tracer takes its threads with it.
LEMMA FailTypes ==
  ASSUME TypeOK, OwnedFail
  PROVE  /\ st' \in [Tid -> States] /\ tpc' = "exited"
         /\ toCtl' \in Seq(Record)
<1>1. [kind |-> "ERROR", seq |-> 0, tid |-> None, creator |-> None, roster |-> {}] \in Record
  BY DEF Record, Kinds
<1> QED
  BY <1>1, Types, AllDeadDoes, Grown DEF OwnedFail, ChannelTypes

LEMMA WaitTypes ==
  ASSUME Traced, NEW t \in Tid, Wait(t)
  PROVE  (KernelTypes /\ TracerTypes /\ ChannelTypes)'
<1>1. KernelTypes /\ TracerTypes /\ ChannelTypes
  BY Types DEF Traced
<1>2. /\ tpc = "run" /\ told' = [told EXCEPT ![t] = TRUE]
      /\ UNCHANGED <<why, child, intr, vforked, freezing, needInterrupt, allHeld, controller, toTracer>>
      /\ Stops(t) \/ Dies(t)
  BY WaitDoes DEF Traced
<1>3. told' \in [Tid -> BOOLEAN] /\ toTracer' = toTracer
  BY <1>1, <1>2 DEF KernelTypes
<1>4. st' \in [Tid -> States] => KernelTypes'
  BY <1>1, <1>2, <1>3 DEF KernelTypes
<1>5. [st EXCEPT ![t] = "gone"] \in [Tid -> States] /\ [st EXCEPT ![t] = "running"] \in [Tid -> States]
  BY <1>1 DEF KernelTypes, States
<1>6. tseq \in Nat /\ tseq + 1 \in Nat
  BY <1>1 DEF TracerTypes
<1>7. CASE Stops(t)
  <2>1. /\ joins.creator \in [Tid -> Tid \cup {None}] /\ joins.stopped \subseteq Tid
        /\ joins.acked \subseteq Tid /\ rows \subseteq Tid /\ held \subseteq Tid
        /\ joins.acked \subseteq {c \in joins.stopped : joins.creator[c] # None}
    BY <1>1 DEF TracerTypes, Joins
  <2>2. /\ joins' \in Joins /\ joins'.acked = joins.acked /\ rows' \subseteq Tid
        /\ joins.stopped \subseteq joins'.stopped
        /\ \A c \in Tid : joins.creator[c] # None => joins'.creator[c] # None
    BY <1>7, <2>1, SnapshotAssumption DEF Stops, Learns
  <2>3. joins'.acked \subseteq {c \in joins'.stopped : joins'.creator[c] # None}
    BY <2>1, <2>2
  <2>4. CASE Holds(t) \/ GoesOn(t)
    <3>1. st' \in [Tid -> States] /\ UNCHANGED <<tpc, cont, tseq, toCtl>> /\ held' \subseteq Tid
      BY <1>1, <1>5, <2>1, <2>4 DEF Holds, GoesOn, KernelTypes
    <3> QED
      BY <1>1, <1>2, <1>4, <2>2, <2>3, <3>1 DEF TracerTypes, ChannelTypes
  <2>5. ASSUME NEW c \in Tid, Records(c, t)
        PROVE  (KernelTypes /\ TracerTypes /\ ChannelTypes)'
    <3>1. joins'.creator[c] \in Tid \cup {None}
      BY <2>2 DEF Joins
    <3>2. [kind |-> "BIRTH", seq |-> tseq + 1, tid |-> c, creator |-> joins'.creator[c],
           roster |-> {}] \in Record
      BY <1>6, <3>1 DEF Record, Kinds
    <3>3. ChannelTypes'
      BY <1>1, <1>3, <2>5, <3>2, Messages DEF Records
    <3>4. cont' # <<>>
      <4>1. cont \in Seq(Cont) /\ [kind |-> "BIRTH", tid |-> t, birth |-> c] \in Cont
        BY DEF Traced, Waiting, Cont
      <4> QED
        BY <2>5, <4>1, Grown DEF Records
    <3>5. /\ st' \in [Tid -> States] /\ held' = held /\ tpc' = "ack" /\ tseq' = tseq + 1
      BY <1>1, <2>5 DEF Records, KernelTypes
    <3>6. TracerTypes'
      BY <1>1, <1>2, <1>6, <2>2, <2>3, <3>4, <3>5 DEF TracerTypes
    <3> QED
      BY <1>4, <3>3, <3>5, <3>6
  <2> QED
    BY <1>7, <2>4, <2>5 DEF Stops
<1>8. CASE Dies(t)
  <2>1. UNCHANGED <<joins, rows, held>>
    BY <1>8 DEF Dies
  <2>2. CASE Vanishes(t)
    BY <1>1, <1>2, <1>4, <1>5, <2>1, <2>2 DEF Vanishes, TracerTypes, ChannelTypes
  <2>3. CASE Betrays(t)
    <3>1. st' \in [Tid -> States] /\ tpc' = "exited" /\ toCtl' \in Seq(Record)
      BY <2>3, FailTypes DEF Betrays, Traced
    <3> QED
      BY <1>1, <1>2, <1>4, <2>1, <2>3, <3>1 DEF Betrays, TracerTypes, ChannelTypes
  <2>4. CASE Leaves(t)
    <3>1. [kind |-> "EXIT", seq |-> tseq + 1, tid |-> t, creator |-> None, roster |-> {}] \in Record
      BY <1>6 DEF Record, Kinds
    <3>2. ChannelTypes'
      BY <1>1, <1>3, <2>4, <3>1, Messages DEF Leaves
    <3>3. cont' # <<>>
      <4>1. cont \in Seq(Cont) /\ [kind |-> "EXIT", tid |-> t, birth |-> None] \in Cont
        BY DEF Traced, Waiting, Cont
      <4> QED
        BY <2>4, <4>1, Grown DEF Leaves
    <3>4. st' \in [Tid -> States] /\ tpc' = "ack" /\ tseq' = tseq + 1
      BY <1>5, <2>4 DEF Leaves
    <3>5. TracerTypes'
      BY <1>1, <1>2, <1>6, <2>1, <3>3, <3>4 DEF TracerTypes
    <3> QED
      BY <1>4, <3>2, <3>4, <3>5
  <2> QED
    BY <1>8, <2>2, <2>3, <2>4 DEF Dies
<1> QED
  BY <1>2, <1>7, <1>8

-----------------------------------------------------------------------------
(***************************************************************************)
(* What a command and an acknowledgement do to the tracer.                 *)
(***************************************************************************)

Freezes ==
  /\ Head(toTracer).kind = "FREEZE" /\ ~freezing
  /\ freezing' = TRUE /\ needInterrupt' = TRUE
  /\ UNCHANGED <<st, held, allHeld, tpc, cont, tseq, toCtl>>

Resumes == Head(toTracer).kind = "RESUME" /\ allHeld /\ Resume

Refuses ==
  /\ Head(toTracer).kind = "FREEZE" => freezing
  /\ Head(toTracer).kind = "RESUME" => ~allHeld
  /\ OwnedFail /\ UNCHANGED <<held, freezing, needInterrupt, allHeld, cont, tseq>>

LEMMA TakeCommandDoes ==
  ASSUME TakeCommand
  PROVE  /\ tpc \in {"run", "ack"} /\ toTracer # <<>> /\ toTracer' = Tail(toTracer)
         /\ ~(tpc = "ack" /\ Head(toTracer) = [kind |-> "ACK", n |-> tseq])
         /\ UNCHANGED <<why, told, child, intr, vforked, rows, joins, controller>>
         /\ Freezes \/ Resumes \/ Refuses
<1>1. CASE Head(toTracer).kind = "FREEZE" /\ ~freezing
  BY <1>1 DEF TakeCommand, Freezes
<1>2. CASE Head(toTracer).kind = "RESUME" /\ allHeld
  BY <1>2 DEF TakeCommand, Resumes
<1>3. CASE /\ ~(Head(toTracer).kind = "FREEZE" /\ ~freezing)
           /\ ~(Head(toTracer).kind = "RESUME" /\ allHeld)
  BY <1>3 DEF TakeCommand, Refuses
<1> QED
  BY <1>1, <1>2, <1>3

\* The last of what the tracer waits with.
Last == cont[Len(cont)]

AckBirth == Last.kind = "BIRTH" /\ BirthAcked(Last.birth, Last.tid)
AckExit == Last.kind = "EXIT" /\ rows' = rows \ {Last.tid} /\ UNCHANGED <<joins, st, held, allHeld>>
AckHeld == Last.kind = "HELD" /\ allHeld' = TRUE /\ UNCHANGED <<joins, st, held, rows>>
AckResumed == Last.kind = "RESUMED" /\ UNCHANGED <<joins, st, held, rows, allHeld>>

LEMMA TakeAckDoes ==
  ASSUME TypeOK, Waiting, TakeAck
  PROVE  /\ tpc = "ack" /\ toTracer # <<>> /\ Head(toTracer) = [kind |-> "ACK", n |-> tseq]
         /\ toTracer' = Tail(toTracer)
         /\ cont # <<>> /\ cont' = SubSeq(cont, 1, Len(cont) - 1)
         /\ tpc' = IF Len(cont) = 1 THEN "run" ELSE "ack"
         /\ Last \in Cont
         /\ UNCHANGED <<why, told, child, intr, vforked, tseq, freezing, needInterrupt, controller, toCtl>>
         /\ AckBirth \/ AckExit \/ AckHeld \/ AckResumed
<1>1. tpc = "ack" /\ cont # <<>> /\ cont \in Seq(Cont)
  BY DEF TakeAck, TypeOK, Waiting
<1>2. Last \in Cont
  BY <1>1, Popped DEF Last
<1>3. Last.kind \in {"BIRTH", "EXIT", "HELD", "RESUMED"}
  BY <1>2 DEF Cont
<1>4. AckBirth \/ AckExit \/ AckHeld \/ AckResumed
  <2>1. CASE Last.kind = "BIRTH"
    BY <2>1 DEF TakeAck, AckBirth, Last
  <2>2. CASE Last.kind = "EXIT"
    BY <2>2 DEF TakeAck, AckExit, Last
  <2>3. CASE Last.kind = "HELD"
    BY <2>3 DEF TakeAck, AckHeld, Last
  <2>4. CASE Last.kind = "RESUMED"
    BY <2>4 DEF TakeAck, AckResumed, Last
  <2> QED
    BY <1>3, <2>1, <2>2, <2>3, <2>4
<1> QED
  BY <1>1, <1>2, <1>4 DEF TakeAck

-----------------------------------------------------------------------------
(***************************************************************************)
(* Types of the other steps.                                               *)
(***************************************************************************)

LEMMA KernelStepTypes ==
  ASSUME TypeOK, UNCHANGED scenario, Threads \/ Kernel
  PROVE  TypeOK'
<1>1. KernelTypes /\ TracerTypes /\ ControllerTypes /\ ChannelTypes
  BY Types
<1>2. KernelTypes /\ UNCHANGED <<tracer, controller, channel>> /\ KernelTypes' => TypeOK'
  BY <1>1, TypesAfter, Untouched DEF tracer, controller, channel
<1>3. ASSUME NEW p \in Tid, NEW c \in Tid, Fork(p, c)
      PROVE  TypeOK'
  <2>1. st' \in [Tid -> States] /\ why' \in [Tid -> {"none", "new", "fork", "trap"}]
    BY <1>1, <1>3 DEF Fork, KernelTypes, States
  <2>2. told' \in [Tid -> BOOLEAN] /\ intr' \in [Tid -> BOOLEAN] /\ child' \in [Tid -> Tid \cup {None}]
    BY <1>1, <1>3 DEF Fork, KernelTypes
  <2>3. vforked' \subseteq Tid
    BY <1>1, <1>3 DEF Fork, KernelTypes
  <2> QED
    BY <1>1, <1>2, <1>3, <2>1, <2>2, <2>3 DEF Fork, KernelTypes
<1>4. ASSUME NEW t \in Tid, Trap(t) \/ FirstStop(t)
      PROVE  TypeOK'
  <2>1. KernelTypes'
    BY <1>1, <1>4 DEF Trap, FirstStop, KernelTypes, States
  <2> QED
    BY <1>1, <1>2, <1>4, <2>1 DEF Trap, FirstStop
<1>5. ASSUME NEW t \in Tid, Exit(t) \/ Killed(t)
      PROVE  TypeOK'
  <2>1. KernelTypes'
    BY <1>1, <1>5 DEF Exit, Killed, KernelTypes, States
  <2> QED
    BY <1>1, <1>2, <1>5, <2>1 DEF Exit, Killed
<1>6. ASSUME NEW t \in Tid, Release(t)
      PROVE  TypeOK'
  <2>1. KernelTypes'
    BY <1>1, <1>6 DEF Release, KernelTypes
  <2> QED
    BY <1>1, <1>2, <1>6, <2>1 DEF Release
<1> QED
  BY <1>3, <1>4, <1>5, <1>6 DEF Threads, Kernel

LEMMA TracerStepTypes ==
  ASSUME Traced, UNCHANGED scenario, Tracer
  PROVE  TypeOK'
<1>1. KernelTypes /\ TracerTypes /\ ControllerTypes /\ ChannelTypes /\ cont \in Seq(Cont)
  BY Types DEF Traced, Waiting
<1>2. tseq \in Nat /\ tseq + 1 \in Nat
  BY <1>1 DEF TracerTypes
<1>3. UNCHANGED controller => ControllerTypes'
  BY <1>1, Untouched DEF controller
<1>4. ASSUME NEW t \in Tid, Wait(t)
      PROVE  TypeOK'
  <2>1. (KernelTypes /\ TracerTypes /\ ChannelTypes)'
    BY <1>4, WaitTypes
  <2> QED
    BY <1>3, <1>4, <2>1, TypesAfter DEF Wait
<1>5. CASE Interrupt
  <2>1. KernelTypes'
    BY <1>1, <1>5 DEF Interrupt, KernelTypes
  <2>2. TracerTypes' /\ ChannelTypes'
    BY <1>1, <1>5 DEF Interrupt, TracerTypes, ChannelTypes, channel
  <2> QED
    BY <1>3, <1>5, <2>1, <2>2, TypesAfter DEF Interrupt
<1>6. CASE TryHeld
  <2> DEFINE r == [kind |-> "HELD", seq |-> tseq + 1, tid |-> None, creator |-> None, roster |-> rows]
             k == [kind |-> "HELD", tid |-> None, birth |-> None]
  <2>1. r \in Record /\ k \in Cont
    BY <1>1, <1>2 DEF Record, Kinds, Cont, TracerTypes
  <2>2. tseq' = tseq + 1 /\ tpc' = "ack" /\ cont' = Append(cont, k) /\ toCtl' = Append(toCtl, r)
    BY <1>6 DEF TryHeld, Send
  <2>3. UNCHANGED <<kernel, rows, held, joins, freezing, needInterrupt, allHeld, controller, toTracer>>
    BY <1>6 DEF TryHeld
  <2> HIDE DEF r, k
  <2>4. cont' # <<>> /\ ChannelTypes'
    BY <1>1, <2>1, <2>2, <2>3, Grown, Messages
  <2>5. KernelTypes' /\ TracerTypes'
    BY <1>1, <1>2, <2>2, <2>3, <2>4, Untouched DEF TracerTypes, kernel
  <2> QED
    BY <1>3, <2>3, <2>4, <2>5, TypesAfter
<1>7. CASE TakeCommand
  <2>1. /\ tpc \in {"run", "ack"} /\ toTracer # <<>> /\ toTracer' = Tail(toTracer)
        /\ UNCHANGED <<why, told, child, intr, vforked, rows, joins, controller>>
        /\ Freezes \/ Resumes \/ Refuses
    BY <1>7, TakeCommandDoes
  <2>2. toTracer' \in Seq(Command)
    BY <1>1, <2>1, Messages
  <2>3. CASE Freezes
    BY <1>1, <1>3, <2>1, <2>2, <2>3, TypesAfter DEF Freezes, KernelTypes, TracerTypes, ChannelTypes
  <2>4. CASE Resumes
    <3> DEFINE r == [kind |-> "RESUMED", seq |-> tseq + 1, tid |-> None, creator |-> None, roster |-> {}]
               k == [kind |-> "RESUMED", tid |-> None, birth |-> None]
    <3>1. r \in Record /\ k \in Cont
      BY <1>1, <1>2 DEF Record, Kinds, Cont
    <3>2. tseq' = tseq + 1 /\ tpc' = "ack" /\ cont' = Append(cont, k) /\ toCtl' = Append(toCtl, r)
      BY <2>4 DEF Resumes, Resume, Send
    <3>3. /\ st' = Restarted(st, rows) /\ held' = held \ rows
          /\ freezing' = FALSE /\ allHeld' = FALSE /\ UNCHANGED needInterrupt
      BY <2>4 DEF Resumes, Resume
    <3> HIDE DEF r, k
    <3>4. cont' # <<>> /\ toCtl' \in Seq(Record)
      BY <1>1, <3>1, <3>2, Grown DEF ChannelTypes
    <3>5. st' \in [Tid -> States]
      BY <1>1, <3>3, RestartedDoes
    <3>6. KernelTypes' /\ TracerTypes'
      BY <1>1, <1>2, <2>1, <3>2, <3>3, <3>4, <3>5 DEF KernelTypes, TracerTypes
    <3> QED
      BY <1>3, <2>1, <2>2, <3>4, <3>6, TypesAfter DEF ChannelTypes
  <2>5. CASE Refuses
    <3>1. /\ st' \in [Tid -> States] /\ tpc' = "exited" /\ toCtl' \in Seq(Record)
          /\ UNCHANGED <<held, freezing, needInterrupt, allHeld, cont, tseq>>
      BY <2>5, FailTypes DEF Refuses, Traced
    <3> QED
      BY <1>1, <1>3, <2>1, <2>2, <3>1, TypesAfter DEF KernelTypes, TracerTypes, ChannelTypes
  <2> QED
    BY <2>1, <2>3, <2>4, <2>5
<1>8. CASE TakeAck
  <2>1. /\ toTracer # <<>> /\ toTracer' = Tail(toTracer)
        /\ cont # <<>> /\ cont' = SubSeq(cont, 1, Len(cont) - 1)
        /\ tpc' = IF Len(cont) = 1 THEN "run" ELSE "ack"
        /\ Last \in Cont
        /\ UNCHANGED <<why, told, child, intr, vforked, tseq, freezing, needInterrupt, controller, toCtl>>
        /\ AckBirth \/ AckExit \/ AckHeld \/ AckResumed
    BY <1>8, TakeAckDoes DEF Traced
  <2>2. toTracer' \in Seq(Command)
    BY <1>1, <2>1, Messages
  <2>3. tpc' \in {"run", "ack", "exited"} /\ (tpc' = "ack" => cont' # <<>>)
    BY <1>1, <2>1, Popped
  <2>4. CASE AckBirth
    <3> DEFINE c == Last.birth
               t == Last.tid
    <3>1. t \in Tid /\ c \in joins.stopped /\ joins.creator[c] # None
      BY <1>1, <2>1, <2>4, Popped DEF AckBirth, Last, Cont, Traced, Waiting
    <3>2. /\ joins' = [joins EXCEPT !.acked = @ \cup {c}] /\ UNCHANGED <<rows, allHeld>>
          /\ \E free : /\ free \subseteq held \cup {t} /\ st' = Restarted(st, free)
                       /\ held' = (held \cup {t}) \ free
      <4>1. BirthAcked(c, t)
        BY <2>4 DEF AckBirth
      <4> HIDE DEF c, t
      <4> DEFINE now == [joins EXCEPT !.acked = @ \cup {c}]
                 free == IF freezing THEN {} ELSE {u \in (held \cap rows) \cup {t} : ~Pending(now, u)}
      <4>2. /\ joins' = now /\ st' = Restarted(st, free)
            /\ held' = (held \cup {t}) \ free /\ UNCHANGED <<rows, allHeld>>
        BY <4>1 DEF BirthAcked
      <4>3. free \subseteq held \cup {t}
        OBVIOUS
      <4> QED
        BY <4>2, <4>3
    <3> HIDE DEF c, t
    <3>3. /\ joins' \in Joins /\ joins'.stopped = joins.stopped /\ joins'.creator = joins.creator
          /\ joins'.acked = joins.acked \cup {c}
      BY <1>1, <3>1, <3>2 DEF TracerTypes, Joins
    <3>4. joins'.acked \subseteq {d \in joins'.stopped : joins'.creator[d] # None}
      BY <1>1, <3>1, <3>3 DEF TracerTypes
    <3>5. st' \in [Tid -> States] /\ held' \subseteq Tid
      BY <1>1, <3>1, <3>2, RestartedDoes DEF TracerTypes
    <3>6. KernelTypes' /\ TracerTypes'
      BY <1>1, <2>1, <2>3, <3>2, <3>3, <3>4, <3>5 DEF KernelTypes, TracerTypes
    <3> QED
      BY <1>1, <1>3, <2>1, <2>2, <3>6, TypesAfter DEF ChannelTypes
  <2>5. CASE AckExit \/ AckHeld \/ AckResumed
    <3>1. KernelTypes' /\ TracerTypes'
      BY <1>1, <2>1, <2>3, <2>5 DEF AckExit, AckHeld, AckResumed, KernelTypes, TracerTypes
    <3> QED
      BY <1>1, <1>3, <2>1, <2>2, <3>1, TypesAfter DEF ChannelTypes
  <2> QED
    BY <2>1, <2>4, <2>5
<1>9. CASE TracerEnds
  <2>1. TracerTypes'
    BY <1>1, <1>9 DEF TracerEnds, TracerTypes
  <2> QED
    BY <1>1, <1>3, <1>9, <2>1, TypesAfter, Untouched DEF TracerEnds, kernel, channel
<1> QED
  BY <1>4, <1>5, <1>6, <1>7, <1>8, <1>9 DEF Tracer

\* What of the controller a step of it may change, and the channel.
LEMMA ControllerStepTypes ==
  ASSUME Traced, UNCHANGED scenario, Controller \/ Freeze \/ Expire \/ GiveUp
  PROVE  TypeOK'
<1>1. KernelTypes /\ TracerTypes /\ ControllerTypes /\ ChannelTypes
  BY Types DEF Traced
<1>2. scenario.holds \in Nat /\ snapshots \in Nat
  BY <1>1, SnapshotAssumption DEF ControllerTypes
<1>3. UNCHANGED <<kernel, tracer, channel>> /\ ControllerTypes' => TypeOK'
  BY <1>1, TypesAfter, Untouched DEF kernel, tracer, channel
<1>4. CASE Receive
  <2> DEFINE r == Head(toCtl)
  <2>1. toCtl # <<>> /\ toCtl' = Tail(toCtl) /\ UNCHANGED <<kernel, tracer, snapshots, spoiled>>
    BY <1>4 DEF Receive
  <2>2. r \in Record /\ toCtl' \in Seq(Record)
    BY <1>1, <2>1, Messages
  <2>3. KernelTypes' /\ TracerTypes'
    BY <1>1, <2>1, Untouched DEF kernel, tracer
  <2>4. CASE Acceptable(r)
    <3>1. Apply(r) /\ UNCHANGED <<cpc, failure>>
      BY <1>4, <2>4 DEF Receive
    <3> HIDE DEF r
    <3>2. /\ cseq' = r.seq /\ Tell("ACK", r.seq)
          /\ threads' = CASE r.kind = "BIRTH" -> threads \cup {r.tid}
                          [] r.kind = "EXIT" -> threads \ {r.tid}
                          [] OTHER -> threads
          /\ births' = IF r.kind = "BIRTH" THEN births \cup {r.tid} ELSE births
          /\ hold' = CASE r.kind = "HELD" -> [hold EXCEPT !.held = TRUE, !.roster = r.roster]
                       [] r.kind = "RESUMED" -> [hold EXCEPT !.resumed = TRUE]
                       [] OTHER -> hold
      BY <3>1 DEF Apply
    <3>3. r.seq \in Nat /\ r.roster \subseteq Tid /\ toTracer' \in Seq(Command)
      <4>1. r.seq \in Nat /\ r.roster \subseteq Tid
        BY <2>2 DEF Record
      <4> QED
        BY <1>1, <3>2, <4>1, Messages
    <3>4. r.kind = "BIRTH" => r.tid \in Tid
      <4>1. toCtl \in Seq(Record)
        BY <1>1 DEF ChannelTypes
      <4>2. 1 \in DOMAIN toCtl /\ r = toCtl[1]
        BY <2>1, <4>1, Shortened DEF r
      <4> QED
        BY <2>2, <4>2 DEF Record, Traced, Posted
    <3>5. hold' \in [held : BOOLEAN, resumed : BOOLEAN, roster : SUBSET Tid]
      <4>1. hold \in [held : BOOLEAN, resumed : BOOLEAN, roster : SUBSET Tid]
        BY <1>1 DEF ControllerTypes
      <4>2. /\ [hold EXCEPT !.held = TRUE, !.roster = r.roster]
                 \in [held : BOOLEAN, resumed : BOOLEAN, roster : SUBSET Tid]
            /\ [hold EXCEPT !.resumed = TRUE] \in [held : BOOLEAN, resumed : BOOLEAN, roster : SUBSET Tid]
        BY <3>3, <4>1
      <4> QED
        BY <3>2, <4>1, <4>2
    <3>6. threads' \subseteq births' /\ births' \subseteq Tid
      <4>0. threads \subseteq births /\ births \subseteq Tid
        BY <1>1 DEF ControllerTypes
      <4>1. CASE r.kind = "BIRTH"
        <5>1. threads' = threads \cup {r.tid} /\ births' = births \cup {r.tid}
          BY <3>2, <4>1
        <5> QED
          BY <3>4, <4>0, <4>1, <5>1
      <4>2. CASE r.kind # "BIRTH"
        <5>1. threads' \subseteq threads /\ births' = births
          BY <3>2, <4>2
        <5> QED
          BY <4>0, <5>1
      <4> QED
        BY <4>1, <4>2
    <3>7. ControllerTypes'
      BY <1>1, <2>1, <3>1, <3>2, <3>3, <3>5, <3>6 DEF ControllerTypes
    <3> QED
      BY <2>2, <2>3, <3>3, <3>7, TypesAfter DEF ChannelTypes
  <2>5. CASE ~Acceptable(r)
    <3>1. Fails /\ UNCHANGED <<cseq, threads, births, hold, toTracer>>
      BY <1>4, <2>5 DEF Receive
    <3>2. ControllerTypes' /\ ChannelTypes'
      BY <1>1, <2>1, <2>2, <3>1 DEF Fails, ControllerTypes, ChannelTypes
    <3> QED
      BY <2>3, <3>2, TypesAfter
  <2> QED
    BY <2>4, <2>5
<1>5. CASE Freeze
  <2>1. KernelTypes' /\ TracerTypes' /\ snapshots' = snapshots + 1 /\ snapshots + 1 \in Nat
    BY <1>1, <1>2, <1>5, Untouched DEF Freeze, kernel, tracer
  <2>2. ChannelTypes'
    BY <1>1, <1>5, <2>1, Messages DEF Freeze, ChannelTypes
  <2>3. snapshots' \in 0..scenario.holds
    BY <1>2, <1>5 DEF Freeze
  <2>4. hold' \in [held : BOOLEAN, resumed : BOOLEAN, roster : SUBSET Tid]
    BY <1>5 DEF Freeze
  <2>5. ControllerTypes'
    BY <1>1, <1>5, <2>3, <2>4 DEF Freeze, Fails, ControllerTypes
  <2> QED
    BY <2>1, <2>2, <2>5, TypesAfter
<1>6. CASE SendResume
  <2>1. KernelTypes' /\ TracerTypes' /\ ControllerTypes'
    BY <1>1, <1>6, Untouched DEF SendResume, Fails, kernel, tracer, ControllerTypes
  <2>2. ChannelTypes'
    BY <1>1, <1>2, <1>6, Messages DEF SendResume, ChannelTypes
  <2> QED
    BY <2>1, <2>2, TypesAfter
<1>7. CASE Held \/ Sample \/ Resumed \/ Stop \/ Stopped \/ Expire \/ GiveUp
  <2>1. UNCHANGED <<kernel, tracer, channel>>
    BY <1>7 DEF Held, Sample, Resumed, Stop, Stopped, Expire, GiveUp
  <2>2. ControllerTypes'
    BY <1>1, <1>7 DEF Held, Sample, Resumed, Stop, Stopped, Expire, GiveUp, Fails, ControllerTypes
  <2> QED
    BY <1>3, <2>1, <2>2
<1>8. ASSUME NEW t \in Tid, Signal(t)
      PROVE  TypeOK'
  <2>1. KernelTypes'
    BY <1>1, <1>8 DEF Signal, KernelTypes, States
  <2> QED
    BY <1>1, <1>8, <2>1, TypesAfter, Untouched DEF Signal, tracer, controller, channel
<1>9. CASE SignalTracer
  <2>1. st' \in [Tid -> States]
    BY <1>1, <1>9, AllDeadDoes DEF SignalTracer
  <2>2. KernelTypes' /\ TracerTypes'
    BY <1>1, <1>9, <2>1 DEF SignalTracer, KernelTypes, TracerTypes
  <2> QED
    BY <1>1, <1>9, <2>2, TypesAfter, Untouched DEF SignalTracer, controller, channel
<1> QED
  BY <1>4, <1>5, <1>6, <1>7, <1>8, <1>9 DEF Controller

-----------------------------------------------------------------------------
(***************************************************************************)
(* The invariant of threads and tracer is preserved.                       *)
(***************************************************************************)

Core == Waiting /\ Family /\ Parents /\ Taken /\ Quiet

LEMMA PostedMore ==
  ASSUME ChannelTypes, Posted, NEW r \in Record, r.kind = "BIRTH" => r.tid # None,
         toCtl' = Append(toCtl, r)
  PROVE  Posted'
<1>1. toCtl \in Seq(Record)
  BY DEF ChannelTypes
<1>2. /\ \A i \in DOMAIN toCtl' : i \in DOMAIN toCtl \/ i = Len(toCtl) + 1
      /\ \A i \in DOMAIN toCtl : toCtl'[i] = toCtl[i]
      /\ toCtl'[Len(toCtl) + 1] = r
  BY <1>1, Grown
<1> QED
  BY <1>2 DEF Posted

LEMMA PostedLess ==
  ASSUME ChannelTypes, Posted, toCtl # <<>>, toCtl' = Tail(toCtl)
  PROVE  Posted'
<1>1. toCtl \in Seq(Record)
  BY DEF ChannelTypes
<1>2. \A i \in DOMAIN toCtl' : i + 1 \in DOMAIN toCtl /\ toCtl'[i] = toCtl[i + 1]
  BY <1>1, Shortened
<1> QED
  BY <1>2 DEF Posted

\* The first that the tracer waits with.
LEMMA First ==
  ASSUME cont = <<>>, NEW k \in Cont, cont' = Append(cont, k)
  PROVE  cont' \in Seq(Cont) /\ DOMAIN cont' = {1} /\ cont'[1] = k /\ cont' # <<>> /\ Len(cont') = 1
<1>1. cont \in Seq(Cont) /\ Len(cont) = 0
  BY EmptySeq
<1>2. /\ cont' \in Seq(Cont) /\ cont' # <<>> /\ Len(cont') = 0 + 1 /\ DOMAIN cont' = 1..0 + 1
      /\ cont'[0 + 1] = k
  BY <1>1, Grown
<1> QED
  BY <1>2

\* Threads may die in any step, and take the tracer with them.
Dying ==
  /\ \A t \in Tid : st'[t] = st[t] \/ (Live(t) /\ st'[t] = "dead")
  /\ \A t \in Tid : st[t] \in {"born", "stopped"} => told'[t] = told[t]
  /\ UNCHANGED <<why, child, cont, rows, held, joins, freezing, allHeld>>
  /\ tpc' \in {tpc, "exited"}
  /\ tpc' = "exited" => \A t \in Tid : st'[t] \notin {"born", "running", "stopped"}

LEMMA Waits ==
  ASSUME Waiting
  PROVE  /\ \A i \in DOMAIN cont : cont[i] \in Cont /\ cont[i].tid \in Tid \cup {None}
         /\ \A t \in Joining : t \in Tid
<1>1. ASSUME NEW i \in DOMAIN cont
      PROVE  cont[i] \in Cont
  <2>1. cont \in Seq(Cont)
    BY DEF Waiting
  <2> HIDE DEF Waiting
  <2> QED
    BY <1>1, <2>1
<1>2. \A i \in DOMAIN cont : cont[i].tid \in Tid \cup {None}
  BY <1>1 DEF Cont
<1>3. \A t \in Joining : t \in Tid
  BY <1>2 DEF Joining, Waiting
<1> QED
  BY <1>1, <1>2, <1>3

LEMMA DyingKeeps ==
  ASSUME TypeOK, Core, Dying
  PROVE  Core'
<1>1. /\ \A t \in Tid : st'[t] = st[t] \/ (st[t] \in {"born", "running", "stopped"} /\ st'[t] = "dead")
      /\ \A t \in Tid : st[t] \in {"born", "stopped"} => told'[t] = told[t]
      /\ UNCHANGED <<why, child, cont, rows, held, joins, freezing, allHeld>>
      /\ tpc' \in {tpc, "exited"}
      /\ tpc' = "exited" => \A t \in Tid : st'[t] \notin {"born", "running", "stopped"}
  BY DEF Dying, Live
<1>2. Waiting /\ Family /\ Parents /\ Taken /\ Quiet
  BY DEF Core
<1>3. rows \subseteq Tid /\ held \subseteq Tid /\ child \in [Tid -> Tid \cup {None}]
  BY DEF TypeOK
<1>4. \A i \in DOMAIN cont : cont[i].tid \in Tid \cup {None}
  BY <1>2, Waits
<1>5. Waiting'
  BY <1>1, <1>2, <1>4 DEF Waiting
<1>6. Family'
  BY <1>1, <1>2, <1>3 DEF Family
<1>14. Parents'
  <2> SUFFICES ASSUME NEW c \in Tid, Fresh(c)'
               PROVE  \E p \in Tid : child[p] = c /\ (Ended(p) \/ ToldLater(p))'
    BY <1>1 DEF Parents
  <2>1. PICK p \in Tid : child[p] = c /\ (Ended(p) \/ ToldLater(p))
    BY <1>1, <1>2 DEF Parents, Fresh
  <2> QED
    BY <1>1, <2>1 DEF Ended, ToldLater
<1>7. Joining' = Joining /\ Joining \subseteq Tid \cup {None}
  BY <1>1, <1>4 DEF Joining
<1>8. \A t \in held \cup Joining : t \in Tid
  BY <1>2, <1>3, Waits
<1>9. \A t : Pending(joins', t) <=> Pending(joins, t)
  BY <1>1
<1>10. Taken'
  BY <1>1, <1>2, <1>7, <1>8, <1>9 DEF Taken
<1>11. Has(cont, "HELD")' = Has(cont, "HELD") /\ Has(cont, "BIRTH")' = Has(cont, "BIRTH")
  BY <1>1 DEF Has
<1>12. AllAreHeld' = AllAreHeld
  BY <1>1, <1>11 DEF AllAreHeld
<1>15. ASSUME NEW t \in Tid, AtRest(t)
       PROVE  AtRest(t)'
  BY <1>1, <1>15 DEF AtRest, Live, Overlooked
<1>13. Quiet'
  BY <1>1, <1>2, <1>11, <1>12, <1>15 DEF Quiet, Live
<1> QED
  BY <1>5, <1>6, <1>10, <1>13, <1>14 DEF Core

\* Steps that are none of the threads' nor of the tracer's change nothing of it.
LEMMA SteadyKeeps ==
  ASSUME TypeOK, Core,
         UNCHANGED <<st, why, told, child, tpc, cont, rows, held, joins, freezing, allHeld>>
  PROVE  Core'
<1>1. Dying
  BY DEF Dying, Core, Quiet, Live
<1> QED
  BY <1>1, DyingKeeps

\* A thread that runs stops, and a fork brings its child.
LEMMA KernelKeeps ==
  ASSUME TypeOK, Core, Threads \/ Kernel
  PROVE  Core'
<1>1. /\ st \in [Tid -> States] /\ told \in [Tid -> BOOLEAN] /\ child \in [Tid -> Tid \cup {None}]
      /\ why \in [Tid -> {"none", "new", "fork", "trap"}]
      /\ rows \subseteq Tid /\ held \subseteq Tid
  BY DEF TypeOK, States
<1>2. Waiting /\ Family /\ Parents /\ Taken /\ Quiet
  BY DEF Core
<1>3. \A i \in DOMAIN cont : cont[i].tid \in Tid \cup {None}
  BY <1>2, Waits
<1>4. \A t \in held \cup Joining : t \in Tid
  BY <1>1, <1>2, Waits
<1>5. ASSUME NEW p \in Tid, NEW c \in Tid, Fork(p, c)
      PROVE  Core'
  <2>1. /\ st[p] = "running" /\ st[c] = "unborn" /\ p # c
        /\ st' = [st EXCEPT ![p] = "stopped", ![c] = "born"]
        /\ why' = [why EXCEPT ![p] = "fork", ![c] = "new"]
        /\ told' = [told EXCEPT ![p] = FALSE, ![c] = FALSE]
        /\ child' = [child EXCEPT ![p] = c]
        /\ UNCHANGED <<tpc, cont, rows, held, joins, freezing, allHeld>>
    BY <1>5 DEF Fork, Awake, tracer
  <2>2. /\ \A t \in Tid \ {p, c} : st'[t] = st[t] /\ why'[t] = why[t] /\ told'[t] = told[t]
                                   /\ child'[t] = child[t]
        /\ st'[p] = "stopped" /\ why'[p] = "fork" /\ told'[p] = FALSE /\ child'[p] = c
        /\ st'[c] = "born" /\ why'[c] = "new" /\ told'[c] = FALSE /\ child'[c] = child[c]
    BY <1>1, <2>1
  <2>3. Waiting'
    <3>1. \A t \in Tid : st[t] = "gone" => st'[t] = "gone"
      BY <2>1, <2>2
    <3> QED
      BY <1>2, <1>3, <2>1, <3>1 DEF Waiting
  <2>4. Family'
    <3>1. \A t \in Tid : st'[t] = "unborn" =>
            t \notin rows' \cup joins'.stopped /\ joins'.creator[t] = None /\ \A q \in Tid : child'[q] # t
      <4> SUFFICES ASSUME NEW t \in Tid, st'[t] = "unborn"
                   PROVE  /\ t \notin rows' \cup joins'.stopped /\ joins'.creator[t] = None
                          /\ \A q \in Tid : child'[q] # t
        OBVIOUS
      <4>1. t \in Tid \ {p, c} /\ st[t] = "unborn"
        BY <2>2
      <4>2. /\ t \notin rows \cup joins.stopped /\ joins.creator[t] = None
            /\ \A q \in Tid : child[q] # t
        BY <1>2, <4>1 DEF Family
      <4>3. \A q \in Tid : child'[q] = IF q = p THEN c ELSE child[q]
        BY <2>2
      <4> QED
        BY <2>1, <4>1, <4>2, <4>3
    <3>2. \A q \in Tid : child[q] # c
      BY <1>2, <2>1 DEF Family
    <3>3. \A q, r \in Tid : child'[q] # None /\ child'[q] = child'[r] => q = r
      BY <1>2, <2>2, <3>2 DEF Family
    <3>4. c \notin joins.stopped /\ joins.creator[c] = None /\ c # None
      BY <1>2, <2>1, SnapshotAssumption DEF Family
    <3>5. \A q \in Tid : st'[q] = "stopped" =>
            /\ why'[q] # "none"
            /\ why'[q] = "fork" => child'[q] # None /\ (~told'[q] => joins'.creator[child'[q]] = None)
            /\ why'[q] = "new" /\ ~told'[q] => q \notin joins'.stopped
      <4> SUFFICES ASSUME NEW q \in Tid, st'[q] = "stopped"
                   PROVE  /\ why'[q] # "none"
                          /\ why'[q] = "fork" => /\ child'[q] # None
                                                 /\ ~told'[q] => joins'.creator[child'[q]] = None
                          /\ why'[q] = "new" /\ ~told'[q] => q \notin joins'.stopped
        OBVIOUS
      <4>1. CASE q \in {p, c}
        BY <2>1, <2>2, <3>4, <4>1
      <4>2. CASE q \notin {p, c}
        <5>1. /\ st[q] = "stopped" /\ why'[q] = why[q] /\ told'[q] = told[q]
              /\ child'[q] = child[q] /\ joins' = joins
          BY <2>1, <2>2, <4>2
        <5> QED
          BY <1>2, <5>1 DEF Family
      <4> QED
        BY <4>1, <4>2
    <3>6. \A t \in Tid : st'[t] = "born" =>
            t \notin rows' \cup joins'.stopped /\ why'[t] = "new" /\ ~told'[t]
      <4> SUFFICES ASSUME NEW t \in Tid, st'[t] = "born"
                   PROVE  t \notin rows \cup joins.stopped /\ why'[t] = "new" /\ ~told'[t]
        BY <2>1
      <4>1. CASE t = c
        BY <1>2, <2>1, <2>2, <4>1 DEF Family
      <4>2. CASE t # c
        BY <1>2, <2>2, <4>2 DEF Family
      <4> QED
        BY <4>1, <4>2
    <3> QED
      BY <3>1, <3>3, <3>5, <3>6 DEF Family
  <2>9. Parents'
    <3> SUFFICES ASSUME NEW d \in Tid, Fresh(d)'
                 PROVE  \E q \in Tid : child'[q] = d /\ (Ended(q) \/ ToldLater(q))'
      BY DEF Parents
    <3>1. CASE d = c
      BY <2>2, <3>1 DEF ToldLater
    <3>2. CASE d # c
      <4>1. Fresh(d)
        BY <2>1, <2>2, <3>2 DEF Fresh
      <4>2. PICK q \in Tid : child[q] = d /\ (Ended(q) \/ ToldLater(q))
        BY <1>2, <4>1 DEF Parents
      <4>3. q \in Tid \ {p, c}
        BY <2>1, <4>2 DEF Ended, ToldLater
      <4> QED
        BY <2>2, <4>2, <4>3 DEF Ended, ToldLater
    <3> QED
      BY <3>1, <3>2
  <2>5. Joining' = Joining /\ p \notin held \cup Joining /\ c \notin held \cup Joining /\ p \in rows
    BY <1>2, <2>1 DEF Taken, Joining
  <2>6. Taken'
    <3>0. UNCHANGED <<rows, held, joins, freezing>>
      BY <2>1
    <3>7. /\ \A t \in Tid : st[t] = "running" => t \in rows
          /\ \A t \in Tid : st[t] = "stopped" => t \in rows \/ (why[t] = "new" /\ ~told[t])
          /\ \A t \in held \cup Joining : /\ st[t] \in {"stopped", "dead", "gone"}
                                          /\ st[t] = "stopped" => told[t]
          /\ \A t \in Tid : st[t] = "stopped" /\ told[t] => t \in held \cup Joining
          /\ ~freezing => \A t \in held : st[t] = "stopped" => Pending(joins, t)
      BY <1>2 DEF Taken
    <3>1. \A t \in Tid : st'[t] = "running" => t \in rows'
      BY <3>0, <3>7, <2>2
    <3>2. \A t \in Tid : st'[t] = "stopped" => t \in rows' \/ (why'[t] = "new" /\ ~told'[t])
      BY <3>0, <3>7, <2>2, <2>5
    <3>3. \A t \in held \cup Joining : t \in Tid \ {p, c}
      BY <1>4, <2>5
    <3>4. \A t \in held' \cup Joining' : /\ st'[t] \in {"stopped", "dead", "gone"}
                                         /\ st'[t] = "stopped" => told'[t]
      BY <3>0, <3>7, <2>2, <2>5, <3>3
    <3>5. \A t \in Tid : st'[t] = "stopped" /\ told'[t] => t \in held' \cup Joining'
      BY <3>0, <3>7, <2>2, <2>5
    <3>6. ~freezing' => \A t \in held' : st'[t] = "stopped" => Pending(joins', t)
      BY <3>0, <3>7, <2>2, <3>3
    <3> QED
      BY <3>1, <3>2, <3>4, <3>5, <3>6 DEF Taken
  <2>7. ~AllAreHeld /\ tpc # "exited"
    BY <1>2, <2>1 DEF Quiet, AtRest, Overlooked, Live
  <2>8. Quiet'
    BY <2>1, <2>7 DEF Quiet, AllAreHeld, Has
  <2> QED
    BY <2>3, <2>4, <2>6, <2>8, <2>9 DEF Core
<1>6. ASSUME NEW t \in Tid, Trap(t)
      PROVE  Core'
  <2>1. /\ st[t] = "running"
        /\ st' = [st EXCEPT ![t] = "stopped"] /\ why' = [why EXCEPT ![t] = "trap"]
        /\ told' = [told EXCEPT ![t] = FALSE]
        /\ UNCHANGED <<child, tpc, cont, rows, held, joins, freezing, allHeld>>
    BY <1>6 DEF Trap, Awake, tracer
  <2>2. /\ \A u \in Tid \ {t} : st'[u] = st[u] /\ why'[u] = why[u] /\ told'[u] = told[u]
        /\ st'[t] = "stopped" /\ why'[t] = "trap" /\ told'[t] = FALSE
    BY <1>1, <2>1
  <2>3. Waiting'
    BY <1>2, <1>3, <2>1, <2>2 DEF Waiting
  <2>4. Family'
    BY <1>2, <2>1, <2>2 DEF Family
  <2>9. Parents'
    <3> SUFFICES ASSUME NEW d \in Tid, Fresh(d)'
                 PROVE  \E q \in Tid : child'[q] = d /\ (Ended(q) \/ ToldLater(q))'
      BY DEF Parents
    <3>1. Fresh(d) /\ d # t
      BY <2>1, <2>2 DEF Fresh
    <3>2. PICK q \in Tid : child[q] = d /\ (Ended(q) \/ ToldLater(q))
      BY <1>2, <3>1 DEF Parents
    <3>3. q # t
      BY <2>1, <3>2 DEF Ended, ToldLater
    <3> QED
      BY <2>1, <2>2, <3>2, <3>3 DEF Ended, ToldLater
  <2>5. Joining' = Joining /\ t \notin held \cup Joining /\ t \in rows
    BY <1>2, <2>1 DEF Taken, Joining
  <2>6. Taken'
    BY <1>2, <1>4, <2>1, <2>2, <2>5 DEF Taken
  <2>7. ~AllAreHeld /\ tpc # "exited"
    BY <1>2, <2>1 DEF Quiet, AtRest, Overlooked, Live
  <2>8. Quiet'
    BY <2>1, <2>7 DEF Quiet, AllAreHeld, Has
  <2> QED
    BY <2>3, <2>4, <2>6, <2>8, <2>9 DEF Core
<1>9. ASSUME NEW c \in Tid, FirstStop(c)
      PROVE  Core'
  <2>1. /\ st[c] = "born" /\ st' = [st EXCEPT ![c] = "stopped"]
        /\ UNCHANGED <<why, told, child, tpc, cont, rows, held, joins, freezing, allHeld>>
    BY <1>9 DEF FirstStop, tracer
  <2>2. st'[c] = "stopped" /\ \A u \in Tid \ {c} : st'[u] = st[u]
    BY <1>1, <2>1
  <2>3. why[c] = "new" /\ ~told[c] /\ c \notin rows \cup joins.stopped
    BY <1>2, <2>1 DEF Family
  <2>4. Waiting'
    BY <1>2, <1>3, <2>1, <2>2 DEF Waiting
  <2>5. Family'
    BY <1>2, <2>1, <2>2, <2>3 DEF Family
  <2>6. Parents'
    <3> SUFFICES ASSUME NEW d \in Tid, Fresh(d)'
                 PROVE  \E q \in Tid : child[q] = d /\ (Ended(q) \/ ToldLater(q))'
      BY <2>1 DEF Parents
    <3>1. Fresh(d)
      BY <2>1, <2>2 DEF Fresh
    <3>2. PICK q \in Tid : child[q] = d /\ (Ended(q) \/ ToldLater(q))
      BY <1>2, <3>1 DEF Parents
    <3>3. q # c
      BY <2>1, <3>2 DEF Ended, ToldLater
    <3> QED
      BY <2>1, <2>2, <3>2, <3>3 DEF Ended, ToldLater
  <2>7. Joining' = Joining /\ c \notin held \cup Joining
    BY <1>2, <2>1 DEF Taken, Joining
  <2>8. Taken'
    BY <1>2, <1>4, <2>1, <2>2, <2>3, <2>7 DEF Taken
  <2>9. ASSUME NEW u \in Tid, AtRest(u)
        PROVE  AtRest(u)'
    BY <2>1, <2>2, <2>9 DEF AtRest, Overlooked, Live
  <2>10. tpc # "exited"
    BY <1>2, <2>1 DEF Quiet, Live
  <2>11. Quiet'
    BY <1>2, <2>1, <2>9, <2>10 DEF Quiet, AllAreHeld, Has
  <2> QED
    BY <2>4, <2>5, <2>6, <2>8, <2>11 DEF Core
<1>7. ASSUME NEW t \in Tid, Exit(t) \/ Killed(t)
      PROVE  Core'
  <2>1. /\ Live(t) /\ st' = [st EXCEPT ![t] = "dead"]
        /\ UNCHANGED <<why, told, child, tpc, cont, rows, held, joins, freezing, allHeld>>
    BY <1>7 DEF Exit, Killed, Awake, Live, tracer
  <2>2. Dying
    BY <1>1, <1>2, <2>1 DEF Dying, Quiet, Live
  <2> QED
    BY <2>2, DyingKeeps
<1>8. ASSUME NEW t \in Tid, Release(t)
      PROVE  Core'
  BY <1>8, SteadyKeeps DEF Release, tracer
<1> QED
  BY <1>5, <1>6, <1>7, <1>8, <1>9 DEF Threads, Kernel

\* What a stop teaches leaves whoever was pending so.
LEMMA LearnsMore ==
  ASSUME TypeOK, Core, NEW t \in Tid, Stops(t)
  PROVE  /\ rows' \subseteq Tid /\ rows \subseteq rows' /\ t \in rows' /\ t \notin held
         /\ \A u : Pending(joins, u) => Pending(joins', u)
         /\ \A u \in rows' \cup joins'.stopped : u \in rows \cup joins.stopped \cup {t}
         /\ \A c \in joins.stopped : c \in joins'.stopped
         /\ \A c \in Tid : joins.creator[c] # None => joins'.creator[c] = joins.creator[c]
         /\ \A c \in Tid : joins'.creator[c] = joins.creator[c]
                             \/ (c = child[t] /\ why[t] = "fork" /\ joins'.creator[c] = t)
         /\ \A u \in Tid \ {t} : u \in joins'.stopped => u \in joins.stopped
         /\ why[t] = "fork" => child[t] \in Tid /\ joins'.creator[child[t]] = t
<1>1. /\ st[t] = "stopped" /\ ~told[t] /\ Learns(t) /\ rows \subseteq Tid /\ joins \in Joins
      /\ child[t] \in Tid \cup {None}
  BY DEF Stops, TypeOK
<1>2. Family /\ Taken
  BY DEF Core
<1>3. t \in rows \/ why[t] = "new"
  BY <1>1, <1>2 DEF Taken
<1>4. t \notin held
  BY <1>1, <1>2 DEF Taken
<1>5. why[t] = "fork" => child[t] \in Tid /\ joins.creator[child[t]] = None
  BY <1>1, <1>2 DEF Family
<1>6. joins.creator \in [Tid -> Tid \cup {None}] /\ joins.stopped \subseteq Tid
  BY <1>1 DEF Joins
<1>7. /\ rows' \subseteq Tid /\ rows \subseteq rows' /\ t \in rows' /\ rows' \subseteq rows \cup {t}
      /\ joins'.stopped \subseteq joins.stopped \cup {t} /\ joins.stopped \subseteq joins'.stopped
      /\ joins'.acked = joins.acked
  BY <1>1, <1>3 DEF Learns
<1>8. \A c \in Tid : joins'.creator[c] = joins.creator[c]
                       \/ (c = child[t] /\ why[t] = "fork" /\ joins'.creator[c] = t)
  BY <1>1, <1>6 DEF Learns
<1>9. \A c \in Tid : joins.creator[c] # None => joins'.creator[c] = joins.creator[c]
  BY <1>5, <1>8
<1>10. \A u : Pending(joins, u) => Pending(joins', u)
  BY <1>7, <1>9 DEF Pending
<1>11. why[t] = "fork" => child[t] \in Tid /\ joins'.creator[child[t]] = t
  BY <1>1, <1>5, <1>6 DEF Learns
<1> QED
  BY <1>4, <1>7, <1>8, <1>9, <1>10, <1>11

LEMMA StopsKeep ==
  ASSUME TypeOK, Core, NEW t \in Tid, tpc = "run", Stops(t),
         told' = [told EXCEPT ![t] = TRUE],
         UNCHANGED <<why, child, freezing, allHeld>>
  PROVE  Core'
<1>1. /\ st \in [Tid -> States] /\ told \in [Tid -> BOOLEAN] /\ child \in [Tid -> Tid \cup {None}]
      /\ rows \subseteq Tid /\ held \subseteq Tid /\ st[t] = "stopped" /\ ~told[t]
  BY DEF TypeOK, States, Stops
<1>2. Waiting /\ Family /\ Parents /\ Taken /\ Quiet
  BY DEF Core
<1>3. /\ rows' \subseteq Tid /\ rows \subseteq rows' /\ t \in rows' /\ t \notin held
      /\ \A u : Pending(joins, u) => Pending(joins', u)
      /\ \A u \in rows' \cup joins'.stopped : u \in rows \cup joins.stopped \cup {t}
      /\ \A c \in Tid : joins'.creator[c] = joins.creator[c]
                          \/ (c = child[t] /\ why[t] = "fork" /\ joins'.creator[c] = t)
      /\ \A u \in Tid \ {t} : u \in joins'.stopped => u \in joins.stopped
      /\ why[t] = "fork" => child[t] \in Tid /\ joins'.creator[child[t]] = t
  BY LearnsMore
<1>4. cont = <<>> /\ DOMAIN cont = {} /\ Joining = {}
  <2>1. cont = <<>>
    BY <1>2 DEF Waiting
  <2> QED
    BY <2>1 DEF Joining
<1>5. told'[t] = TRUE /\ \A u \in Tid \ {t} : told'[u] = told[u]
  BY <1>1
<1>6. AllAreHeld => /\ allHeld /\ freezing /\ why[t] = "new" /\ joins.creator[t] = None
                    /\ \A u \in Tid : AtRest(u)
  BY <1>1, <1>2, <1>4 DEF Quiet, AllAreHeld, AtRest, Overlooked, Live, Has
<1>7. \A u \in Tid : st'[u] = st[u] \/ (u = t /\ st'[u] = "running" /\ ~freezing)
  BY <1>1 DEF Stops, Holds, GoesOn, Records
<1>8. Family'
  <2>1. /\ \A u \in Tid : st[u] = "unborn" =>
             u \notin rows \cup joins.stopped /\ joins.creator[u] = None /\ \A p \in Tid : child[p] # u
        /\ \A p, q \in Tid : child[p] # None /\ child[p] = child[q] => p = q
        /\ \A p \in Tid : st[p] = "stopped" =>
             /\ why[p] # "none"
             /\ why[p] = "fork" => child[p] # None /\ (~told[p] => joins.creator[child[p]] = None)
             /\ why[p] = "new" /\ ~told[p] => p \notin joins.stopped
    BY <1>2 DEF Family
  <2>2. \A u \in Tid : st'[u] = "unborn" =>
          u \notin rows' \cup joins'.stopped /\ joins'.creator[u] = None /\ \A p \in Tid : child'[p] # u
    <3> SUFFICES ASSUME NEW u \in Tid, st'[u] = "unborn"
                 PROVE  /\ u \notin rows' \cup joins'.stopped /\ joins'.creator[u] = None
                        /\ \A p \in Tid : child[p] # u
      OBVIOUS
    <3>1. st[u] = "unborn" /\ u # t
      BY <1>1, <1>7
    <3>2. u \notin rows \cup joins.stopped /\ joins.creator[u] = None /\ \A p \in Tid : child[p] # u
      BY <2>1, <3>1
    <3> QED
      BY <1>3, <3>1, <3>2
  <2>3. \A p \in Tid : st'[p] = "stopped" =>
          /\ why'[p] # "none"
          /\ why'[p] = "fork" => child'[p] # None /\ (~told'[p] => joins'.creator[child'[p]] = None)
          /\ why'[p] = "new" /\ ~told'[p] => p \notin joins'.stopped
    <3> SUFFICES ASSUME NEW p \in Tid, st'[p] = "stopped"
                 PROVE  /\ why[p] # "none"
                        /\ why[p] = "fork" =>
                             child[p] # None /\ (~told'[p] => joins'.creator[child[p]] = None)
                        /\ why[p] = "new" /\ ~told'[p] => p \notin joins'.stopped
      OBVIOUS
    <3>1. st[p] = "stopped"
      BY <1>7
    <3>2. CASE p = t
      BY <1>5, <2>1, <3>1, <3>2
    <3>3. CASE p # t
      <4>1. told'[p] = told[p] /\ (p \in joins'.stopped => p \in joins.stopped)
        BY <1>3, <1>5, <3>3
      <4>2. ASSUME why[p] = "fork", ~told[p]
            PROVE  joins'.creator[child[p]] = None
        <5>1. child[p] \in Tid /\ joins.creator[child[p]] = None
          BY <1>1, <2>1, <3>1, <4>2
        <5>2. child[p] # child[t]
          BY <2>1, <3>3, <5>1, SnapshotAssumption
        <5> QED
          BY <1>3, <5>1, <5>2
      <4> QED
        BY <2>1, <3>1, <4>1, <4>2
    <3> QED
      BY <3>2, <3>3
  <2>4. \A u \in Tid : st'[u] = "born" =>
          u \notin rows' \cup joins'.stopped /\ why'[u] = "new" /\ ~told'[u]
    <3> SUFFICES ASSUME NEW u \in Tid, st'[u] = "born"
                 PROVE  u \notin rows' \cup joins'.stopped /\ why[u] = "new" /\ ~told'[u]
      OBVIOUS
    <3>1. st[u] = "born" /\ u # t
      BY <1>1, <1>7
    <3>2. u \notin rows \cup joins.stopped /\ why[u] = "new" /\ ~told[u]
      BY <1>2, <3>1 DEF Family
    <3> QED
      BY <1>3, <1>5, <3>1, <3>2
  <2> QED
    BY <2>1, <2>2, <2>3, <2>4 DEF Family
<1>13. Parents'
  <2> SUFFICES ASSUME NEW d \in Tid, Fresh(d)'
               PROVE  \E q \in Tid : child[q] = d /\ (Ended(q) \/ ToldLater(q))'
    BY DEF Parents
  <2>1. joins'.creator[d] = None /\ joins'.creator[d] = joins.creator[d]
    BY <1>3, SnapshotAssumption DEF Fresh
  <2>2. Fresh(d)
    BY <1>7, <2>1 DEF Fresh
  <2>3. PICK q \in Tid : child[q] = d /\ (Ended(q) \/ ToldLater(q))
    BY <1>2, <2>2 DEF Parents
  <2>4. q # t
    BY <1>1, <1>3, <2>1, <2>3, SnapshotAssumption DEF Ended, ToldLater
  <2> QED
    BY <1>5, <1>7, <2>3, <2>4 DEF Ended, ToldLater
<1>9. /\ \A u \in Tid : st[u] = "running" => u \in rows
      /\ \A u \in Tid : st[u] = "stopped" => u \in rows \/ (why[u] = "new" /\ ~told[u])
      /\ \A u \in held : /\ st[u] \in {"stopped", "dead", "gone"}
                         /\ st[u] = "stopped" => told[u]
      /\ \A u \in Tid : st[u] = "stopped" /\ told[u] => u \in held
      /\ ~freezing => \A u \in held : st[u] = "stopped" => Pending(joins, u)
  BY <1>2, <1>4 DEF Taken
<1>10. /\ \A u \in Tid : st'[u] = "running" => u \in rows'
       /\ \A u \in Tid : st'[u] = "stopped" => u \in rows' \/ (why'[u] = "new" /\ ~told'[u])
  BY <1>3, <1>5, <1>7, <1>9
<1>11. CASE Holds(t) \/ GoesOn(t)
  <2>1. UNCHANGED <<tpc, cont>>
    BY <1>11 DEF Holds, GoesOn
  <2>2. Waiting' /\ Joining' = {}
    BY <1>2, <1>4, <2>1 DEF Waiting, Joining
  <2>3. Quiet'
    <3>1. AllAreHeld' => AllAreHeld
      BY <2>1 DEF AllAreHeld, Has
    <3>2. ASSUME AllAreHeld, NEW u \in Tid
          PROVE  AtRest(u)'
      <4>1. st' = st /\ why[t] = "new"
        BY <1>6, <1>11, <3>2 DEF Holds, GoesOn
      <4>2. u # t => joins'.creator[u] = joins.creator[u] /\ told'[u] = told[u] /\ AtRest(u)
        BY <1>3, <1>5, <1>6, <3>2, <4>1
      <4>3. CASE u = t
        BY <1>1, <1>5, <4>1, <4>3 DEF AtRest
      <4>4. CASE u # t
        BY <4>1, <4>2, <4>4 DEF AtRest, Overlooked, Live
      <4> QED
        BY <4>3, <4>4
    <3> QED
      BY <1>2, <1>4, <1>6, <2>1, <3>1, <3>2 DEF Quiet, Has
  <2>4. CASE Holds(t)
    <3>1. (freezing \/ Pending(joins', t)) /\ held' = held \cup {t} /\ st' = st
      BY <2>4 DEF Holds
    <3>2. \A u \in held' : /\ st'[u] \in {"stopped", "dead", "gone"}
                           /\ st'[u] = "stopped" => told'[u]
      BY <1>1, <1>5, <1>9, <3>1
    <3>3. \A u \in Tid : st'[u] = "stopped" /\ told'[u] => u \in held'
      BY <1>5, <1>9, <3>1
    <3>4. ~freezing' => \A u \in held' : st'[u] = "stopped" => Pending(joins', u)
      BY <1>3, <1>9, <3>1
    <3> QED
      BY <1>8, <1>10, <1>13, <2>2, <2>3, <3>2, <3>3, <3>4 DEF Core, Taken
  <2>5. CASE GoesOn(t)
    <3>1. held' = held /\ st'[t] = "running" /\ \A u \in Tid \ {t} : st'[u] = st[u]
      BY <1>1, <2>5 DEF GoesOn
    <3>2. \A u \in held' : /\ st'[u] \in {"stopped", "dead", "gone"}
                           /\ st'[u] = "stopped" => told'[u]
      BY <1>1, <1>3, <1>5, <1>9, <3>1
    <3>3. \A u \in Tid : st'[u] = "stopped" /\ told'[u] => u \in held'
      BY <1>5, <1>9, <3>1
    <3>4. ~freezing' => \A u \in held' : st'[u] = "stopped" => Pending(joins', u)
      BY <1>1, <1>3, <1>9, <3>1
    <3> QED
      BY <1>8, <1>10, <1>13, <2>2, <2>3, <3>2, <3>3, <3>4 DEF Core, Taken
  <2> QED
    BY <1>11, <2>4, <2>5
<1>12. ASSUME NEW c \in Tid, Records(c, t)
       PROVE  Core'
  <2> DEFINE k == [kind |-> "BIRTH", tid |-> t, birth |-> c]
  <2>1. k \in Cont /\ k.kind = "BIRTH" /\ k.tid = t /\ k.birth = c
    BY DEF Cont
  <2>2. /\ c \in joins'.stopped /\ joins'.creator[c] # None /\ tpc' = "ack" /\ cont' = Append(cont, k)
        /\ UNCHANGED <<st, held>>
    BY <1>12 DEF Records
  <2> HIDE DEF k
  <2>3. cont' \in Seq(Cont) /\ DOMAIN cont' = {1} /\ cont'[1] = k
    BY <1>4, <2>1, <2>2, First
  <2>4. Waiting'
    BY <2>1, <2>2, <2>3, SnapshotAssumption DEF Waiting
  <2>5. Joining' = {t}
    BY <2>1, <2>3 DEF Joining
  <2>10. ~allHeld
    BY <1>3, <1>6, <1>12, <2>2 DEF Records, AllAreHeld
  <2>6. Quiet'
    BY <2>1, <2>2, <2>3, <2>10 DEF Quiet, AllAreHeld, Has
  <2>7. \A u \in held' \cup Joining' : /\ st'[u] \in {"stopped", "dead", "gone"}
                                       /\ st'[u] = "stopped" => told'[u]
    BY <1>1, <1>5, <1>9, <2>2, <2>5
  <2>8. \A u \in Tid : st'[u] = "stopped" /\ told'[u] => u \in held' \cup Joining'
    BY <1>5, <1>9, <2>2, <2>5
  <2>9. ~freezing' => \A u \in held' : st'[u] = "stopped" => Pending(joins', u)
    BY <1>3, <1>9, <2>2
  <2> QED
    BY <1>8, <1>10, <1>13, <2>4, <2>6, <2>7, <2>8, <2>9 DEF Core, Taken
<1> QED
  BY <1>11, <1>12 DEF Stops

LEMMA DiesKeep ==
  ASSUME TypeOK, Core, NEW t \in Tid, tpc = "run", Dies(t),
         told' = [told EXCEPT ![t] = TRUE],
         UNCHANGED <<why, child, freezing, allHeld>>
  PROVE  Core'
<1>1. /\ st \in [Tid -> States] /\ told \in [Tid -> BOOLEAN]
      /\ rows \subseteq Tid /\ held \subseteq Tid
      /\ st[t] = "dead" /\ UNCHANGED <<joins, rows, held>>
  BY DEF TypeOK, States, Dies
<1>2. Waiting /\ Family /\ Parents /\ Taken /\ Quiet
  BY DEF Core
<1>3. cont = <<>> /\ DOMAIN cont = {} /\ Joining = {}
  <2>1. cont = <<>>
    BY <1>2 DEF Waiting
  <2> QED
    BY <2>1 DEF Joining
<1>4. \A u \in Tid \ {t} : told'[u] = told[u]
  BY <1>1
<1>5. CASE Betrays(t)
  <2>1. tpc' = "exited" /\ st' = AllDead /\ cont' = cont
    BY <1>5 DEF Betrays, OwnedFail
  <2>2. \A u \in Tid : st'[u] = IF Live(u) THEN "dead" ELSE st[u]
    BY <2>1, AllDeadDoes, Types
  <2>3. \A u \in Tid : st[u] \in {"born", "stopped"} => told'[u] = told[u]
    BY <1>1, <1>4
  <2>4. Dying
    BY <1>1, <2>1, <2>2, <2>3 DEF Dying, Live
  <2> QED
    BY <2>4, DyingKeeps
<1>6. CASE Vanishes(t) \/ Leaves(t)
  <2>1. st'[t] = "gone" /\ \A u \in Tid \ {t} : st'[u] = st[u]
    BY <1>1, <1>6 DEF Vanishes, Leaves
  <2>2. Family'
    BY <1>1, <1>2, <1>4, <2>1 DEF Family
  <2>5. Parents'
    <3> SUFFICES ASSUME NEW d \in Tid, Fresh(d)'
                 PROVE  \E q \in Tid : child[q] = d /\ (Ended(q) \/ ToldLater(q))'
      BY DEF Parents
    <3>1. Fresh(d)
      BY <1>1, <2>1 DEF Fresh
    <3>2. PICK q \in Tid : child[q] = d /\ (Ended(q) \/ ToldLater(q))
      BY <1>2, <3>1 DEF Parents
    <3> QED
      BY <1>1, <1>4, <2>1, <3>2 DEF Ended, ToldLater
  <2>6. ASSUME NEW u \in Tid, AtRest(u)
        PROVE  AtRest(u)'
    BY <1>1, <1>4, <2>1, <2>6 DEF AtRest, Overlooked, Live
  <2>3. Joining' = {} /\ Waiting' /\ Quiet'
    <3>1. CASE Vanishes(t)
      <4>1. UNCHANGED <<tpc, cont>>
        BY <3>1 DEF Vanishes
      <4>2. Waiting' /\ Joining' = {}
        BY <1>2, <1>3, <4>1 DEF Waiting, Joining
      <4>3. Quiet'
        BY <1>2, <1>3, <2>6, <4>1 DEF Quiet, AllAreHeld, Has
      <4> QED
        BY <4>2, <4>3
    <3>2. CASE Leaves(t)
      <4> DEFINE k == [kind |-> "EXIT", tid |-> t, birth |-> None]
      <4>1. k \in Cont /\ k.kind = "EXIT" /\ k.tid = t
        BY DEF Cont
      <4>2. tpc' = "ack" /\ cont' = Append(cont, k)
        BY <3>2 DEF Leaves
      <4> HIDE DEF k
      <4>3. cont' \in Seq(Cont) /\ DOMAIN cont' = {1} /\ cont'[1] = k
        BY <1>3, <4>1, <4>2, First
      <4>4. Waiting'
        BY <2>1, <4>1, <4>2, <4>3, SnapshotAssumption DEF Waiting
      <4>5. Joining' = {}
        BY <4>1, <4>3 DEF Joining
      <4>6. ~Has(cont, "HELD")' /\ ~Has(cont, "BIRTH")' /\ ~Has(cont, "HELD")
        BY <1>3, <4>1, <4>3 DEF Has
      <4>7. Quiet'
        BY <1>2, <2>6, <4>2, <4>6 DEF Quiet, AllAreHeld
      <4> QED
        BY <4>4, <4>5, <4>7
    <3> QED
      BY <1>6, <3>1, <3>2
  <2>4. Taken'
    <3>1. /\ \A u \in Tid : st[u] = "running" => u \in rows
          /\ \A u \in Tid : st[u] = "stopped" => u \in rows \/ (why[u] = "new" /\ ~told[u])
          /\ \A u \in held : /\ st[u] \in {"stopped", "dead", "gone"}
                             /\ st[u] = "stopped" => told[u]
          /\ \A u \in Tid : st[u] = "stopped" /\ told[u] => u \in held
          /\ ~freezing => \A u \in held : st[u] = "stopped" => Pending(joins, u)
      BY <1>2, <1>3 DEF Taken
    <3>2. \A u \in held : /\ st'[u] \in {"stopped", "dead", "gone"}
                          /\ st'[u] = "stopped" => told'[u]
      BY <1>1, <1>4, <2>1, <3>1
    <3>3. /\ \A u \in Tid : st'[u] = "running" => u \in rows
          /\ \A u \in Tid : st'[u] = "stopped" => u \in rows \/ (why[u] = "new" /\ ~told'[u])
          /\ \A u \in Tid : st'[u] = "stopped" /\ told'[u] => u \in held
      BY <1>4, <2>1, <3>1
    <3>4. ~freezing => \A u \in held : st'[u] = "stopped" => Pending(joins', u)
      BY <1>1, <2>1, <3>1
    <3> QED
      BY <1>1, <2>3, <3>2, <3>3, <3>4 DEF Taken
  <2> QED
    BY <2>2, <2>3, <2>4, <2>5 DEF Core
<1> QED
  BY <1>5, <1>6 DEF Dies

LEMMA WaitKeeps ==
  ASSUME TypeOK, Core, NEW t \in Tid, Wait(t)
  PROVE  Core'
<1>1. /\ tpc = "run" /\ told' = [told EXCEPT ![t] = TRUE]
      /\ UNCHANGED <<why, child, freezing, allHeld>>
      /\ Stops(t) \/ Dies(t)
  BY WaitDoes DEF Core
<1> QED
  BY <1>1, StopsKeep, DiesKeep

LEMMA TryHeldKeeps ==
  ASSUME TypeOK, Core, TryHeld
  PROVE  Core'
<1> DEFINE k == [kind |-> "HELD", tid |-> None, birth |-> None]
<1>1. /\ tpc = "run" /\ freezing /\ ~allHeld /\ rows \subseteq held
      /\ \A t \in Tid : ~Waitable(t)
      /\ \A c \in Tid : c \in joins.stopped \/ joins.creator[c] # None => c \in joins.acked
      /\ tpc' = "ack" /\ cont' = Append(cont, k)
      /\ UNCHANGED <<st, why, told, child, rows, held, joins, freezing, allHeld>>
  BY DEF TryHeld, Send, kernel
<1>2. Waiting /\ Family /\ Parents /\ Taken /\ Quiet
  BY DEF Core
<1>3. k \in Cont /\ k.kind = "HELD"
  BY DEF Cont
<1> HIDE DEF k
<1>4. cont = <<>> /\ DOMAIN cont = {} /\ Joining = {}
  <2>1. cont = <<>>
    BY <1>1, <1>2 DEF Waiting
  <2> QED
    BY <2>1 DEF Joining
<1>5. cont' \in Seq(Cont) /\ DOMAIN cont' = {1} /\ cont'[1] = k
  BY <1>1, <1>3, <1>4, First
<1>6. Waiting'
  BY <1>1, <1>3, <1>5 DEF Waiting
<1>7. Family'
  BY <1>1, <1>2 DEF Family
<1>8. Joining' = {}
  BY <1>3, <1>5 DEF Joining
<1>9. Taken'
  BY <1>1, <1>2, <1>4, <1>8 DEF Taken, Pending
<1>13. Parents'
  BY <1>1, <1>2 DEF Parents, Fresh, Ended, ToldLater
<1>10. ASSUME NEW t \in Tid
       PROVE  AtRest(t)
  <2>1. st[t] # "running" /\ (st[t] = "stopped" => told[t])
    BY <1>1, <1>2, <1>10 DEF Taken, Waitable
  <2>2. CASE st[t] = "born"
    <3>1. why[t] = "new" /\ t \notin joins.acked
      BY <1>2, <1>10, <2>2 DEF Family, TypeOK
    <3>2. Fresh(t)
      BY <1>1, <1>10, <2>2, <3>1 DEF Fresh
    <3>3. PICK p \in Tid : child[p] = t /\ (Ended(p) \/ ToldLater(p))
      BY <1>2, <1>10, <3>2 DEF Parents
    <3>4. Ended(p)
      BY <1>1, <3>3 DEF Waitable, ToldLater
    <3> QED
      BY <3>2, <3>3, <3>4 DEF AtRest, Overlooked, Fresh, Ended
  <2> QED
    BY <2>1, <2>2 DEF AtRest, Live
<1>14. ASSUME NEW t \in Tid
       PROVE  AtRest(t)'
  BY <1>1, <1>10, <1>14 DEF AtRest, Overlooked, Live
<1>11. ~Has(cont, "BIRTH")'
  BY <1>3, <1>5 DEF Has
<1>12. Quiet'
  BY <1>1, <1>11, <1>14 DEF Quiet
<1> QED
  BY <1>6, <1>7, <1>9, <1>12, <1>13 DEF Core

LEMMA TakeCommandKeeps ==
  ASSUME TypeOK, Core, TakeCommand
  PROVE  Core'
<1>1. /\ UNCHANGED <<why, told, child, rows, joins>> /\ tpc # "exited"
      /\ Freezes \/ Resumes \/ Refuses
  BY TakeCommandDoes
<1>2. Waiting /\ Family /\ Parents /\ Taken /\ Quiet
  BY DEF Core
<1>3. /\ st \in [Tid -> States] /\ told \in [Tid -> BOOLEAN]
      /\ rows \subseteq Tid /\ held \subseteq Tid
  BY DEF TypeOK, States
<1>4. CASE Freezes
  <2>1. ~freezing /\ freezing' = TRUE /\ UNCHANGED <<st, held, allHeld, tpc, cont>>
    BY <1>4 DEF Freezes
  <2>2. Joining' = Joining
    BY <2>1 DEF Joining
  <2>3. Taken'
    BY <1>1, <1>2, <2>1, <2>2 DEF Taken
  <2>4. Waiting' /\ Family' /\ Quiet'
    BY <1>1, <1>2, <2>1 DEF Waiting, Family, Quiet, AllAreHeld, Has, Live
  <2>5. Parents'
    BY <1>1, <1>2, <2>1 DEF Parents, Fresh, Ended, ToldLater
  <2> QED
    BY <2>3, <2>4, <2>5 DEF Core
<1>5. CASE Resumes
  <2> DEFINE k == [kind |-> "RESUMED", tid |-> None, birth |-> None]
  <2>1. /\ allHeld /\ st' = Restarted(st, rows) /\ held' = held \ rows
        /\ freezing' = FALSE /\ allHeld' = FALSE
        /\ tpc' = "ack" /\ cont' = Append(cont, k)
    BY <1>5 DEF Resumes, Resume, Send
  <2>2. k \in Cont /\ k.kind = "RESUMED"
    BY DEF Cont
  <2> HIDE DEF k
  <2>3. \A t \in Tid : st'[t] = IF t \in rows /\ st[t] = "stopped" THEN "running" ELSE st[t]
    BY <2>1, RestartedDoes, Types
  <2>4. /\ ~Has(cont, "HELD") /\ ~Has(cont, "BIRTH")
        /\ \A t \in Tid : AtRest(t)
    BY <1>2, <2>1 DEF Quiet, AllAreHeld
  <2>5. cont \in Seq(Cont)
    BY <1>2 DEF Waiting
  <2>6. /\ cont' \in Seq(Cont) /\ Len(cont) \in Nat
        /\ cont'[Len(cont) + 1] = k
        /\ \A i \in DOMAIN cont : i \in DOMAIN cont' /\ cont'[i] = cont[i]
        /\ \A i \in DOMAIN cont' : i \in DOMAIN cont \/ i = Len(cont) + 1
    BY <2>1, <2>2, <2>5, Grown
  <2>7. \A i \in DOMAIN cont : cont[i].tid \in Tid \cup {None}
    BY <1>2, Waits
  <2>8. Waiting'
    <3>1. \A i \in DOMAIN cont : cont[i].kind = "EXIT" =>
            cont[i].tid # None /\ st'[cont[i].tid] = "gone"
      <4> SUFFICES ASSUME NEW i \in DOMAIN cont, cont[i].kind = "EXIT"
                   PROVE  cont[i].tid # None /\ st'[cont[i].tid] = "gone"
        OBVIOUS
      <4>1. cont[i].tid \in Tid /\ st[cont[i].tid] = "gone"
        BY <1>2, <2>7 DEF Waiting
      <4> QED
        BY <2>3, <4>1, SnapshotAssumption
    <3>2. \A i \in DOMAIN cont' :
            /\ cont'[i].kind = "BIRTH" => /\ cont'[i].tid # None /\ cont'[i].birth \in joins'.stopped
                                          /\ joins'.creator[cont'[i].birth] # None
            /\ cont'[i].kind = "EXIT" => cont'[i].tid # None /\ st'[cont'[i].tid] = "gone"
            /\ i # 1 => cont'[i].kind = "RESUMED"
      <4> SUFFICES ASSUME NEW i \in DOMAIN cont'
                   PROVE  /\ cont'[i].kind = "BIRTH" =>
                               /\ cont'[i].tid # None /\ cont'[i].birth \in joins'.stopped
                               /\ joins'.creator[cont'[i].birth] # None
                          /\ cont'[i].kind = "EXIT" => cont'[i].tid # None /\ st'[cont'[i].tid] = "gone"
                          /\ i # 1 => cont'[i].kind = "RESUMED"
        OBVIOUS
      <4>1. CASE i \in DOMAIN cont
        BY <1>1, <1>2, <2>6, <3>1, <4>1 DEF Waiting
      <4>2. CASE i = Len(cont) + 1
        BY <2>2, <2>6, <4>2
      <4> QED
        BY <2>6, <4>1, <4>2
    <3> QED
      BY <2>1, <2>6, <3>2 DEF Waiting
  <2>9. Joining = {} /\ Joining' = {}
    BY <2>2, <2>4, <2>6 DEF Joining, Has
  <2>10. Family'
    BY <1>1, <1>2, <2>3 DEF Family
  <2>11. /\ \A t \in Tid : st[t] = "stopped" => t \in rows \/ (why[t] = "new" /\ ~told[t])
         /\ \A t \in Tid : st[t] = "running" => t \in rows
         /\ \A t \in held : /\ st[t] \in {"stopped", "dead", "gone"}
                            /\ st[t] = "stopped" => told[t]
    BY <1>2 DEF Taken
  <2>12. Taken'
    <3>1. \A t \in Tid : /\ st'[t] = "stopped" => why[t] = "new" /\ ~told[t]
                         /\ st'[t] = "running" => t \in rows
      BY <2>3, <2>11
    <3>2. \A t \in held' : t \in Tid /\ st'[t] \in {"dead", "gone"}
      BY <1>3, <2>1, <2>3, <2>11
    <3> QED
      BY <1>1, <2>9, <3>1, <3>2 DEF Taken
  <2>13. Quiet'
    BY <2>1, <2>2, <2>4, <2>6 DEF Quiet, AllAreHeld, Has
  <2>14. Parents'
    <3> SUFFICES ASSUME NEW d \in Tid, Fresh(d)'
                 PROVE  \E q \in Tid : child[q] = d /\ (Ended(q) \/ ToldLater(q))'
      BY <1>1 DEF Parents
    <3>1. Fresh(d)
      BY <1>1, <2>3 DEF Fresh
    <3>2. PICK q \in Tid : child[q] = d /\ (Ended(q) \/ ToldLater(q))
      BY <1>2, <3>1 DEF Parents
    <3>3. Ended(q)
      BY <2>4, <3>2 DEF ToldLater, AtRest, Overlooked, Live
    <3> QED
      BY <2>3, <3>2, <3>3 DEF Ended
  <2> QED
    BY <2>8, <2>10, <2>12, <2>13, <2>14 DEF Core
<1>6. CASE Refuses
  <2>1. tpc' = "exited" /\ st' = AllDead /\ UNCHANGED <<cont, held, freezing, allHeld>>
    BY <1>6 DEF Refuses, OwnedFail
  <2>2. \A u \in Tid : st'[u] = IF Live(u) THEN "dead" ELSE st[u]
    BY <2>1, AllDeadDoes, Types
  <2>3. Dying
    BY <1>1, <2>1, <2>2 DEF Dying, Live
  <2> QED
    BY <2>3, DyingKeeps
<1> QED
  BY <1>1, <1>4, <1>5, <1>6

LEMMA TakeAckKeeps ==
  ASSUME TypeOK, Core, TakeAck
  PROVE  Core'
<1>1. /\ tpc = "ack" /\ cont # <<>> /\ cont' = SubSeq(cont, 1, Len(cont) - 1)
      /\ tpc' = IF Len(cont) = 1 THEN "run" ELSE "ack"
      /\ Last \in Cont
      /\ UNCHANGED <<why, told, child, freezing>>
      /\ AckBirth \/ AckExit \/ AckHeld \/ AckResumed
  BY TakeAckDoes DEF Core
<1>2. Waiting /\ Family /\ Parents /\ Taken /\ Quiet
  BY DEF Core
<1>3. /\ st \in [Tid -> States] /\ told \in [Tid -> BOOLEAN]
      /\ rows \subseteq Tid /\ held \subseteq Tid /\ joins \in Joins
      /\ cont \in Seq(Cont)
  BY <1>2 DEF TypeOK, States, Waiting
<1>4. /\ cont' \in Seq(Cont) /\ Len(cont) \in Nat \ {0} /\ Len(cont) \in DOMAIN cont
      /\ \A i \in DOMAIN cont' : i \in DOMAIN cont /\ i # Len(cont) /\ cont'[i] = cont[i]
      /\ \A i \in DOMAIN cont : i # Len(cont) => i \in DOMAIN cont'
      /\ Len(cont) = 1 <=> cont' = <<>>
  <2>1. cont # <<>> /\ cont \in Seq(Cont) /\ cont' = SubSeq(cont, 1, Len(cont) - 1)
    BY <1>1, <1>3
  <2>2. PICK s \in Seq(Cont) : s = cont
    BY <2>1
  <2>3. PICK r : r = SubSeq(s, 1, Len(s) - 1)
    OBVIOUS
  <2>4. /\ r \in Seq(Cont) /\ Len(s) \in Nat \ {0} /\ Len(s) \in DOMAIN s
        /\ \A i \in DOMAIN r : i \in DOMAIN s /\ i # Len(s) /\ r[i] = s[i]
        /\ \A i \in DOMAIN s : i # Len(s) => i \in DOMAIN r
        /\ Len(s) = 1 => r = <<>>
        /\ r = <<>> => Len(s) = 1
    <3>1. /\ r \in Seq(Cont) /\ Len(s) \in Nat \ {0} /\ Len(s) \in DOMAIN s
          /\ \A i \in DOMAIN r : i \in DOMAIN s /\ i # Len(s) /\ r[i] = s[i]
      BY ONLY <2>1, <2>2, <2>3, Popped
    <3>3. \A i \in DOMAIN s : i # Len(s) => i \in DOMAIN r
      BY ONLY <2>1, <2>2, <2>3, Popped
    <3>4. Len(s) = 1 => r = <<>>
      BY ONLY <2>1, <2>2, <2>3, Popped
    <3>5. r = <<>> => Len(s) = 1
      BY ONLY <2>1, <2>2, <2>3, Popped
    <3> QED
      BY ONLY <3>1, <3>3, <3>4, <3>5
  <2> QED
    BY ONLY <2>1, <2>2, <2>3, <2>4
<1>5. tpc' = "run" => cont' = <<>>
  BY <1>1, <1>4
<1>6. CASE AckExit \/ AckHeld \/ AckResumed
  <2>1. /\ Last.kind \in {"EXIT", "HELD", "RESUMED"}
        /\ UNCHANGED <<joins, st, held>>
    BY <1>6 DEF AckExit, AckHeld, AckResumed
  <2>2. Waiting'
    BY <1>2, <1>4, <1>5, <2>1 DEF Waiting
  <2>3. Joining' = Joining
    BY <1>4, <2>1 DEF Joining, Last
  <2>4. /\ rows' \subseteq rows /\ \A t \in rows : t \notin rows' => st[t] = "gone"
        /\ Last.kind # "EXIT" => rows' = rows
    <3>1. Last.kind = "EXIT" => st[Last.tid] = "gone"
      BY <1>2, <1>4 DEF Waiting, Last
    <3> QED
      BY <1>6, <3>1 DEF AckExit, AckHeld, AckResumed
  <2>5. Family'
    BY <1>1, <1>2, <2>1, <2>4 DEF Family
  <2>6. Taken'
    BY <1>1, <1>2, <2>1, <2>3, <2>4 DEF Taken
  <2>10. Parents'
    BY <1>1, <1>2, <2>1 DEF Parents, Fresh, Ended, ToldLater
  <2>11. ASSUME NEW u \in Tid, AtRest(u)
         PROVE  AtRest(u)'
    BY <1>1, <2>1, <2>11 DEF AtRest, Overlooked, Live
  <2>7. Has(cont, "BIRTH")' => Has(cont, "BIRTH")
    BY <1>4 DEF Has
  <2>8. CASE Last.kind = "HELD"
    <3>1. allHeld' = TRUE /\ AllAreHeld
      BY <1>4, <1>6, <2>8 DEF AckExit, AckHeld, AckResumed, AllAreHeld, Has, Last
    <3>2. \A i \in DOMAIN cont : cont[i].kind = "HELD" => i = 1
      BY <1>2 DEF Waiting
    <3>3. Len(cont) = 1
      BY <1>4, <2>8, <3>2 DEF Last
    <3>4. ~Has(cont, "HELD")'
      BY <1>4, <3>2, <3>3 DEF Has
    <3> QED
      BY <1>1, <1>2, <2>2, <2>5, <2>6, <2>7, <2>10, <2>11, <3>1, <3>4 DEF Core, Quiet
  <2>9. CASE Last.kind # "HELD"
    <3>1. allHeld' = allHeld
      BY <1>6, <2>9 DEF AckExit, AckHeld, AckResumed
    <3>2. Has(cont, "HELD")' => Has(cont, "HELD")
      BY <1>4 DEF Has
    <3>3. AllAreHeld' => AllAreHeld
      BY <3>1, <3>2 DEF AllAreHeld
    <3> QED
      BY <1>1, <1>2, <2>2, <2>5, <2>6, <2>7, <2>10, <2>11, <3>1, <3>2, <3>3 DEF Core, Quiet
  <2> QED
    BY <2>8, <2>9
<1>7. CASE AckBirth
  <2> DEFINE c == Last.birth
             t == Last.tid
             now == [joins EXCEPT !.acked = @ \cup {c}]
             free == IF freezing THEN {} ELSE {u \in (held \cap rows) \cup {t} : ~Pending(now, u)}
  <2>1. Last.kind = "BIRTH" /\ BirthAcked(c, t)
    BY <1>7 DEF AckBirth
  <2>2. /\ \A i \in DOMAIN cont : cont[i].kind = "BIRTH" => i = 1
        /\ t # None /\ t \in Joining
    BY <1>2, <1>4, <2>1 DEF Waiting, Last, Joining
  <2>3. Len(cont) = 1 /\ \A i \in DOMAIN cont : i = 1
    <3>1. Len(cont) = 1
      BY <1>4, <2>1, <2>2 DEF Last
    <3> QED
      BY <1>3, <3>1
  <2>4. cont' = <<>> /\ DOMAIN cont' = {} /\ Joining' = {}
    <3>1. cont' = <<>>
      BY <1>4, <2>3
    <3> QED
      BY <3>1 DEF Joining
  <2>5. \A u \in Joining : u = t
    BY <1>4, <2>3 DEF Joining, Last
  <2>6. joins' = now /\ joins'.stopped = joins.stopped /\ joins'.creator = joins.creator
    BY <1>3, <2>1 DEF BirthAcked, Joins
  <2>7. t \in Tid
    BY <1>2, <2>2, Waits
  <2> HIDE DEF c, t, now
  <2>8. /\ st' = Restarted(st, free) /\ held' = (held \cup {t}) \ free
        /\ UNCHANGED <<rows, allHeld>>
    BY <2>1 DEF BirthAcked, now
  <2> HIDE DEF free
  <2>9. \A u \in Tid : st'[u] = IF u \in free /\ st[u] = "stopped" THEN "running" ELSE st[u]
    BY <2>8, RestartedDoes, Types
  <2>10. free \subseteq held \cup {t}
    BY DEF free
  <2>11. /\ \A u \in Tid : st[u] = "running" => u \in rows
         /\ \A u \in Tid : st[u] = "stopped" => u \in rows \/ (why[u] = "new" /\ ~told[u])
         /\ \A u \in held \cup {t} : /\ st[u] \in {"stopped", "dead", "gone"}
                                     /\ st[u] = "stopped" => told[u]
         /\ \A u \in Tid : st[u] = "stopped" /\ told[u] => u \in held \cup {t}
    BY <1>2, <2>2, <2>5 DEF Taken
  <2>12. Waiting'
    BY <1>4, <2>4 DEF Waiting
  <2>13. Family'
    BY <1>1, <1>2, <2>6, <2>8, <2>9 DEF Family
  <2>14. Taken'
    <3>1. /\ \A u \in Tid : st'[u] = "running" => u \in rows'
          /\ \A u \in Tid : st'[u] = "stopped" => u \in rows' \/ (why'[u] = "new" /\ ~told'[u])
      BY <1>1, <2>8, <2>9, <2>10, <2>11
    <3>2. \A u \in held' : u \in Tid /\ st'[u] \in {"stopped", "dead", "gone"} /\ (st'[u] = "stopped" => told'[u])
      BY <1>1, <1>3, <2>7, <2>8, <2>9, <2>11
    <3>3. \A u \in Tid : st'[u] = "stopped" /\ told'[u] => u \in held'
      BY <1>1, <2>8, <2>9, <2>11
    <3>4. ~freezing' => \A u \in held' : st'[u] = "stopped" => Pending(joins', u)
      <4> SUFFICES ASSUME ~freezing, NEW u \in held', st'[u] = "stopped"
                   PROVE  Pending(now, u)
        BY <1>1, <2>6
      <4>1. u \in held \cup {t} /\ u \notin free /\ u \in Tid
        BY <1>3, <2>7, <2>8
      <4>2. st[u] = "stopped"
        BY <2>9, <4>1
      <4>3. u \in rows
        BY <2>11, <4>1, <4>2
      <4> QED
        BY <4>1, <4>3 DEF free
    <3> QED
      BY <2>4, <3>1, <3>2, <3>3, <3>4 DEF Taken
  <2>15. ~AllAreHeld
    BY <1>2, <1>4, <2>1 DEF Quiet, Has, Last
  <2>16. Quiet'
    BY <1>1, <2>4, <2>8, <2>15 DEF Quiet, AllAreHeld, Has
  <2>17. Parents'
    <3> SUFFICES ASSUME NEW d \in Tid, Fresh(d)'
                 PROVE  \E q \in Tid : child[q] = d /\ (Ended(q) \/ ToldLater(q))'
      BY <1>1 DEF Parents
    <3>1. Fresh(d)
      BY <1>1, <2>6, <2>9 DEF Fresh
    <3>2. PICK q \in Tid : child[q] = d /\ (Ended(q) \/ ToldLater(q))
      BY <1>2, <3>1 DEF Parents
    <3>3. ToldLater(q) => q \notin free
      BY <2>10, <2>11 DEF ToldLater
    <3> QED
      BY <1>1, <2>9, <3>2, <3>3 DEF Ended, ToldLater
  <2> QED
    BY <2>12, <2>13, <2>14, <2>16, <2>17 DEF Core
<1> QED
  BY <1>1, <1>6, <1>7

LEMMA TracerKeeps ==
  ASSUME TypeOK, Core, Tracer
  PROVE  Core'
<1>1. CASE Interrupt
  BY <1>1, SteadyKeeps DEF Interrupt
<1>2. CASE TracerEnds
  <2>1. Dying
    BY <1>2 DEF TracerEnds, Dying, Live, kernel
  <2> QED
    BY <2>1, DyingKeeps
<1> QED
  BY <1>1, <1>2, WaitKeeps, TryHeldKeeps, TakeCommandKeeps, TakeAckKeeps DEF Tracer

LEMMA ControllerKeeps ==
  ASSUME TypeOK, Core, Controller \/ Freeze \/ Expire \/ GiveUp
  PROVE  Core'
<1>1. /\ st \in [Tid -> States] /\ \A t \in Tid : tpc = "exited" => ~Live(t)
  BY DEF TypeOK, States, Core, Quiet
<1>2. ASSUME NEW t \in Tid, Signal(t)
      PROVE  Core'
  <2>1. Dying
    BY <1>1, <1>2 DEF Signal, Dying, Live, tracer
  <2> QED
    BY <2>1, DyingKeeps
<1>3. CASE SignalTracer
  <2>1. tpc' = "exited" /\ st' = AllDead
        /\ UNCHANGED <<why, told, child, cont, rows, held, joins, freezing, allHeld>>
    BY <1>3 DEF SignalTracer
  <2>2. \A u \in Tid : st'[u] = IF Live(u) THEN "dead" ELSE st[u]
    BY <2>1, AllDeadDoes, Types
  <2>3. Dying
    BY <2>1, <2>2 DEF Dying, Live
  <2> QED
    BY <2>3, DyingKeeps
<1>4. CASE Receive \/ Freeze \/ Held \/ Sample \/ SendResume \/ Resumed \/ Expire \/ GiveUp \/ Stop \/ Stopped
  <2>1. UNCHANGED <<kernel, tracer>>
    BY <1>4 DEF Receive, Freeze, Held, Sample, SendResume, Resumed, Expire, GiveUp, Stop, Stopped
  <2> QED
    BY <2>1, SteadyKeeps DEF kernel, tracer
<1> QED
  BY <1>2, <1>3, <1>4 DEF Controller

\* Births are recorded by name.
LEMMA PostedKeeps ==
  ASSUME Traced, Threads \/ Kernel \/ Tracer \/ Controller \/ Freeze \/ Expire \/ GiveUp
  PROVE  Posted'
<1>1. ChannelTypes /\ Posted /\ TypeOK /\ Family /\ Waiting
  BY Types DEF Traced
<1>2. tseq + 1 \in Nat /\ rows \subseteq Tid /\ joins \in Joins
  BY <1>1 DEF TypeOK
<1>3. UNCHANGED toCtl => Posted'
  BY <1>1 DEF Posted
<1>4. OwnedFail => Posted'
  <2> DEFINE r == [kind |-> "ERROR", seq |-> 0, tid |-> None, creator |-> None, roster |-> {}]
  <2>1. r \in Record /\ r.kind # "BIRTH"
    BY DEF Record, Kinds
  <2>2. OwnedFail => toCtl' = Append(toCtl, r)
    BY DEF OwnedFail
  <2> HIDE DEF r
  <2> QED
    BY <1>1, <2>1, <2>2, PostedMore
<1>5. ASSUME NEW t \in Tid, Wait(t)
      PROVE  Posted'
  <2>1. Stops(t) \/ Dies(t)
    BY <1>1, <1>5, WaitDoes
  <2>2. ASSUME Learns(t), NEW c \in Tid, Records(c, t)
        PROVE  Posted'
    <3> DEFINE r == [kind |-> "BIRTH", seq |-> tseq + 1, tid |-> c,
                     creator |-> joins'.creator[c], roster |-> {}]
    <3>1. joins'.creator[c] \in Tid \cup {None}
      BY <2>2 DEF Learns, Joins
    <3>2. r \in Record /\ r.tid # None
      BY <1>2, <3>1, SnapshotAssumption DEF Record, Kinds
    <3>3. toCtl' = Append(toCtl, r)
      BY <2>2 DEF Records
    <3> HIDE DEF r
    <3> QED
      BY <1>1, <3>2, <3>3, PostedMore
  <2>3. CASE Leaves(t)
    <3> DEFINE r == [kind |-> "EXIT", seq |-> tseq + 1, tid |-> t, creator |-> None, roster |-> {}]
    <3>1. r \in Record /\ r.kind # "BIRTH"
      BY <1>2 DEF Record, Kinds
    <3>2. toCtl' = Append(toCtl, r)
      BY <2>3 DEF Leaves
    <3> HIDE DEF r
    <3> QED
      BY <1>1, <3>1, <3>2, PostedMore
  <2> QED
    BY <1>3, <1>4, <2>1, <2>2, <2>3 DEF Stops, Holds, GoesOn, Dies, Vanishes, Betrays
<1>6. CASE TryHeld
  <2> DEFINE r == [kind |-> "HELD", seq |-> tseq + 1, tid |-> None, creator |-> None, roster |-> rows]
  <2>1. r \in Record /\ r.kind # "BIRTH"
    BY <1>2 DEF Record, Kinds
  <2>2. toCtl' = Append(toCtl, r)
    BY <1>6 DEF TryHeld, Send
  <2> HIDE DEF r
  <2> QED
    BY <1>1, <2>1, <2>2, PostedMore
<1>7. CASE TakeCommand
  <2>1. CASE Resumes
    <3> DEFINE r == [kind |-> "RESUMED", seq |-> tseq + 1, tid |-> None, creator |-> None, roster |-> {}]
    <3>1. r \in Record /\ r.kind # "BIRTH"
      BY <1>2 DEF Record, Kinds
    <3>2. toCtl' = Append(toCtl, r)
      BY <2>1 DEF Resumes, Resume, Send
    <3> HIDE DEF r
    <3> QED
      BY <1>1, <3>1, <3>2, PostedMore
  <2> QED
    BY <1>3, <1>4, <1>7, <2>1, TakeCommandDoes DEF Freezes, Refuses
<1>8. CASE Receive
  BY <1>1, <1>8, PostedLess DEF Receive
<1>9. CASE Interrupt \/ TakeAck \/ TracerEnds \/ Threads \/ Kernel
  BY <1>3, <1>9 DEF Interrupt, TakeAck, TracerEnds, Threads, Kernel, Fork, Exit, Release, Killed, Trap,
       FirstStop, channel
<1>10. CASE Freeze \/ Held \/ Sample \/ SendResume \/ Resumed \/ Expire \/ GiveUp \/ Stop \/ Stopped
              \/ SignalTracer \/ \E t \in Tid : Signal(t)
  BY <1>3, <1>10 DEF Freeze, Held, Sample, SendResume, Resumed, Expire, GiveUp, Stop, Stopped,
       SignalTracer, Signal, channel
<1> QED
  BY <1>5, <1>6, <1>7, <1>8, <1>9, <1>10 DEF Tracer, Controller

\* Once over nothing changes; until then what the steps keep is kept.
LEMMA TracedStep ==
  ASSUME Traced, [Next]_vars
  PROVE  Traced'
<1>1. TypeOK /\ Core
  BY DEF Traced, Core
<1>2. CASE UNCHANGED vars
  <2>1. TypeOK' /\ Posted'
    BY <1>2 DEF vars, system, kernel, tracer, controller, channel, Traced, TypeOK, Posted
  <2>2. Core'
    BY <1>1, <1>2, SteadyKeeps DEF vars, system, kernel, tracer
  <2> QED
    BY <2>1, <2>2 DEF Traced, Core
<1>3. ASSUME UNCHANGED scenario, Threads \/ Kernel \/ Tracer \/ Controller \/ Freeze \/ Expire \/ GiveUp
      PROVE  Traced'
  <2>1. TypeOK'
    BY <1>1, <1>3, KernelStepTypes, TracerStepTypes, ControllerStepTypes
  <2>2. Core'
    BY <1>1, <1>3, KernelKeeps, TracerKeeps, ControllerKeeps
  <2>3. Posted'
    BY <1>3, PostedKeeps
  <2> QED
    BY <2>1, <2>2, <2>3 DEF Traced, Core
<1> QED
  BY <1>2, <1>3 DEF Next

LEMMA TracedAtFirst == Init => Traced
<1> SUFFICES ASSUME Init
             PROVE  Traced
  OBVIOUS
<1>1. scenario.holds \in Nat /\ Root \in Tid /\ None \notin Tid
  BY SnapshotAssumption DEF Init
<1>2. cont = <<>> /\ toCtl = <<>> /\ toTracer = <<>>
  BY DEF Init
<1>3. cont \in Seq(Cont) /\ toCtl \in Seq(Record) /\ toTracer \in Seq(Command)
  BY <1>2
<1>4. KernelTypes
  BY DEF Init, KernelTypes, States
<1>5. TracerTypes
  BY <1>1 DEF Init, TracerTypes, Joins
<1>6. ControllerTypes
  <2>1. hold \in [held : BOOLEAN, resumed : BOOLEAN, roster : SUBSET Tid]
    BY DEF Init
  <2>2. /\ scenario \in Scenario /\ cseq = 1 /\ cpc = "idle" /\ threads = {Root} /\ births = {Root}
        /\ snapshots = 0 /\ failure = FALSE /\ spoiled = FALSE
    BY DEF Init
  <2>3. snapshots \in 0..scenario.holds
    BY <1>1, <2>2
  <2> QED
    BY <1>1, <2>1, <2>2, <2>3 DEF ControllerTypes
<1>7. TypeOK
  BY <1>3, <1>4, <1>5, <1>6, Types DEF ChannelTypes
<1>8. DOMAIN cont = {} /\ DOMAIN toCtl = {}
  BY <1>2
<1>9. Joining = {} /\ ~Has(cont, "HELD")
  BY <1>8 DEF Joining, Has
<1>10. Waiting /\ Posted /\ Parents
  BY <1>2, <1>3, <1>8 DEF Waiting, Posted, Parents, Fresh, Init
<1>11. Family
  BY <1>1 DEF Init, Family
<1>12. Taken /\ Quiet
  BY <1>1, <1>9 DEF Init, Taken, Quiet, AllAreHeld
<1> QED
  BY <1>7, <1>10, <1>11, <1>12 DEF Traced

LEMMA AlwaysTraced == Spec => []Traced
BY TracedAtFirst, TracedStep, PTL DEF Spec

\* A cleanup that gave nobody up is over only after the tracer.
OverAfter == cpc \in {"stopped", "unproved"} => tpc = "exited"

LEMMA AlwaysOverAfter == Spec => []OverAfter
<1>1. Init => OverAfter
  BY DEF Init, OverAfter
<1>2. ASSUME OverAfter, [Next]_vars
      PROVE  OverAfter'
  <2>1. CASE UNCHANGED vars
    BY <1>2, <2>1 DEF OverAfter, vars, system, tracer, controller
  <2>2. CASE ~Over /\ UNCHANGED scenario /\ (Threads \/ Kernel \/ Tracer \/ Controller \/ Freeze \/ Expire \/ GiveUp)
    <3>1. ASSUME UNCHANGED cpc
          PROVE  OverAfter'
      BY <2>2, <3>1 DEF OverAfter, Over
    <3>2. ASSUME Threads \/ Kernel \/ Tracer
          PROVE  UNCHANGED cpc
      BY <3>2 DEF Threads, Kernel, Tracer, Fork, Exit, Release, Killed, Trap, FirstStop, Wait, Interrupt, TryHeld,
           TakeCommand, TakeAck, TracerEnds, controller
    <3>3. ASSUME Stopped
          PROVE  OverAfter'
      BY <3>3 DEF Stopped, OverAfter, tracer
    <3>4. ASSUME Freeze \/ Expire \/ GiveUp \/ Held \/ Sample \/ SendResume \/ Resumed \/ Stop \/ Receive
          PROVE  cpc' \notin {"stopped", "unproved"}
      BY <3>4 DEF Freeze, Expire, GiveUp, Held, Sample, SendResume, Resumed, Stop, Receive, InHold, Fails
    <3>5. ASSUME SignalTracer \/ \E t \in Tid : Signal(t)
          PROVE  UNCHANGED cpc
      BY <3>5 DEF SignalTracer, Signal, controller
    <3> QED
      BY <2>2, <3>1, <3>2, <3>3, <3>4, <3>5 DEF Controller, OverAfter
  <2> QED
    BY <1>2, <2>1, <2>2 DEF Next
<1> QED
  BY <1>1, <1>2, PTL DEF Spec

\* The variables have their types in every state.
THEOREM TypeCorrect == Spec => []TypeOK
<1>1. Traced => TypeOK
  BY DEF Traced
<1> QED
  BY <1>1, AlwaysTraced, PTL

\* No stop is forgotten by the tracer, in whatever order stops, births and
\* commands come: who is stopped and was taken is held.
THEOREM NobodyForgotten == Spec => []NoneForgotten
<1>1. ASSUME Traced
      PROVE  NoneForgotten
  <2>1. tpc = "run" => Joining = {}
    BY <1>1 DEF Traced, Waiting, Joining
  <2> QED
    BY <1>1, <2>1 DEF Traced, Taken, NoneForgotten
<1> QED
  BY <1>1, AlwaysTraced, PTL

\* Between two snapshots only a birth that is not joined yet holds anybody.
THEOREM ResumeFrees == Spec => []ResumeFreesAll
<1>1. Traced => ResumeFreesAll
  BY DEF Traced, Taken, ResumeFreesAll
<1> QED
  BY <1>1, AlwaysTraced, PTL

\* Whatever failed, was killed or timed out, nobody outlives a cleanup that did
\* not give up at its own limit.
THEOREM NobodyIsLeft == Spec => []StopLeavesNobody
<1>1. Traced /\ OverAfter => StopLeavesNobody
  BY DEF Traced, Quiet, OverAfter, StopLeavesNobody
<1> QED
  BY <1>1, AlwaysTraced, AlwaysOverAfter, PTL

-----------------------------------------------------------------------------
(***************************************************************************)
(* One hold: the commands and the answers that are under way.              *)
(***************************************************************************)

Still(t, roster) == Live(t) => IF t \in roster THEN st[t] = "stopped" ELSE Overlooked(t)
Covers(roster) == AllAreHeld /\ \A t \in Tid : Still(t, roster)

InSample == cpc \in {"freezing", "frozen", "sampled"}

\* While the tracer lives, a resume is sent once in a hold, after its sample,
\* and what has told of a hold tells of all who live, but for the overlooked.
Session ==
  /\ cpc = "idle" \/ InSample => ~Has(toTracer, "RESUME")
  /\ InSample => ~Has(toCtl, "RESUMED") /\ ~hold.resumed
  /\ cpc = "resuming" /\ Has(toTracer, "RESUME") =>
       /\ ~Has(toCtl, "RESUMED") /\ ~hold.resumed
       /\ \A i, j \in DOMAIN toTracer :
            toTracer[i].kind = "RESUME" /\ toTracer[j].kind = "RESUME" => i = j
  /\ cpc = "freezing" =>
       \A i \in DOMAIN toCtl : toCtl[i].kind = "HELD" => Covers(toCtl[i].roster)
  /\ InSample /\ hold.held => Covers(hold.roster)

HoldInv == /\ tpc # "exited" => Session
           /\ cpc \in {"frozen", "sampled"} => hold.held

LEMMA MoreHas ==
  ASSUME NEW S, NEW s \in Seq(S), NEW x \in S, NEW r, r = Append(s, x), NEW kind
  PROVE  /\ Has(r, kind) => Has(s, kind) \/ x.kind = kind
         /\ \A i \in DOMAIN r : (i \in DOMAIN s /\ r[i] = s[i]) \/ (i = Len(s) + 1 /\ r[i] = x)
<1>1. \A i \in DOMAIN r : (i \in DOMAIN s /\ r[i] = s[i]) \/ (i = Len(s) + 1 /\ r[i] = x)
  BY Grown
<1> QED
  BY <1>1 DEF Has

LEMMA LessHas ==
  ASSUME NEW S, NEW s \in Seq(S), s # <<>>, NEW r, r = Tail(s)
  PROVE  /\ \A kind : Has(r, kind) => Has(s, kind)
         /\ \A i \in DOMAIN r : i \in Nat /\ i + 1 \in DOMAIN s /\ r[i] = s[i + 1] /\ i + 1 # 1
         /\ 1 \in DOMAIN s /\ Head(s) = s[1]
         /\ Has(s, Head(s).kind)
<1>1. /\ \A i \in DOMAIN r : i \in Nat /\ i + 1 \in DOMAIN s /\ r[i] = s[i + 1] /\ i + 1 # 1
      /\ 1 \in DOMAIN s /\ Head(s) = s[1]
  BY Shortened
<1> QED
  BY <1>1 DEF Has

\* Nobody is born or runs, and nobody is told of.
Steady(t) == Live(t)' => /\ Live(t)
                         /\ st[t] = "stopped" => st'[t] = "stopped"
                         /\ Overlooked(t) => Overlooked(t)'

\* A step of threads and tracer in a session, but for a resume.
Onward ==
  /\ UNCHANGED <<cpc, hold>>
  /\ AllAreHeld => AllAreHeld' /\ \A t \in Tid : Steady(t)
  /\ toTracer' = toTracer \/ (toTracer # <<>> /\ toTracer' = Tail(toTracer))
  /\ \/ toCtl' = toCtl
     \/ \E r \in Record : /\ toCtl' = Append(toCtl, r) /\ r.kind # "RESUMED"
                          /\ r.kind = "HELD" =>
                               AllAreHeld' /\ \A t \in Tid : Still(t, r.roster)'

LEMMA OnwardKeeps ==
  ASSUME ChannelTypes, Session, Onward
  PROVE  Session'
<1>1. toCtl \in Seq(Record) /\ toTracer \in Seq(Command)
  BY DEF ChannelTypes
<1>2. UNCHANGED <<cpc, hold>> /\ (InSample' <=> InSample)
  BY DEF Onward, InSample
<1>3. ASSUME NEW R, AllAreHeld, \A t \in Tid : Still(t, R)
      PROVE  AllAreHeld' /\ \A t \in Tid : Still(t, R)'
  BY <1>3 DEF Onward, Steady, Still
<1>4. /\ Has(toTracer, "RESUME")' => Has(toTracer, "RESUME")
      /\ \A i \in DOMAIN toTracer' : \E k \in DOMAIN toTracer : toTracer'[i] = toTracer[k]
      /\ (\A i, j \in DOMAIN toTracer :
            toTracer[i].kind = "RESUME" /\ toTracer[j].kind = "RESUME" => i = j)
         => \A i, j \in DOMAIN toTracer' :
              toTracer'[i].kind = "RESUME" /\ toTracer'[j].kind = "RESUME" => i = j
  <2>1. CASE toTracer' = toTracer
    BY <2>1 DEF Has
  <2>2. CASE toTracer # <<>> /\ toTracer' = Tail(toTracer)
    <3>1. \A i \in DOMAIN toTracer' :
            i \in Nat /\ i + 1 \in DOMAIN toTracer /\ toTracer'[i] = toTracer[i + 1]
      BY <1>1, <2>2, LessHas
    <3>2. ASSUME \A i, j \in DOMAIN toTracer :
                   toTracer[i].kind = "RESUME" /\ toTracer[j].kind = "RESUME" => i = j,
                 NEW i \in DOMAIN toTracer', NEW j \in DOMAIN toTracer',
                 toTracer'[i].kind = "RESUME", toTracer'[j].kind = "RESUME"
          PROVE  i = j
      <4>1. i + 1 = j + 1
        BY <3>1, <3>2
      <4> QED
        BY <3>1, <4>1
    <3> QED
      BY <3>1, <3>2 DEF Has
  <2> QED
    BY <2>1, <2>2 DEF Onward
<1>5. \A i \in DOMAIN toCtl' :
        \/ i \in DOMAIN toCtl /\ toCtl'[i] = toCtl[i]
        \/ /\ toCtl'[i].kind # "RESUMED"
           /\ toCtl'[i].kind = "HELD" =>
                AllAreHeld' /\ \A t \in Tid : Still(t, toCtl[i].roster)'
  <2>1. CASE toCtl' = toCtl
    BY <2>1
  <2>2. ASSUME NEW r \in Record, toCtl' = Append(toCtl, r), r.kind # "RESUMED",
               r.kind = "HELD" => AllAreHeld' /\ \A t \in Tid : Still(t, r.roster)'
        PROVE  <1>5!:
    <3>1. \A i \in DOMAIN toCtl' : (i \in DOMAIN toCtl /\ toCtl'[i] = toCtl[i]) \/ toCtl'[i] = r
      BY <1>1, <2>2, MoreHas
    <3> QED
      BY <2>2, <3>1 DEF Still
  <2> QED
    BY <2>1, <2>2 DEF Onward
<1>6. ~Has(toCtl, "RESUMED") => ~Has(toCtl, "RESUMED")'
  BY <1>5 DEF Has
<1>7. cpc' = "freezing" =>
        \A i \in DOMAIN toCtl' : toCtl'[i].kind = "HELD" =>
          AllAreHeld' /\ \A t \in Tid : Still(t, toCtl[i].roster)'
  BY <1>2, <1>3, <1>5 DEF Session, Covers, Still
<1>8. InSample' /\ hold'.held => AllAreHeld' /\ \A t \in Tid : Still(t, hold.roster)'
  BY <1>2, <1>3 DEF Session, Covers, Still
<1> QED
  BY <1>2, <1>4, <1>6, <1>7, <1>8 DEF Session, Covers, Still

LEMMA KernelOnward ==
  ASSUME Traced, Threads \/ Kernel
  PROVE  Onward
<1>1. UNCHANGED <<tpc, cont, allHeld, cpc, hold, toCtl, toTracer>>
  BY DEF Threads, Kernel, Fork, Exit, Release, Killed, Trap, FirstStop, tracer, controller, channel
<1>2. AllAreHeld' <=> AllAreHeld
  BY <1>1 DEF AllAreHeld, Has
<1>3. ASSUME AllAreHeld
      PROVE  \A t \in Tid : Steady(t)
  <2>1. /\ \A t \in Tid : st[t] # "running" /\ (st[t] = "born" => why[t] = "new")
        /\ st \in [Tid -> States]
    BY <1>3 DEF Traced, Family, Quiet, AtRest, Overlooked, Live, TypeOK, States
  <2>2. /\ UNCHANGED <<why, child, joins>>
        /\ \A t \in Tid : \/ st'[t] = st[t]
                          \/ st[t] = "born" /\ st'[t] = "stopped"
                          \/ Live(t) /\ st'[t] = "dead"
    <3>1. ASSUME NEW t \in Tid, FirstStop(t) \/ Killed(t)
          PROVE  <2>2!:
      BY <2>1, <3>1 DEF FirstStop, Killed, tracer
    <3>2. \A t \in Tid : ~Awake(t)
      BY <2>1 DEF Awake
    <3>3. ASSUME NEW p \in Tid, Release(p)
          PROVE  <2>2!:
      BY <3>3 DEF Release, tracer
    <3> QED
      BY <3>1, <3>2, <3>3 DEF Threads, Kernel, Fork, Exit, Trap
  <2> QED
    BY <2>2 DEF Steady, Overlooked, Live
<1> QED
  BY <1>1, <1>2, <1>3 DEF Onward

LEMMA TracerOnward ==
  ASSUME Traced, Tracer, ~Resumes \/ ~TakeCommand, tpc' # "exited"
  PROVE  Onward
<1>1. /\ TypeOK /\ Waiting /\ Family /\ Taken /\ Quiet /\ st \in [Tid -> States] /\ rows \subseteq Tid
      /\ joins \in Joins /\ tseq + 1 \in Nat /\ Core
  BY DEF Traced, Core, TypeOK, States
<1>2. ASSUME NEW t \in Tid, Wait(t)
      PROVE  Onward
  <2>1. /\ tpc = "run" /\ UNCHANGED <<allHeld, cpc, hold, toTracer>>
        /\ Stops(t) \/ Dies(t)
    BY <1>1, <1>2, WaitDoes DEF controller
  <2>2. cont = <<>>
    BY <1>1, <2>1 DEF Waiting
  <2>3. AllAreHeld => /\ AllAreHeld' /\ freezing
                      /\ Stops(t) => why[t] = "new" /\ joins.creator[t] = None
    BY <1>1, <2>1, <2>2 DEF AllAreHeld, Has, Quiet, Stops, AtRest, Overlooked, Live
  <2>6. ASSUME AllAreHeld, Stops(t)
        PROVE  UNCHANGED <<st, why, child>> /\ joins'.creator = joins.creator
    <3>1. joins'.creator = joins.creator /\ why[t] = "new"
      BY <2>3, <2>6 DEF Stops, Learns
    <3>2. \A c \in Tid : ~Records(c, t)
      BY <2>3, <2>6, <3>1 DEF Records
    <3> QED
      BY <1>2, <2>3, <2>6, <3>1, <3>2 DEF Stops, Holds, GoesOn, Wait
  <2>7. Dies(t) => /\ UNCHANGED <<why, child, joins>> /\ st[t] = "dead" /\ st'[t] = "gone"
                   /\ \A u \in Tid \ {t} : st'[u] = st[u]
    BY <1>1, <1>2 DEF Dies, Vanishes, Betrays, OwnedFail, Leaves, Wait
  <2>4. AllAreHeld => \A u \in Tid : Steady(u)
    <3>1. CASE Stops(t)
      BY <2>6, <3>1 DEF Steady, Overlooked, Live
    <3>2. CASE Dies(t)
      BY <2>7, <3>2 DEF Steady, Overlooked, Live
    <3> QED
      BY <2>1, <3>1, <3>2
  <2>5. \/ toCtl' = toCtl
        \/ \E r \in Record : toCtl' = Append(toCtl, r) /\ r.kind \in {"BIRTH", "EXIT"}
    <3>1. ASSUME Learns(t), NEW c \in Tid, Records(c, t)
          PROVE  <2>5!:
      <4> DEFINE r == [kind |-> "BIRTH", seq |-> tseq + 1, tid |-> c,
                       creator |-> joins'.creator[c], roster |-> {}]
      <4>1. joins'.creator[c] \in Tid \cup {None}
        BY <3>1 DEF Learns, Joins
      <4>2. r \in Record /\ r.kind = "BIRTH"
        BY <1>1, <4>1 DEF Record, Kinds
      <4>3. toCtl' = Append(toCtl, r)
        BY <3>1 DEF Records
      <4> HIDE DEF r
      <4> QED
        BY <4>2, <4>3
    <3>2. CASE Leaves(t)
      <4> DEFINE r == [kind |-> "EXIT", seq |-> tseq + 1, tid |-> t, creator |-> None, roster |-> {}]
      <4>1. r \in Record /\ r.kind = "EXIT"
        BY <1>1 DEF Record, Kinds
      <4>2. toCtl' = Append(toCtl, r)
        BY <3>2 DEF Leaves
      <4> HIDE DEF r
      <4> QED
        BY <4>1, <4>2
    <3>3. ~Betrays(t)
      BY DEF Betrays, OwnedFail
    <3> QED
      BY <2>1, <3>1, <3>2, <3>3 DEF Stops, Holds, GoesOn, Dies, Vanishes
  <2> QED
    BY <2>1, <2>3, <2>4, <2>5 DEF Onward
<1>3. CASE Interrupt
  BY <1>3 DEF Interrupt, Onward, AllAreHeld, Has, Steady, Overlooked, Live, controller, channel
<1>4. CASE TryHeld
  <2> DEFINE r == [kind |-> "HELD", seq |-> tseq + 1, tid |-> None, creator |-> None, roster |-> rows]
             k == [kind |-> "HELD", tid |-> None, birth |-> None]
  <2>1. /\ tpc = "run" /\ freezing /\ rows \subseteq held /\ \A t \in Tid : ~Waitable(t)
        /\ toCtl' = Append(toCtl, r) /\ cont' = Append(cont, k)
        /\ UNCHANGED <<st, why, told, child, joins, rows, allHeld, cpc, hold, toTracer>>
    BY <1>4 DEF TryHeld, Send, kernel, controller
  <2>2. r \in Record /\ r.kind = "HELD" /\ r.roster = rows /\ k \in Cont /\ k.kind = "HELD"
    BY <1>1 DEF Record, Kinds, Cont
  <2> HIDE DEF r, k
  <2>3. cont = <<>>
    BY <1>1, <2>1 DEF Waiting
  <2>4. AllAreHeld'
    <3>1. DOMAIN cont' = {1} /\ cont'[1] = k
      BY <2>1, <2>2, <2>3, First
    <3> QED
      BY <2>2, <3>1 DEF AllAreHeld, Has
  <2>6. \A t \in Tid : AtRest(t)'
    BY <1>1, <1>4, <2>4, TryHeldKeeps DEF Core, Quiet
  <2>5. \A t \in Tid : Steady(t) /\ Still(t, rows)'
    <3> SUFFICES ASSUME NEW t \in Tid
                 PROVE  Steady(t) /\ (Live(t) => IF t \in rows THEN st[t] = "stopped" ELSE Overlooked(t))
      BY <2>1 DEF Still, Live, Overlooked
    <3>1. Steady(t) /\ AtRest(t)
      BY <2>1, <2>6 DEF Steady, AtRest, Overlooked, Live
    <3>2. st[t] = "stopped" => t \in rows \/ ~told[t]
      BY <1>1 DEF Taken
    <3>3. st[t] = "born" => t \notin rows
      BY <1>1 DEF Family
    <3> QED
      BY <3>1, <3>2, <3>3 DEF AtRest, Overlooked, Live
  <2> QED
    BY <2>1, <2>2, <2>4, <2>5 DEF Onward, Still
<1>5. CASE TakeCommand
  <2>1. /\ toTracer # <<>> /\ toTracer' = Tail(toTracer) /\ UNCHANGED <<cpc, hold, why, child, joins>>
        /\ Freezes
    BY <1>5, TakeCommandDoes DEF Refuses, OwnedFail, controller
  <2> QED
    BY <2>1 DEF Freezes, Onward, AllAreHeld, Has, Steady, Overlooked, Live
<1>6. CASE TakeAck
  <2>1. /\ toTracer # <<>> /\ toTracer' = Tail(toTracer) /\ UNCHANGED <<cpc, hold, toCtl, why, child>>
        /\ cont # <<>> /\ cont' = SubSeq(cont, 1, Len(cont) - 1)
        /\ AckBirth \/ AckExit \/ AckHeld \/ AckResumed
    BY <1>1, <1>6, TakeAckDoes DEF controller
  <2>2. AllAreHeld => \A t \in Tid : Steady(t)
    <3>1. AllAreHeld => Last.kind # "BIRTH"
      <4>1. cont \in Seq(Cont)
        BY <1>1 DEF Waiting
      <4>2. Len(cont) \in DOMAIN cont
        BY <2>1, <4>1, Popped
      <4> QED
        BY <1>1, <4>2 DEF Quiet, Has, Last
    <3>2. AllAreHeld => UNCHANGED <<st, joins>>
      BY <2>1, <3>1 DEF AckBirth, AckExit, AckHeld, AckResumed
    <3> QED
      BY <2>1, <3>2 DEF Steady, Overlooked, Live
  <2>3. AllAreHeld => AllAreHeld'
    <3>1. cont \in Seq(Cont)
      BY <1>1 DEF Waiting
    <3>2. \A i \in DOMAIN cont : i # Len(cont) => i \in DOMAIN cont' /\ cont'[i] = cont[i]
      BY <2>1, <3>1, Popped
    <3>3. Last.kind # "HELD" => allHeld' = allHeld
      BY <2>1 DEF AckBirth, AckExit, AckHeld, AckResumed, BirthAcked
    <3>4. Last.kind = "HELD" => allHeld' = TRUE
      BY <2>1 DEF AckBirth, AckExit, AckHeld, AckResumed
    <3> QED
      BY <3>2, <3>3, <3>4 DEF AllAreHeld, Has, Last
  <2> QED
    BY <2>1, <2>2, <2>3 DEF Onward
<1> QED
  BY <1>2, <1>3, <1>4, <1>5, <1>6 DEF Tracer, TracerEnds

\* A resume that is taken was the only one.
LEMMA ResumeEndsSession ==
  ASSUME Traced, Session, TakeCommand, Resumes
  PROVE  Session'
<1>1. /\ toTracer # <<>> /\ toTracer' = Tail(toTracer) /\ Head(toTracer).kind = "RESUME"
      /\ UNCHANGED cpc
  BY TakeCommandDoes DEF Resumes, controller
<1>2. toTracer \in Seq(Command)
  BY Types DEF Traced, ChannelTypes
<1>3. /\ \A i \in DOMAIN toTracer' :
           i \in Nat /\ i + 1 \in DOMAIN toTracer /\ toTracer'[i] = toTracer[i + 1] /\ i + 1 # 1
      /\ 1 \in DOMAIN toTracer /\ Head(toTracer) = toTracer[1]
      /\ Has(toTracer, "RESUME")
  BY <1>1, <1>2, LessHas
<1>4. cpc # "idle" /\ ~InSample
  BY <1>3 DEF Session
<1>5. cpc = "resuming" => ~Has(toTracer, "RESUME")'
  <2> SUFFICES ASSUME cpc = "resuming", NEW i \in DOMAIN toTracer', toTracer'[i].kind = "RESUME"
               PROVE  FALSE
    BY DEF Has
  <2>1. i + 1 \in DOMAIN toTracer /\ toTracer[i + 1].kind = "RESUME" /\ i + 1 # 1
    BY <1>3
  <2> QED
    BY <1>1, <1>3, <2>1 DEF Session
<1> QED
  BY <1>1, <1>4, <1>5 DEF Session, InSample

\* What a step of the controller leaves alone.
LEMMA ControllerCalm ==
  ASSUME Traced, Receive \/ Freeze \/ Held \/ Sample \/ SendResume \/ Resumed \/ Expire \/ Stop \/ Stopped
  PROVE  /\ UNCHANGED <<tpc, cont, allHeld, st>>
         /\ \A R : (AllAreHeld /\ \A t \in Tid : Still(t, R))
              => AllAreHeld' /\ \A t \in Tid : Still(t, R)'
<1>1. UNCHANGED <<tpc, cont, allHeld, st, why, child, joins>>
  BY DEF Receive, Freeze, Held, Sample, SendResume, Resumed, Expire, Stop, Stopped, kernel, tracer
<1> QED
  BY <1>1 DEF AllAreHeld, Has, Still, Overlooked, Live

LEMMA ReceiveKeeps ==
  ASSUME Traced, HoldInv, Receive
  PROVE  HoldInv'
<1>1. /\ cpc \in {"idle", "freezing", "resuming", "stopping"} /\ toCtl # <<>> /\ toCtl' = Tail(toCtl)
  BY DEF Receive
<1>2. toCtl \in Seq(Record) /\ toTracer \in Seq(Command) /\ tpc' = tpc
      /\ hold \in [held : BOOLEAN, resumed : BOOLEAN, roster : SUBSET Tid]
  BY Types, ControllerCalm DEF Traced, ChannelTypes, ControllerTypes
<1> DEFINE r == Head(toCtl)
<1>3. CASE Acceptable(r)
  <2>1. Apply(r) /\ UNCHANGED cpc
    BY <1>3 DEF Receive
  <2>2. /\ \A i \in DOMAIN toCtl' : i + 1 \in DOMAIN toCtl /\ toCtl'[i] = toCtl[i + 1]
        /\ Has(toCtl, "RESUMED")' => Has(toCtl, "RESUMED")
        /\ 1 \in DOMAIN toCtl /\ r = toCtl[1] /\ Has(toCtl, r.kind) /\ r \in Record
    <3>1. r \in Record
      BY <1>1, <1>2, Shortened
    <3>2. \A i \in DOMAIN toCtl' : i + 1 \in DOMAIN toCtl /\ toCtl'[i] = toCtl[i + 1]
      BY <1>1, <1>2, LessHas
    <3>3. 1 \in DOMAIN toCtl /\ r = toCtl[1] /\ Has(toCtl, r.kind)
      BY <1>1, <1>2, LessHas
    <3> QED
      BY <3>1, <3>2, <3>3 DEF Has
  <2> HIDE DEF r
  <2>3. r.seq \in Nat
    BY <2>2 DEF Record
  <2> DEFINE c == [kind |-> "ACK", n |-> r.seq]
  <2>4. c \in Command /\ c.kind = "ACK"
    BY <2>3 DEF Command
  <2>5. toTracer' = toTracer \/ toTracer' = Append(toTracer, c)
    BY <2>1 DEF Apply, Tell
  <2> HIDE DEF c
  <2>6. /\ Has(toTracer, "RESUME")' => Has(toTracer, "RESUME")
        /\ \A i \in DOMAIN toTracer' : toTracer'[i].kind = "RESUME" =>
             i \in DOMAIN toTracer /\ toTracer[i].kind = "RESUME"
    <3>1. CASE toTracer' = toTracer
      BY <3>1 DEF Has
    <3>2. CASE toTracer' = Append(toTracer, c)
      <4>1. \A i \in DOMAIN toTracer' :
              (i \in DOMAIN toTracer /\ toTracer'[i] = toTracer[i]) \/ toTracer'[i] = c
        BY <1>2, <2>4, <3>2, MoreHas
      <4> QED
        BY <2>4, <4>1 DEF Has
    <3> QED
      BY <2>5, <3>1, <3>2
  <2>7. /\ r.kind = "HELD" => hold'.held = TRUE /\ hold'.roster = r.roster /\ hold'.resumed = hold.resumed
        /\ r.kind = "RESUMED" =>
             hold'.held = hold.held /\ hold'.roster = hold.roster /\ hold'.resumed = TRUE
        /\ r.kind \notin {"HELD", "RESUMED"} => hold' = hold
    <3>1. hold' = CASE r.kind = "HELD" -> [hold EXCEPT !.held = TRUE, !.roster = r.roster]
                    [] r.kind = "RESUMED" -> [hold EXCEPT !.resumed = TRUE]
                    [] OTHER -> hold
      BY <2>1 DEF Apply
    <3> QED
      BY <1>2, <3>1
  <2>8. ASSUME Session
        PROVE  Session'
    <3>1. cpc = "idle" \/ InSample => ~Has(toTracer, "RESUME")'
      BY <2>6, <2>8 DEF Session
    <3>2. InSample => ~Has(toCtl, "RESUMED")' /\ ~hold'.resumed
      BY <2>2, <2>7, <2>8 DEF Session
    <3>3. cpc = "resuming" /\ Has(toTracer, "RESUME")' =>
            /\ ~Has(toCtl, "RESUMED")' /\ ~hold'.resumed
            /\ \A i, j \in DOMAIN toTracer' :
                 toTracer'[i].kind = "RESUME" /\ toTracer'[j].kind = "RESUME" => i = j
      BY <2>2, <2>6, <2>7, <2>8 DEF Session
    <3>4. cpc = "freezing" =>
            \A i \in DOMAIN toCtl' : toCtl'[i].kind = "HELD" =>
              AllAreHeld' /\ \A t \in Tid : Still(t, toCtl[i].roster)'
      BY <2>2, <2>8, ControllerCalm DEF Session, Covers, Still
    <3>5. InSample /\ hold'.held => AllAreHeld' /\ \A t \in Tid : Still(t, hold.roster)'
      <4> SUFFICES ASSUME InSample, hold'.held
                   PROVE  AllAreHeld' /\ \A t \in Tid : Still(t, hold.roster)'
        OBVIOUS
      <4>1. cpc = "freezing"
        BY <1>1 DEF InSample
      <4>2. CASE r.kind = "HELD"
        <5>1. AllAreHeld /\ \A t \in Tid : Still(t, r.roster)
          BY <2>2, <2>8, <4>1, <4>2 DEF Session, Covers
        <5> QED
          BY <2>7, <4>2, <5>1, ControllerCalm DEF Still
      <4>3. CASE r.kind # "HELD"
        <5>1. hold'.held = hold.held /\ hold'.roster = hold.roster
          BY <2>7, <4>3
        <5>2. AllAreHeld /\ \A t \in Tid : Still(t, hold.roster)
          BY <2>8, <5>1 DEF Session, Covers
        <5> QED
          BY <5>1, <5>2, ControllerCalm DEF Still
      <4> QED
        BY <4>2, <4>3
    <3> QED
      BY <2>1, <3>1, <3>2, <3>3, <3>4, <3>5 DEF Session, Covers, InSample, Still
  <2> QED
    BY <1>1, <1>2, <2>1, <2>8 DEF HoldInv
<1>4. CASE ~Acceptable(r)
  <2>1. cpc' = IF cpc = "stopping" THEN cpc ELSE "failed"
    BY <1>4 DEF Receive, Fails
  <2>2. cpc' \in {"stopping", "failed"}
    BY <2>1
  <2> QED
    BY <2>2 DEF HoldInv, Session, InSample
<1> QED
  BY <1>3, <1>4

LEMMA CommandsKeep ==
  ASSUME Traced, HoldInv, Freeze \/ SendResume
  PROVE  HoldInv'
<1>1. toTracer \in Seq(Command) /\ tpc' = tpc /\ snapshots \in Nat /\ snapshots + 1 \in Nat
  BY Types, ControllerCalm, SnapshotAssumption DEF Traced, ChannelTypes, ControllerTypes
<1>2. CASE tpc = "exited"
  BY <1>1, <1>2 DEF Freeze, SendResume, Fails, HoldInv
<1>3. CASE tpc # "exited" /\ Freeze
  <2> DEFINE c == [kind |-> "FREEZE", n |-> snapshots + 1]
  <2>1. c \in Command /\ c.kind = "FREEZE"
    BY <1>1 DEF Command
  <2>2. toTracer' = Append(toTracer, c)
    BY <1>3 DEF Freeze, Tell
  <2> HIDE DEF c
  <2>3. Has(toTracer, "RESUME")' => Has(toTracer, "RESUME")
    BY <1>1, <2>1, <2>2, MoreHas
  <2>4. /\ cpc = "idle" /\ cpc' = "freezing" /\ toCtl = <<>> /\ toCtl' = toCtl
        /\ hold' = [held |-> FALSE, resumed |-> FALSE, roster |-> {}]
    BY <1>3 DEF Freeze
  <2>5. DOMAIN toCtl' = {} /\ ~hold'.held /\ ~hold'.resumed
    BY <2>4
  <2>6. ~Has(toCtl, "RESUMED")'
    BY <2>5 DEF Has
  <2> QED
    BY <1>1, <1>3, <2>3, <2>4, <2>5, <2>6 DEF HoldInv, Session, InSample
<1>4. CASE tpc # "exited" /\ SendResume
  <2> DEFINE c == [kind |-> "RESUME", n |-> snapshots]
  <2>1. c \in Command
    BY <1>1 DEF Command
  <2>2. /\ toTracer' = Append(toTracer, c) /\ cpc = "sampled" /\ cpc' = "resuming"
        /\ UNCHANGED <<hold, toCtl>>
    BY <1>4 DEF SendResume, Tell
  <2> HIDE DEF c
  <2>3. ~Has(toTracer, "RESUME") /\ ~Has(toCtl, "RESUMED") /\ ~hold.resumed
    BY <1>4, <2>2 DEF HoldInv, Session, InSample
  <2>4. \A i \in DOMAIN toTracer' : toTracer'[i].kind = "RESUME" => i = Len(toTracer) + 1
    BY <1>1, <2>1, <2>2, <2>3, MoreHas DEF Has
  <2>5. \A i, j \in DOMAIN toTracer' :
          toTracer'[i].kind = "RESUME" /\ toTracer'[j].kind = "RESUME" => i = j
    BY <2>4
  <2>6. ~Has(toCtl, "RESUMED")' /\ ~hold'.resumed
    BY <2>2, <2>3 DEF Has
  <2> QED
    BY <2>2, <2>5, <2>6 DEF HoldInv, Session, InSample
<1> QED
  BY <1>2, <1>3, <1>4

LEMMA HoldStep ==
  ASSUME Traced, HoldInv, [Next]_vars
  PROVE  HoldInv'
<1>1. CASE UNCHANGED vars
  BY <1>1 DEF vars, system, kernel, tracer, controller, channel, HoldInv, Session, InSample, Covers,
       AllAreHeld, Has, Still, Overlooked, Live
<1>2. ASSUME Onward, tpc' # "exited" => tpc # "exited"
      PROVE  HoldInv'
  BY <1>2, OnwardKeeps, Types DEF HoldInv, Onward, Traced
<1>3. CASE Threads \/ Kernel
  <2>1. tpc' = tpc
    BY <1>3 DEF Threads, Kernel, Fork, Exit, Release, Killed, Trap, FirstStop, tracer
  <2> QED
    BY <1>2, <1>3, <2>1, KernelOnward
<1>4. CASE Tracer
  <2>1. UNCHANGED <<cpc, hold>> /\ tpc # "exited"
    BY <1>4 DEF Tracer, Wait, Interrupt, TryHeld, TakeCommand, TakeAck, TracerEnds, controller
  <2>2. CASE tpc' = "exited"
    BY <2>1, <2>2 DEF HoldInv
  <2>3. CASE tpc' # "exited" /\ ~(TakeCommand /\ Resumes)
    BY <1>2, <1>4, <2>1, <2>3, TracerOnward
  <2>4. CASE TakeCommand /\ Resumes
    BY <2>1, <2>4, ResumeEndsSession DEF HoldInv
  <2> QED
    BY <2>2, <2>3, <2>4
<1>5. CASE Receive \/ Freeze \/ SendResume
  BY <1>5, ReceiveKeeps, CommandsKeep
<1>6. CASE Held \/ Sample
  <2>1. /\ UNCHANGED <<hold, toCtl, toTracer, tpc>> /\ InSample /\ InSample' /\ cpc' # "freezing"
        /\ cpc' \notin {"idle", "resuming"} /\ hold.held
    BY <1>6 DEF Held, Sample, InSample, HoldInv, channel, tracer
  <2>2. InSample /\ Session /\ hold.held => Covers(hold.roster)'
    BY <1>6, <2>1, ControllerCalm DEF Session, Covers, Still
  <2>3. UNCHANGED Has(toTracer, "RESUME") /\ UNCHANGED Has(toCtl, "RESUMED")
    BY <2>1 DEF Has
  <2> QED
    BY <2>1, <2>2, <2>3 DEF HoldInv, Session
<1>7. CASE Resumed \/ Expire
  <2>1. UNCHANGED <<hold, toCtl, toTracer, tpc>>
    BY <1>7 DEF Resumed, Expire, channel, tracer
  <2>2. UNCHANGED Has(toTracer, "RESUME")
    BY <2>1 DEF Has
  <2>3. cpc' = "failed" \/ (cpc = "resuming" /\ hold.resumed /\ cpc' = "idle")
    BY <1>7 DEF Resumed, Expire, Fails, InHold
  <2> QED
    BY <2>1, <2>2, <2>3 DEF HoldInv, Session, InSample
<1>8. CASE Stop \/ Stopped \/ GiveUp
  <2>1. cpc' \in {"stopping", "stopped", "unproved", "survivor"}
    BY <1>8 DEF Stop, Stopped, GiveUp
  <2> QED
    BY <2>1 DEF HoldInv, Session, InSample
<1>9. CASE SignalTracer \/ \E t \in Tid : Signal(t)
  <2>1. cpc' = "stopping"
    BY <1>9 DEF SignalTracer, Signal, controller
  <2> QED
    BY <2>1 DEF HoldInv, Session, InSample
<1> QED
  BY <1>1, <1>3, <1>4, <1>5, <1>6, <1>7, <1>8, <1>9 DEF Next, Controller

LEMMA HoldAtFirst == Init => HoldInv
<1> SUFFICES ASSUME Init
             PROVE  HoldInv
  OBVIOUS
<1>1. cpc = "idle" /\ DOMAIN toTracer = {}
  BY DEF Init
<1> QED
  BY <1>1 DEF HoldInv, Session, InSample, Has

\* While the controller samples nothing runs, and whoever lives is stopped and in
\* the roster it holds, with births that cross the freeze and windows that close,
\* also when threads are killed: but then for a child that has not run, and whose
\* parent was killed in its fork before the tracer heard of it.
THEOREM SampledIsStill == Spec => []HoldIsStill
<1>1. ASSUME Traced, HoldInv
      PROVE  HoldIsStill
  <2> SUFFICES ASSUME cpc \in {"frozen", "sampled"}, NEW t \in Tid, Live(t)
               PROVE  Still(t, hold.roster)
    BY DEF HoldIsStill, Still
  <2>1. tpc # "exited"
    BY <1>1 DEF Traced, Quiet
  <2>2. Covers(hold.roster)
    BY <1>1, <2>1 DEF HoldInv, Session, InSample
  <2> QED
    BY <2>2 DEF Covers
<1> QED
  BY <1>1, AlwaysTraced, HoldAtFirst, HoldStep, PTL DEF Spec

-----------------------------------------------------------------------------
(***************************************************************************)
(* While nobody is killed and nothing has failed.                          *)
(***************************************************************************)

Calm == "kill" \notin scenario.faults /\ ~failure

\* A birth half of which, or the acknowledgement of which, is missing.
Halfway(c, p) ==
  /\ child[p] = c /\ st[p] = "stopped" /\ why[p] = "fork"
  /\ st[c] \in {"born", "stopped"} /\ why[c] = "new"
  /\ told[c] <=> c \in joins.stopped
  /\ joins.creator[c] = IF told[p] THEN p ELSE None

\* Everyone who was born has been acknowledged, or waits with its parent.
Births ==
  /\ st[Root] \notin {"unborn", "born"} /\ why[Root] # "new"
  /\ Root \notin joins.stopped /\ joins.creator[Root] = None /\ \A p \in Tid : child[p] # Root
  /\ \A c \in Tid \ {Root} : st[c] # "unborn" /\ c \notin joins.acked => \E p \in Tid : Halfway(c, p)
  /\ rows \subseteq {Root} \cup joins.stopped
  /\ \A t \in rows : st[t] = "gone" => \E i \in DOMAIN cont : cont[i].kind = "EXIT" /\ cont[i].tid = t
  /\ \A i \in DOMAIN cont : /\ cont[i].kind = "BIRTH" => cont[i].birth \notin joins.acked
                            /\ cont[i].kind = "EXIT" => cont[i].tid \in rows

\* When all are held no stop, no end and no birth is left to take.
HeldAll == AllAreHeld =>
  /\ \A t \in Tid : ~Waitable(t)
  /\ \A c \in Tid : c \in joins.stopped \/ joins.creator[c] # None => c \in joins.acked
  /\ \A t \in Tid : t \in rows <=> Live(t)
  /\ rows # {}

\* The record and the commands that are under way.
Ack == [kind |-> "ACK", n |-> tseq]
Frz == [kind |-> "FREEZE", n |-> snapshots]
Rsm == [kind |-> "RESUME", n |-> snapshots]
Answered == tpc = "ack" /\ toCtl = <<>>

Tells(r, k) ==
  /\ r.seq = tseq /\ r.kind = k.kind
  /\ r.kind = "BIRTH" => r.tid = k.birth /\ r.creator = joins.creator[k.birth]
  /\ r.kind = "EXIT" => r.tid = k.tid
  /\ r.kind = "HELD" => r.roster = rows

Exchange ==
  /\ Answered => toTracer \in {<<Ack>>, <<Ack, Frz>>, <<Frz, Ack>>, <<Ack, Rsm>>}
  /\ ~Answered => toTracer \in {<<>>, <<Frz>>, <<Rsm>>}
  /\ tpc = "run" => toCtl = <<>>
  /\ tpc = "ack" => Len(cont) = 1 /\ ~allHeld
  /\ toCtl = <<>> => cseq = tseq
  /\ toCtl # <<>> => Len(toCtl) = 1 /\ cseq + 1 = tseq /\ Tells(toCtl[1], cont[1])

\* Where the controller is in a hold, and the tracer.
Phase ==
  /\ cpc \in {"idle", "freezing", "frozen", "sampled", "resuming"}
  /\ Has(toTracer, "FREEZE") => cpc = "freezing" /\ ~freezing
  /\ Has(toTracer, "RESUME") => cpc = "resuming" /\ AllAreHeld /\ ~hold.resumed /\ toCtl = <<>>
  /\ cpc = "idle" => ~freezing
  /\ cpc = "freezing" => /\ Has(toTracer, "FREEZE") \/ freezing
                         /\ hold.held <=> AllAreHeld /\ toCtl = <<>>
  /\ cpc \in {"frozen", "sampled"} => AllAreHeld /\ toCtl = <<>>
  /\ cpc = "resuming" /\ ~Has(toTracer, "RESUME") =>
       ~freezing /\ (~hold.resumed <=> Has(toCtl, "RESUMED"))
  /\ Has(toCtl, "RESUMED") => cpc = "resuming"

\* What the controller has recorded.
Rosters ==
  /\ births = {Root} \cup joins.acked \cup
       (IF Answered /\ cont[1].kind = "BIRTH" THEN {cont[1].birth} ELSE {})
  /\ threads = (births \cap rows) \ (IF Answered /\ cont[1].kind = "EXIT" THEN {cont[1].tid} ELSE {})
  /\ InSample /\ hold.held => hold.roster = {t \in Tid : Live(t)}
  /\ tpc = "exited" => rows = {} /\ toCtl = <<>>
  /\ cpc \in {"sampled", "resuming"} /\ spoiled => tpc = "exited"

Agreed == /\ Births /\ HeldAll /\ Rosters
          /\ tpc # "exited" => Exchange /\ Phase

CalmInv == Calm => Agreed

\* What a failure leaves.
FailedInv ==
  /\ failure => cpc \in {"failed", "stopping", "stopped", "unproved", "survivor"}
  /\ failure => cpc # "stopped"
  /\ scenario.faults = {} /\ failure => tpc = "exited" /\ rows = {}

-----------------------------------------------------------------------------
(***************************************************************************)
(* Births and holds, while nobody is killed.                               *)
(***************************************************************************)

\* What the invariants of threads and tracer rest on.
LEMMA Ground ==
  ASSUME Traced
  PROVE  /\ TypeOK /\ Waiting /\ Family /\ Taken /\ Quiet /\ ChannelTypes
         /\ st \in [Tid -> States] /\ why \in [Tid -> {"none", "new", "fork", "trap"}]
         /\ told \in [Tid -> BOOLEAN] /\ child \in [Tid -> Tid \cup {None}]
         /\ rows \subseteq Tid /\ held \subseteq Tid
         /\ joins \in Joins /\ joins.creator \in [Tid -> Tid \cup {None}]
         /\ joins.stopped \subseteq Tid /\ joins.acked \subseteq joins.stopped
         /\ \A c \in joins.acked : joins.creator[c] # None
         /\ Root \in Tid /\ None \notin Tid
BY Types, SnapshotAssumption DEF Traced, KernelTypes, TracerTypes, Joins

\* A birth that is not acknowledged holds nobody who runs or has ended.
LEMMA PendingIsHalfway ==
  ASSUME Traced, Births, NEW t \in Tid, Pending(joins, t)
  PROVE  \E c \in Tid, p \in Tid : Halfway(c, p) /\ t \in {c, p}
<1>1. PICK c \in Tid \ joins.acked :
        (c \in joins.stopped /\ c = t) \/ (joins.creator[c] # None /\ t \in {c, joins.creator[c]})
  BY DEF Pending
<1>2. c # Root /\ st[c] # "unborn"
  BY <1>1, Ground DEF Births, Family
<1>3. PICK p \in Tid : Halfway(c, p)
  BY <1>1, <1>2 DEF Births
<1> QED
  BY <1>1, <1>3 DEF Halfway

\* While all are held nobody has yet to run to its first stop.
LEMMA NobodyIsBorn ==
  ASSUME Traced, Births, HeldAll, AllAreHeld
  PROVE  \A t \in Tid : st[t] \notin {"born", "running"} /\ (st[t] = "stopped" => told[t])
<1> SUFFICES ASSUME NEW t \in Tid
             PROVE  st[t] \notin {"born", "running"} /\ (st[t] = "stopped" => told[t])
  OBVIOUS
<1>1. st[t] # "running" /\ (st[t] = "stopped" => told[t])
  BY Ground DEF Quiet, AtRest, Overlooked, Live, HeldAll, Waitable
<1>2. ASSUME st[t] = "born"
      PROVE  FALSE
  <2>1. t # Root /\ t \notin joins.stopped
    BY <1>2, Ground DEF Births, Family
  <2>2. t \notin joins.acked
    BY <2>1, Ground
  <2>3. PICK p \in Tid : Halfway(t, p)
    BY <1>2, <2>1, <2>2 DEF Births
  <2>4. told[p]
    BY <2>3 DEF HeldAll, Waitable, Halfway
  <2> QED
    BY <2>2, <2>3, <2>4, Ground DEF HeldAll, Halfway
<1> QED
  BY <1>1, <1>2

LEMMA BirthsOfKernel ==
  ASSUME Traced, Births, HeldAll, Threads \/ Kernel, "kill" \notin scenario.faults
  PROVE  Births' /\ HeldAll'
<1>1. /\ Traced /\ Family /\ Taken /\ Quiet
      /\ st \in [Tid -> States] /\ why \in [Tid -> {"none", "new", "fork", "trap"}]
      /\ told \in [Tid -> BOOLEAN] /\ child \in [Tid -> Tid \cup {None}] /\ rows \subseteq Tid
      /\ Root \in Tid /\ None \notin Tid
  BY Ground
<1>2. UNCHANGED <<cont, rows, held, joins, allHeld>>
  BY DEF Threads, Kernel, Fork, Exit, Release, Killed, Trap, FirstStop, tracer
<1>3. AllAreHeld' <=> AllAreHeld
  BY <1>2 DEF AllAreHeld, Has
<1>4. \A c \in Tid \ {Root} : st[c] = "running" => c \in joins.acked
  BY DEF Births, Halfway
<1>5. ASSUME NEW p \in Tid, NEW c \in Tid, Fork(p, c)
      PROVE  Births' /\ HeldAll'
  <2>1. /\ st[p] = "running" /\ st[c] = "unborn" /\ p # c
        /\ st' = [st EXCEPT ![p] = "stopped", ![c] = "born"]
        /\ why' = [why EXCEPT ![p] = "fork", ![c] = "new"]
        /\ told' = [told EXCEPT ![p] = FALSE, ![c] = FALSE]
        /\ child' = [child EXCEPT ![p] = c]
    BY <1>5 DEF Fork, Awake
  <2>2. /\ \A t \in Tid \ {p, c} : st'[t] = st[t] /\ why'[t] = why[t] /\ told'[t] = told[t]
                                   /\ child'[t] = child[t]
        /\ st'[p] = "stopped" /\ why'[p] = "fork" /\ told'[p] = FALSE /\ child'[p] = c
        /\ st'[c] = "born" /\ why'[c] = "new" /\ told'[c] = FALSE /\ child'[c] = child[c]
    BY <1>1, <2>1
  <2>3. ~AllAreHeld /\ c # Root /\ c \notin joins.stopped /\ joins.creator[c] = None /\ c \notin rows
    <3>1. c # Root /\ c \notin joins.stopped /\ joins.creator[c] = None /\ c \notin rows
      BY <1>1, <2>1 DEF Births, Family
    <3> QED
      BY <2>1, <3>1, NobodyIsBorn
  <2>4. ASSUME NEW d \in Tid \ {Root}, st'[d] # "unborn", d \notin joins.acked
        PROVE  \E q \in Tid : Halfway(d, q)'
    <3>1. CASE d = c
      <4>1. Halfway(d, p)'
        BY <1>2, <2>2, <2>3, <3>1 DEF Halfway
      <4> QED
        BY <4>1
    <3>2. CASE d # c
      <4>1. d # p /\ st[d] # "unborn"
        BY <1>4, <2>1, <2>2, <2>4, <3>2
      <4>2. PICK q \in Tid : Halfway(d, q)
        BY <2>4, <4>1 DEF Births
      <4>3. q \in Tid \ {p, c} /\ d \in Tid \ {p, c}
        BY <2>1, <3>2, <4>1, <4>2 DEF Halfway
      <4>4. /\ st'[q] = st[q] /\ why'[q] = why[q] /\ told'[q] = told[q] /\ child'[q] = child[q]
            /\ st'[d] = st[d] /\ why'[d] = why[d] /\ told'[d] = told[d]
        BY <2>2, <4>3
      <4>5. Halfway(d, q)'
        BY <1>2, <4>2, <4>4 DEF Halfway
      <4> QED
        BY <4>5
    <3> QED
      BY <3>1, <3>2
  <2>5. /\ st'[Root] \notin {"unborn", "born"} /\ why'[Root] # "new" /\ \A q \in Tid : child'[q] # Root
    <3>1. st[Root] \notin {"unborn", "born"} /\ why[Root] # "new" /\ \A q \in Tid : child[q] # Root
      BY DEF Births
    <3>2. \A q \in Tid : child'[q] = child[q] \/ child'[q] = c
      BY <2>2
    <3> QED
      BY <1>1, <2>2, <2>3, <3>1, <3>2
  <2>6. \A t \in rows : st'[t] = "gone" => st[t] = "gone"
    BY <1>1, <2>2
  <2>7. Births'
    BY <1>2, <2>4, <2>5, <2>6 DEF Births
  <2> QED
    BY <1>3, <2>3, <2>7 DEF HeldAll
<1>6. ASSUME NEW t \in Tid, Trap(t) \/ Exit(t)
      PROVE  Births' /\ HeldAll'
  <2>1. /\ st[t] = "running" /\ child' = child
        /\ st'[t] \in {"stopped", "dead"} /\ \A u \in Tid \ {t} : st'[u] = st[u]
        /\ why'[t] \in {why[t], "trap"} /\ \A u \in Tid \ {t} : why'[u] = why[u]
        /\ \A u \in Tid \ {t} : told'[u] = told[u]
    BY <1>1, <1>6 DEF Trap, Exit, Awake
  <2>2. ~AllAreHeld
    BY <2>1, NobodyIsBorn
  <2>3. ASSUME NEW d \in Tid \ {Root}, st'[d] # "unborn", d \notin joins.acked
        PROVE  \E q \in Tid : Halfway(d, q)'
    <3>1. d # t /\ st[d] # "unborn"
      BY <1>4, <2>1, <2>3
    <3>2. PICK q \in Tid : Halfway(d, q)
      BY <2>3, <3>1 DEF Births
    <3>3. q # t
      BY <2>1, <3>2 DEF Halfway
    <3>4. Halfway(d, q)'
      BY <1>2, <2>1, <3>1, <3>2, <3>3 DEF Halfway
    <3> QED
      BY <3>4
  <2>4. st'[Root] \notin {"unborn", "born"} /\ why'[Root] # "new" /\ \A u \in rows : st'[u] = "gone" => st[u] = "gone"
    BY <1>1, <2>1 DEF Births
  <2>5. Births'
    BY <1>2, <2>1, <2>3, <2>4 DEF Births
  <2> QED
    BY <1>3, <2>2, <2>5 DEF HeldAll
<1>7. ASSUME NEW t \in Tid, Release(t)
      PROVE  Births' /\ HeldAll'
  <2>1. UNCHANGED <<st, why, told, child>>
    BY <1>7 DEF Release
  <2> QED
    BY <1>2, <1>3, <2>1 DEF Births, HeldAll, Halfway, Waitable, Live
<1>8. \A t \in Tid : ~Killed(t)
  BY DEF Killed
<1>9. ASSUME NEW t \in Tid, FirstStop(t)
      PROVE  Births' /\ HeldAll'
  <2>1. /\ st[t] = "born" /\ st'[t] = "stopped" /\ UNCHANGED <<why, told, child>>
        /\ \A u \in Tid \ {t} : st'[u] = st[u]
    BY <1>1, <1>9 DEF FirstStop
  <2>2. ~AllAreHeld
    BY <2>1, NobodyIsBorn
  <2>3. ASSUME NEW d \in Tid \ {Root}, st'[d] # "unborn", d \notin joins.acked
        PROVE  \E q \in Tid : Halfway(d, q)'
    <3>1. st[d] # "unborn"
      BY <2>1, <2>3
    <3>2. PICK q \in Tid : Halfway(d, q)
      BY <2>3, <3>1 DEF Births
    <3>3. q # t
      BY <2>1, <3>2 DEF Halfway
    <3>4. Halfway(d, q)'
      BY <1>2, <2>1, <3>2, <3>3 DEF Halfway
    <3> QED
      BY <3>4
  <2>4. st'[Root] \notin {"unborn", "born"} /\ \A u \in rows : st'[u] = "gone" => st[u] = "gone"
    BY <1>1, <2>1 DEF Births
  <2>5. Births'
    BY <1>2, <2>1, <2>3, <2>4 DEF Births
  <2> QED
    BY <1>3, <2>2, <2>5 DEF HeldAll
<1> QED
  BY <1>5, <1>6, <1>7, <1>8, <1>9 DEF Threads, Kernel

\* A stop that is taken is that of nobody whose birth is known; it is held.
LEMMA BirthsOfStop ==
  ASSUME Traced, Births, HeldAll, NEW t \in Tid, tpc = "run", Stops(t),
         told' = [told EXCEPT ![t] = TRUE], UNCHANGED <<why, child, allHeld>>
  PROVE  /\ Births' /\ ~AllAreHeld /\ ~AllAreHeld'
         /\ {Root} \cap rows' \subseteq rows /\ (joins.acked \cap rows') \subseteq rows
         /\ \A c \in Tid : Records(c, t) => c \notin joins.acked
<1>1. /\ Waiting /\ Family /\ Taken /\ Quiet
      /\ st \in [Tid -> States] /\ why \in [Tid -> {"none", "new", "fork", "trap"}]
      /\ told \in [Tid -> BOOLEAN] /\ child \in [Tid -> Tid \cup {None}] /\ rows \subseteq Tid
      /\ joins \in Joins /\ joins.creator \in [Tid -> Tid \cup {None}]
      /\ joins.stopped \subseteq Tid /\ joins.acked \subseteq joins.stopped
      /\ \A c \in joins.acked : joins.creator[c] # None
      /\ Root \in Tid /\ None \notin Tid
  BY Ground
<1>2. st[t] = "stopped" /\ ~told[t] /\ Learns(t)
  BY DEF Stops
<1>3. cont = <<>> /\ DOMAIN cont = {}
  BY <1>1 DEF Waiting
<1>4. told'[t] = TRUE /\ \A u \in Tid \ {t} : told'[u] = told[u]
  BY <1>1
<1>5. joins'.acked = joins.acked
  BY <1>2 DEF Learns
<1>6. why[t] = "new" => t \notin joins.stopped /\ t # Root
  BY <1>1, <1>2 DEF Family, Births
<1>7. why[t] = "fork" =>
        child[t] \in Tid /\ child[t] \notin joins.acked /\ child[t] # Root
  BY <1>1, <1>2 DEF Family, Births
<1>8. \A c \in Tid \ {Root} : st[c] # "unborn" /\ c \notin joins.acked => \E p \in Tid : Halfway(c, p)
  BY DEF Births
<1>9. /\ \A c \in Tid : c \in joins'.stopped <=> c \in joins.stopped \/ (c = t /\ why[t] = "new")
      /\ \A c \in Tid : joins'.creator[c] =
           IF why[t] = "fork" /\ c = child[t] THEN t ELSE joins.creator[c]
      /\ \A u : u \in rows' <=> u \in rows \/ (u = t /\ why[t] = "new")
  BY <1>1, <1>2 DEF Learns
<1>10. ASSUME NEW c \in Tid, NEW p \in Tid, c \notin joins.acked, Halfway(c, p)
       PROVE  /\ child'[p] = c /\ why'[p] = "fork" /\ why'[c] = "new"
              /\ told'[c] <=> c \in joins'.stopped
              /\ joins'.creator[c] = IF told'[p] THEN p ELSE None
  <2>1. /\ child[p] = c /\ why[p] = "fork" /\ why[c] = "new" /\ p # c
        /\ told[c] <=> c \in joins.stopped
        /\ joins.creator[c] = IF told[p] THEN p ELSE None
    BY <1>10 DEF Halfway
  <2>2. told'[c] <=> c \in joins'.stopped
    BY <1>4, <1>9, <2>1
  <2>3. joins'.creator[c] = IF told'[p] THEN p ELSE None
    <3>1. CASE p = t
      BY <1>4, <1>9, <2>1, <3>1
    <3>2. CASE p # t
      <4>1. why[t] = "fork" => child[t] # c
        BY <1>1, <1>10, <2>1, <3>2 DEF Family
      <4> QED
        BY <1>4, <1>9, <2>1, <3>2, <4>1
    <3> QED
      BY <3>1, <3>2
  <2> QED
    BY <2>1, <2>2, <2>3
<1>11. ASSUME GoesOn(t), NEW c \in Tid, NEW p \in Tid, c \notin joins.acked, Halfway(c, p)
       PROVE  t \notin {c, p}
  <2>1. ~Pending(joins', t)
    BY <1>11 DEF GoesOn
  <2>2. t # c
    <3>1. t = c => c \in joins'.stopped
      BY <1>9, <1>11 DEF Halfway
    <3> QED
      BY <1>5, <1>11, <2>1, <3>1 DEF Pending
  <2>3. t # p
    <3>1. t = p => joins'.creator[c] = t
      BY <1>9, <1>11 DEF Halfway
    <3> QED
      BY <1>1, <1>5, <1>11, <2>1, <3>1 DEF Pending
  <2> QED
    BY <2>2, <2>3
<1>12. \A u \in Tid : st'[u] = st[u] \/ (u = t /\ st'[u] = "running" /\ GoesOn(t))
  BY <1>1 DEF Stops, Holds, GoesOn, Records
<1>13. ASSUME NEW c \in Tid \ {Root}, st'[c] # "unborn", c \notin joins'.acked
       PROVE  \E p \in Tid : Halfway(c, p)'
  <2>1. st[c] # "unborn" /\ c \notin joins.acked
    BY <1>2, <1>5, <1>12, <1>13
  <2>2. PICK p \in Tid : Halfway(c, p)
    BY <1>8, <2>1
  <2>3. st'[c] = st[c] /\ st'[p] = st[p]
    BY <1>11, <1>12, <2>1, <2>2
  <2>4. /\ child'[p] = c /\ why'[p] = "fork" /\ why'[c] = "new"
        /\ told'[c] <=> c \in joins'.stopped
        /\ joins'.creator[c] = IF told'[p] THEN p ELSE None
    BY <1>10, <2>1, <2>2
  <2>5. Halfway(c, p)'
    BY <2>2, <2>3, <2>4 DEF Halfway
  <2> QED
    BY <2>5
<1>14. ASSUME NEW c \in Tid, Records(c, t)
       PROVE  c \notin joins.acked
  BY <1>1, <1>6, <1>7, <1>14 DEF Records
<1>15. /\ \A i \in DOMAIN cont' : /\ cont'[i].kind = "BIRTH" /\ cont'[i].birth \notin joins.acked
                                  /\ cont'[i].kind \notin {"EXIT", "HELD"}
       /\ \A u \in rows : st[u] # "gone"
  <2>1. CASE Holds(t) \/ GoesOn(t)
    BY <1>3, <2>1 DEF Holds, GoesOn, Births
  <2>2. ASSUME NEW c \in Tid, Records(c, t)
        PROVE  <1>15!:
    <3> DEFINE k == [kind |-> "BIRTH", tid |-> t, birth |-> c]
    <3>1. k \in Cont /\ k.kind = "BIRTH" /\ k.birth = c
      BY DEF Cont
    <3>2. cont' = Append(cont, k)
      BY <2>2 DEF Records
    <3> HIDE DEF k
    <3>3. DOMAIN cont' = {1} /\ cont'[1] = k
      BY <1>3, <3>1, <3>2, First
    <3> QED
      BY <1>3, <1>14, <2>2, <3>1, <3>3 DEF Births
  <2> QED
    BY <2>1, <2>2 DEF Stops
<1>16. ~AllAreHeld /\ ~AllAreHeld'
  <2>1. ~AllAreHeld
    BY <1>2 DEF HeldAll, Waitable
  <2> QED
    BY <1>3, <1>15, <2>1 DEF AllAreHeld, Has
<1>17. Births'
  <2>1. st'[Root] \notin {"unborn", "born"} /\ why'[Root] # "new"
    BY <1>1, <1>12 DEF Births
  <2>2. Root \notin joins'.stopped /\ joins'.creator[Root] = None /\ \A p \in Tid : child'[p] # Root
    BY <1>1, <1>6, <1>7, <1>9 DEF Births
  <2>3. rows' \subseteq {Root} \cup joins'.stopped
    BY <1>1, <1>9 DEF Births
  <2>4. \A u \in rows' : st'[u] # "gone"
    BY <1>1, <1>2, <1>9, <1>12, <1>15
  <2> QED
    BY <1>5, <1>13, <1>15, <2>1, <2>2, <2>3, <2>4 DEF Births
<1>18. {Root} \cap rows' \subseteq rows /\ (joins.acked \cap rows') \subseteq rows
  BY <1>1, <1>6, <1>9
<1> QED
  BY <1>14, <1>16, <1>17, <1>18

LEMMA BirthsOfEnd ==
  ASSUME Traced, Births, HeldAll, NEW t \in Tid, tpc = "run", Dies(t),
         told' = [told EXCEPT ![t] = TRUE], UNCHANGED <<why, child, allHeld>>
  PROVE  ~Betrays(t) /\ Births' /\ ~AllAreHeld /\ ~AllAreHeld'
<1>1. /\ Waiting /\ Family /\ Taken /\ Quiet
      /\ st \in [Tid -> States]
      /\ told \in [Tid -> BOOLEAN] /\ rows \subseteq Tid
      /\ Root \in Tid /\ None \notin Tid
  BY Ground
<1>2. st[t] = "dead" /\ UNCHANGED <<joins, rows, held>>
  BY DEF Dies
<1>3. cont = <<>> /\ DOMAIN cont = {}
  BY <1>1 DEF Waiting
<1>4. \A u \in Tid \ {t} : told'[u] = told[u]
  BY <1>1
<1>5. ~Betrays(t)
  BY <1>2, PendingIsHalfway DEF Betrays, Halfway
<1>6. st'[t] = "gone" /\ \A u \in Tid \ {t} : st'[u] = st[u]
  BY <1>1, <1>5 DEF Dies, Vanishes, Leaves
<1>7. ~AllAreHeld
  BY <1>2 DEF HeldAll, Waitable
<1>8. /\ \A i \in DOMAIN cont' : cont'[i].kind = "EXIT" /\ cont'[i].tid = t /\ t \in rows
      /\ t \in rows => \E i \in DOMAIN cont' : cont'[i].kind = "EXIT" /\ cont'[i].tid = t
  <2>1. CASE Vanishes(t)
    BY <1>3, <2>1 DEF Vanishes
  <2>2. CASE Leaves(t)
    <3> DEFINE k == [kind |-> "EXIT", tid |-> t, birth |-> None]
    <3>1. k \in Cont /\ k.kind = "EXIT" /\ k.tid = t
      BY DEF Cont
    <3>2. cont' = Append(cont, k) /\ t \in rows
      BY <2>2 DEF Leaves
    <3> HIDE DEF k
    <3>3. DOMAIN cont' = {1} /\ cont'[1] = k
      BY <1>3, <3>1, <3>2, First
    <3> QED
      BY <3>1, <3>2, <3>3
  <2> QED
    BY <1>5, <2>1, <2>2 DEF Dies
<1>9. ~AllAreHeld'
  BY <1>7, <1>8 DEF AllAreHeld, Has
<1>10. ASSUME NEW c \in Tid \ {Root}, st'[c] # "unborn", c \notin joins'.acked
       PROVE  \E p \in Tid : Halfway(c, p)'
  <2>1. st[c] # "unborn" /\ c \notin joins.acked
    BY <1>2, <1>6, <1>10
  <2>2. PICK p \in Tid : Halfway(c, p)
    BY <2>1 DEF Births
  <2>3. c # t /\ p # t
    BY <1>2, <2>2 DEF Halfway
  <2>4. Halfway(c, p)'
    BY <1>2, <1>4, <1>6, <2>2, <2>3 DEF Halfway
  <2> QED
    BY <2>4
<1>11. \A u \in rows : st[u] # "gone"
  BY <1>3 DEF Births
<1>12. Births'
  BY <1>1, <1>2, <1>6, <1>8, <1>10, <1>11 DEF Births
<1> QED
  BY <1>5, <1>7, <1>9, <1>12

LEMMA BirthsOfHold ==
  ASSUME Traced, Births, TryHeld
  PROVE  Births' /\ HeldAll' /\ AllAreHeld' /\ ~AllAreHeld
<1> DEFINE k == [kind |-> "HELD", tid |-> None, birth |-> None]
<1>1. /\ Waiting /\ Taken /\ rows \subseteq Tid
  BY Ground
<1>2. /\ tpc = "run" /\ ~allHeld /\ rows \subseteq held /\ \A t \in Tid : ~Waitable(t)
      /\ \A c \in Tid : c \in joins.stopped \/ joins.creator[c] # None => c \in joins.acked
      /\ cont' = Append(cont, k)
      /\ UNCHANGED <<st, why, told, child, rows, held, joins, allHeld>>
  BY DEF TryHeld, Send, kernel
<1>3. k \in Cont /\ k.kind = "HELD"
  BY DEF Cont
<1> HIDE DEF k
<1>4. cont = <<>> /\ DOMAIN cont = {}
  BY <1>1, <1>2 DEF Waiting
<1>5. DOMAIN cont' = {1} /\ cont'[1] = k
  BY <1>2, <1>3, <1>4, First
<1>6. \A t \in rows : st[t] # "gone"
  BY <1>4 DEF Births
<1>7. \A t \in Tid : t \in rows <=> Live(t)
  <2>1. ASSUME NEW t \in rows
        PROVE  Live(t)
    <3>1. st[t] \in {"stopped", "dead", "gone"} /\ st[t] # "dead" /\ st[t] # "gone"
      BY <1>1, <1>2, <1>6, <2>1 DEF Taken, Waitable
    <3> QED
      BY <3>1 DEF Live
  <2>2. ASSUME NEW t \in Tid, Live(t)
        PROVE  t \in rows
    <3>1. CASE st[t] \in {"running", "stopped"}
      BY <1>1, <1>2, <2>2, <3>1 DEF Taken, Waitable
    <3>2. CASE st[t] = "born"
      <4>1. t # Root /\ t \notin joins.acked
        BY <2>2, <3>2, Ground DEF Births, Family
      <4>2. PICK p \in Tid : Halfway(t, p)
        BY <2>2, <3>2, <4>1 DEF Births
      <4>3. joins.creator[t] = p /\ p # None
        BY <1>2, <4>2, Ground DEF Halfway, Waitable
      <4> QED
        BY <1>2, <2>2, <4>1, <4>3
    <3> QED
      BY <2>2, <3>1, <3>2 DEF Live
  <2> QED
    BY <1>1, <2>1, <2>2
<1>8. HeldAll'
  <2>1. rows # {}
    BY <1>7 DEF TryHeld
  <2> QED
    BY <1>2, <1>7, <2>1 DEF HeldAll, Waitable, Live
<1>9. Births'
  BY <1>2, <1>3, <1>5, <1>6 DEF Births, Halfway
<1>10. AllAreHeld' /\ ~AllAreHeld
  BY <1>2, <1>3, <1>4, <1>5 DEF AllAreHeld, Has
<1> QED
  BY <1>8, <1>9, <1>10

LEMMA BirthsOfCommand ==
  ASSUME Traced, Births, HeldAll, UNCHANGED <<why, told, child, rows, joins>>, Freezes \/ Resumes
  PROVE  /\ Births' /\ HeldAll'
         /\ Freezes => ~AllAreHeld /\ ~AllAreHeld'
         /\ Resumes => ~AllAreHeld'
<1>1. /\ Waiting /\ Quiet /\ st \in [Tid -> States] /\ rows \subseteq Tid
      /\ \A t \in Tid : st[t] = "unborn" => t # Root
  BY Ground DEF Births
<1>2. CASE Freezes
  <2>1. ~freezing /\ UNCHANGED <<st, allHeld, cont>>
    BY <1>2 DEF Freezes
  <2>2. ~AllAreHeld /\ ~AllAreHeld'
    BY <1>1, <2>1 DEF Quiet, AllAreHeld, Has
  <2>3. Births'
    BY <2>1 DEF Births, Halfway
  <2>4. ~Resumes
    BY <1>2 DEF Freezes, Resumes
  <2> QED
    BY <2>2, <2>3, <2>4 DEF HeldAll
<1>3. CASE Resumes
  <2> DEFINE k == [kind |-> "RESUMED", tid |-> None, birth |-> None]
  <2>1. /\ allHeld /\ allHeld' = FALSE /\ st' = Restarted(st, rows) /\ cont' = Append(cont, k)
    BY <1>3 DEF Resumes, Resume, Send
  <2>2. k \in Cont /\ k.kind = "RESUMED"
    BY DEF Cont
  <2> HIDE DEF k
  <2>3. \A t \in Tid : st'[t] = IF t \in rows /\ st[t] = "stopped" THEN "running" ELSE st[t]
    BY <2>1, RestartedDoes, Types, Ground
  <2>4. /\ AllAreHeld /\ ~Has(cont, "HELD") /\ \A t \in Tid : ~Waitable(t)
        /\ \A c \in Tid : c \in joins.stopped \/ joins.creator[c] # None => c \in joins.acked
    BY <1>1, <2>1 DEF Quiet, HeldAll, AllAreHeld
  <2>5. \A c \in Tid \ {Root} : st[c] # "unborn" => c \in joins.acked
    <3> SUFFICES ASSUME NEW c \in Tid \ {Root}, st[c] # "unborn", c \notin joins.acked
                 PROVE  FALSE
      OBVIOUS
    <3>1. PICK p \in Tid : Halfway(c, p)
      BY DEF Births
    <3> QED
      BY <2>4, <3>1, Ground DEF Halfway, Waitable
  <2>6. /\ \A i \in DOMAIN cont : i \in DOMAIN cont' /\ cont'[i] = cont[i]
        /\ \A i \in DOMAIN cont' : (i \in DOMAIN cont /\ cont'[i] = cont[i]) \/ cont'[i] = k
    <3>1. cont \in Seq(Cont)
      BY <1>1 DEF Waiting
    <3> QED
      BY <2>1, <2>2, <3>1, Grown
  <2>7. ~AllAreHeld'
    BY <2>1, <2>2, <2>4, <2>6 DEF AllAreHeld, Has
  <2>8. Births'
    <3>1. \A t \in rows : st'[t] = "gone" => \E i \in DOMAIN cont' : cont'[i].kind = "EXIT" /\ cont'[i].tid = t
      BY <1>1, <2>3, <2>6 DEF Births
    <3>2. \A i \in DOMAIN cont' : /\ cont'[i].kind = "BIRTH" => cont'[i].birth \notin joins.acked
                                  /\ cont'[i].kind = "EXIT" => cont'[i].tid \in rows
      BY <2>2, <2>6 DEF Births
    <3>3. \A t \in Tid : /\ st'[t] = "unborn" <=> st[t] = "unborn"
                         /\ st'[t] = "born" <=> st[t] = "born"
      BY <2>3
    <3> QED
      BY Ground, <2>5, <3>1, <3>2, <3>3 DEF Births
  <2>9. ~Freezes
    BY <1>3 DEF Freezes, Resumes
  <2> QED
    BY <2>7, <2>8, <2>9 DEF HeldAll
<1> QED
  BY <1>2, <1>3

LEMMA BirthsOfAck ==
  ASSUME Traced, Births, HeldAll, TakeAck
  PROVE  /\ Births' /\ HeldAll'
         /\ Last.kind \notin {"BIRTH", "EXIT"} => UNCHANGED <<rows, joins>>
         /\ Last.kind # "BIRTH" => UNCHANGED <<joins, st>>
         /\ Last.kind # "EXIT" => UNCHANGED rows
         /\ Last.kind = "BIRTH" => joins'.acked = joins.acked \cup {Last.birth}
         /\ Last.kind = "EXIT" => rows' = rows \ {Last.tid}
<1>1. /\ Waiting /\ Taken /\ Quiet /\ TypeOK
      /\ st \in [Tid -> States] /\ rows \subseteq Tid /\ held \subseteq Tid /\ joins \in Joins
      /\ Root \in Tid /\ None \notin Tid
  BY Ground
<1>2. /\ cont # <<>> /\ cont' = SubSeq(cont, 1, Len(cont) - 1)
      /\ UNCHANGED <<why, told, child, freezing>>
      /\ AckBirth \/ AckExit \/ AckHeld \/ AckResumed
  BY <1>1, TakeAckDoes
<1>3. cont \in Seq(Cont)
  BY <1>1 DEF Waiting
<1>4. /\ Len(cont) \in Nat \ {0} /\ Len(cont) \in DOMAIN cont
      /\ \A i \in DOMAIN cont' : i \in DOMAIN cont /\ i # Len(cont) /\ cont'[i] = cont[i]
      /\ \A i \in DOMAIN cont : i # Len(cont) => i \in DOMAIN cont'
  BY <1>2, <1>3, Popped
<1>5. CASE AckExit \/ AckHeld \/ AckResumed
  <2>1. /\ Last.kind \in {"EXIT", "HELD", "RESUMED"} /\ UNCHANGED <<joins, st, held>>
        /\ rows' = IF Last.kind = "EXIT" THEN rows \ {Last.tid} ELSE rows
    BY <1>5 DEF AckExit, AckHeld, AckResumed
  <2>2. Last.kind = "EXIT" => /\ \A i \in DOMAIN cont : i = Len(cont)
                              /\ st[Last.tid] = "gone" /\ Last.tid \in rows
    <3>1. Last.kind = "EXIT" => Len(cont) = 1
      BY <1>1, <1>4 DEF Waiting, Last
    <3>2. Len(cont) = 1 => \A i \in DOMAIN cont : i = Len(cont)
      BY <1>3
    <3> QED
      BY <1>1, <1>4, <3>1, <3>2 DEF Waiting, Births, Last
  <2>3. \A t \in rows' : st[t] = "gone" => \E i \in DOMAIN cont' : cont'[i].kind = "EXIT" /\ cont'[i].tid = t
    <3> SUFFICES ASSUME NEW t \in rows', st[t] = "gone"
                 PROVE  \E i \in DOMAIN cont' : cont'[i].kind = "EXIT" /\ cont'[i].tid = t
      OBVIOUS
    <3>1. PICK i \in DOMAIN cont : cont[i].kind = "EXIT" /\ cont[i].tid = t
      BY <2>1 DEF Births
    <3>2. i # Len(cont)
      <4>1. i = Len(cont) => Last = cont[i]
        BY DEF Last
      <4> QED
        BY <2>1, <3>1, <4>1
    <3> QED
      BY <1>4, <3>1, <3>2
  <2>4. \A i \in DOMAIN cont' : /\ cont'[i].kind = "BIRTH" => cont'[i].birth \notin joins.acked
                                /\ cont'[i].kind = "EXIT" => cont'[i].tid \in rows'
    BY <1>4, <2>1, <2>2 DEF Births
  <2>5. Births'
    BY <1>1, <1>2, <2>1, <2>3, <2>4 DEF Births, Halfway
  <2>6. AllAreHeld' => AllAreHeld
    BY <1>4, <1>5 DEF AckExit, AckHeld, AckResumed, AllAreHeld, Has, Last
  <2>7. HeldAll'
    <3>1. AllAreHeld => rows' = rows
      BY <2>1, <2>2, <1>1 DEF HeldAll, Live
    <3> QED
      BY <1>2, <2>1, <2>6, <3>1 DEF HeldAll, Waitable, Live
  <2> QED
    BY <2>1, <2>5, <2>7
<1>6. CASE AckBirth
  <2> DEFINE c == Last.birth
             t == Last.tid
             now == [joins EXCEPT !.acked = @ \cup {c}]
             free == IF freezing THEN {} ELSE {u \in (held \cap rows) \cup {t} : ~Pending(now, u)}
  <2>1. Last.kind = "BIRTH" /\ BirthAcked(c, t)
    BY <1>6 DEF AckBirth
  <2>2. Len(cont) = 1
    BY <1>1, <1>4, <2>1 DEF Waiting, Last
  <2>3. \A i \in DOMAIN cont : i = Len(cont)
    BY <1>3, <2>2
  <2>4. DOMAIN cont' = {} /\ \A i \in DOMAIN cont : cont[i] = Last
    BY <1>4, <2>3 DEF Last
  <2>5. /\ joins' = now /\ joins'.stopped = joins.stopped /\ joins'.creator = joins.creator
        /\ joins'.acked = joins.acked \cup {c}
    BY <1>1, <2>1 DEF BirthAcked, Joins
  <2>6. t \in Joining /\ t \in Tid
    <3>1. t \in Joining
      BY <1>4, <2>1 DEF Last, Joining
    <3> QED
      BY <1>1, <3>1, Waits
  <2> HIDE DEF c, t, now
  <2>7. st' = Restarted(st, free) /\ UNCHANGED <<rows, allHeld>>
    BY <2>1 DEF BirthAcked, now
  <2> HIDE DEF free
  <2>8. \A u \in Tid : st'[u] = IF u \in free /\ st[u] = "stopped" THEN "running" ELSE st[u]
    BY <2>7, RestartedDoes, Types, <1>1
  <2>9. \A u \in free : u \in held \cup Joining /\ ~Pending(joins', u)
    BY <2>5, <2>6 DEF free
  <2>10. \A u \in held \cup Joining : st[u] # "born" /\ (st[u] = "stopped" => told[u])
    BY <1>1 DEF Taken
  <2>11. ASSUME NEW d \in Tid \ {Root}, st'[d] # "unborn", d \notin joins'.acked
         PROVE  \E p \in Tid : Halfway(d, p)'
    <3>1. d \notin joins.acked /\ st[d] # "unborn"
      BY <2>5, <2>8, <2>11
    <3>2. PICK p \in Tid : Halfway(d, p)
      BY <3>1 DEF Births
    <3>3. d \notin free
      <4>1. d \in free => d \in joins'.stopped
        BY <2>5, <2>9, <2>10, <3>2 DEF Halfway
      <4> QED
        BY <2>9, <2>11, <4>1 DEF Pending
    <3>4. p \notin free
      <4>1. p \in free => joins'.creator[d] = p
        BY <2>5, <2>9, <2>10, <3>2 DEF Halfway
      <4> QED
        BY <1>1, <2>9, <2>11, <4>1 DEF Pending
    <3>5. st'[d] = st[d] /\ st'[p] = st[p]
      BY <2>8, <3>3, <3>4
    <3>6. Halfway(d, p)'
      BY <1>2, <2>5, <3>2, <3>5 DEF Halfway
    <3> QED
      BY <3>6
  <2>12. \A u \in rows : st'[u] # "gone"
    BY <1>1, <2>1, <2>4, <2>8 DEF Births
  <2>13. Births'
    BY <1>1, <1>2, <2>4, <2>5, <2>7, <2>8, <2>11, <2>12 DEF Births
  <2>14. ~AllAreHeld'
    <3>1. ~AllAreHeld
      BY <1>1, <1>4, <2>1 DEF Quiet, Has, Last
    <3> QED
      BY <2>4, <2>7, <3>1 DEF AllAreHeld, Has
  <2>15. Last.kind = "BIRTH" /\ joins'.acked = joins.acked \cup {Last.birth}
    BY <2>1, <2>5 DEF c
  <2> QED
    BY <2>7, <2>13, <2>14, <2>15 DEF HeldAll
<1> QED
  BY <1>2, <1>5, <1>6

\* What leaves threads and tracer alone leaves births and holds.
LEMMA BirthsStay ==
  ASSUME Births, HeldAll, UNCHANGED <<st, why, told, child, cont, rows, joins, allHeld>>
  PROVE  Births' /\ HeldAll' /\ (AllAreHeld' <=> AllAreHeld)
<1>1. AllAreHeld' <=> AllAreHeld
  BY DEF AllAreHeld, Has
<1> QED
  BY <1>1 DEF Births, HeldAll, Halfway, Waitable, Live

-----------------------------------------------------------------------------
(***************************************************************************)
(* The record and the commands under way.                                  *)
(***************************************************************************)

LEMMA Pairs ==
  ASSUME NEW S, NEW a \in S, NEW b \in S
  PROVE  /\ Append(<<>>, a) = <<a>> /\ Append(<<a>>, b) = <<a, b>>
         /\ Tail(<<a>>) = <<>> /\ Tail(<<a, b>>) = <<b>>
         /\ Head(<<a>>) = a /\ Head(<<a, b>>) = a
         /\ <<a>> # <<>> /\ <<a, b>> # <<>>
         /\ Len(<<a>>) = 1 /\ <<a>>[1] = a
<1>1. Append(<<>>, a) = <<a>> /\ Len(<<a>>) = 1 /\ <<a>>[1] = a
  OBVIOUS
<1>2. Append(<<a>>, b) = <<a, b>>
  <2> DEFINE r == Append(<<a>>, b)
             s == <<a, b>>
  <2>1. /\ <<a>> \in Seq(S) /\ Len(<<a>>) = 1 /\ <<a>>[1] = a
        /\ s \in Seq(S) /\ Len(s) = 2 /\ s[1] = a /\ s[2] = b
    OBVIOUS
  <2>2. r \in Seq(S) /\ Len(r) = 2 /\ r[1] = a /\ r[2] = b
    BY <2>1, AppendProperties
  <2> HIDE DEF r, s
  <2>3. \A i \in 1..2 : r[i] = s[i]
    BY <2>1, <2>2
  <2>4. r = s
    BY <2>1, <2>2, <2>3, SeqEqual
  <2> QED
    BY <2>4 DEF r, s
<1>3. Tail(<<a>>) = <<>>
  OBVIOUS
<1>4. Tail(<<a, b>>) = <<b>>
  OBVIOUS
<1>5. Head(<<a>>) = a /\ Head(<<a, b>>) = a
  OBVIOUS
<1>6. <<a>> # <<>> /\ <<a, b>> # <<>>
  OBVIOUS
<1> QED
  BY <1>1, <1>2, <1>3, <1>4, <1>5, <1>6

LEMMA PairHas ==
  ASSUME NEW a, NEW b, NEW kind
  PROVE  /\ ~Has(<<>>, kind)
         /\ Has(<<a>>, kind) <=> a.kind = kind
         /\ Has(<<a, b>>, kind) <=> a.kind = kind \/ b.kind = kind
<1>1. DOMAIN <<a>> = {1} /\ DOMAIN <<a, b>> = {1, 2} /\ <<a>>[1] = a /\ <<a, b>>[1] = a /\ <<a, b>>[2] = b
  OBVIOUS
<1>2. ~Has(<<>>, kind)
  BY DEF Has
<1>3. Has(<<a>>, kind) <=> a.kind = kind
  BY <1>1 DEF Has
<1>4. Has(<<a, b>>, kind) <=> a.kind = kind \/ b.kind = kind
  <2>1. Has(<<a, b>>, kind) <=> \E i \in {1, 2} : <<a, b>>[i].kind = kind
    BY <1>1 DEF Has
  <2> QED
    BY <1>1, <2>1
<1> QED
  BY <1>2, <1>3, <1>4

LEMMA Commands ==
  ASSUME Traced
  PROVE  /\ Ack \in Command /\ Frz \in Command /\ Rsm \in Command
         /\ Ack.kind = "ACK" /\ Frz.kind = "FREEZE" /\ Rsm.kind = "RESUME"
         /\ snapshots \in Nat /\ tseq \in Nat /\ cseq \in Nat
<1>1. snapshots \in Nat /\ tseq \in Nat /\ cseq \in Nat
  BY SnapshotAssumption DEF Traced, TypeOK
<1> QED
  BY <1>1 DEF Ack, Frz, Rsm, Command

\* Which commands are under way.
LEMMA UnderWay ==
  ASSUME Traced, Exchange
  PROVE  /\ ~Answered =>
              \/ toTracer = <<>> /\ ~Has(toTracer, "FREEZE") /\ ~Has(toTracer, "RESUME")
              \/ toTracer = <<Frz>> /\ Has(toTracer, "FREEZE") /\ ~Has(toTracer, "RESUME")
              \/ toTracer = <<Rsm>> /\ ~Has(toTracer, "FREEZE") /\ Has(toTracer, "RESUME")
         /\ Answered =>
              \/ toTracer = <<Ack>> /\ ~Has(toTracer, "FREEZE") /\ ~Has(toTracer, "RESUME")
              \/ /\ toTracer \in {<<Ack, Frz>>, <<Frz, Ack>>}
                 /\ Has(toTracer, "FREEZE") /\ ~Has(toTracer, "RESUME")
              \/ toTracer = <<Ack, Rsm>> /\ ~Has(toTracer, "FREEZE") /\ Has(toTracer, "RESUME")
<1>1. Ack.kind = "ACK" /\ Frz.kind = "FREEZE" /\ Rsm.kind = "RESUME"
  BY Commands
<1>2. /\ ~Answered => toTracer \in {<<>>, <<Frz>>, <<Rsm>>}
      /\ Answered => toTracer \in {<<Ack>>, <<Ack, Frz>>, <<Frz, Ack>>, <<Ack, Rsm>>}
  BY DEF Exchange
<1> HIDE DEF Ack, Frz, Rsm
<1>3. /\ ~Has(<<>>, "FREEZE") /\ ~Has(<<>>, "RESUME")
      /\ Has(<<Frz>>, "FREEZE") /\ ~Has(<<Frz>>, "RESUME")
      /\ Has(<<Rsm>>, "RESUME") /\ ~Has(<<Rsm>>, "FREEZE")
      /\ ~Has(<<Ack>>, "FREEZE") /\ ~Has(<<Ack>>, "RESUME")
  BY <1>1, PairHas
<1>4. /\ Has(<<Ack, Frz>>, "FREEZE") /\ ~Has(<<Ack, Frz>>, "RESUME")
      /\ Has(<<Frz, Ack>>, "FREEZE") /\ ~Has(<<Frz, Ack>>, "RESUME")
      /\ Has(<<Ack, Rsm>>, "RESUME") /\ ~Has(<<Ack, Rsm>>, "FREEZE")
  BY <1>1, PairHas
<1> QED
  BY <1>2, <1>3, <1>4

\* While a sample is due nobody runs.
LEMMA SampleIsStill ==
  ASSUME Traced, Agreed, InSample, hold.held
  PROVE  /\ tpc = "exited" \/ AllAreHeld
         /\ \A t \in Tid : st[t] \notin {"running", "born"}
<1>1. tpc = "exited" \/ AllAreHeld
  BY DEF Agreed, Phase, InSample
<1>2. Quiet
  BY Ground
<1>3. CASE tpc = "exited"
  BY <1>2, <1>3 DEF Quiet, Live
<1>4. CASE AllAreHeld
  BY <1>4, NobodyIsBorn DEF Agreed
<1> QED
  BY <1>1, <1>3, <1>4

\* A step that leaves tracer, controller and channel alone.
LEMMA ExchangeStays ==
  ASSUME UNCHANGED <<tpc, tseq, cont, joins, rows, freezing, allHeld, toCtl, toTracer>>,
         UNCHANGED <<cpc, cseq, threads, births, hold, snapshots, spoiled>>
  PROVE  /\ Exchange => Exchange'
         /\ Phase => Phase'
         /\ Rosters /\ (InSample /\ hold.held => \A t \in Tid : Live(t)' <=> Live(t)) => Rosters'
<1>1. (Answered' <=> Answered) /\ Ack' = Ack /\ Frz' = Frz /\ Rsm' = Rsm /\ (InSample' <=> InSample)
  BY DEF Answered, Ack, Frz, Rsm, InSample
<1>2. /\ Has(toTracer, "FREEZE")' <=> Has(toTracer, "FREEZE")
      /\ Has(toTracer, "RESUME")' <=> Has(toTracer, "RESUME")
      /\ Has(toCtl, "RESUMED")' <=> Has(toCtl, "RESUMED")
      /\ AllAreHeld' <=> AllAreHeld
  BY DEF Has, AllAreHeld
<1>3. Exchange => Exchange'
  BY <1>1 DEF Exchange, Tells
<1>4. Phase => Phase'
  BY <1>2 DEF Phase
<1>5. (InSample /\ hold.held => \A t \in Tid : Live(t)' <=> Live(t)) /\ Rosters => Rosters'
  BY <1>1 DEF Rosters
<1> QED
  BY <1>3, <1>4, <1>5

LEMMA AgreedKernel ==
  ASSUME Traced, Agreed, Threads \/ Kernel, "kill" \notin scenario.faults
  PROVE  Agreed'
<1>1. Births' /\ HeldAll'
  BY BirthsOfKernel DEF Agreed
<1>2. UNCHANGED <<tracer, controller, channel>>
  BY DEF Threads, Kernel, Fork, Exit, Release, Killed, Trap, FirstStop
<1>3. InSample /\ hold.held => \A t \in Tid : Live(t)' <=> Live(t)
  <2>1. ASSUME \A t \in Tid : st[t] \notin {"running", "born"}
        PROVE  UNCHANGED st
    BY <2>1 DEF Threads, Kernel, Fork, Exit, Release, Killed, Trap, FirstStop, Awake
  <2> QED
    BY <2>1, SampleIsStill DEF Live
<1>4. Rosters' /\ (tpc' # "exited" => Exchange' /\ Phase')
  BY <1>2, <1>3, ExchangeStays DEF Agreed, tracer, controller, channel
<1> QED
  BY <1>1, <1>4 DEF Agreed

\* The one record of a tracer that was taking stops.
LEMMA SendsOne ==
  ASSUME Traced, Exchange, tpc = "run", tpc' = "ack", tseq' = tseq + 1, cseq' = cseq, ~allHeld',
         NEW k \in Cont, cont' = Append(cont, k),
         NEW r \in Record, toCtl' = Append(toCtl, r), r.seq = tseq + 1, Tells(r, k)',
         toTracer' \in {<<>>, <<Frz>>, <<Rsm>>}, snapshots' = snapshots
  PROVE  /\ Exchange' /\ ~Answered /\ ~Answered'
         /\ Has(toCtl, "RESUMED")' <=> r.kind = "RESUMED"
         /\ ~Has(toCtl, "RESUMED") /\ toCtl = <<>> /\ toCtl' # <<>>
         /\ DOMAIN cont' = {1} /\ cont'[1] = k
<1>1. toCtl = <<>> /\ cont = <<>> /\ cseq = tseq
  BY Ground DEF Exchange, Waiting
<1>2. cont' \in Seq(Cont) /\ DOMAIN cont' = {1} /\ cont'[1] = k /\ Len(cont') = 1
  BY <1>1, First
<1>3. toCtl' = <<r>> /\ toCtl' # <<>> /\ Len(toCtl') = 1 /\ toCtl'[1] = r
  BY <1>1, Pairs
<1>4. Frz' = Frz /\ Rsm' = Rsm /\ ~Answered /\ ~Answered'
  BY <1>3 DEF Frz, Rsm, Answered
<1>5. (Has(toCtl, "RESUMED")' <=> r.kind = "RESUMED") /\ ~Has(toCtl, "RESUMED")
  <2>1. Has(<<r>>, "RESUMED") <=> r.kind = "RESUMED"
    BY PairHas
  <2>2. ~Has(<<>>, "RESUMED")
    BY PairHas
  <2>3. Has(toCtl, "RESUMED")' <=> Has(<<r>>, "RESUMED")
    BY <1>3 DEF Has
  <2> QED
    BY <1>1, <2>1, <2>2, <2>3
<1>6. Tells(toCtl[1], cont[1])'
  BY <1>2, <1>3 DEF Tells
<1>7. Exchange'
  <2>1. toTracer' \in {<<>>, <<Frz'>>, <<Rsm'>>}
    BY <1>4
  <2> QED
    BY <1>1, <1>2, <1>3, <1>4, <1>6, <2>1 DEF Exchange
<1> QED
  BY <1>1, <1>2, <1>3, <1>4, <1>5, <1>7

\* While the tracer takes stops, and not all are held, no resume is under way.
LEMMA TakingStops ==
  ASSUME Traced, Agreed, tpc = "run", ~AllAreHeld
  PROVE  /\ Exchange /\ Phase /\ Rosters /\ ~Answered /\ toCtl = <<>> /\ cont = <<>>
         /\ toTracer \in {<<>>, <<Frz>>} /\ ~Has(toTracer, "RESUME")
         /\ cpc \notin {"frozen", "sampled"}
         /\ cpc = "freezing" => ~hold.held
         /\ cpc = "resuming" => ~freezing /\ hold.resumed
         /\ births = {Root} \cup joins.acked /\ threads = births \cap rows
<1>1. Exchange /\ Phase /\ Rosters /\ toCtl = <<>> /\ cont = <<>>
  BY Ground DEF Agreed, Exchange, Waiting
<1>2. ~Answered
  BY DEF Answered
<1>3. ~Has(toTracer, "RESUME") /\ ~Has(toCtl, "RESUMED")
  BY <1>1, PairHas DEF Phase
<1>4. toTracer \in {<<>>, <<Frz>>}
  BY <1>1, <1>2, <1>3, UnderWay
<1>5. /\ cpc \notin {"frozen", "sampled"}
      /\ cpc = "freezing" => ~hold.held
      /\ cpc = "resuming" => ~freezing /\ hold.resumed
  BY <1>1, <1>3 DEF Phase
<1>6. births = {Root} \cup joins.acked /\ threads = births \cap rows
  BY <1>1, <1>2 DEF Rosters
<1> QED
  BY <1>1, <1>2, <1>3, <1>4, <1>5, <1>6

\* From there on a record of a birth or an end changes nothing of the hold.
LEMMA RecordsAgree ==
  ASSUME Traced, Agreed, tpc = "run", ~AllAreHeld, ~AllAreHeld', Births', HeldAll',
         UNCHANGED <<freezing, controller, toTracer>>, ~allHeld',
         tpc' = "ack", tseq' = tseq + 1, joins'.acked = joins.acked,
         births \cap rows' = births \cap rows,
         NEW k \in Cont, cont' = Append(cont, k),
         NEW r \in Record, toCtl' = Append(toCtl, r), r.seq = tseq + 1, Tells(r, k)',
         r.kind # "RESUMED"
  PROVE  Agreed'
<1>1. /\ Exchange /\ Phase /\ Rosters /\ toCtl = <<>> /\ toTracer \in {<<>>, <<Frz>>}
      /\ ~Has(toTracer, "RESUME") /\ cpc \notin {"frozen", "sampled"}
      /\ cpc = "freezing" => ~hold.held
      /\ cpc = "resuming" => ~freezing /\ hold.resumed
      /\ births = {Root} \cup joins.acked /\ threads = births \cap rows
  BY TakingStops
<1>2. UNCHANGED <<cpc, cseq, threads, births, hold, snapshots, spoiled>>
  BY DEF controller
<1>3. /\ Exchange' /\ ~Answered' /\ ~Has(toCtl, "RESUMED")' /\ ~Has(toCtl, "RESUMED") /\ toCtl' # <<>>
  BY <1>1, <1>2, SendsOne
<1>4. /\ Has(toTracer, "FREEZE")' <=> Has(toTracer, "FREEZE")
      /\ ~Has(toTracer, "RESUME")'
  BY <1>1 DEF Has
<1>5. Phase'
  BY <1>1, <1>2, <1>3, <1>4 DEF Phase
<1>6. Rosters'
  BY <1>1, <1>2, <1>3 DEF Rosters, InSample
<1> QED
  BY <1>3, <1>5, <1>6 DEF Agreed

LEMMA AgreedWait ==
  ASSUME Traced, Agreed, NEW t \in Tid, Wait(t)
  PROVE  Agreed'
<1>1. /\ tpc = "run" /\ told' = [told EXCEPT ![t] = TRUE]
      /\ UNCHANGED <<why, child, freezing, allHeld, controller, toTracer>>
      /\ Stops(t) \/ Dies(t)
  BY Ground, WaitDoes
<1>2. /\ tseq + 1 \in Nat /\ joins.acked \subseteq joins.stopped
      /\ rows \subseteq Tid /\ None \notin Tid /\ Root \in Tid
  BY Ground, Commands
<1>3. /\ Births' /\ HeldAll' /\ ~AllAreHeld /\ ~AllAreHeld' /\ joins'.acked = joins.acked
      /\ {Root} \cap rows' \subseteq rows /\ (joins.acked \cap rows') \subseteq rows /\ rows \subseteq rows'
  <2>1. CASE Stops(t)
    <3>1. /\ Births' /\ ~AllAreHeld /\ ~AllAreHeld'
          /\ {Root} \cap rows' \subseteq rows /\ (joins.acked \cap rows') \subseteq rows
      BY <1>1, <2>1, BirthsOfStop DEF Agreed
    <3>2. joins'.acked = joins.acked /\ rows \subseteq rows'
      BY <2>1 DEF Stops, Learns
    <3> QED
      BY <3>1, <3>2 DEF HeldAll
  <2>2. CASE Dies(t)
    <3>1. Births' /\ ~AllAreHeld /\ ~AllAreHeld'
      BY <1>1, <2>2, BirthsOfEnd DEF Agreed
    <3> QED
      BY <2>2, <3>1 DEF HeldAll, Dies
  <2> QED
    BY <1>1, <2>1, <2>2
<1>4. /\ Exchange /\ Phase /\ Rosters /\ toCtl = <<>> /\ cont = <<>>
      /\ cpc \notin {"frozen", "sampled"}
      /\ cpc = "freezing" => ~hold.held
      /\ births = {Root} \cup joins.acked /\ threads = births \cap rows /\ ~Answered
  BY <1>1, <1>3, TakingStops
<1>5. births \cap rows' = births \cap rows /\ ~allHeld'
  BY <1>1, <1>3, <1>4 DEF AllAreHeld
<1>6. CASE Holds(t) \/ GoesOn(t) \/ Vanishes(t)
  <2>1. UNCHANGED <<tpc, cont, tseq, toCtl>>
    BY <1>6 DEF Holds, GoesOn, Vanishes
  <2>2. UNCHANGED <<cpc, cseq, threads, births, hold, snapshots, spoiled>>
    BY <1>1 DEF controller
  <2>3. /\ ~Answered' /\ Frz' = Frz /\ Rsm' = Rsm /\ toCtl' = <<>>
        /\ Has(toTracer, "FREEZE")' <=> Has(toTracer, "FREEZE")
        /\ Has(toTracer, "RESUME")' <=> Has(toTracer, "RESUME")
        /\ Has(toCtl, "RESUMED")' <=> Has(toCtl, "RESUMED")
        /\ tpc' = "run"
    BY <1>1, <1>4, <2>1, <2>2 DEF Answered, Frz, Rsm, Has
  <2>4. Exchange'
    BY <1>1, <1>4, <2>1, <2>2, <2>3 DEF Exchange
  <2>5. ~Has(toTracer, "RESUME")
    BY <1>3, <1>4 DEF Phase
  <2>6. Phase'
    BY <1>1, <1>3, <1>4, <2>1, <2>2, <2>3, <2>5 DEF Phase
  <2>7. Rosters'
    <3>1. births' = {Root} \cup joins'.acked /\ threads' = births' \cap rows'
      BY <1>3, <1>4, <1>5, <2>2
    <3>2. ~(InSample /\ hold.held)'
      BY <1>4, <2>2 DEF InSample
    <3>3. ~(cpc' \in {"sampled", "resuming"} /\ spoiled')
      BY <1>1, <1>4, <2>2 DEF Rosters
    <3> QED
      BY <2>3, <3>1, <3>2, <3>3 DEF Rosters
  <2> QED
    BY <1>3, <2>4, <2>6, <2>7 DEF Agreed
<1>7. ASSUME Learns(t), NEW c \in Tid, Records(c, t)
      PROVE  Agreed'
  <2>0. PICK k, r : /\ k = [kind |-> "BIRTH", tid |-> t, birth |-> c]
                    /\ r = [kind |-> "BIRTH", seq |-> tseq + 1, tid |-> c,
                            creator |-> joins'.creator[c], roster |-> {}]
    OBVIOUS
  <2>1. joins'.creator[c] \in Tid \cup {None}
    BY <1>7 DEF Learns, Joins
  <2>2. /\ k \in Cont /\ k.kind = "BIRTH" /\ k.birth = c /\ r \in Record /\ r.kind = "BIRTH"
        /\ r.seq = tseq + 1 /\ r.tid = c /\ r.creator = joins'.creator[c]
    BY <1>2, <2>0, <2>1 DEF Cont, Record, Kinds
  <2>3. tpc' = "ack" /\ tseq' = tseq + 1 /\ cont' = Append(cont, k) /\ toCtl' = Append(toCtl, r)
    BY <1>7, <2>0 DEF Records
  <2>4. Tells(r, k)'
    BY <2>2, <2>3 DEF Tells
  <2> QED
    BY <1>1, <1>3, <1>5, <2>2, <2>3, <2>4, RecordsAgree
<1>8. CASE Dies(t) /\ Leaves(t)
  <2>0. PICK k, r : /\ k = [kind |-> "EXIT", tid |-> t, birth |-> None]
                    /\ r = [kind |-> "EXIT", seq |-> tseq + 1, tid |-> t, creator |-> None,
                            roster |-> {}]
    OBVIOUS
  <2>1. /\ k \in Cont /\ k.kind = "EXIT" /\ k.tid = t /\ r \in Record /\ r.kind = "EXIT"
        /\ r.seq = tseq + 1 /\ r.tid = t
    BY <1>2, <2>0 DEF Cont, Record, Kinds
  <2>2. tpc' = "ack" /\ tseq' = tseq + 1 /\ cont' = Append(cont, k) /\ toCtl' = Append(toCtl, r)
    BY <1>8, <2>0 DEF Leaves
  <2>3. Tells(r, k)'
    BY <2>1, <2>2 DEF Tells
  <2> QED
    BY <1>1, <1>3, <1>5, <2>1, <2>2, <2>3, RecordsAgree
<1>9. Dies(t) => ~Betrays(t)
  BY <1>1, BirthsOfEnd DEF Agreed
<1> QED
  BY <1>1, <1>6, <1>7, <1>8, <1>9 DEF Stops, Dies

LEMMA AgreedTryHeld ==
  ASSUME Traced, Agreed, TryHeld
  PROVE  Agreed'
<1>0. PICK k, r : /\ k = [kind |-> "HELD", tid |-> None, birth |-> None]
                  /\ r = [kind |-> "HELD", seq |-> tseq + 1, tid |-> None, creator |-> None,
                          roster |-> rows]
  OBVIOUS
<1>1. /\ tpc = "run" /\ freezing /\ ~allHeld
      /\ tpc' = "ack" /\ tseq' = tseq + 1 /\ cont' = Append(cont, k) /\ toCtl' = Append(toCtl, r)
      /\ UNCHANGED <<rows, joins, freezing, allHeld, controller, toTracer>>
  BY <1>0 DEF TryHeld, Send
<1>2. Births' /\ HeldAll' /\ AllAreHeld' /\ ~AllAreHeld
  BY BirthsOfHold DEF Agreed
<1>3. tseq + 1 \in Nat /\ rows \subseteq Tid
  BY Ground, Commands
<1>4. /\ k \in Cont /\ k.kind = "HELD" /\ r \in Record /\ r.kind = "HELD"
      /\ r.seq = tseq + 1 /\ r.roster = rows
  BY <1>0, <1>3 DEF Cont, Record, Kinds
<1>5. /\ Exchange /\ Phase /\ Rosters /\ toCtl = <<>> /\ toTracer \in {<<>>, <<Frz>>}
      /\ ~Has(toTracer, "RESUME") /\ cpc \notin {"frozen", "sampled"}
      /\ cpc = "freezing" => ~hold.held
      /\ cpc = "resuming" => ~freezing /\ hold.resumed
      /\ births = {Root} \cup joins.acked /\ threads = births \cap rows
  BY <1>1, <1>2, TakingStops
<1>6. UNCHANGED <<cpc, cseq, threads, births, hold, snapshots, spoiled>>
  BY <1>1 DEF controller
<1>7. Tells(r, k)'
  BY <1>1, <1>4 DEF Tells
<1>8. Exchange' /\ ~Answered' /\ ~Has(toCtl, "RESUMED")' /\ toCtl' # <<>>
  BY <1>1, <1>4, <1>5, <1>6, <1>7, SendsOne
<1>9. /\ Has(toTracer, "FREEZE")' <=> Has(toTracer, "FREEZE")
      /\ ~Has(toTracer, "RESUME")'
  BY <1>1, <1>5 DEF Has
<1>10. cpc = "freezing"
  BY <1>1, <1>5 DEF Phase
<1>11. Phase'
  BY <1>1, <1>5, <1>6, <1>8, <1>9, <1>10 DEF Phase
<1>12. Rosters'
  BY <1>1, <1>5, <1>6, <1>8, <1>10 DEF Rosters, InSample
<1> QED
  BY <1>2, <1>8, <1>11, <1>12 DEF Agreed

\* A freeze comes to a tracer that is not freezing, a resume to one that has
\* said that all are held: no command is refused.
LEMMA CommandIs ==
  ASSUME Traced, Agreed, TakeCommand
  PROVE  \/ /\ Freezes
            /\ \/ ~Answered /\ toTracer = <<Frz>> /\ toTracer' = <<>>
               \/ Answered /\ toTracer = <<Frz, Ack>> /\ toTracer' = <<Ack>>
         \/ Resumes /\ tpc = "run" /\ toTracer = <<Rsm>> /\ toTracer' = <<>>
<1>1. /\ tpc \in {"run", "ack"} /\ toTracer # <<>> /\ toTracer' = Tail(toTracer)
      /\ ~(tpc = "ack" /\ Head(toTracer) = Ack)
      /\ Freezes \/ Resumes \/ Refuses
  BY TakeCommandDoes DEF Ack
<1>2. Exchange /\ Phase /\ Waiting
  BY <1>1, Ground DEF Agreed
<1>3. /\ Ack \in Command /\ Frz \in Command /\ Rsm \in Command
      /\ Ack.kind = "ACK" /\ Frz.kind = "FREEZE" /\ Rsm.kind = "RESUME"
  BY Commands
<1> HIDE DEF Ack, Frz, Rsm
<1>4. CASE Answered
  <2>1. tpc = "ack"
    BY <1>4 DEF Answered
  <2>2. Head(<<Ack>>) = Ack /\ Head(<<Ack, Frz>>) = Ack /\ Head(<<Ack, Rsm>>) = Ack
    BY <1>3, Pairs
  <2>3. toTracer = <<Frz, Ack>> /\ Has(toTracer, "FREEZE")
    BY <1>1, <1>2, <1>4, <2>1, <2>2, UnderWay
  <2>4. Head(toTracer) = Frz /\ toTracer' = <<Ack>>
    BY <1>1, <1>3, <2>3, Pairs
  <2>5. ~freezing
    BY <1>2, <2>3 DEF Phase
  <2>6. Freezes
    BY <1>1, <1>3, <2>4, <2>5 DEF Resumes, Refuses
  <2> QED
    BY <1>4, <2>3, <2>4, <2>6
<1>5. CASE ~Answered
  <2>1. CASE toTracer = <<Frz>> /\ Has(toTracer, "FREEZE")
    <3>1. Head(toTracer) = Frz /\ toTracer' = <<>>
      BY <1>1, <1>3, <2>1, Pairs
    <3>2. Freezes
      BY <1>1, <1>2, <1>3, <2>1, <3>1 DEF Resumes, Refuses, Phase
    <3> QED
      BY <1>5, <2>1, <3>1, <3>2
  <2>2. CASE toTracer = <<Rsm>> /\ Has(toTracer, "RESUME")
    <3>1. Head(toTracer) = Rsm /\ toTracer' = <<>>
      BY <1>1, <1>3, <2>2, Pairs
    <3>2. AllAreHeld /\ toCtl = <<>>
      BY <1>2, <2>2 DEF Phase
    <3>3. tpc = "run"
      BY <1>1, <1>5, <3>2 DEF Answered
    <3>4. allHeld
      <4>1. cont = <<>>
        BY <1>2, <3>3 DEF Waiting
      <4> QED
        BY <3>2, <4>1 DEF AllAreHeld, Has
    <3>5. Resumes
      BY <1>1, <1>3, <3>1, <3>4 DEF Freezes, Refuses
    <3> QED
      BY <2>2, <3>1, <3>3, <3>5
  <2> QED
    BY <1>1, <1>2, <1>5, <2>1, <2>2, UnderWay
<1> QED
  BY <1>4, <1>5

LEMMA AgreedCommand ==
  ASSUME Traced, Agreed, TakeCommand
  PROVE  Agreed'
<1>1. /\ tpc \in {"run", "ack"} /\ UNCHANGED <<why, told, child, rows, joins, controller>>
  BY TakeCommandDoes
<1>2. Exchange /\ Phase /\ Rosters
  BY <1>1 DEF Agreed
<1>3. UNCHANGED <<cpc, cseq, threads, births, hold, snapshots, spoiled>>
  BY <1>1 DEF controller
<1>4. /\ Ack.kind = "ACK" /\ Frz.kind = "FREEZE" /\ Rsm.kind = "RESUME" /\ Frz' = Frz /\ Rsm' = Rsm
  BY <1>3, Commands DEF Frz, Rsm
<1>5. CASE /\ Freezes
           /\ \/ ~Answered /\ toTracer = <<Frz>> /\ toTracer' = <<>>
              \/ Answered /\ toTracer = <<Frz, Ack>> /\ toTracer' = <<Ack>>
  <2>1. /\ Births' /\ HeldAll' /\ ~AllAreHeld /\ ~AllAreHeld'
    BY <1>1, <1>5, BirthsOfCommand DEF Agreed
  <2>2. freezing' = TRUE /\ UNCHANGED <<st, held, allHeld, tpc, cont, tseq, toCtl>>
    BY <1>5 DEF Freezes
  <2>3. (Answered' <=> Answered) /\ Ack' = Ack
    BY <2>2 DEF Answered, Ack
  <2> HIDE DEF Ack, Frz, Rsm
  <2>4. Has(toTracer, "FREEZE") /\ ~Has(toTracer, "RESUME")
    <3>1. /\ Has(<<Frz>>, "FREEZE") /\ ~Has(<<Frz>>, "RESUME")
          /\ Has(<<Frz, Ack>>, "FREEZE") /\ ~Has(<<Frz, Ack>>, "RESUME")
      BY <1>4, PairHas
    <3> QED
      BY <1>5, <3>1
  <2>5. ~Has(toTracer, "FREEZE")' /\ ~Has(toTracer, "RESUME")'
    <3>1. /\ ~Has(<<>>, "FREEZE") /\ ~Has(<<>>, "RESUME")
          /\ ~Has(<<Ack>>, "FREEZE") /\ ~Has(<<Ack>>, "RESUME")
      BY <1>4, PairHas
    <3> QED
      BY <1>5, <3>1 DEF Has
  <2>6. Exchange'
    <3>1. /\ Answered' => toTracer' \in {<<Ack'>>, <<Ack', Frz'>>, <<Frz', Ack'>>, <<Ack', Rsm'>>}
          /\ ~Answered' => toTracer' \in {<<>>, <<Frz'>>, <<Rsm'>>}
      BY <1>5, <2>3
    <3> QED
      BY <1>1, <1>2, <1>3, <2>2, <3>1 DEF Exchange, Tells
  <2>7. cpc = "freezing" /\ ~hold.held
    BY <1>2, <2>1, <2>4 DEF Phase
  <2>8. Has(toCtl, "RESUMED")' <=> Has(toCtl, "RESUMED")
    BY <2>2 DEF Has
  <2>9. Phase'
    BY <1>2, <1>3, <2>1, <2>2, <2>5, <2>7, <2>8 DEF Phase
  <2>10. Rosters'
    BY <1>1, <1>2, <1>3, <2>2, <2>3, <2>7 DEF Rosters, InSample
  <2> QED
    BY <2>1, <2>6, <2>9, <2>10 DEF Agreed
<1>6. CASE Resumes /\ tpc = "run" /\ toTracer = <<Rsm>> /\ toTracer' = <<>>
  <2>1. Births' /\ HeldAll' /\ ~AllAreHeld'
    BY <1>1, <1>6, BirthsOfCommand DEF Agreed
  <2>2. PICK k, r : /\ k = [kind |-> "RESUMED", tid |-> None, birth |-> None]
                    /\ r = [kind |-> "RESUMED", seq |-> tseq + 1, tid |-> None, creator |-> None,
                            roster |-> {}]
    OBVIOUS
  <2>3. tseq + 1 \in Nat
    BY Commands
  <2>4. /\ k \in Cont /\ k.kind = "RESUMED" /\ r \in Record /\ r.kind = "RESUMED" /\ r.seq = tseq + 1
    BY <2>2, <2>3 DEF Cont, Record, Kinds
  <2>5. /\ tpc' = "ack" /\ tseq' = tseq + 1 /\ cont' = Append(cont, k) /\ toCtl' = Append(toCtl, r)
        /\ freezing' = FALSE /\ allHeld' = FALSE
    BY <1>6, <2>2 DEF Resumes, Resume, Send
  <2>6. Tells(r, k)'
    BY <2>4, <2>5 DEF Tells
  <2>7. /\ Exchange' /\ ~Answered /\ ~Answered' /\ Has(toCtl, "RESUMED")' /\ toCtl' # <<>>
    BY <1>2, <1>3, <1>6, <2>4, <2>5, <2>6, SendsOne
  <2> HIDE DEF Rsm
  <2>8. Has(toTracer, "RESUME") /\ ~Has(toTracer, "FREEZE")' /\ ~Has(toTracer, "RESUME")'
    <3>1. Has(<<Rsm>>, "RESUME") /\ ~Has(<<>>, "FREEZE") /\ ~Has(<<>>, "RESUME")
      BY <1>4, PairHas
    <3> QED
      BY <1>6, <3>1 DEF Has
  <2>9. cpc = "resuming" /\ ~hold.resumed
    BY <1>2, <2>8 DEF Phase
  <2>10. Phase'
    BY <1>3, <2>5, <2>7, <2>8, <2>9 DEF Phase
  <2>11. Rosters'
    BY <1>1, <1>2, <1>3, <1>6, <2>5, <2>7, <2>9 DEF Rosters, InSample
  <2> QED
    BY <2>1, <2>7, <2>10, <2>11 DEF Agreed
<1> QED
  BY <1>5, <1>6, CommandIs

LEMMA AgreedAck ==
  ASSUME Traced, Agreed, TakeAck
  PROVE  Agreed'
<1>1. /\ tpc = "ack" /\ toTracer # <<>> /\ Head(toTracer) = Ack /\ toTracer' = Tail(toTracer)
      /\ cont # <<>> /\ cont' = SubSeq(cont, 1, Len(cont) - 1)
      /\ tpc' = IF Len(cont) = 1 THEN "run" ELSE "ack"
      /\ UNCHANGED <<why, told, child, tseq, freezing, controller, toCtl>>
      /\ AckBirth \/ AckExit \/ AckHeld \/ AckResumed
  BY Ground, TakeAckDoes DEF Ack
<1>2. /\ Births' /\ HeldAll'
      /\ Last.kind # "BIRTH" => UNCHANGED <<joins, st>>
      /\ Last.kind # "EXIT" => UNCHANGED rows
      /\ Last.kind = "BIRTH" => joins'.acked = joins.acked \cup {Last.birth}
      /\ Last.kind = "EXIT" => rows' = rows \ {Last.tid}
  BY BirthsOfAck DEF Agreed
<1>3. Exchange /\ Phase /\ Rosters /\ cont \in Seq(Cont)
  BY <1>1, Ground DEF Agreed, Waiting
<1>4. UNCHANGED <<cpc, cseq, threads, births, hold, snapshots, spoiled>>
  BY <1>1 DEF controller
<1>5. /\ Ack \in Command /\ Frz \in Command /\ Rsm \in Command
      /\ Ack.kind = "ACK" /\ Frz.kind = "FREEZE" /\ Rsm.kind = "RESUME" /\ Frz' = Frz /\ Rsm' = Rsm
  BY <1>4, Commands DEF Frz, Rsm
<1>6. Len(cont) = 1 /\ ~allHeld /\ tpc' = "run" /\ Last = cont[1]
  BY <1>1, <1>3 DEF Exchange, Last
<1>7. cont' = <<>>
  BY <1>1, <1>3, <1>6, Popped
<1> HIDE DEF Ack, Frz, Rsm
<1>8. /\ Answered
      /\ \/ toTracer = <<Ack>> /\ ~Has(toTracer, "FREEZE") /\ ~Has(toTracer, "RESUME")
         \/ toTracer = <<Ack, Frz>> /\ Has(toTracer, "FREEZE") /\ ~Has(toTracer, "RESUME")
         \/ toTracer = <<Ack, Rsm>> /\ ~Has(toTracer, "FREEZE") /\ Has(toTracer, "RESUME")
  <2>1. Head(<<Frz>>) = Frz /\ Head(<<Rsm>>) = Rsm /\ Head(<<Frz, Ack>>) = Frz
    BY <1>5, Pairs
  <2>2. Frz # Ack /\ Rsm # Ack
    BY <1>5
  <2>3. toTracer \notin {<<>>, <<Frz>>, <<Rsm>>, <<Frz, Ack>>}
    BY <1>1, <2>1, <2>2
  <2> QED
    BY <1>3, <2>3, UnderWay
<1>9. /\ \/ toTracer = <<Ack>> /\ toTracer' = <<>>
         \/ toTracer = <<Ack, Frz>> /\ toTracer' = <<Frz>>
         \/ toTracer = <<Ack, Rsm>> /\ toTracer' = <<Rsm>>
      /\ Has(toTracer, "FREEZE")' <=> Has(toTracer, "FREEZE")
      /\ Has(toTracer, "RESUME")' <=> Has(toTracer, "RESUME")
  <2>1. Tail(<<Ack>>) = <<>> /\ Tail(<<Ack, Frz>>) = <<Frz>> /\ Tail(<<Ack, Rsm>>) = <<Rsm>>
    BY <1>5, Pairs
  <2>2. /\ ~Has(<<>>, "FREEZE") /\ ~Has(<<>>, "RESUME")
        /\ Has(<<Frz>>, "FREEZE") /\ ~Has(<<Frz>>, "RESUME")
        /\ Has(<<Rsm>>, "RESUME") /\ ~Has(<<Rsm>>, "FREEZE")
    BY <1>5, PairHas
  <2>3. \/ toTracer = <<Ack>> /\ toTracer' = <<>>
        \/ toTracer = <<Ack, Frz>> /\ toTracer' = <<Frz>>
        \/ toTracer = <<Ack, Rsm>> /\ toTracer' = <<Rsm>>
    BY <1>1, <1>8, <2>1
  <2>4. /\ Has(toTracer, "FREEZE")' <=> Has(toTracer', "FREEZE")
        /\ Has(toTracer, "RESUME")' <=> Has(toTracer', "RESUME")
    BY DEF Has
  <2>5. CASE toTracer = <<Ack>> /\ toTracer' = <<>>
    BY <1>8, <2>2, <2>4, <2>5, PairHas, <1>5
  <2>6. CASE toTracer = <<Ack, Frz>> /\ toTracer' = <<Frz>>
    BY <1>8, <2>2, <2>4, <2>6, PairHas, <1>5
  <2>7. CASE toTracer = <<Ack, Rsm>> /\ toTracer' = <<Rsm>>
    BY <1>8, <2>2, <2>4, <2>7, PairHas, <1>5
  <2> QED
    BY <2>3, <2>5, <2>6, <2>7
<1>10. ~Answered' /\ toCtl' = <<>> /\ toCtl = <<>>
  BY <1>1, <1>6, <1>8 DEF Answered
<1>11. Exchange'
  <2>1. toTracer' \in {<<>>, <<Frz'>>, <<Rsm'>>}
    BY <1>5, <1>9
  <2> QED
    BY <1>1, <1>3, <1>4, <1>6, <1>10, <2>1 DEF Exchange
<1>12. /\ AllAreHeld <=> Last.kind = "HELD"
       /\ AllAreHeld' <=> AllAreHeld
  <2>1. DOMAIN cont = {1} /\ DOMAIN cont' = {}
    BY <1>3, <1>6, <1>7
  <2>2. AllAreHeld <=> Last.kind = "HELD"
    BY <1>6, <2>1 DEF AllAreHeld, Has
  <2>3. allHeld' <=> Last.kind = "HELD"
    BY <1>1, <1>6 DEF AckBirth, AckExit, AckHeld, AckResumed, BirthAcked
  <2> QED
    BY <2>1, <2>2, <2>3 DEF AllAreHeld, Has
<1>13. Has(toCtl, "RESUMED")' <=> Has(toCtl, "RESUMED")
  BY <1>1 DEF Has
<1>14. Phase'
  BY <1>1, <1>3, <1>4, <1>9, <1>10, <1>12, <1>13 DEF Phase
<1>15. Rosters'
  <2>1. births' = {Root} \cup joins'.acked
    BY <1>2, <1>3, <1>4, <1>6, <1>8 DEF Rosters
  <2>2. threads' = births' \cap rows'
    BY <1>2, <1>3, <1>4, <1>6, <1>8 DEF Rosters
  <2>3. InSample' /\ hold'.held => hold'.roster = {t \in Tid : Live(t)'}
    <3> SUFFICES ASSUME InSample, hold.held
                 PROVE  hold.roster = {t \in Tid : Live(t)'}
      BY <1>4 DEF InSample
    <3>1. AllAreHeld
      BY <1>1, SampleIsStill
    <3>2. UNCHANGED st
      BY <1>2, <1>12, <3>1
    <3> QED
      BY <1>3, <3>2 DEF Rosters, Live
  <2>4. cpc' \in {"sampled", "resuming"} /\ spoiled' => FALSE
    BY <1>1, <1>3, <1>4 DEF Rosters
  <2> QED
    BY <1>6, <1>10, <2>1, <2>2, <2>3, <2>4 DEF Rosters
<1> QED
  BY <1>2, <1>11, <1>14, <1>15 DEF Agreed

LEMMA AgreedTracer ==
  ASSUME Traced, Agreed, Tracer
  PROVE  Agreed'
<1>1. CASE Interrupt
  <2>1. UNCHANGED <<st, why, told, child, tpc, cont, tseq, rows, held, joins, freezing, allHeld,
                    controller, channel>>
    BY <1>1 DEF Interrupt
  <2>2. Births' /\ HeldAll'
    BY <2>1, BirthsStay DEF Agreed
  <2>3. \A t \in Tid : Live(t)' <=> Live(t)
    BY <2>1 DEF Live
  <2>4. Rosters' /\ (tpc' # "exited" => Exchange' /\ Phase')
    BY <2>1, <2>3, ExchangeStays DEF Agreed, controller, channel
  <2> QED
    BY <2>2, <2>4 DEF Agreed
<1>2. CASE TracerEnds
  <2>1. /\ tpc = "run" /\ rows = {} /\ tpc' = "exited"
        /\ UNCHANGED <<st, why, told, child, cont, rows, joins, allHeld, controller, toCtl>>
    BY <1>2 DEF TracerEnds, kernel, channel
  <2>2. Births' /\ HeldAll'
    BY <2>1, BirthsStay DEF Agreed
  <2>3. Exchange /\ Rosters /\ toCtl = <<>> /\ ~Answered /\ ~Answered'
    BY <2>1 DEF Agreed, Exchange, Answered
  <2>4. Rosters'
    BY <2>1, <2>3 DEF Rosters, InSample, Live, controller
  <2> QED
    BY <2>1, <2>2, <2>4 DEF Agreed
<1> QED
  BY <1>1, <1>2, AgreedWait, AgreedTryHeld, AgreedCommand, AgreedAck DEF Tracer

-----------------------------------------------------------------------------
(***************************************************************************)
(* The controller while nothing has failed.                                *)
(***************************************************************************)

\* What waits in the channel for the controller.
LEMMA RecordIs ==
  ASSUME Traced, Agreed, toCtl # <<>>
  PROVE  /\ tpc = "ack" /\ Exchange /\ Phase /\ Rosters /\ ~Answered
         /\ Head(toCtl) = toCtl[1] /\ Tail(toCtl) = <<>> /\ toCtl[1] \in Record
         /\ cont[1] \in Cont /\ DOMAIN cont = {1} /\ Tells(toCtl[1], cont[1])
         /\ toCtl[1].seq = cseq + 1 /\ toCtl[1].seq = tseq
         /\ births = {Root} \cup joins.acked /\ threads = births \cap rows
         /\ Has(toCtl, "RESUMED") <=> toCtl[1].kind = "RESUMED"
         /\ AllAreHeld <=> cont[1].kind = "HELD"
<1>1. tpc # "exited" /\ Rosters
  BY DEF Agreed, Rosters
<1>2. tpc = "ack" /\ Exchange /\ Phase
  BY <1>1, Ground DEF Agreed, Exchange, TypeOK
<1>3. ~Answered
  BY DEF Answered
<1>4. toCtl \in Seq(Record) /\ cont \in Seq(Cont)
  BY Ground DEF ChannelTypes, Waiting
<1>5. /\ Len(toCtl) = 1 /\ cseq + 1 = tseq /\ Tells(toCtl[1], cont[1])
      /\ Len(cont) = 1 /\ ~allHeld
  BY <1>2 DEF Exchange
<1>6. DOMAIN toCtl = {1} /\ DOMAIN cont = {1} /\ toCtl[1] \in Record /\ cont[1] \in Cont
  <2>1. DOMAIN toCtl = 1..Len(toCtl) /\ DOMAIN cont = 1..Len(cont) /\ 1..1 = {1}
    BY <1>4
  <2>2. DOMAIN toCtl = {1} /\ DOMAIN cont = {1}
    BY <1>5, <2>1
  <2> QED
    BY <1>4, <1>5, <2>2
<1>7. Head(toCtl) = toCtl[1] /\ Tail(toCtl) = <<>>
  <2>1. Len(Tail(toCtl)) = 0 /\ Tail(toCtl) \in Seq(Record)
    BY <1>4, <1>5, HeadTailProperties
  <2> QED
    BY <1>4, <1>5, <2>1, Shortened, EmptySeq
<1>8. toCtl[1].seq = cseq + 1 /\ toCtl[1].seq = tseq
  BY <1>5 DEF Tells
<1>9. births = {Root} \cup joins.acked /\ threads = births \cap rows
  BY <1>1, <1>3 DEF Rosters
<1>10. Has(toCtl, "RESUMED") <=> toCtl[1].kind = "RESUMED"
  BY <1>6 DEF Has
<1>11. AllAreHeld <=> cont[1].kind = "HELD"
  BY <1>5, <1>6 DEF AllAreHeld, Has
<1> QED
  BY <1>1, <1>2, <1>3, <1>5, <1>6, <1>7, <1>8, <1>9, <1>10, <1>11

\* It is what the controller expects.
LEMMA RecordFits ==
  ASSUME Traced, Agreed, toCtl # <<>>
  PROVE  /\ Acceptable(toCtl[1])
         /\ cpc \in {"idle", "freezing", "resuming"}
         /\ cont[1].kind = "BIRTH" => cont[1].birth \in rows
         /\ cont[1].kind = "HELD" => cpc = "freezing" /\ rows = {t \in Tid : Live(t)}
<1>1. PICK r, k : r = toCtl[1] /\ k = cont[1]
  OBVIOUS
<1>2. /\ tpc = "ack" /\ Phase /\ r \in Record /\ k \in Cont /\ 1 \in DOMAIN cont /\ Tells(r, k)
      /\ r.seq = cseq + 1
      /\ births = {Root} \cup joins.acked /\ threads = births \cap rows
      /\ Has(toCtl, "RESUMED") <=> r.kind = "RESUMED"
      /\ AllAreHeld <=> k.kind = "HELD"
  BY <1>1, RecordIs
<1>3. Births /\ HeldAll /\ Waiting /\ Family /\ Taken /\ Quiet /\ rows \subseteq Tid
      /\ st \in [Tid -> States] /\ joins.stopped \subseteq Tid /\ joins.acked \subseteq joins.stopped
  BY Ground DEF Agreed
<1>4. r.kind = k.kind /\ k.kind \in {"BIRTH", "EXIT", "HELD", "RESUMED"}
  BY <1>2 DEF Tells, Cont
<1>5. cpc \in {"idle", "freezing", "resuming"}
  BY <1>2 DEF Phase
<1>6. ASSUME k.kind = "BIRTH"
      PROVE  Acceptable(r) /\ k.birth \in rows
  <2>1. PICK c : c = k.birth
    OBVIOUS
  <2>2. /\ c \in joins.stopped /\ joins.creator[c] # None /\ c \notin joins.acked /\ c \in Tid
        /\ r.tid = c /\ r.creator = joins.creator[c]
    BY <1>1, <1>2, <1>3, <1>4, <1>6, <2>1 DEF Waiting, Births, Tells
  <2>3. c # Root /\ st[c] # "unborn"
    BY <1>3, <2>2 DEF Births, Family
  <2>4. PICK p \in Tid : Halfway(c, p)
    BY <1>3, <2>2, <2>3 DEF Births
  <2>5. joins.creator[c] = p /\ told[c] /\ st[c] = "stopped" /\ st[p] = "stopped" /\ why[p] = "fork"
    BY <1>3, <2>2, <2>4 DEF Halfway, Family
  <2>6. c \in rows /\ p \in rows
    BY <1>3, <2>2, <2>5 DEF Taken
  <2>7. p = Root \/ p \in joins.acked
    <3>1. \A q \in Tid : ~Halfway(p, q)
      BY <2>5 DEF Halfway
    <3> QED
      BY <1>3, <2>5, <3>1 DEF Births
  <2>8. r.creator \in threads /\ r.tid \notin births /\ Live(r.tid)
    BY <1>2, <2>2, <2>3, <2>5, <2>6, <2>7 DEF Live
  <2> QED
    BY <1>2, <1>4, <1>6, <2>1, <2>6, <2>8 DEF Acceptable
<1>7. ASSUME k.kind = "EXIT"
      PROVE  Acceptable(r)
  <2>1. PICK t : t = k.tid
    OBVIOUS
  <2>2. t \in rows /\ st[t] = "gone" /\ r.tid = t /\ t \in Tid
    BY <1>1, <1>2, <1>3, <1>4, <1>7, <2>1 DEF Waiting, Births, Tells
  <2>3. \A p \in Tid : ~Halfway(t, p)
    BY <2>2 DEF Halfway
  <2>4. t \in births
    BY <1>2, <1>3, <2>2, <2>3 DEF Births
  <2> QED
    BY <1>2, <1>4, <1>7, <2>2, <2>4 DEF Acceptable
<1>8. ASSUME k.kind = "HELD"
      PROVE  Acceptable(r) /\ cpc = "freezing" /\ rows = {t \in Tid : Live(t)}
  <2>1. freezing
    BY <1>2, <1>3, <1>8 DEF Quiet
  <2>2. r.kind = "HELD" /\ r.kind # "RESUMED" /\ r.roster = rows
    BY <1>2, <1>4, <1>8 DEF Tells
  <2>3. cpc = "freezing"
    <3>1. cpc # "idle"
      BY <1>2, <2>1 DEF Phase
    <3>2. ~Has(toTracer, "RESUME") /\ ~Has(toCtl, "RESUMED")
      BY <1>2, <2>2 DEF Phase
    <3>3. cpc # "resuming"
      BY <1>2, <2>1, <3>2 DEF Phase
    <3> QED
      BY <1>5, <3>1, <3>3
  <2>4. rows = {t \in Tid : Live(t)} /\ rows # {} /\ rows \subseteq births
    BY <1>2, <1>3, <1>8 DEF HeldAll, Births
  <2>5. r.roster = threads /\ r.roster # {} /\ InHold
    BY <1>2, <2>2, <2>3, <2>4 DEF InHold
  <2> QED
    BY <1>2, <2>2, <2>3, <2>4, <2>5 DEF Acceptable
<1>9. ASSUME k.kind = "RESUMED"
      PROVE  Acceptable(r)
  <2>1. InHold
    BY <1>2, <1>4, <1>9 DEF Phase, InHold
  <2> QED
    BY <1>2, <1>4, <1>9, <2>1 DEF Acceptable
<1>10. Acceptable(r)
  BY <1>4, <1>6, <1>7, <1>8, <1>9
<1> QED
  BY <1>1, <1>5, <1>6, <1>8, <1>10

\* So a record is never refused.
LEMMA ReceiveTakes ==
  ASSUME Traced, Agreed, Receive
  PROVE  Apply(toCtl[1]) /\ UNCHANGED <<cpc, failure>> /\ toCtl # <<>>
<1>1. toCtl # <<>>
  BY DEF Receive
<1>2. Acceptable(toCtl[1]) /\ Head(toCtl) = toCtl[1]
  BY <1>1, RecordIs, RecordFits
<1> QED
  BY <1>1, <1>2 DEF Receive

LEMMA AgreedReceive ==
  ASSUME Traced, Agreed, Receive
  PROVE  Agreed'
<1>1. PICK r, k : r = toCtl[1] /\ k = cont[1]
  OBVIOUS
<1>2. /\ Apply(r) /\ UNCHANGED <<cpc, kernel, tracer, snapshots, spoiled>> /\ toCtl # <<>>
      /\ toCtl' = Tail(toCtl)
  BY <1>1, ReceiveTakes DEF Receive
<1>3. /\ tpc = "ack" /\ Exchange /\ Phase /\ Rosters /\ ~Answered
      /\ r \in Record /\ k \in Cont /\ DOMAIN cont = {1} /\ Tells(r, k) /\ toCtl' = <<>> /\ r.seq = tseq
      /\ births = {Root} \cup joins.acked /\ threads = births \cap rows
      /\ Has(toCtl, "RESUMED") <=> r.kind = "RESUMED"
      /\ AllAreHeld <=> k.kind = "HELD"
  BY <1>1, <1>2, RecordIs
<1>4. /\ cpc \in {"idle", "freezing", "resuming"}
      /\ k.kind = "BIRTH" => k.birth \in rows
      /\ k.kind = "HELD" => cpc = "freezing" /\ rows = {t \in Tid : Live(t)}
  BY <1>1, <1>2, RecordFits
<1>5. /\ UNCHANGED <<st, why, told, child, tpc, cont, tseq, rows, joins, freezing, allHeld>>
  BY <1>2 DEF kernel, tracer
<1>6. Births' /\ HeldAll' /\ (AllAreHeld' <=> AllAreHeld)
  BY <1>5, BirthsStay DEF Agreed
<1>7. /\ Ack \in Command /\ Frz \in Command /\ Ack.kind = "ACK" /\ Frz.kind = "FREEZE"
      /\ Ack' = Ack /\ Frz' = Frz /\ Answered'
  BY <1>2, <1>3, <1>5, Commands DEF Ack, Frz, Answered
<1>8. toTracer' = Append(toTracer, Ack)
  BY <1>2, <1>3 DEF Apply, Tell, Ack
<1> HIDE DEF Ack, Frz
<1>9. /\ ~Has(toTracer, "RESUME")
      /\ \/ toTracer = <<>> /\ ~Has(toTracer, "FREEZE")
         \/ toTracer = <<Frz>> /\ Has(toTracer, "FREEZE")
  <2>1. ~Has(toTracer, "RESUME")
    BY <1>2, <1>3 DEF Phase
  <2> QED
    BY <1>3, <2>1, UnderWay
<1>10. /\ \/ toTracer = <<>> /\ toTracer' = <<Ack>>
          \/ toTracer = <<Frz>> /\ toTracer' = <<Frz, Ack>>
       /\ Has(toTracer, "FREEZE")' <=> Has(toTracer, "FREEZE")
       /\ ~Has(toTracer, "RESUME")'
  <2>1. /\ ~Has(<<Ack>>, "FREEZE") /\ ~Has(<<Ack>>, "RESUME")
        /\ Has(<<Frz, Ack>>, "FREEZE") /\ ~Has(<<Frz, Ack>>, "RESUME")
    BY <1>7, PairHas
  <2>2. Append(<<>>, Ack) = <<Ack>> /\ Append(<<Frz>>, Ack) = <<Frz, Ack>>
    <3>1. Append(<<>>, Ack) = <<Ack>>
      BY <1>7, Pairs
    <3>2. Append(<<Frz>>, Ack) = <<Frz, Ack>>
      <4>1. \A a, b \in Command : Append(<<a>>, b) = <<a, b>>
        BY Pairs
      <4> QED
        BY <1>7, <4>1
    <3> QED
      BY <3>1, <3>2
  <2>3. \/ toTracer = <<>> /\ toTracer' = <<Ack>>
        \/ toTracer = <<Frz>> /\ toTracer' = <<Frz, Ack>>
    BY <1>8, <1>9, <2>2
  <2>4. /\ Has(toTracer, "FREEZE")' <=> Has(toTracer', "FREEZE")
        /\ Has(toTracer, "RESUME")' <=> Has(toTracer', "RESUME")
    BY DEF Has
  <2>5. CASE toTracer = <<>> /\ toTracer' = <<Ack>>
    <3>1. ~Has(toTracer', "FREEZE") /\ ~Has(toTracer', "RESUME")
      BY <2>1, <2>5
    <3>2. ~Has(toTracer, "FREEZE")
      BY <1>7, <2>5, PairHas
    <3> QED
      BY <2>4, <2>5, <3>1, <3>2
  <2>6. CASE toTracer = <<Frz>> /\ toTracer' = <<Frz, Ack>>
    <3>1. Has(toTracer', "FREEZE") /\ ~Has(toTracer', "RESUME")
      BY <2>1, <2>6
    <3>2. Has(toTracer, "FREEZE")
      BY <1>7, <2>6, PairHas
    <3> QED
      BY <2>4, <2>6, <3>1, <3>2
  <2> QED
    BY <2>3, <2>5, <2>6
<1>11. Exchange'
  <2>1. toTracer' \in {<<Ack'>>, <<Frz', Ack'>>}
    BY <1>7, <1>10
  <2>2. cseq' = tseq'
    BY <1>2, <1>3, <1>5 DEF Apply
  <2> QED
    BY <1>3, <1>5, <1>7, <2>1, <2>2 DEF Exchange
<1>12. /\ ~Has(toCtl, "RESUMED")'
       /\ r.kind = k.kind
       /\ r.kind = "HELD" => r.roster = rows
  <2>1. ~Has(<<>>, "RESUMED")
    BY PairHas
  <2>2. Has(toCtl, "RESUMED")' <=> Has(<<>>, "RESUMED")
    BY <1>3 DEF Has
  <2> QED
    BY <1>3, <2>1, <2>2 DEF Tells
<1>13. /\ k.kind = "HELD" => hold'.held /\ hold'.roster = rows /\ hold'.resumed = hold.resumed
       /\ k.kind = "RESUMED" => hold'.held = hold.held /\ hold'.roster = hold.roster /\ hold'.resumed
       /\ k.kind \notin {"HELD", "RESUMED"} => hold' = hold
  <2>1. hold' = CASE r.kind = "HELD" -> [hold EXCEPT !.held = TRUE, !.roster = r.roster]
                  [] r.kind = "RESUMED" -> [hold EXCEPT !.resumed = TRUE]
                  [] OTHER -> hold
    BY <1>2 DEF Apply
  <2>2. hold \in [held : BOOLEAN, resumed : BOOLEAN, roster : SUBSET Tid]
    BY Ground DEF TypeOK
  <2> QED
    BY <1>12, <2>1, <2>2
<1>14. Phase'
  <2>1. cpc = "freezing" => (hold'.held <=> AllAreHeld)
    <3>1. cpc = "freezing" => ~hold.held
      BY <1>2, <1>3 DEF Phase
    <3> QED
      BY <1>3, <1>13, <3>1
  <2>2. cpc = "resuming" => ~freezing /\ hold'.resumed
    <3>1. cpc = "resuming" => ~freezing /\ (~hold.resumed <=> r.kind = "RESUMED")
      BY <1>3, <1>9 DEF Phase
    <3> QED
      BY <1>12, <1>13, <3>1
  <2>3. /\ cpc = "idle" => ~freezing
        /\ Has(toTracer, "FREEZE") => cpc = "freezing" /\ ~freezing
        /\ cpc = "freezing" => Has(toTracer, "FREEZE") \/ freezing
    BY <1>3 DEF Phase
  <2> QED
    BY <1>2, <1>3, <1>4, <1>5, <1>6, <1>10, <1>12, <2>1, <2>2, <2>3 DEF Phase
<1>15. Rosters'
  <2>1. births' = {Root} \cup joins.acked \cup (IF k.kind = "BIRTH" THEN {k.birth} ELSE {})
    <3>1. births' = IF r.kind = "BIRTH" THEN births \cup {r.tid} ELSE births
      BY <1>2 DEF Apply
    <3>2. r.kind = "BIRTH" => r.tid = k.birth
      BY <1>3 DEF Tells
    <3> QED
      BY <1>3, <1>12, <3>1, <3>2
  <2>2. threads' = (births' \cap rows) \ (IF k.kind = "EXIT" THEN {k.tid} ELSE {})
    <3>1. threads' = CASE r.kind = "BIRTH" -> threads \cup {r.tid}
                       [] r.kind = "EXIT" -> threads \ {r.tid}
                       [] OTHER -> threads
      BY <1>2 DEF Apply
    <3>2. /\ r.kind = "BIRTH" => r.tid = k.birth
          /\ r.kind = "EXIT" => r.tid = k.tid
      BY <1>3 DEF Tells
    <3>3. CASE k.kind = "BIRTH"
      BY <1>3, <1>4, <1>12, <2>1, <3>1, <3>2, <3>3
    <3>4. CASE k.kind = "EXIT"
      BY <1>3, <1>12, <2>1, <3>1, <3>2, <3>4
    <3>5. CASE k.kind \notin {"BIRTH", "EXIT"}
      BY <1>3, <1>12, <2>1, <3>1, <3>5
    <3> QED
      BY <3>3, <3>4, <3>5
  <2>3. k = cont'[1] /\ Answered' /\ tpc' # "exited" /\ UNCHANGED <<joins, rows>>
    BY <1>1, <1>3, <1>5, <1>7
  <2>4. (InSample /\ hold.held)' => hold'.roster = {t \in Tid : Live(t)'}
    <3>1. InSample' => cpc = "freezing" /\ ~hold.held
      BY <1>2, <1>3, <1>4 DEF InSample, Phase
    <3>2. \A t \in Tid : Live(t)' <=> Live(t)
      BY <1>5 DEF Live
    <3> QED
      BY <1>4, <1>13, <3>1, <3>2
  <2>5. ~(cpc' \in {"sampled", "resuming"} /\ spoiled')
    BY <1>2, <1>3 DEF Rosters
  <2> QED
    BY <2>1, <2>2, <2>3, <2>4, <2>5 DEF Rosters
<1> QED
  BY <1>6, <1>11, <1>14, <1>15 DEF Agreed

\* What a step of the controller leaves to be agreed, when it takes no record.
LEMMA ControllerLeaves ==
  ASSUME Traced, Agreed, UNCHANGED <<kernel, tracer, cseq, threads, births, toCtl>>
  PROVE  /\ UNCHANGED <<tpc, cont, tseq, rows, joins, freezing, allHeld, st>>
         /\ Births' /\ HeldAll' /\ (AllAreHeld' <=> AllAreHeld) /\ (Answered' <=> Answered)
         /\ Ack' = Ack /\ (Has(toCtl, "RESUMED")' <=> Has(toCtl, "RESUMED"))
         /\ ((InSample /\ hold.held)' => hold'.roster = {t \in Tid : Live(t)})
              /\ (cpc' \in {"sampled", "resuming"} /\ spoiled' => tpc = "exited")
            => Rosters'
<1>1. UNCHANGED <<st, why, told, child, tpc, cont, tseq, rows, joins, freezing, allHeld>>
  BY DEF kernel, tracer
<1>2. Births' /\ HeldAll' /\ (AllAreHeld' <=> AllAreHeld)
  BY <1>1, BirthsStay DEF Agreed
<1>3. /\ Answered' <=> Answered
      /\ Ack' = Ack /\ (Has(toCtl, "RESUMED")' <=> Has(toCtl, "RESUMED"))
      /\ \A t \in Tid : Live(t)' <=> Live(t)
  BY <1>1 DEF Answered, Ack, Has, Live
<1>4. ASSUME (InSample /\ hold.held)' => hold'.roster = {t \in Tid : Live(t)},
             cpc' \in {"sampled", "resuming"} /\ spoiled' => tpc = "exited"
      PROVE  Rosters'
  <2>1. (InSample /\ hold.held)' => hold'.roster = {t \in Tid : Live(t)'}
    BY <1>3, <1>4
  <2>2. Rosters
    BY DEF Agreed
  <2> QED
    BY <1>1, <1>3, <1>4, <2>1, <2>2 DEF Rosters
<1> QED
  BY <1>1, <1>2, <1>3, <1>4

\* The command that is sent is behind the acknowledgement, and alone.
LEMMA SendsCommand ==
  ASSUME Traced, Exchange, ~Has(toTracer, "FREEZE"), ~Has(toTracer, "RESUME"),
         NEW c \in Command, toTracer' = Append(toTracer, c)
  PROVE  /\ Answered => toTracer' = <<Ack, c>>
         /\ ~Answered => toTracer' = <<c>>
         /\ \A kind \in {"FREEZE", "RESUME"} : Has(toTracer', kind) <=> c.kind = kind
<1>1. /\ Answered => toTracer = <<Ack>>
      /\ ~Answered => toTracer = <<>>
  BY UnderWay
<1>2. Ack \in Command /\ Ack.kind = "ACK"
  BY Commands
<1> HIDE DEF Ack
<1>3. Append(<<>>, c) = <<c>> /\ Append(<<Ack>>, c) = <<Ack, c>>
  <2>1. \A a, b \in Command : Append(<<>>, a) = <<a>> /\ Append(<<a>>, b) = <<a, b>>
    BY Pairs
  <2> QED
    BY <1>2, <2>1
<1>4. /\ Answered => toTracer' = <<Ack, c>>
      /\ ~Answered => toTracer' = <<c>>
  BY <1>1, <1>3
<1>5. ASSUME NEW kind \in {"FREEZE", "RESUME"}
      PROVE  /\ Has(<<c>>, kind) <=> c.kind = kind
             /\ Has(<<Ack, c>>, kind) <=> c.kind = kind
  BY <1>2, <1>5, PairHas
<1>6. toTracer' = <<c>> \/ toTracer' = <<Ack, c>>
  BY <1>4
<1>7. ASSUME NEW kind \in {"FREEZE", "RESUME"}
      PROVE  Has(toTracer', kind) <=> c.kind = kind
  <2>1. CASE toTracer' = <<c>>
    BY <1>5, <2>1
  <2>2. CASE toTracer' = <<Ack, c>>
    BY <1>5, <2>2
  <2> QED
    BY <1>6, <2>1, <2>2
<1> QED
  BY <1>4, <1>7

LEMMA AgreedFreeze ==
  ASSUME Traced, Agreed, Freeze, ~failure'
  PROVE  Agreed'
<1>1. /\ cpc = "idle" /\ toCtl = <<>> /\ snapshots' = snapshots + 1
      /\ hold' = [held |-> FALSE, resumed |-> FALSE, roster |-> {}]
      /\ tpc # "exited" /\ cpc' = "freezing"
      /\ UNCHANGED <<kernel, tracer, cseq, threads, births, spoiled, toCtl>>
  BY DEF Freeze, Fails
<1>2. Exchange /\ Phase /\ Rosters /\ Quiet
  BY <1>1, Ground DEF Agreed
<1>3. /\ UNCHANGED <<tpc, cont, tseq, rows, joins, freezing, allHeld, st>>
      /\ Births' /\ HeldAll' /\ (AllAreHeld' <=> AllAreHeld) /\ (Answered' <=> Answered)
      /\ Ack' = Ack /\ (Has(toCtl, "RESUMED")' <=> Has(toCtl, "RESUMED"))
  BY <1>1, ControllerLeaves
<1>4. Rosters'
  BY <1>1, ControllerLeaves
<1>5. /\ ~Has(toTracer, "FREEZE") /\ ~Has(toTracer, "RESUME") /\ ~Has(toCtl, "RESUMED")
      /\ ~freezing /\ ~AllAreHeld
  BY <1>1, <1>2 DEF Phase, Quiet
<1>6. PICK c : c = [kind |-> "FREEZE", n |-> snapshots + 1]
  OBVIOUS
<1>7. c \in Command /\ c.kind = "FREEZE" /\ Frz' = c /\ toTracer' = Append(toTracer, c)
  <2>1. snapshots + 1 \in Nat
    BY Commands
  <2> QED
    BY <1>1, <1>6, <2>1 DEF Command, Frz, Freeze, Tell
<1>8. /\ Answered => toTracer' = <<Ack, c>>
      /\ ~Answered => toTracer' = <<c>>
      /\ Has(toTracer', "FREEZE") /\ ~Has(toTracer', "RESUME")
  BY <1>2, <1>5, <1>7, SendsCommand
<1>9. Has(toTracer, "FREEZE")' /\ ~Has(toTracer, "RESUME")'
  BY <1>8 DEF Has
<1> HIDE DEF Ack, Frz
<1>10. Exchange'
  <2>1. /\ Answered' => toTracer' = <<Ack', Frz'>>
        /\ ~Answered' => toTracer' = <<Frz'>>
    BY <1>3, <1>7, <1>8
  <2>2. toCtl' = <<>> /\ cseq' = tseq' /\ (tpc' = "ack" => Len(cont') = 1 /\ ~allHeld')
    BY <1>1, <1>2, <1>3 DEF Exchange
  <2> QED
    BY <2>1, <2>2 DEF Exchange
<1>11. Phase'
  BY <1>1, <1>3, <1>5, <1>9 DEF Phase
<1> QED
  BY <1>3, <1>4, <1>10, <1>11 DEF Agreed

LEMMA AgreedSendResume ==
  ASSUME Traced, HoldInv, Agreed, SendResume, ~failure'
  PROVE  Agreed'
<1>1. /\ cpc = "sampled" /\ tpc # "exited" /\ cpc' = "resuming"
      /\ UNCHANGED <<kernel, tracer, cseq, threads, births, hold, snapshots, spoiled, toCtl>>
  BY DEF SendResume, Fails
<1>2. Exchange /\ Phase /\ Rosters
  BY <1>1 DEF Agreed
<1>3. /\ UNCHANGED <<tpc, cont, tseq, rows, joins, freezing, allHeld, st>>
      /\ Births' /\ HeldAll' /\ (AllAreHeld' <=> AllAreHeld) /\ (Answered' <=> Answered)
      /\ Ack' = Ack /\ (Has(toCtl, "RESUMED")' <=> Has(toCtl, "RESUMED"))
  BY <1>1, ControllerLeaves
<1>4. Rosters'
  <2>1. ~InSample'
    BY <1>1 DEF InSample
  <2>2. spoiled' => tpc = "exited"
    BY <1>1, <1>2 DEF Rosters
  <2> QED
    BY <1>1, <2>1, <2>2, ControllerLeaves
<1>5. /\ ~Has(toTracer, "FREEZE") /\ ~Has(toTracer, "RESUME") /\ ~Has(toCtl, "RESUMED")
      /\ AllAreHeld /\ toCtl = <<>>
  BY <1>1, <1>2 DEF Phase
<1>6. ~hold.resumed
  BY <1>1 DEF HoldInv, Session, InSample
<1>7. PICK c : c = [kind |-> "RESUME", n |-> snapshots]
  OBVIOUS
<1>8. c \in Command /\ c.kind = "RESUME" /\ Rsm' = c /\ toTracer' = Append(toTracer, c)
  <2>1. snapshots \in Nat
    BY Commands
  <2> QED
    BY <1>1, <1>7, <2>1 DEF Command, Rsm, SendResume, Tell
<1>9. /\ Answered => toTracer' = <<Ack, c>>
      /\ ~Answered => toTracer' = <<c>>
      /\ ~Has(toTracer', "FREEZE") /\ Has(toTracer', "RESUME")
  BY <1>2, <1>5, <1>8, SendsCommand
<1>10. ~Has(toTracer, "FREEZE")' /\ Has(toTracer, "RESUME")'
  BY <1>9 DEF Has
<1> HIDE DEF Ack, Rsm
<1>11. Exchange'
  <2>1. /\ Answered' => toTracer' = <<Ack', Rsm'>>
        /\ ~Answered' => toTracer' = <<Rsm'>>
    BY <1>3, <1>8, <1>9
  <2>2. toCtl' = <<>> /\ cseq' = tseq' /\ (tpc' = "ack" => Len(cont') = 1 /\ ~allHeld')
    BY <1>1, <1>2, <1>3, <1>5 DEF Exchange
  <2> QED
    BY <2>1, <2>2 DEF Exchange
<1>12. Phase'
  BY <1>1, <1>3, <1>5, <1>6, <1>10 DEF Phase
<1> QED
  BY <1>3, <1>4, <1>11, <1>12 DEF Agreed

\* The steps that only the controller sees.
LEMMA AgreedInside ==
  ASSUME Traced, HoldInv, Agreed, ~failure', ~failure,
         Held \/ Sample \/ Resumed \/ Stop \/ Stopped
  PROVE  Agreed'
<1>1. UNCHANGED <<kernel, tracer, cseq, threads, births, toCtl, toTracer, hold, snapshots>>
  BY DEF Held, Sample, Resumed, Stop, Stopped, channel
<1>2. /\ UNCHANGED <<tpc, cont, tseq, rows, joins, freezing, allHeld, st>>
      /\ Births' /\ HeldAll' /\ (AllAreHeld' <=> AllAreHeld) /\ (Answered' <=> Answered)
      /\ Ack' = Ack /\ (Has(toCtl, "RESUMED")' <=> Has(toCtl, "RESUMED"))
  BY <1>1, ControllerLeaves
<1>3. /\ Has(toTracer, "FREEZE")' <=> Has(toTracer, "FREEZE")
      /\ Has(toTracer, "RESUME")' <=> Has(toTracer, "RESUME")
      /\ Frz' = Frz /\ Rsm' = Rsm
  BY <1>1 DEF Has, Frz, Rsm
<1>4. Exchange => Exchange'
  BY <1>1, <1>2, <1>3 DEF Exchange, Tells
<1>5. Rosters /\ Quiet
  BY Ground DEF Agreed
<1>6. CASE Held
  <2>1. cpc = "freezing" /\ hold.held /\ cpc' = "frozen"
    BY <1>6 DEF Held
  <2>2. Rosters'
    BY <1>1, <1>5, <2>1, ControllerLeaves DEF Rosters, InSample
  <2>3. Phase => Phase'
    <3> SUFFICES ASSUME Phase
                 PROVE  Phase'
      OBVIOUS
    <3>1. AllAreHeld /\ toCtl = <<>> /\ freezing
      BY <1>5, <2>1 DEF Phase, Quiet
    <3>2. ~Has(toTracer, "FREEZE") /\ ~Has(toTracer, "RESUME") /\ ~Has(toCtl, "RESUMED")
      BY <2>1, <3>1 DEF Phase
    <3> QED
      BY <1>1, <1>2, <1>3, <2>1, <3>1, <3>2 DEF Phase
  <2> QED
    BY <1>2, <1>4, <2>2, <2>3 DEF Agreed
<1>7. CASE Sample
  <2>1. /\ cpc = "frozen" /\ cpc' = "sampled"
        /\ spoiled' = (tpc = "exited" \/ \E t \in hold.roster : ~Live(t))
    BY <1>7 DEF Sample
  <2>2. hold.roster = {t \in Tid : Live(t)}
    BY <1>5, <2>1 DEF HoldInv, Rosters, InSample
  <2>3. Rosters'
    <3>1. spoiled' => tpc = "exited"
      BY <2>1, <2>2
    <3> QED
      BY <1>1, <2>2, <3>1, ControllerLeaves
  <2>4. Phase => Phase'
    BY <1>1, <1>2, <1>3, <2>1 DEF Phase
  <2> QED
    BY <1>2, <1>4, <2>3, <2>4 DEF Agreed
<1>8. CASE Resumed
  <2>1. cpc = "resuming" /\ hold.resumed /\ cpc' = "idle"
    BY <1>8 DEF Resumed, Fails
  <2>2. Rosters'
    BY <1>1, <2>1, ControllerLeaves DEF InSample
  <2>3. Phase => Phase'
    BY <1>1, <1>2, <1>3, <2>1 DEF Phase
  <2> QED
    BY <1>2, <1>4, <2>2, <2>3 DEF Agreed
<1>9. CASE Stop \/ Stopped
  <2>1. cpc' \in {"stopping", "stopped", "unproved"}
    BY <1>9 DEF Stop, Stopped
  <2>2. tpc = "exited"
    <3>1. Phase => tpc = "exited"
      BY <1>9 DEF Stop, Stopped, Phase
    <3> QED
      BY <3>1 DEF Agreed
  <2>3. Rosters'
    BY <1>1, <2>1, ControllerLeaves DEF InSample
  <2> QED
    BY <1>2, <2>2, <2>3 DEF Agreed
<1> QED
  BY <1>6, <1>7, <1>8, <1>9

LEMMA CalmStep ==
  ASSUME Traced, HoldInv, CalmInv, [Next]_vars
  PROVE  CalmInv'
<1> SUFFICES ASSUME Calm'
             PROVE  Agreed'
  BY DEF CalmInv
<1>1. CASE UNCHANGED vars
  <2>1. /\ UNCHANGED <<kernel, tracer, scenario>>
        /\ UNCHANGED <<tpc, tseq, cont, joins, rows, freezing, allHeld, toCtl, toTracer>>
        /\ UNCHANGED <<cpc, cseq, threads, births, hold, snapshots, spoiled, failure>>
    BY <1>1 DEF vars, system, tracer, controller, channel
  <2>2. Agreed
    BY <2>1 DEF CalmInv, Calm
  <2>3. UNCHANGED <<st, why, told, child>> /\ \A t \in Tid : Live(t)' <=> Live(t)
    BY <2>1 DEF kernel, Live
  <2>4. Births' /\ HeldAll'
    BY <2>1, <2>2, <2>3, BirthsStay DEF Agreed
  <2>5. Rosters' /\ (tpc' # "exited" => Exchange' /\ Phase')
    BY <2>1, <2>2, <2>3, ExchangeStays DEF Agreed
  <2> QED
    BY <2>4, <2>5 DEF Agreed
<1>2. ASSUME Next, ~UNCHANGED vars
      PROVE  Agreed'
  <2>1. /\ UNCHANGED scenario
        /\ Threads \/ Kernel \/ Tracer \/ Controller \/ Freeze \/ Expire \/ GiveUp
    BY <1>2 DEF Next
  <2>2. failure => failure'
    BY <2>1 DEF Threads, Kernel, Fork, Exit, Release, Killed, Trap, FirstStop, Tracer, Wait, Interrupt,
         TryHeld, TakeCommand, TakeAck, TracerEnds, Controller, Receive, Held, Sample, SendResume,
         Resumed, Stop, Stopped, Signal, SignalTracer, Freeze, Expire, GiveUp, Fails, controller
  <2>3. Agreed /\ "kill" \notin scenario.faults /\ ~failure /\ ~failure'
    BY <2>1, <2>2 DEF CalmInv, Calm
  <2>4. ~Expire /\ ~GiveUp /\ ~SignalTracer /\ ~\E t \in Tid : Signal(t)
    BY <2>3 DEF Expire, GiveUp, Fails, SignalTracer, Signal
  <2> QED
    BY <2>1, <2>3, <2>4, AgreedKernel, AgreedTracer, AgreedReceive, AgreedFreeze, AgreedSendResume,
       AgreedInside DEF Controller
<1> QED
  BY <1>1, <1>2

LEMMA CalmAtFirst == Init => CalmInv
<1> SUFFICES ASSUME Init
             PROVE  Agreed
  BY DEF CalmInv
<1>1. /\ st = [t \in Tid |-> IF t = Root THEN "running" ELSE "unborn"]
      /\ why = [t \in Tid |-> "none"] /\ child = [t \in Tid |-> None]
      /\ joins = [creator |-> [t \in Tid |-> None], stopped |-> {}, acked |-> {}]
      /\ rows = {Root} /\ cont = <<>> /\ ~allHeld /\ tpc = "run" /\ ~freezing
      /\ toCtl = <<>> /\ toTracer = <<>> /\ cseq = 1 /\ tseq = 1
      /\ births = {Root} /\ threads = {Root} /\ cpc = "idle"
      /\ hold = [held |-> FALSE, resumed |-> FALSE, roster |-> {}]
  BY DEF Init
<1>2. Root \in Tid /\ None \notin Tid
  BY SnapshotAssumption
<1>3. DOMAIN cont = {} /\ DOMAIN toTracer = {} /\ DOMAIN toCtl = {}
  BY <1>1
<1>4. Births
  BY <1>1, <1>2, <1>3 DEF Births
<1>5. HeldAll
  BY <1>1, <1>3 DEF HeldAll, AllAreHeld, Has
<1>6. Exchange
  BY <1>1 DEF Exchange, Answered
<1>7. Phase
  BY <1>1, <1>3 DEF Phase, Has
<1>8. Rosters
  BY <1>1 DEF Rosters, Answered
<1> QED
  BY <1>4, <1>5, <1>6, <1>7, <1>8 DEF Agreed

LEMMA AlwaysCalmInv == Spec => [](Traced /\ HoldInv /\ CalmInv)
BY AlwaysTraced, HoldAtFirst, HoldStep, CalmAtFirst, CalmStep, PTL DEF Spec

LEMMA FailedStep ==
  ASSUME Traced, HoldInv, CalmInv, FailedInv, [Next]_vars
  PROVE  FailedInv'
<1>1. CASE UNCHANGED vars
  BY <1>1 DEF vars, system, tracer, controller, FailedInv
<1>2. ASSUME UNCHANGED <<scenario, controller>>, ~failure \/ scenario.faults # {} \/ UNCHANGED <<tpc, rows>>
      PROVE  FailedInv'
  BY <1>2 DEF FailedInv, controller
<1>3. CASE UNCHANGED scenario /\ (Threads \/ Kernel)
  BY <1>2, <1>3 DEF Threads, Kernel, Fork, Exit, Release, Killed, Trap, FirstStop, tracer
<1>4. CASE UNCHANGED scenario /\ Tracer
  <2>1. tpc # "exited" /\ UNCHANGED controller
    BY <1>4 DEF Tracer, Wait, Interrupt, TryHeld, TakeCommand, TakeAck, TracerEnds
  <2> QED
    BY <1>2, <1>4, <2>1 DEF FailedInv
<1>5. CASE UNCHANGED scenario /\ (Controller \/ Freeze \/ Expire \/ GiveUp) /\ failure
  <2>1. cpc \in {"failed", "stopping", "unproved", "survivor", "stopped"}
    BY <1>5 DEF FailedInv
  <2>2. /\ cpc' \in {"stopping", "unproved", "survivor"} /\ UNCHANGED rows
        /\ tpc = "exited" => tpc' = "exited"
    BY <1>5, <2>1 DEF Controller, Receive, Held, Sample, SendResume, Resumed, Stop, Stopped, Signal,
         SignalTracer, Freeze, Expire, GiveUp, Fails, InHold, tracer, controller
  <2> QED
    BY <1>5, <2>2 DEF FailedInv
<1>6. CASE UNCHANGED scenario /\ (Controller \/ Freeze \/ Expire \/ GiveUp) /\ ~failure
  <2> SUFFICES ASSUME failure'
               PROVE  FailedInv'
    BY DEF FailedInv
  <2>1. Receive \/ SendResume \/ Resumed \/ Freeze \/ Expire \/ GiveUp
    BY <1>6 DEF Controller, Held, Sample, Stop, Stopped, Signal, SignalTracer
  <2>2. UNCHANGED <<tpc, rows>> /\ cpc' \in {"failed", "stopping", "survivor"}
    BY <1>6, <2>1 DEF Receive, SendResume, Resumed, Freeze, Expire, GiveUp, Fails, tracer
  <2>3. ASSUME scenario.faults = {}
        PROVE  tpc = "exited" /\ rows = {}
    <3>1. Agreed
      BY <1>6, <2>3 DEF CalmInv, Calm
    <3>2. ~Receive
      BY <1>6, <3>1, ReceiveTakes
    <3>3. tpc = "exited"
      BY <1>6, <2>1, <2>3, <3>1, <3>2
         DEF SendResume, Resumed, Freeze, Expire, GiveUp, Agreed, Rosters
    <3> QED
      BY <3>1, <3>3 DEF Agreed, Rosters
  <2> QED
    BY <1>6, <2>2, <2>3 DEF FailedInv
<1> QED
  BY <1>1, <1>3, <1>4, <1>5, <1>6 DEF Next

LEMMA AlwaysFailedInv == Spec => []FailedInv
<1>1. Init => FailedInv
  BY DEF Init, FailedInv
<1> QED
  BY <1>1, AlwaysCalmInv, FailedStep, PTL DEF Spec

\* Nothing fails without a reason: while nobody is killed and there is time
\* enough, every record is what the controller expects and every command what
\* the tracer can take, in whatever order they cross; what is left to fail is a
\* snapshot of a command that has ended.
THEOREM NothingFailsInVain == Spec => []NoSpuriousFailure
<1>1. FailedInv => NoSpuriousFailure
  BY DEF FailedInv, NoSpuriousFailure
<1> QED
  BY <1>1, AlwaysFailedInv, PTL

\* While nobody is killed, the roster that is sampled is exactly who lives.
THEOREM RosterOfTheLiving == Spec => []RosterIsExact
<1>1. ASSUME HoldInv, CalmInv, FailedInv
      PROVE  RosterIsExact
  <2> SUFFICES ASSUME "kill" \notin scenario.faults, cpc \in {"frozen", "sampled"}
               PROVE  hold.roster = {t \in Tid : Live(t)}
    BY DEF RosterIsExact
  <2>1. Agreed /\ hold.held
    BY <1>1 DEF FailedInv, CalmInv, Calm, HoldInv
  <2> QED
    BY <2>1 DEF Agreed, Rosters, InSample
<1> QED
  BY <1>1, AlwaysCalmInv, AlwaysFailedInv, PTL

\* A cleanup that reports no failure has recorded every birth and every exit.
THEOREM CleanStop == Spec => []CleanStopIsComplete
<1>1. ASSUME Traced, CalmInv, FailedInv, OverAfter
      PROVE  CleanStopIsComplete
  <2> SUFFICES ASSUME "kill" \notin scenario.faults, cpc = "stopped"
               PROVE  births = {t \in Tid : st[t] # "unborn"} /\ threads = {}
    BY DEF CleanStopIsComplete
  <2>1. Births /\ Rosters /\ tpc = "exited"
    BY <1>1 DEF FailedInv, CalmInv, Calm, Agreed, OverAfter, Over
  <2>2. births = {Root} \cup joins.acked /\ threads = {}
    BY <2>1 DEF Rosters, Answered
  <2>3. /\ Family /\ Root \in Tid /\ joins.acked \subseteq joins.stopped /\ joins.stopped \subseteq Tid
        /\ \A t \in Tid : ~Live(t)
    BY <1>1, <2>1, Ground DEF Quiet
  <2>4. \A c, p \in Tid : ~Halfway(c, p)
    BY <2>3 DEF Halfway, Live
  <2>5. \A t \in Tid : st[t] # "unborn" <=> t \in births
    BY <2>1, <2>2, <2>3, <2>4 DEF Births, Family
  <2> QED
    BY <2>2, <2>3, <2>5
<1> QED
  BY <1>1, AlwaysTraced, AlwaysCalmInv, AlwaysFailedInv, AlwaysOverAfter, PTL

\* What tracer and controller hold and record agrees with the threads.
THEOREM AlwaysConsistent == Spec => []Consistent
<1>1. TypeOK /\ RosterIsExact /\ NoneForgotten /\ ResumeFreesAll /\ CleanStopIsComplete => Consistent
  BY DEF Consistent
<1> QED
  BY <1>1, TypeCorrect, RosterOfTheLiving, NobodyForgotten, ResumeFrees, CleanStop, PTL

=============================================================================
