--------------------------- MODULE MCLinuxObserver ---------------------------
(***************************************************************************)
(* Small instances of LinuxObserver.                                       *)
(***************************************************************************)
EXTENDS LinuxObserver

CONSTANTS p1, p2, p3, launcher, java, core

Faults == {"kill", "time", "exit"}

S(procs, faults, images, n, expected, processes, events) ==
  [procs |-> procs, faults |-> faults, images |-> images, execs |-> n,
   expected |-> expected, processes |-> processes, events |-> events]

\* A build that runs the core under every fault; one whose processes exec twice;
\* a larger tree where nothing goes wrong; one with more processes than allowed,
\* or rows, and kills; and a log that is just long enough, with a timer.
Scenarios == {
  S({p1, p2}, Faults, {java, core}, 1, <<core>>, 3, 40),
  S({p1, p2}, {}, {java, core}, 2, <<core>>, 3, 40),
  S({p1, p2, p3}, {}, {java}, 1, <<>>, 3, 40),
  S({p1, p2, p3}, {"kill"}, {java}, 1, <<>>, 2, 10),
  S({p1}, {"time"}, {java}, 1, <<>>, 2, 7)}
=============================================================================
