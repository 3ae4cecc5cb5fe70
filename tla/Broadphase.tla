----------------------------- MODULE Broadphase -----------------------------
(***************************************************************************)
(* What every broadphase detector promises (BroadphaseDetector): it keeps  *)
(* one box per item, and a search answers with exactly the items whose box *)
(* overlaps the one asked about.  How it keeps the boxes, and in which     *)
(* order it looks at them, is its own business.                            *)
(***************************************************************************)

CONSTANTS
  Item,          \* the items
  Box,           \* boxes
  None,          \* no box
  Touches(_, _)  \* whether two boxes overlap

VARIABLES
  box,     \* the box of every item, None when the detector does not hold it
  phase,   \* "idle", "asked" or "answered"
  query,   \* the box asked about
  answer   \* the items found

vars == <<box, phase, query, answer>>

Init ==
  /\ box = [i \in Item |-> None]
  /\ phase = "idle" /\ query = None /\ answer = {}

Unasked == phase = "idle" /\ UNCHANGED <<phase, query, answer>>

\* add and update.
Place(i, b) == Unasked /\ box' = [box EXCEPT ![i] = b]

\* remove.
Remove(i) == Unasked /\ box' = [box EXCEPT ![i] = None]

Clear == Unasked /\ box' = [i \in Item |-> None]

Ask(b) ==
  /\ phase = "idle"
  /\ phase' = "asked" /\ query' = b
  /\ UNCHANGED <<box, answer>>

Held == {i \in Item : box[i] # None}

Answer ==
  /\ phase = "asked"
  /\ phase' = "answered"
  /\ answer' = {i \in Held : Touches(query, box[i])}
  /\ UNCHANGED <<box, query>>

Forget ==
  /\ phase = "answered"
  /\ phase' = "idle" /\ query' = None /\ answer' = {}
  /\ UNCHANGED box

Next ==
  \/ \E i \in Item, b \in Box : Place(i, b)
  \/ \E i \in Item : Remove(i)
  \/ Clear
  \/ \E b \in Box : Ask(b)
  \/ Answer
  \/ Forget

\* What a detector may do.
Safety == Init /\ [][Next]_vars

\* A search that was begun is answered.
Spec == Safety /\ WF_vars(Answer)
=============================================================================
