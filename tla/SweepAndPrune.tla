---------------------------- MODULE SweepAndPrune ----------------------------
(***************************************************************************)
(* The sweep and prune broadphase.                                         *)
(*                                                                         *)
(* Every item has a proxy with its box.  The proxies are kept in a map and *)
(* in a tree ordered by box and then by hash code (module AVLTree), and a  *)
(* search walks that order and stops where the boxes begin beyond the one  *)
(* it searches for.  The tree refuses a proxy that compares equal to one   *)
(* it holds, after the map has taken it.                                   *)
(***************************************************************************)
EXTENDS Integers, SequencesExt

CONSTANTS
  Item,
  None,             \* no box
  Box,              \* the boxes an item can occupy: <<minX, minY, maxX, maxY>>
  Expand(_),        \* AABBExpansionMethod.expand
  Oversized(_, _),  \* fat box too large for a new one (AABB_REDUCTION_RATIO)
  Allowed(_, _),    \* BroadphaseFilter.isAllowed
  Hash(_),          \* hashCode
  Strangers         \* TRUE iff the program marks items the detector lacks

ASSUME ItemAssumption ==
  /\ IsFiniteSet(Item) /\ Strangers \in BOOLEAN
  /\ \A i, j \in Item : Hash(i) \in Int /\ ~ Allowed(i, i) /\ (Allowed(i, j) <=> Allowed(j, i))
  /\ None \notin {Expand(b) : b \in Box}
  /\ \A b \in Box : \A v \in {b, Expand(b)} :
       v \in Seq(Int) /\ Len(v) = 4 /\ v[1] <= v[3] /\ v[2] <= v[4]

Fat == {Expand(b) : b \in Box}

VARIABLES
  box,       \* nodes: the box of the proxy of every item, or None
  ordered,   \* the items whose proxy is in the tree
  updated,   \* the marked items, in the order they were first marked
  tracking,  \* updateTrackingEnabled
  pc,        \* idle, or inside one of the searches
  outer,     \* the items the search has still to take
  full,      \* whether a pair search considers every item
  tested,    \* the items a pair search has taken
  query,     \* the box a search is for
  found      \* the pairs, or the items, found

vars == <<box, ordered, updated, tracking, pc, outer, full, tested, query, found>>
search == <<pc, outer, full, tested, query, found>>
index == <<box, ordered, updated, tracking>>

TypeOK ==
  /\ box \in [Item -> Fat \cup {None}]
  /\ ordered \subseteq {i \in Item : box[i] # None}
  /\ updated \in Seq(Item) /\ IsInjective(updated)
  /\ tracking \in BOOLEAN /\ full \in BOOLEAN
  /\ pc \in {"idle", "pairs", "scan", "done"}
  /\ outer \in Seq(Item) /\ tested \subseteq Item
  /\ query \in Box \cup {None}
  /\ found \subseteq IF pc = "pairs" THEN SUBSET Item ELSE Item

Init ==
  /\ box = [i \in Item |-> None] /\ ordered = {}
  /\ updated = <<>> /\ tracking = FALSE
  /\ pc = "idle" /\ outer = <<>> /\ full = TRUE /\ tested = {}
  /\ query = None /\ found = {}

nodes == {i \in Item : box[i] # None}

MinX(b) == b[1]
MaxX(b) == b[3]
Encloses(b, c) == b[1] <= c[1] /\ b[2] <= c[2] /\ b[3] >= c[3] /\ b[4] >= c[4]
Overlaps(b, c) == b[1] <= c[3] /\ c[1] <= b[3] /\ b[2] <= c[4] /\ c[2] <= b[4]

-----------------------------------------------------------------------------
(***************************************************************************)
(* The order of the proxies (AABBBroadphaseProxy.compareTo).               *)
(***************************************************************************)

SortKey(f, i) == Append(f[i], Hash(i))

Precedes(f, i, j) ==
  \E k \in 1..5 : /\ SortKey(f, i)[k] < SortKey(f, j)[k]
                  /\ \A m \in 1..k - 1 : SortKey(f, i)[m] = SortKey(f, j)[m]

Ties(f, i, j) == SortKey(f, i) = SortKey(f, j)

\* S in the order of the tree.
InOrder(S) == {s \in [1..Cardinality(S) -> S] :
  Range(s) = S /\ \A m, n \in DOMAIN s : m < n => Precedes(box, s[m], s[n])}

-----------------------------------------------------------------------------
(***************************************************************************)
(* Operations of the program.                                              *)
(***************************************************************************)

Mark(i) == IF tracking /\ ~ Contains(updated, i) THEN Append(updated, i) ELSE updated

\* Mutant: the order is by box alone.
InTreeByBox(S, f, i) == IF \E j \in S : f[i] = f[j] THEN S ELSE S \cup {i}

\* tree.insert: refused when another proxy in the tree compares equal.
InTree(S, f, i) == IF \E j \in S : Ties(f, i, j) THEN S ELSE S \cup {i}

\* add and update, of an item the detector lacks and of one that left its box
\* or shrank far below it.
Place(i, b) ==
  /\ pc = "idle"
  /\ box[i] # None => ~ Encloses(box[i], b) \/ Oversized(box[i], Expand(b))
  /\ box' = [box EXCEPT ![i] = Expand(b)]
  /\ updated' = Mark(i)
  /\ ordered' = InTree(ordered \ {i}, box', i)
  /\ UNCHANGED tracking /\ UNCHANGED search

RemoveItem(i) ==
  /\ pc = "idle"
  /\ i \in nodes
  /\ box' = [box EXCEPT ![i] = None]
  /\ ordered' = ordered \ {i}
  /\ updated' = RemoveFirst(updated, i)
  /\ UNCHANGED tracking /\ UNCHANGED search

Clear ==
  /\ pc = "idle"
  /\ box' = [i \in Item |-> None] /\ ordered' = {} /\ updated' = <<>>
  /\ UNCHANGED tracking /\ UNCHANGED search

\* setUpdated: an item the detector lacks is marked too, with null.
SetUpdated(i) ==
  /\ pc = "idle"
  /\ tracking
  /\ Strangers \/ i \in nodes
  /\ updated' = Mark(i)
  /\ UNCHANGED <<box, ordered, tracking>> /\ UNCHANGED search

ClearUpdates ==
  /\ pc = "idle"
  /\ updated' = <<>>
  /\ UNCHANGED <<box, ordered, tracking>> /\ UNCHANGED search

SetUpdateTrackingEnabled(flag) ==
  /\ pc = "idle"
  /\ tracking' = flag
  /\ updated' = IF flag THEN updated ELSE <<>>
  /\ UNCHANGED <<box, ordered>> /\ UNCHANGED search

-----------------------------------------------------------------------------
(***************************************************************************)
(* Search for pairs.                                                       *)
(***************************************************************************)

\* detectIterator(forceFullDetection): the items in order, or the marked ones.
BeginPairs(force) ==
  /\ pc = "idle"
  /\ pc' = "pairs"
  /\ full' = (force \/ ~ tracking)
  /\ outer' \in IF full' THEN InOrder(ordered) ELSE {updated}
  /\ tested' = {} /\ found' = {}
  /\ UNCHANGED query /\ UNCHANGED index

\* What the item i is compared with: the tree from i on, as far as the first
\* item that begins beyond i.
From(i) == {j \in ordered : j = i \/ Precedes(box, i, j) \/ Ties(box, i, j)}
Considered(i) == {j \in From(i) : Allowed(i, j) /\ j \notin tested}

\* Mutant: the first item that does not overlap ends the walk.
PartnersUntilMiss(i) ==
  {j \in Considered(i) :
     \A k \in Considered(i) : Precedes(box, k, j) \/ k = j => Overlaps(box[i], box[k])}

Partners(i) ==
  {j \in Considered(i) :
     /\ Overlaps(box[i], box[j])
     /\ ~ \E k \in Considered(i) : Precedes(box, k, j) /\ MinX(box[k]) > MaxX(box[i])}

\* One round of findNext: all the pairs of one item.  The mark of an item the
\* detector lacks ends the search.
Sweep ==
  /\ pc = "pairs"
  /\ outer # <<>>
  /\ LET i == Head(outer) IN
     IF i \in nodes
     THEN /\ found' = found \cup {{i, j} : j \in Partners(i)}
          /\ tested' = tested \cup {i}
          /\ outer' = Tail(outer)
     ELSE outer' = <<>> /\ UNCHANGED <<tested, found>>
  /\ UNCHANGED <<pc, full, query>> /\ UNCHANGED index

EndPairs ==
  /\ pc = "pairs"
  /\ outer = <<>>
  /\ pc' = "idle" /\ full' = TRUE /\ tested' = {} /\ found' = {}
  /\ UNCHANGED <<outer, query>> /\ UNCHANGED index

-----------------------------------------------------------------------------
(***************************************************************************)
(* Search for a box.                                                       *)
(***************************************************************************)

BeginQuery(b) ==
  /\ pc = "idle"
  /\ pc' = "scan" /\ query' = b
  /\ outer' \in InOrder(ordered) /\ found' = {}
  /\ UNCHANGED <<full, tested>> /\ UNCHANGED index

\* Mutant: a box that begins where the query ends counts as beyond it.
BeyondOrTouching(i) == MinX(box[i]) >= MaxX(query)

Beyond(i) == MinX(box[i]) > MaxX(query)

\* One round of findNext.
Scan ==
  /\ pc = "scan"
  /\ IF outer = <<>> \/ Beyond(Head(outer))
     THEN pc' = "done" /\ outer' = <<>> /\ UNCHANGED found
     ELSE /\ found' = IF Overlaps(query, box[Head(outer)]) THEN found \cup {Head(outer)} ELSE found
          /\ outer' = Tail(outer)
          /\ UNCHANGED pc
  /\ UNCHANGED <<full, tested, query>> /\ UNCHANGED index

EndQuery ==
  /\ pc = "done"
  /\ pc' = "idle" /\ query' = None /\ found' = {}
  /\ UNCHANGED <<outer, full, tested>> /\ UNCHANGED index

-----------------------------------------------------------------------------

Operation ==
  \/ \E i \in Item, b \in Box : Place(i, b)
  \/ \E i \in Item : RemoveItem(i) \/ SetUpdated(i)
  \/ Clear
  \/ ClearUpdates
  \/ \E flag \in BOOLEAN : SetUpdateTrackingEnabled(flag) \/ BeginPairs(flag)
  \/ \E b \in Box : BeginQuery(b)

Search == Sweep \/ EndPairs \/ Scan \/ EndQuery

Next == Operation \/ Search

\* An iterator is run to its end before the detector changes.
Spec == Init /\ [][Next]_vars /\ WF_vars(Search)

-----------------------------------------------------------------------------
(***************************************************************************)
(* Properties.                                                             *)
(***************************************************************************)

OverlappingPairs(S) ==
  {p \in SUBSET S : \E i, j \in p : p = {i, j} /\ Allowed(i, j) /\ Overlaps(box[i], box[j])}

PairsDone == pc = "pairs" /\ outer = <<>>

\* A full detection finds exactly the overlapping pairs, although it stops
\* early and looks only ahead in an order that also depends on y and on hash
\* codes (DetectPairsIterator).
FullDetectionIsExact == PairsDone /\ full => found = OverlappingPairs(ordered)

\* An item the map holds and the tree does not was refused by it, which takes
\* another item with the same hash code; no other sequence of calls loses one
\* (insert, update).
LostOnlyByTie ==
  \A i \in nodes \ ordered : \E j \in Item \ {i} : Hash(j) = Hash(i)

\* The map, the tree and the marks agree but for items lost to a tie.
Consistent == TypeOK /\ LostOnlyByTie

\* Whether the incremental detection gets to the mark of i: the mark of an item
\* the detector lacks ends it.
Reached(i) == \E n \in DOMAIN updated :
  updated[n] = i /\ \A m \in 1..n : updated[m] \in nodes

MarkedBefore(j, i) ==
  \E m, n \in DOMAIN updated : m < n /\ updated[m] = j /\ updated[n] = i

\* An incremental detection reports no pair that is not one, and finds every
\* overlap of a marked item with one that comes after it in the order and was
\* not marked before it; the others it may miss (detectIterator, setUpdated).
IncrementalFindsAhead ==
  PairsDone /\ ~ full =>
    /\ found \subseteq OverlappingPairs(nodes)
    /\ \A i, j \in ordered :
         Reached(i) /\ Precedes(box, i, j) /\ {i, j} \in OverlappingPairs(ordered)
           /\ ~ MarkedBefore(j, i) => {i, j} \in found

\* What a detection finds, full or incremental (detectIterator).
PairsAreFound == FullDetectionIsExact /\ IncrementalFindsAhead

\* The promise of a detector, kept by this one for the items its tree took:
\* an item refused is as good as removed.
Promise == INSTANCE Broadphase WITH
  Box <- Fat \cup Box,
  Touches <- Overlaps,
  box <- [i \in Item |-> IF i \in ordered THEN box[i] ELSE None],
  phase <- CASE pc = "scan" -> "asked" [] pc = "done" -> "answered" [] OTHER -> "idle",
  answer <- IF pc = "done" THEN found ELSE {}

IsBroadphase == Promise!Spec
=============================================================================
