---------------------------- MODULE ReachHistory ----------------------------
(***************************************************************************)
(* What the reachability intervals promise, without rows, phases or        *)
(* snapshots: for every delta an answer, found by a search of its whole    *)
(* graph, all at once; and an answer once given is never changed.          *)
(***************************************************************************)
EXTENDS Reach

CONSTANTS
  Graphs,          \* the call graphs a commit may have
  EntrySets        \* the entry points it may have

VARIABLES
  graph,           \* the call graph of the last delta
  answers,         \* the reachable symbols, by delta
  seq              \* the seq of the next delta

Init == graph = {} /\ answers = [at \in {} |-> {}] /\ seq = 0

Search(newGraph, entries) ==
  /\ graph' = newGraph
  /\ answers' = [at \in 0 .. seq |-> IF at = seq THEN LeastFixpoint(newGraph, entries) ELSE answers[at]]
  /\ seq' = seq + 1

Next == \E newGraph \in Graphs, entries \in EntrySets : Search(newGraph, entries)

Spec == Init /\ [][Next]_<<graph, answers, seq>>
=============================================================================
