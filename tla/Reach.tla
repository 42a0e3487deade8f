------------------------------- MODULE Reach -------------------------------
(***************************************************************************)
(* Call graphs and reachability, as internal/reach uses them: an edge is a *)
(* pair of symbols, a graph is the set of its edges.  The graph comes from *)
(* the CALL facts of the store, an edge per (source, target).              *)
(***************************************************************************)
EXTENDS Naturals, FiniteSets

CONSTANT Symbol         \* qualified names of functions and methods

ASSUME SymbolFinite == IsFiniteSet(Symbol)

Edge == Symbol \X Symbol

\* buildAdj: the callees of n.
Successors(graph, n) == {m \in Symbol : <<n, m>> \in graph}

\* A set of symbols that no edge of the graph leaves.
Closed(S, graph) == \A e \in graph : e[1] \in S => e[2] \in S

(***************************************************************************)
(* The meaning reach.go gives to reachability: the least set that holds    *)
(* the entry points and is closed under the edges (Knaster-Tarski: the     *)
(* intersection of all such sets).  It is the reference; the code computes *)
(* it by the breadth-first search and by the delete-rederive steps that    *)
(* module Dred models.                                                     *)
(***************************************************************************)
LeastFixpoint(graph, entries) ==
  {s \in Symbol :
     \A S \in SUBSET Symbol : entries \subseteq S /\ Closed(S, graph) => s \in S}

\* SupportCounts: edges into s from reachable symbols, one more for an entry.
SupportCount(graph, reachable, entries, s) ==
  Cardinality({m \in reachable : <<m, s>> \in graph})
    + (IF s \in entries THEN 1 ELSE 0)
=============================================================================
