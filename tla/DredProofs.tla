----------------------------- MODULE DredProofs -----------------------------
(***************************************************************************)
(* Dred is correct for every repository whose entry points stay, and for   *)
(* every one whose entry points only grow while it is updated              *)
(* incrementally: proofs of its type invariant and of the safety           *)
(* properties its runs check, for every graph, every number of deltas and  *)
(* every interleaving of the loops.                                        *)
(***************************************************************************)
EXTENDS Dred, FiniteSetTheorems, TLAPS

-----------------------------------------------------------------------------
(* The least fixpoint, which every argument about reachability rests on.    *)

\* Entry points are reachable.
LEMMA FixpointHoldsEntries ==
  ASSUME NEW graph, NEW entries \in SUBSET Symbol
  PROVE  entries \subseteq LeastFixpoint(graph, entries)
BY DEF LeastFixpoint

\* A callee of a reachable symbol is reachable.
LEMMA FixpointClosed ==
  ASSUME NEW graph \in SUBSET Edge, NEW entries
  PROVE  Closed(LeastFixpoint(graph, entries), graph)
<1>. DEFINE L == LeastFixpoint(graph, entries)
<1>. SUFFICES ASSUME NEW e \in graph, e[1] \in L
              PROVE  e[2] \in L
  BY DEF Closed
<1>1. e[2] \in Symbol
  BY DEF Edge
<1>2. ASSUME NEW S \in SUBSET Symbol, entries \subseteq S, Closed(S, graph)
      PROVE  e[2] \in S
  <2>1. e[1] \in S
    BY <1>2 DEF LeastFixpoint
  <2>. QED
    BY <2>1, <1>2 DEF Closed
<1>. QED
  BY <1>1, <1>2 DEF LeastFixpoint

\* It is the least such set: any closed set with the entries contains it.
LEMMA FixpointLeast ==
  ASSUME NEW graph, NEW entries, NEW S \in SUBSET Symbol,
         entries \subseteq S, Closed(S, graph)
  PROVE  LeastFixpoint(graph, entries) \subseteq S
BY DEF LeastFixpoint

LEMMA FixpointType ==
  ASSUME NEW graph, NEW entries
  PROVE  LeastFixpoint(graph, entries) \subseteq Symbol
BY DEF LeastFixpoint

(***************************************************************************)
(* A set that holds the entries, is closed and lies inside the least       *)
(* fixpoint is the least fixpoint.  This is how both computations of the   *)
(* code are shown to end with the right answer.                            *)
(***************************************************************************)
LEMMA FixpointUnique ==
  ASSUME NEW graph, NEW entries, NEW S \in SUBSET Symbol,
         entries \subseteq S, Closed(S, graph),
         S \subseteq LeastFixpoint(graph, entries)
  PROVE  S = LeastFixpoint(graph, entries)
BY FixpointLeast

(***************************************************************************)
(* architecture.md, I7: an SCC with no surviving external entry edge is    *)
(* not reachable.  Any set of symbols without an entry point that no edge  *)
(* enters from outside is disjoint from what is reachable, however its     *)
(* members call each other.                                                *)
(***************************************************************************)
THEOREM IsolatedCycleUnreachable ==
  ASSUME NEW graph \in SUBSET Edge, NEW entries \in SUBSET Symbol,
         NEW C \in SUBSET Symbol,
         C \cap entries = {},
         \A e \in graph : e[2] \in C => e[1] \in C
  PROVE  C \cap LeastFixpoint(graph, entries) = {}
<1>. DEFINE S == Symbol \ C
<1>1. S \in SUBSET Symbol /\ entries \subseteq S
  OBVIOUS
<1>2. Closed(S, graph)
  BY DEF Closed, Edge
<1>3. LeastFixpoint(graph, entries) \subseteq S
  BY <1>1, <1>2, FixpointLeast
<1>. QED
  BY <1>3

-----------------------------------------------------------------------------
USE SymbolFinite, CallEdgeType, ShapesType, NullType

LEMMA SupportCountType ==
  ASSUME NEW graph, NEW R \in SUBSET Symbol, NEW entries, NEW s
  PROVE  SupportCount(graph, R, entries, s) \in Nat
<1>1. IsFiniteSet({m \in R : <<m, s>> \in graph})
  BY FS_Subset
<1>2. Cardinality({m \in R : <<m, s>> \in graph}) \in Nat
  BY <1>1, FS_CardinalityType
<1>. QED
  BY <1>2 DEF SupportCount

LEMMA EntryType ==
  ASSUME NEW functions \in Shapes, NEW entries \in DefaultEntryPoints(functions)
  PROVE  entries \subseteq Symbol
BY DEF DefaultEntryPoints

LEMMA TypeStep == TypeOK /\ [Next]_vars => TypeOK'
<1>. SUFFICES ASSUME TypeOK, [Next]_vars
              PROVE  TypeOK'
  OBVIOUS
<1>. USE DEF TypeOK, Phase
<1>1. ASSUME NEW functions \in Shapes, NEW newEdges \in SUBSET CallEdge,
             NEW entries \in DefaultEntryPoints(functions),
             OpenDelta(functions, newEdges, entries)
      PROVE  /\ edges' \subseteq CallEdge /\ entryPoints' \subseteq Symbol
             /\ LiveReachable \subseteq Symbol
             /\ oldEdges' \subseteq CallEdge /\ oldReachable' \subseteq Symbol
             /\ UNCHANGED <<rows, seq, past>>
  BY <1>1, EntryType DEF OpenDelta, LiveReachable
<1>2. CASE Commit
  <2>1. ASSUME NEW functions \in Shapes, NEW newEdges \in SUBSET CallEdge,
               NEW entries \in DefaultEntryPoints(functions),
               BeginIncremental(functions, newEdges, entries)
        PROVE  TypeOK'
    <3>1. OpenDelta(functions, newEdges, entries)
      BY <2>1 DEF BeginIncremental
    <3>. QED
      BY <2>1, <3>1, <1>1 DEF BeginIncremental
  <2>2. ASSUME NEW functions \in Shapes, NEW newEdges \in SUBSET CallEdge,
               NEW entries \in DefaultEntryPoints(functions),
               BeginFull(functions, newEdges, entries)
        PROVE  TypeOK'
    <3>1. OpenDelta(functions, newEdges, entries)
      BY <2>2 DEF BeginFull
    <3>. QED
      BY <2>2, <3>1, <1>1, EntryType DEF BeginFull
  <2>. QED
    BY <1>2, <2>1, <2>2 DEF Commit
<1>3. ASSUME NEW n \in Symbol, OverDelete(n)
      PROVE  TypeOK'
  BY <1>3 DEF OverDelete, Successors
<1>4. ASSUME NEW n \in Symbol, Rederive(n)
      PROVE  TypeOK'
  BY <1>4 DEF Rederive
<1>5. ASSUME NEW n \in Symbol, Expand(n) \/ Visit(n)
      PROVE  TypeOK'
  BY <1>5 DEF Expand, Visit, Grow, Successors
<1>6. ASSUME NEW e \in CallEdge, ScanNewEdge(e)
      PROVE  TypeOK'
  <2>1. e[2] \in Symbol
    BY DEF Edge
  <2>. QED
    BY <1>6, <2>1 DEF ScanNewEdge
<1>7. CASE AcceptSurvivors
  BY <1>7 DEF AcceptSurvivors
<1>8. CASE BeginInsert
  BY <1>8 DEF BeginInsert
<1>9. CASE BeginExpand
  BY <1>9 DEF BeginExpand, scratch
<1>10. CASE ApplyReachableDiff
  <2>. DEFINE Row == [symbol : Symbol, support : Nat, from : Nat, to : Nat \cup {NULL}]
  <2>1. ASSUME NEW r \in rows PROVE CloseReachable(r) \in Row
    BY DEF CloseReachable
  <2>2. ASSUME NEW s \in result PROVE OpenReachable(s) \in Row
    BY SupportCountType DEF OpenReachable
  <2>3. rows' \subseteq Row
    BY <1>10, <2>1, <2>2 DEF ApplyReachableDiff
  <2>4. past' \subseteq [at : Nat, edges : SUBSET CallEdge,
                         entries : SUBSET Symbol]
    BY <1>10 DEF ApplyReachableDiff
  <2>. QED
    BY <1>10, <2>3, <2>4 DEF ApplyReachableDiff, DropLocals
<1>11. CASE Rollback
  BY <1>11 DEF Rollback, DropLocals
<1>12. CASE UNCHANGED vars
  BY <1>12 DEF vars, scratch
<1>. QED
  BY <1>2, <1>3, <1>4, <1>5, <1>6, <1>7, <1>8, <1>9, <1>10, <1>11, <1>12
  DEF Next, Step

\* Every step keeps the variables in their types.
THEOREM TypeCorrect == Spec => []TypeOK
<1>1. Init => TypeOK
  BY DEF Init, TypeOK, Phase
<1>. QED
  BY <1>1, TypeStep, PTL DEF Spec

-----------------------------------------------------------------------------
(***************************************************************************)
(* The argument for phase 1.  When its queue is empty, an unmarked symbol  *)
(* of the old reachable set is reachable in the new graph: the symbols     *)
(* that are marked or still reachable are closed under the old edges and   *)
(* hold the entries, so they hold everything that was reachable.           *)
(***************************************************************************)
LEMMA SurvivorsReachable ==
  ASSUME NEW last \in SUBSET Symbol, NEW P \in SUBSET Symbol, last \subseteq P,
         NEW old \in SUBSET Edge, NEW new \in SUBSET Edge,
         NEW R \in SUBSET Symbol, NEW marked \in SUBSET Symbol,
         R = LeastFixpoint(old, last),
         \A e \in old : /\ e[2] \in R \ P
                        /\ e \notin new \/ e[1] \in marked
                        => e[2] \in marked
  PROVE  R \ marked \subseteq LeastFixpoint(new, P)
<1>. DEFINE L == LeastFixpoint(new, P)
            D == {x \in R : x \in L \/ x \in marked}
<1>1. last \subseteq D
  BY FixpointHoldsEntries
<1>2. Closed(D, old)
  <2>. SUFFICES ASSUME NEW e \in old, e[1] \in D
                PROVE  e[2] \in D
    BY DEF Closed
  <2>1. e[2] \in R
    BY FixpointClosed DEF Closed
  <2>2. CASE e[2] \in P
    BY <2>1, <2>2, FixpointHoldsEntries
  <2>3. CASE e[2] \notin P /\ e \in new /\ e[1] \in L
    <3>1. e[2] \in L
      BY <2>3, FixpointClosed DEF Closed
    <3>. QED
      BY <3>1, <2>1
  <2>4. CASE e[2] \notin P /\ (e \notin new \/ e[1] \in marked)
    BY <2>1, <2>4
  <2>. QED
    BY <2>2, <2>3, <2>4
<1>3. R \subseteq D
  BY <1>1, <1>2, FixpointLeast
<1>. QED
  BY <1>3

-----------------------------------------------------------------------------
\* The entry points of the last delta, in terms of the one the invariant knows.
LEMMA LastEntriesType ==
  ASSUME TypeOK
  PROVE  LastEntries \in SUBSET Symbol
BY DEF TypeOK, LastEntries

LEMMA LastEntriesKept ==
  ASSUME UNCHANGED <<past, seq>>
  PROVE  LastEntries' = LastEntries
BY DEF LastEntries

\* Opening a delta: what both paths have in common.
LEMMA OpenStep ==
  ASSUME Inductive, NEW functions \in Shapes, NEW newEdges \in SUBSET CallEdge,
         NEW entries \in DefaultEntryPoints(functions),
         OpenDelta(functions, newEdges, entries), phase' # "idle"
  PROVE  StoreExact'
<1>1. LiveReachable' = LiveReachable /\ StoredEdges' = StoredEdges /\ LastEntries' = LastEntries
  BY LastEntriesKept DEF OpenDelta, LiveReachable, StoredEdges
<1>. QED
  BY <1>1 DEF Inductive, StoreExact, OpenDelta

\* A step inside a delta touches neither the rows nor the snapshot.
LEMMA InsideStep ==
  ASSUME StoreExact, phase # "idle", phase' # "idle",
         UNCHANGED <<rows, seq, past, oldEdges, oldReachable, entryPoints>>
  PROVE  StoreExact'
<1>1. LiveReachable' = LiveReachable /\ StoredEdges' = StoredEdges /\ LastEntries' = LastEntries
  BY LastEntriesKept DEF LiveReachable, StoredEdges
<1>. QED
  BY <1>1 DEF StoreExact

LEMMA GrownInside ==
  ASSUME EntriesGrown, phase' = phase \/ phase' \notin {"overdelete", "rederive"}
                       \/ (phase = "overdelete" /\ phase' = "rederive"),
         UNCHANGED <<past, seq, oldEdges, oldReachable, entryPoints>>
  PROVE  EntriesGrown'
<1>1. LastEntries' = LastEntries
  BY LastEntriesKept
<1>. QED
  BY <1>1 DEF EntriesGrown

LEMMA IncrementalStarts ==
  ASSUME Inductive, TypeOK', NEW functions \in Shapes, NEW newEdges \in SUBSET CallEdge,
         NEW entries \in DefaultEntryPoints(functions), EntryPointsGrow(entries),
         BeginIncremental(functions, newEdges, entries)
  PROVE  Inductive'
<1>1. OpenDelta(functions, newEdges, entries) /\ phase' = "overdelete"
  BY DEF BeginIncremental
<1>2. StoreExact'
  BY <1>1, OpenStep
<1>3. EntriesGrown'
  <2>1. LastEntries' = LastEntries
    BY <1>1, LastEntriesKept DEF OpenDelta
  <2>. QED
    BY <1>1, <2>1 DEF OpenDelta, EntryPointsGrow, EntriesGrown
<1>4. MarksDownstream'
  BY <1>1 DEF BeginIncremental, OpenDelta, MarksDownstream
<1>5. Confirmed' /\ OnlyPendingEdgesLeave'
  BY <1>1 DEF BeginIncremental, OpenDelta, Confirmed, OnlyPendingEdgesLeave
<1>. QED
  BY <1>2, <1>3, <1>4, <1>5 DEF Inductive

LEMMA FullStarts ==
  ASSUME Inductive, TypeOK', NEW functions \in Shapes, NEW newEdges \in SUBSET CallEdge,
         NEW entries \in DefaultEntryPoints(functions),
         BeginFull(functions, newEdges, entries)
  PROVE  Inductive'
<1>1. OpenDelta(functions, newEdges, entries) /\ phase' = "bfs"
  BY DEF BeginFull
<1>2. StoreExact'
  BY <1>1, OpenStep
<1>3. EntriesGrown' /\ MarksDownstream' /\ OnlyPendingEdgesLeave'
  BY <1>1 DEF BeginFull, EntriesGrown, MarksDownstream, OnlyPendingEdgesLeave
<1>4. Confirmed'
  BY <1>1, EntryType, FixpointHoldsEntries DEF BeginFull, OpenDelta, Confirmed
<1>. QED
  BY <1>2, <1>3, <1>4 DEF Inductive

LEMMA OverDeleteStep ==
  ASSUME Inductive, TypeOK', NEW n \in Symbol, OverDelete(n)
  PROVE  Inductive'
<1>. USE DEF Inductive
<1>0. EntriesGrown'
  BY GrownInside DEF OverDelete
<1>1. StoreExact'
  BY InsideStep DEF OverDelete
<1>2. MarksDownstream'
  <2>1. work' \subseteq dead'
    BY DEF OverDelete, MarksDownstream
  <2>2. ASSUME NEW e \in oldEdges,
               e[2] \in oldReachable \ entryPoints,
               e \notin edges \/ e[1] \in dead' \ work'
        PROVE  e[2] \in dead'
    <3>1. CASE e[1] = n
      <4>1. e = <<n, e[2]>> /\ e[2] \in Symbol
        BY <3>1 DEF TypeOK, Edge
      <4>. QED
        BY <4>1, <2>2 DEF OverDelete, Successors
    <3>2. CASE e[1] # n
      BY <3>2, <2>2 DEF OverDelete, MarksDownstream
    <3>. QED
      BY <3>1, <3>2
  <2>. QED
    BY <2>1, <2>2 DEF MarksDownstream, OverDelete
<1>3. Confirmed' /\ OnlyPendingEdgesLeave'
  BY DEF OverDelete, Confirmed, OnlyPendingEdgesLeave
<1>. QED
  BY <1>1, <1>0, <1>2, <1>3

LEMMA AcceptSurvivorsStep ==
  ASSUME Inductive, TypeOK', AcceptSurvivors
  PROVE  Inductive'
<1>. USE DEF Inductive
<1>0. EntriesGrown'
  BY GrownInside DEF AcceptSurvivors
<1>1. StoreExact'
  BY InsideStep DEF AcceptSurvivors
<1>2. oldReachable = LeastFixpoint(oldEdges, LastEntries) /\ LastEntries \subseteq entryPoints
  BY DEF AcceptSurvivors, StoreExact, StoredEdges, EntriesGrown
<1>3. oldEdges \in SUBSET Edge /\ edges \in SUBSET Edge
  BY DEF TypeOK
<1>4. oldReachable \ dead \subseteq LeastFixpoint(edges, entryPoints)
  <2>1. \A e \in oldEdges : /\ e[2] \in oldReachable \ entryPoints
                            /\ e \notin edges \/ e[1] \in dead
                            => e[2] \in dead
    BY DEF AcceptSurvivors, MarksDownstream
  <2>2. /\ oldReachable \in SUBSET Symbol /\ dead \in SUBSET Symbol
        /\ entryPoints \in SUBSET Symbol /\ LastEntries \in SUBSET Symbol
    BY LastEntriesType DEF TypeOK
  <2>. QED
    BY <1>2, <1>3, <2>1, <2>2, SurvivorsReachable
<1>5. result' \subseteq LeastFixpoint(edges, entryPoints)
  BY <1>4, FixpointHoldsEntries DEF AcceptSurvivors, TypeOK
<1>6. Confirmed'
  BY <1>5 DEF AcceptSurvivors, Confirmed
<1>7. MarksDownstream' /\ OnlyPendingEdgesLeave'
  BY DEF AcceptSurvivors, MarksDownstream, OnlyPendingEdgesLeave
<1>. QED
  BY <1>1, <1>0, <1>6, <1>7

\* A symbol with a live edge from a reachable one is reachable.
LEMMA CalleeReachable ==
  ASSUME TypeOK, NEW P, NEW m, NEW d, <<m, d>> \in edges,
         m \in LeastFixpoint(edges, P)
  PROVE  d \in LeastFixpoint(edges, P)
<1>1. edges \in SUBSET Edge
  BY DEF TypeOK
<1>. QED
  BY <1>1, FixpointClosed DEF Closed

LEMMA RederiveStep ==
  ASSUME Inductive, TypeOK', NEW d \in Symbol, Rederive(d)
  PROVE  Inductive'
<1>. USE DEF Inductive
<1>0. EntriesGrown'
  BY GrownInside DEF Rederive
<1>1. StoreExact'
  BY InsideStep DEF Rederive
<1>2. d \in LeastFixpoint(edges, entryPoints)
  BY CalleeReachable DEF Rederive, Supported, Confirmed
<1>3. Confirmed'
  BY <1>2 DEF Rederive, Confirmed
<1>4. MarksDownstream' /\ OnlyPendingEdgesLeave'
  BY DEF Rederive, MarksDownstream, OnlyPendingEdgesLeave
<1>. QED
  BY <1>1, <1>0, <1>3, <1>4

(***************************************************************************)
(* The argument for phase 3: an edge that was there before the delta and   *)
(* starts at a confirmed symbol ends at one, because a marked callee would *)
(* have been rederived.                                                    *)
(***************************************************************************)
LEMMA BeginInsertStep ==
  ASSUME Inductive, TypeOK', BeginInsert
  PROVE  Inductive'
<1>. USE DEF Inductive
<1>0. EntriesGrown'
  BY GrownInside DEF BeginInsert
<1>1. StoreExact'
  BY InsideStep DEF BeginInsert
<1>2. ASSUME NEW e \in edges, e[1] \in result, e \in oldEdges
      PROVE  e[2] \in result
  <2>1. e = <<e[1], e[2]>>
    BY DEF TypeOK, Edge
  <2>2. oldReachable = LeastFixpoint(oldEdges, LastEntries)
    BY DEF BeginInsert, StoreExact, StoredEdges
  <2>3. e[1] \in oldReachable
    BY <1>2 DEF BeginInsert, Confirmed, EntriesGrown
  <2>5. e[2] \in oldReachable
    <3>1. oldEdges \in SUBSET Edge
      BY DEF TypeOK
    <3>. QED
      BY <1>2, <3>1, <2>2, <2>3, FixpointClosed DEF Closed
  <2>6. CASE e[2] \in dead
    BY <2>6, <2>1, <1>2 DEF BeginInsert, Supported
  <2>7. CASE e[2] \notin dead
    BY <2>7, <2>5 DEF BeginInsert, Confirmed
  <2>. QED
    BY <2>6, <2>7
<1>3. OnlyPendingEdgesLeave'
  BY <1>2 DEF BeginInsert, OnlyPendingEdgesLeave, Confirmed
<1>4. Confirmed' /\ MarksDownstream'
  BY DEF BeginInsert, Confirmed, MarksDownstream
<1>. QED
  BY <1>1, <1>0, <1>3, <1>4

LEMMA ScanNewEdgeStep ==
  ASSUME Inductive, TypeOK',
         NEW e \in CallEdge, ScanNewEdge(e)
  PROVE  Inductive'
<1>. USE DEF Inductive
<1>0. EntriesGrown'
  BY GrownInside DEF ScanNewEdge
<1>1. StoreExact'
  BY InsideStep DEF ScanNewEdge
<1>2. e = <<e[1], e[2]>> /\ e \in edges
  BY DEF Edge, ScanNewEdge, OnlyPendingEdgesLeave
<1>3. e[1] \in result => e[2] \in LeastFixpoint(edges, entryPoints)
  BY <1>2, CalleeReachable DEF ScanNewEdge, Confirmed
<1>4. Confirmed'
  BY <1>3 DEF ScanNewEdge, Confirmed
<1>5. OnlyPendingEdgesLeave' /\ MarksDownstream'
  BY DEF ScanNewEdge, OnlyPendingEdgesLeave, MarksDownstream
<1>. QED
  BY <1>1, <1>0, <1>4, <1>5

LEMMA BeginExpandStep ==
  ASSUME Inductive, TypeOK', BeginExpand
  PROVE  Inductive'
<1>. USE DEF Inductive, BeginExpand, scratch
<1>0. EntriesGrown'
  BY GrownInside
<1>1. StoreExact'
  BY InsideStep
<1>2. Confirmed' /\ MarksDownstream' /\ OnlyPendingEdgesLeave'
  BY DEF Confirmed, MarksDownstream, OnlyPendingEdgesLeave
<1>. QED
  BY <1>1, <1>0, <1>2

LEMMA GrowStep ==
  ASSUME Inductive, TypeOK',
         phase \in {"expand", "bfs"}, NEW n \in Symbol, Grow(n)
  PROVE  Inductive'
<1>. USE DEF Inductive
<1>0. EntriesGrown'
  BY GrownInside DEF Grow
<1>1. StoreExact'
  BY InsideStep DEF Grow
<1>2. Successors(edges, n) \subseteq LeastFixpoint(edges, entryPoints)
  BY CalleeReachable DEF Grow, Successors, Confirmed, OnlyPendingEdgesLeave
<1>3. Confirmed'
  BY <1>2 DEF Grow, Confirmed
<1>4. ASSUME NEW e \in edges, e[1] \in result'
      PROVE  e[2] \in result' \/ e[1] \in work'
  <2>1. e = <<e[1], e[2]>> /\ e[2] \in Symbol
    BY DEF TypeOK, Edge
  <2>2. CASE e[1] = n
    BY <2>1, <2>2 DEF Grow, Successors
  <2>3. CASE e[1] # n
    BY <2>3, <1>4 DEF Grow, OnlyPendingEdgesLeave
  <2>. QED
    BY <2>2, <2>3
<1>5. OnlyPendingEdgesLeave' /\ MarksDownstream'
  BY <1>4 DEF Grow, OnlyPendingEdgesLeave, MarksDownstream
<1>. QED
  BY <1>1, <1>0, <1>3, <1>5

\* After the loops the result is the least fixpoint, on either path.
LEMMA ResultExact ==
  ASSUME Inductive, phase \in {"expand", "bfs"}, work = {}
  PROVE  result = LeastFixpoint(edges, entryPoints)
<1>. USE DEF Inductive
<1>1. entryPoints \subseteq result /\ result \subseteq LeastFixpoint(edges, entryPoints)
  BY DEF Confirmed
<1>2. Closed(result, edges)
  BY DEF OnlyPendingEdgesLeave, Closed
<1>. QED
  BY <1>1, <1>2, FixpointUnique DEF TypeOK

\* The rows opened and closed turn the live rows into the result.
LEMMA DiffMakesLive ==
  ASSUME TypeOK, ApplyReachableDiff, oldReachable = LiveReachable
  PROVE  LiveReachable' = result
<1>. DEFINE leaving == {r \in rows : r.to = NULL /\ r.symbol \in oldReachable \ result}
            closed == {CloseReachable(r) : r \in leaving}
            opened == {OpenReachable(s) : s \in result \ oldReachable}
<1>1. rows' = (rows \ leaving) \cup closed \cup opened
  BY DEF ApplyReachableDiff
<1>2. \A r \in closed : r.to # NULL
  BY DEF CloseReachable, TypeOK
<1>3. \A s : OpenReachable(s).symbol = s /\ OpenReachable(s).to = NULL
  BY DEF OpenReachable
<1>4. ASSUME NEW s \in result
      PROVE  s \in LiveReachable'
  <2>1. CASE s \in oldReachable
    <3>1. PICK r \in rows : r.to = NULL /\ r.symbol = s
      BY <2>1 DEF LiveReachable
    <3>2. r \in rows'
      BY <3>1, <1>1, <1>4
    <3>. QED
      BY <3>1, <3>2 DEF LiveReachable
  <2>2. CASE s \notin oldReachable
    <3>1. OpenReachable(s) \in rows'
      BY <1>1, <1>4, <2>2
    <3>. QED
      BY <3>1, <1>3 DEF LiveReachable
  <2>. QED
    BY <2>1, <2>2
<1>5. ASSUME NEW s \in LiveReachable'
      PROVE  s \in result
  <2>1. PICK r \in rows' : r.to = NULL /\ r.symbol = s
    BY <1>5 DEF LiveReachable
  <2>2. CASE r \in rows \ leaving
    BY <2>1, <2>2 DEF LiveReachable
  <2>3. CASE r \in opened
    BY <2>1, <2>3, <1>3
  <2>. QED
    BY <2>1, <2>2, <2>3, <1>1, <1>2
<1>. QED
  BY <1>4, <1>5

LEMMA CommitDeltaStep ==
  ASSUME Inductive, TypeOK', ApplyReachableDiff
  PROVE  Inductive'
<1>. USE DEF Inductive
<1>1. oldReachable = LiveReachable /\ seq \in Nat
  BY DEF ApplyReachableDiff, StoreExact, TypeOK
<1>2. LiveReachable' = LeastFixpoint(edges, entryPoints)
  BY <1>1, ResultExact, DiffMakesLive DEF ApplyReachableDiff
<1>3. StoredEdges' = edges
  BY DEF ApplyReachableDiff, StoredEdges
<1>. DEFINE new == [at |-> seq, edges |-> edges, entries |-> entryPoints]
<1>4. past' = past \cup {new} /\ seq' = seq + 1 /\ seq' - 1 = seq /\ \A h \in past : h.at < seq
  BY <1>1 DEF ApplyReachableDiff, StoreExact
<1>5. LastEntries' = entryPoints
  <2>1. \A h \in past' : h.at = seq <=> h = new
    BY <1>1, <1>4 DEF TypeOK
  <2>2. {h \in past' : h.at = seq' - 1} = {new}
    BY <1>4, <2>1
  <2>3. LastEntries' = UNION {h.entries : h \in {x \in past' : x.at = seq' - 1}}
    BY DEF LastEntries
  <2>4. new.entries = entryPoints
    OBVIOUS
  <2>. HIDE DEF new
  <2>. QED
    BY <2>2, <2>3, <2>4
<1>6. ASSUME NEW h \in past'
      PROVE  /\ h.at < seq'
             /\ h.at = seq' - 1 => h.edges = edges /\ h.entries = entryPoints
  BY <1>1, <1>4 DEF TypeOK
<1>7. \E h \in past' : h.at = seq' - 1
  <2>1. new \in past' /\ new.at = seq
    BY <1>4
  <2>. HIDE DEF new
  <2>. QED
    BY <1>4, <2>1
<1>8. StoreExact'
  BY <1>2, <1>3, <1>5, <1>6, <1>7 DEF ApplyReachableDiff, StoreExact
<1>9. EntriesGrown' /\ Confirmed' /\ MarksDownstream' /\ OnlyPendingEdgesLeave'
  BY DEF ApplyReachableDiff, DropLocals, EntriesGrown, Confirmed, MarksDownstream, OnlyPendingEdgesLeave
<1>. QED
  BY <1>8, <1>9

LEMMA RollbackStep ==
  ASSUME Inductive, TypeOK', Rollback
  PROVE  Inductive'
<1>. USE DEF Inductive
<1>1. LiveReachable' = LiveReachable /\ StoredEdges' = StoredEdges /\ LastEntries' = LastEntries
  BY LastEntriesKept DEF Rollback, LiveReachable, StoredEdges
<1>2. StoreExact'
  BY <1>1 DEF Rollback, StoreExact
<1>3. EntriesGrown' /\ Confirmed' /\ MarksDownstream' /\ OnlyPendingEdgesLeave'
  BY DEF Rollback, DropLocals, EntriesGrown, Confirmed, MarksDownstream, OnlyPendingEdgesLeave
<1>. QED
  BY <1>2, <1>3

LEMMA StutterStep ==
  ASSUME Inductive, TypeOK', UNCHANGED vars
  PROVE  Inductive'
<1>. USE DEF Inductive, vars, scratch
<1>1. LiveReachable' = LiveReachable /\ StoredEdges' = StoredEdges /\ LastEntries' = LastEntries
  BY LastEntriesKept DEF LiveReachable, StoredEdges
<1>2. StoreExact'
  BY <1>1 DEF StoreExact
<1>3. EntriesGrown' /\ Confirmed' /\ MarksDownstream' /\ OnlyPendingEdgesLeave'
  BY <1>1 DEF EntriesGrown, Confirmed, MarksDownstream, OnlyPendingEdgesLeave
<1>. QED
  BY <1>2, <1>3

LEMMA InductiveInit == Init => Inductive
<1>. SUFFICES ASSUME Init PROVE Inductive
  OBVIOUS
<1>1. LastEntries = {} /\ LiveReachable = {} /\ StoredEdges = {}
  BY DEF Init, LastEntries, LiveReachable, StoredEdges
<1>2. LeastFixpoint({}, {}) = {}
  <2>1. {} \in SUBSET Symbol /\ {} \subseteq {} /\ Closed({}, {})
    BY DEF Closed
  <2>. QED
    BY <2>1, FixpointLeast
<1>. QED
  BY <1>1, <1>2 DEF Init, Inductive, TypeOK, Phase, StoreExact, EntriesGrown,
     MarksDownstream, Confirmed, OnlyPendingEdgesLeave

\* An incremental delta may assume that entry points only grew.
LEMMA InductiveStep ==
  ASSUME Inductive, [Next]_vars,
         \A functions \in Shapes : \A newEdges \in SUBSET CallEdge : \A entries \in DefaultEntryPoints(functions) :
           (Growing => EntryPointsGrow(entries)) /\ BeginIncremental(functions, newEdges, entries)
           => EntryPointsGrow(entries)
  PROVE  Inductive'
<1>1. TypeOK'
  BY TypeStep DEF Inductive
<1>2. CASE Commit
  <2>1. PICK functions \in Shapes, newEdges \in SUBSET CallEdge :
          \E entries \in DefaultEntryPoints(functions) :
            \/ (Growing => EntryPointsGrow(entries)) /\ BeginIncremental(functions, newEdges, entries)
            \/ BeginFull(functions, newEdges, entries)
    BY <1>2 DEF Commit
  <2>2. PICK entries \in DefaultEntryPoints(functions) :
          \/ (Growing => EntryPointsGrow(entries)) /\ BeginIncremental(functions, newEdges, entries)
          \/ BeginFull(functions, newEdges, entries)
    BY <2>1
  <2>3. CASE (Growing => EntryPointsGrow(entries)) /\ BeginIncremental(functions, newEdges, entries)
    <3>1. EntryPointsGrow(entries)
      BY <2>3
    <3>. QED
      BY <1>1, <2>3, <3>1, IncrementalStarts
  <2>. QED
    BY <1>1, <2>2, <2>3, FullStarts
<1>3. CASE \E n \in Symbol : OverDelete(n) \/ Rederive(n)
  BY <1>3, <1>1, OverDeleteStep, RederiveStep
<1>4. CASE \E n \in Symbol : Expand(n) \/ Visit(n)
  BY <1>4, <1>1, GrowStep DEF Expand, Visit
<1>5. CASE \E e \in CallEdge : ScanNewEdge(e)
  BY <1>5, <1>1, ScanNewEdgeStep
<1>6. CASE AcceptSurvivors \/ BeginInsert \/ BeginExpand
  BY <1>6, <1>1, AcceptSurvivorsStep, BeginInsertStep, BeginExpandStep
<1>7. CASE ApplyReachableDiff
  BY <1>7, <1>1, CommitDeltaStep
<1>8. CASE Rollback
  BY <1>8, <1>1, RollbackStep
<1>9. CASE UNCHANGED vars
  BY <1>9, <1>1, StutterStep
<1>. QED
  BY <1>2, <1>3, <1>4, <1>5, <1>6, <1>7, <1>8, <1>9 DEF Next, Step

\* Where the entry points are always P, every delta was indexed with P.
IndexedWith(P) == (\A h \in past : h.entries = P) /\ (phase # "idle" => entryPoints = P)

LEMMA IndexedWithStep ==
  ASSUME NEW P, \A functions \in Shapes : DefaultEntryPoints(functions) = {P},
         IndexedWith(P), [Next]_vars
  PROVE  IndexedWith(P)'
<1>1. CASE Commit
  BY <1>1 DEF Commit, BeginIncremental, BeginFull, OpenDelta, IndexedWith
<1>2. CASE ApplyReachableDiff
  BY <1>2 DEF ApplyReachableDiff, IndexedWith
<1>3. CASE Rollback
  BY <1>3 DEF Rollback, IndexedWith
<1>4. CASE Step /\ ~ApplyReachableDiff
  BY <1>4 DEF Step, OverDelete, Rederive, Expand, Visit, Grow, ScanNewEdge, AcceptSurvivors,
     BeginInsert, BeginExpand, scratch, IndexedWith
<1>5. CASE UNCHANGED vars
  BY <1>5 DEF vars, scratch, IndexedWith
<1>. QED
  BY <1>1, <1>2, <1>3, <1>4, <1>5 DEF Next

\* Entry points that stay grow.
LEMMA FixedGrow ==
  ASSUME NEW P \in SUBSET Symbol, Inductive, IndexedWith(P), phase = "idle"
  PROVE  EntryPointsGrow(P)
<1>1. LastEntries \subseteq P
  BY DEF LastEntries, IndexedWith
<1>2. ASSUME NEW e \in edges, e[1] \in P
      PROVE  e[1] \in LiveReachable
  <2>1. StoredEdges = edges /\ StoredEdges # {}
    BY DEF StoredEdges
  <2>2. PICK h \in past : h.at = seq - 1
    BY <2>1 DEF Inductive, StoreExact
  <2>3. LastEntries = P
    BY <2>2 DEF Inductive, StoreExact, IndexedWith
  <2>. QED
    BY <1>2, <2>3, FixpointHoldsEntries DEF Inductive, StoreExact
<1>. QED
  BY <1>1, <1>2 DEF EntryPointsGrow

LEMMA InductiveInvariant == Steady => (Spec => []Inductive)
<1>1. CASE Growing
  <2>1. Inductive /\ [Next]_vars => Inductive'
    BY <1>1, InductiveStep
  <2>. QED
    BY <2>1, InductiveInit, PTL DEF Spec
<1>2. CASE EntryPointsFixed
  <2>1. PICK P \in SUBSET Symbol : \A functions \in Shapes : DefaultEntryPoints(functions) = {P}
    BY <1>2 DEF EntryPointsFixed
  <2>2. Init => IndexedWith(P)
    BY DEF Init, IndexedWith
  <2>3. Inductive /\ IndexedWith(P) /\ [Next]_vars => Inductive' /\ IndexedWith(P)'
    <3>. SUFFICES ASSUME Inductive, IndexedWith(P), [Next]_vars
                  PROVE  Inductive' /\ IndexedWith(P)'
      OBVIOUS
    <3>1. \A functions \in Shapes : \A newEdges \in SUBSET CallEdge : \A entries \in DefaultEntryPoints(functions) :
            BeginIncremental(functions, newEdges, entries) => EntryPointsGrow(entries)
      BY <2>1, FixedGrow DEF BeginIncremental, OpenDelta
    <3>. QED
      BY <2>1, <3>1, InductiveStep, IndexedWithStep
  <2>. QED
    BY <2>2, <2>3, InductiveInit, PTL DEF Spec
<1>. QED
  BY <1>1, <1>2 DEF Steady

-----------------------------------------------------------------------------
(***************************************************************************)
(* architecture.md, I6, for every repository whose entry points stay, or   *)
(* only grow while it is updated incrementally: after every delta the live *)
(* rows are the least fixpoint.                                            *)
(***************************************************************************)
THEOREM ReachableIsExact == Steady => (Spec => []ReachableExact)
<1>1. Inductive => ReachableExact
  BY DEF Inductive, StoreExact, ReachableExact
<1>. QED
  BY <1>1, InductiveInvariant, PTL

(***************************************************************************)
(* What phase 1 leaves unmarked, and everything added later, is reachable  *)
(* in the new graph.                                                       *)
(***************************************************************************)
THEOREM NeverOver == Steady => (Spec => []NeverOverApproximates)
<1>1. Inductive => NeverOverApproximates
  BY DEF Inductive, Confirmed, NeverOverApproximates, Incremental
<1>. QED
  BY <1>1, InductiveInvariant, PTL

(***************************************************************************)
(* After phase 2 no edge older than the delta leads out of the result      *)
(* unnoticed, so that phase 3 may start from the new edges only.           *)
(***************************************************************************)
THEOREM OldEdgesStaySettled == Steady => (Spec => []OldEdgesSettled)
<1>1. Inductive => OldEdgesSettled
  BY DEF Inductive, OnlyPendingEdgesLeave, OldEdgesSettled
<1>. QED
  BY <1>1, InductiveInvariant, PTL

-----------------------------------------------------------------------------
(***************************************************************************)
(* The rows.  All of them were opened and closed before the next delta,    *)
(* and the rows of a symbol do not overlap.  This part does not depend on  *)
(* what the entry points are: the diff against the snapshot is enough.     *)
(***************************************************************************)
RowsInv ==
  /\ TypeOK
  /\ IntervalsDisjoint
  /\ \A r \in rows : r.from < seq /\ (r.to # NULL => r.to < seq)
  /\ phase # "idle" => oldReachable = LiveReachable

\* The row of a symbol that is no longer reachable.
Leaving(r) == r.to = NULL /\ r.symbol \in oldReachable \ result

LEMMA ClosedRow ==
  ASSUME TypeOK, NEW r \in rows
  PROVE  /\ CloseReachable(r).symbol = r.symbol
         /\ CloseReachable(r).from = r.from
         /\ CloseReachable(r).to = seq
BY DEF TypeOK, CloseReachable

LEMMA OpenedRow ==
  ASSUME NEW s
  PROVE  /\ OpenReachable(s).symbol = s
         /\ OpenReachable(s).from = seq
         /\ OpenReachable(s).to = NULL
BY DEF OpenReachable

LEMMA RowsInvUnchanged ==
  ASSUME RowsInv, TypeOK', UNCHANGED <<rows, seq>>,
         phase' # "idle" => oldReachable' = LiveReachable
  PROVE  RowsInv'
<1>1. LiveReachable' = LiveReachable
  BY DEF LiveReachable
<1>. QED
  BY <1>1 DEF RowsInv, IntervalsDisjoint

\* Where a row after the diff comes from.
LEMMA DiffRows ==
  ASSUME ApplyReachableDiff, NEW r \in rows'
  PROVE  \/ r \in rows /\ ~ Leaving(r)
         \/ \E old \in rows : Leaving(old) /\ r = CloseReachable(old)
         \/ \E s \in result \ oldReachable : r = OpenReachable(s)
BY DEF ApplyReachableDiff, Leaving

LEMMA DiffKeepsRowsInv ==
  ASSUME RowsInv, TypeOK', ApplyReachableDiff
  PROVE  RowsInv'
<1>. USE DEF RowsInv
<1>1. seq \in Nat /\ seq' = seq + 1 /\ phase' = "idle" /\ oldReachable = LiveReachable
  BY DEF ApplyReachableDiff, TypeOK
<1>2. \A r \in rows : r.from \in Nat /\ r.to \in Nat \cup {NULL}
  BY DEF TypeOK
<1>3. ASSUME NEW r \in rows'
      PROVE  r.from < seq' /\ (r.to # NULL => r.to < seq' /\ r.from < r.to)
  <2>1. CASE r \in rows
    BY <2>1, <1>1, <1>2 DEF IntervalsDisjoint
  <2>2. CASE \E old \in rows : Leaving(old) /\ r = CloseReachable(old)
    BY <2>2, <1>1, <1>2, ClosedRow
  <2>3. CASE \E s \in result \ oldReachable : r = OpenReachable(s)
    BY <2>3, <1>1, OpenedRow
  <2>. QED
    BY <2>1, <2>2, <2>3, DiffRows
<1>. DEFINE Before(r, q) == r.to # NULL /\ r.to <= q.from
<1>4. \A x, y \in rows : x # y /\ x.symbol = y.symbol => Before(x, y) \/ Before(y, x)
  BY DEF IntervalsDisjoint
<1>5. \A x \in rows : x.symbol \notin oldReachable => x.to # NULL /\ x.to <= seq
  BY <1>1, <1>2 DEF LiveReachable
<1>6. ASSUME NEW r \in rows', NEW q \in rows', r # q, r.symbol = q.symbol,
             r \in rows, ~ Leaving(r)
      PROVE  Before(r, q) \/ Before(q, r)
  <2>1. CASE q \in rows
    BY <2>1, <1>4, <1>6
  <2>2. ASSUME NEW old \in rows, Leaving(old), q = CloseReachable(old)
        PROVE  Before(r, q)
    <3>1. q.symbol = old.symbol /\ q.from = old.from
      BY <2>2, ClosedRow
    <3>2. old # r /\ old.to = NULL
      BY <2>2, <1>6 DEF Leaving
    <3>. QED
      BY <3>1, <3>2, <1>4, <1>6
  <2>3. ASSUME NEW s \in result \ oldReachable, q = OpenReachable(s)
        PROVE  Before(r, q)
    BY <2>3, <1>5, <1>6, OpenedRow
  <2>. QED
    BY <2>1, <2>2, <2>3, DiffRows
<1>7. ASSUME NEW r \in rows', NEW q \in rows', r # q, r.symbol = q.symbol,
             NEW old \in rows, Leaving(old), r = CloseReachable(old),
             ~ (q \in rows /\ ~ Leaving(q))
      PROVE  FALSE
  <2>1. r.symbol = old.symbol /\ old.symbol \in oldReachable /\ old.to = NULL
    BY <1>7, ClosedRow DEF Leaving
  <2>2. ASSUME NEW old2 \in rows, Leaving(old2), q = CloseReachable(old2)
        PROVE  FALSE
    <3>1. old2.symbol = old.symbol /\ old2.to = NULL /\ old2 # old
      BY <2>1, <2>2, <1>7, ClosedRow DEF Leaving
    <3>. QED
      BY <3>1, <2>1, <1>4
  <2>3. ASSUME NEW s \in result \ oldReachable, q = OpenReachable(s)
        PROVE  FALSE
    BY <2>1, <2>3, <1>7, OpenedRow
  <2>. QED
    BY <2>2, <2>3, <1>7, DiffRows
<1>8. ASSUME NEW r \in rows', NEW q \in rows', r # q, r.symbol = q.symbol
      PROVE  Before(r, q) \/ Before(q, r)
  <2>1. CASE (r \in rows /\ ~ Leaving(r)) \/ (q \in rows /\ ~ Leaving(q))
    BY <2>1, <1>6, <1>8
  <2>2. CASE ~ (r \in rows /\ ~ Leaving(r)) /\ ~ (q \in rows /\ ~ Leaving(q))
    <3>1. PICK s \in result \ oldReachable : r = OpenReachable(s)
      BY <2>2, <1>7, <1>8, DiffRows
    <3>2. PICK t \in result \ oldReachable : q = OpenReachable(t)
      BY <2>2, <1>7, <1>8, DiffRows
    <3>. QED
      BY <3>1, <3>2, <1>8, OpenedRow
  <2>. QED
    BY <2>1, <2>2
<1>. QED
  BY <1>1, <1>3, <1>8 DEF IntervalsDisjoint

LEMMA RowsInvStep == RowsInv /\ [Next]_vars => RowsInv'
<1>. SUFFICES ASSUME RowsInv, [Next]_vars
              PROVE  RowsInv'
  OBVIOUS
<1>1. TypeOK'
  BY TypeStep DEF RowsInv
<1>2. CASE ApplyReachableDiff
  BY <1>1, <1>2, DiffKeepsRowsInv
<1>3. CASE Commit
  BY <1>1, <1>3, RowsInvUnchanged
  DEF Commit, BeginIncremental, BeginFull, OpenDelta
<1>4. CASE Rollback
  BY <1>1, <1>4, RowsInvUnchanged DEF Rollback
<1>5. CASE Step /\ ~ ApplyReachableDiff
  BY <1>1, <1>5, RowsInvUnchanged
  DEF Step, OverDelete, Rederive, Expand, Visit, Grow, ScanNewEdge, AcceptSurvivors,
      BeginInsert, BeginExpand, scratch, RowsInv
<1>6. CASE UNCHANGED vars
  BY <1>1, <1>6, RowsInvUnchanged DEF vars, scratch, RowsInv
<1>. QED
  BY <1>2, <1>3, <1>4, <1>5, <1>6 DEF Next

LEMMA RowsInvariant == Spec => []RowsInv
<1>1. Init => RowsInv
  BY DEF Init, RowsInv, TypeOK, Phase, IntervalsDisjoint, LiveReachable
<1>. QED
  BY <1>1, RowsInvStep, PTL DEF Spec

(***************************************************************************)
(* No interval is empty and the intervals of a symbol never overlap, so at *)
(* most one row of a symbol is live: what schema_v6.go asks Postgres to    *)
(* check, it never has to refuse.                                          *)
(***************************************************************************)
THEOREM RowsNeverOverlap == Spec => []IntervalsDisjoint
<1>1. RowsInv => IntervalsDisjoint
  BY DEF RowsInv
<1>. QED
  BY <1>1, RowsInvariant, PTL

-----------------------------------------------------------------------------
\* The diff changes no answer about an earlier delta.
LEMMA PastAnswersKept ==
  ASSUME RowsInv, ApplyReachableDiff, NEW at \in Nat, at < seq
  PROVE  ReachableAt(at)' = ReachableAt(at)
<1>. USE DEF RowsInv
<1>. DEFINE Covers(r) == r.from <= at /\ (r.to = NULL \/ at < r.to)
<1>1. seq \in Nat /\ \A r \in rows : r.from \in Nat /\ r.to \in Nat \cup {NULL}
  BY DEF TypeOK
<1>2. ASSUME NEW r \in rows', Covers(r)
      PROVE  r.symbol \in ReachableAt(at)
  <2>1. CASE r \in rows
    BY <2>1, <1>2 DEF ReachableAt
  <2>2. ASSUME NEW old \in rows, Leaving(old), r = CloseReachable(old)
        PROVE  r.symbol \in ReachableAt(at)
    BY <2>2, <1>2, ClosedRow DEF ReachableAt, Leaving
  <2>3. ASSUME NEW s \in result \ oldReachable, r = OpenReachable(s)
        PROVE  FALSE
    BY <2>3, <1>1, <1>2, OpenedRow
  <2>. QED
    BY <2>1, <2>2, <2>3, DiffRows
<1>3. ASSUME NEW r \in rows, Covers(r)
      PROVE  r.symbol \in ReachableAt(at)'
  <2>1. CASE ~ Leaving(r)
    <3>1. r \in rows'
      BY <2>1 DEF ApplyReachableDiff, Leaving
    <3>. QED
      BY <3>1, <1>3 DEF ReachableAt
  <2>2. CASE Leaving(r)
    <3>1. CloseReachable(r) \in rows'
      BY <2>2 DEF ApplyReachableDiff, Leaving
    <3>. QED
      BY <3>1, <1>1, <1>3, ClosedRow DEF ReachableAt
  <2>. QED
    BY <2>1, <2>2
<1>. QED
  BY <1>2, <1>3 DEF ReachableAt

\* The answer about the delta just committed is the set of live rows.
LEMMA LatestAnswer == RowsInv => ReachableAt(seq - 1) = LiveReachable
<1>1. RowsInv => seq \in Nat /\ \A r \in rows : r.from \in Nat /\ r.to \in Nat \cup {NULL}
  BY DEF RowsInv, TypeOK
<1>. QED
  BY <1>1 DEF RowsInv, ReachableAt, LiveReachable

LEMMA HistoryStep ==
  ASSUME Inductive, RowsInv, HistoryExact,
         RowsInv', [Next]_vars
  PROVE  HistoryExact'
<1>1. CASE ApplyReachableDiff
  <2>1. seq \in Nat /\ seq' = seq + 1
    BY <1>1 DEF ApplyReachableDiff, RowsInv, TypeOK
  <2>2. oldReachable = LiveReachable
    BY <1>1 DEF ApplyReachableDiff, Inductive, StoreExact
  <2>3. PICK at \in Nat : at = seq
    BY <2>1
  <2>4. ReachableAt(at)' = LeastFixpoint(edges, entryPoints)
    <3>1. LiveReachable' = LeastFixpoint(edges, entryPoints)
      BY <1>1, <2>2, ResultExact, DiffMakesLive DEF ApplyReachableDiff, Inductive
    <3>2. (ReachableAt(seq - 1) = LiveReachable)'
      BY LatestAnswer, PTL
    <3>3. seq' - 1 = at
      BY <2>1, <2>3
    <3>. QED
      BY <3>1, <3>2, <3>3 DEF ReachableAt
  <2>5. ASSUME NEW h \in past'
        PROVE  ReachableAt(h.at)' = LeastFixpoint(h.edges, h.entries)
    <3>1. CASE h \in past
      <4>1. h.at \in Nat /\ h.at < seq
        BY <3>1 DEF Inductive, TypeOK, StoreExact
      <4>. QED
        BY <1>1, <3>1, <4>1, PastAnswersKept DEF HistoryExact
    <3>2. CASE h \notin past
      <4>1. h.at = at /\ h.edges = edges /\ h.entries = entryPoints
        BY <1>1, <3>2, <2>2, <2>3 DEF ApplyReachableDiff
      <4>. QED
        BY <4>1, <2>4
    <3>. QED
      BY <3>1, <3>2
  <2>. QED
    BY <2>5 DEF HistoryExact
<1>2. CASE ~ ApplyReachableDiff
  <2>1. UNCHANGED <<rows, past>>
    BY <1>2
    DEF Next, Commit, Step, BeginIncremental, BeginFull, OpenDelta, OverDelete, Rederive,
        Expand, Visit, Grow, ScanNewEdge, AcceptSurvivors, BeginInsert, BeginExpand,
        Rollback, vars
  <2>. QED
    BY <2>1 DEF HistoryExact, ReachableAt
<1>. QED
  BY <1>1, <1>2

(***************************************************************************)
(* The intervals answer for every committed delta, not only for the last:  *)
(* the rows that cover it are the least fixpoint of its graph.             *)
(***************************************************************************)
THEOREM HistoryIsExact == Steady => (Spec => []HistoryExact)
<1>1. Init => HistoryExact
  BY DEF Init, HistoryExact
<1>2. Inductive /\ RowsInv /\ RowsInv' /\ HistoryExact /\ [Next]_vars => HistoryExact'
  BY HistoryStep
<1>. QED
  BY <1>1, <1>2, InductiveInvariant, RowsInvariant, PTL DEF Spec

-----------------------------------------------------------------------------
\* A committed delta is indexed with entry points a commit may have.
KnownEntries == phase # "idle" => entryPoints \in EntrySets

LEMMA KnownEntriesHold == Spec => []KnownEntries
<1>1. Init => KnownEntries
  BY DEF Init, KnownEntries
<1>2. KnownEntries /\ [Next]_vars => KnownEntries'
  <2>. SUFFICES ASSUME KnownEntries, [Next]_vars PROVE KnownEntries'
    OBVIOUS
  <2>1. CASE Commit
    BY <2>1 DEF Commit, BeginIncremental, BeginFull, OpenDelta, KnownEntries, EntrySets
  <2>2. CASE ApplyReachableDiff \/ Rollback
    BY <2>2 DEF ApplyReachableDiff, Rollback, KnownEntries
  <2>3. CASE Step /\ ~ApplyReachableDiff
    BY <2>3 DEF Step, OverDelete, Rederive, Expand, Visit, Grow, ScanNewEdge, AcceptSurvivors,
       BeginInsert, BeginExpand, scratch, KnownEntries
  <2>4. CASE UNCHANGED vars
    BY <2>4 DEF vars, scratch, KnownEntries
  <2>. QED
    BY <2>1, <2>2, <2>3, <2>4 DEF Next
<1>. QED
  BY <1>1, <1>2, PTL DEF Spec

\* The rows, read at every delta so far.
Answers == [at \in 0 .. seq - 1 |-> ReachableAt(at)]

\* A committed delta adds its answer.
LEMMA DiffAnswers ==
  ASSUME Inductive, RowsInv, RowsInv', ApplyReachableDiff
  PROVE  Answers' = [at \in 0 .. seq |->
                       IF at = seq THEN LeastFixpoint(edges, entryPoints) ELSE Answers[at]]
<1>1. seq \in Nat /\ seq' = seq + 1 /\ oldReachable = LiveReachable
  BY DEF ApplyReachableDiff, Inductive, TypeOK, StoreExact
<1>2. LiveReachable' = LeastFixpoint(edges, entryPoints)
  BY <1>1, ResultExact, DiffMakesLive DEF ApplyReachableDiff, Inductive
<1>3. PICK n \in Nat : n = seq
  BY <1>1
<1>4. ReachableAt(n)' = LeastFixpoint(edges, entryPoints)
  <2>1. (ReachableAt(seq - 1) = LiveReachable)'
    BY LatestAnswer, PTL
  <2>2. seq' - 1 = n
    BY <1>1, <1>3
  <2>. QED
    BY <1>2, <2>1, <2>2 DEF ReachableAt
<1>5. ASSUME NEW at \in 0 .. n, at # n
      PROVE  ReachableAt(at)' = ReachableAt(at)
  <2>1. at \in Nat /\ at < seq
    BY <1>3, <1>5
  <2>. QED
    BY <2>1, PastAnswersKept
<1>6. 0 .. seq' - 1 = 0 .. n /\ \A at \in 0 .. n : at # n => at \in 0 .. seq - 1
  BY <1>1, <1>3
<1>7. \A at \in 0 .. n : at # n => Answers[at] = ReachableAt(at)
  BY <1>6 DEF Answers
<1>8. Answers' = [at \in 0 .. n |-> ReachableAt(at)']
  BY <1>6 DEF Answers
<1>9. \A at \in 0 .. n :
        ReachableAt(at)' = IF at = n THEN LeastFixpoint(edges, entryPoints) ELSE Answers[at]
  BY <1>4, <1>5, <1>7
<1>. QED
  BY <1>3, <1>8, <1>9

(***************************************************************************)
(* The refinement, for every steady repository: a step of the maintenance  *)
(* adds the answer of one search from scratch, or is not seen.             *)
(***************************************************************************)
THEOREM MaintenanceIsASearch == Steady => (Spec => ImplementsHistory)
<1>1. Init => History!Init
  <2>. SUFFICES ASSUME Init PROVE History!Init
    OBVIOUS
  <2>1. seq = 0 /\ 0 .. seq - 1 = {} /\ StoredEdges = {}
    BY DEF Init, StoredEdges
  <2>. QED
    BY <2>1 DEF History!Init
<1>2. Inductive /\ KnownEntries /\ RowsInv /\ RowsInv' /\ [Next]_vars
      => [History!Next]_<<StoredEdges, Answers, seq>>
  <2>. SUFFICES ASSUME Inductive, KnownEntries, RowsInv, RowsInv', [Next]_vars
                PROVE  [History!Next]_<<StoredEdges, Answers, seq>>
    OBVIOUS
  <2>1. CASE ApplyReachableDiff
    <3>1. edges \in SUBSET CallEdge /\ entryPoints \in EntrySets
      BY <2>1 DEF ApplyReachableDiff, Inductive, TypeOK, KnownEntries
    <3>2. Answers' = [at \in 0 .. seq |-> IF at = seq THEN LeastFixpoint(edges, entryPoints) ELSE Answers[at]]
      BY <2>1, DiffAnswers
    <3>3. seq' = seq + 1 /\ StoredEdges' = edges
      BY <2>1 DEF ApplyReachableDiff, StoredEdges
    <3>4. History!LeastFixpoint(edges, entryPoints) = LeastFixpoint(edges, entryPoints)
      BY DEF History!LeastFixpoint, LeastFixpoint, History!Closed, Closed
    <3>5. History!Search(edges, entryPoints)
      BY <3>2, <3>3, <3>4 DEF History!Search, Answers
    <3>. HIDE DEF History!Search
    <3>6. \E newGraph \in SUBSET CallEdge, entries \in EntrySets : History!Search(newGraph, entries)
      BY <3>1, <3>5
    <3>. QED
      BY <3>6 DEF History!Next
  <2>2. CASE ~ApplyReachableDiff
    <3>1. UNCHANGED <<rows, seq>>
      BY <2>2
      DEF Next, Commit, Step, BeginIncremental, BeginFull, OpenDelta, OverDelete, Rederive,
          Expand, Visit, Grow, ScanNewEdge, AcceptSurvivors, BeginInsert, BeginExpand,
          Rollback, vars, scratch
    <3>2. Answers' = Answers
      BY <3>1 DEF Answers, ReachableAt
    <3>3. StoredEdges' = StoredEdges
      BY <2>2
      DEF Next, Commit, Step, BeginIncremental, BeginFull, OpenDelta, OverDelete, Rederive,
          Expand, Visit, Grow, ScanNewEdge, AcceptSurvivors, BeginInsert, BeginExpand,
          Rollback, vars, scratch, StoredEdges
    <3>. QED
      BY <3>1, <3>2, <3>3
  <2>. QED
    BY <2>1, <2>2
<1>. QED
  BY <1>1, <1>2, InductiveInvariant, RowsInvariant, KnownEntriesHold, PTL
  DEF Spec, ImplementsHistory, History!Spec, Answers

(***************************************************************************)
(* No step of a delta turns in place, for any graph: with the fairness of  *)
(* its process, which the runs assume, this is why the loops end.          *)
(***************************************************************************)
THEOREM DeltaAdvances == Spec => DeltaProgress
<1>1. ASSUME Step PROVE Advances
  <2>1. CASE \E n \in Symbol : OverDelete(n)
    <3>1. PICK n \in Symbol : OverDelete(n)
      BY <2>1
    <3>. DEFINE hit == (Successors(oldEdges, n) \cap oldReachable) \ (entryPoints \cup dead)
    <3>2. /\ n \in work /\ hit \cap dead = {}
          /\ dead' = dead \cup hit /\ work' = (work \ {n}) \cup hit
          /\ phase' = phase /\ result' = result /\ scan' = scan
      BY <3>1 DEF OverDelete
    <3>. HIDE DEF hit
    <3>. QED
      BY <3>2 DEF Advances, Shrinks
  <2>2. CASE \E d \in Symbol : Rederive(d)
    BY <2>2 DEF Rederive, Advances, Shrinks
  <2>3. CASE \E n \in Symbol : Expand(n) \/ Visit(n)
    <3>1. PICK n \in Symbol : Grow(n)
      BY <2>3 DEF Expand, Visit
    <3>. DEFINE found == Successors(edges, n) \ result
    <3>2. /\ n \in work /\ found \cap result = {}
          /\ result' = result \cup found /\ work' = (work \ {n}) \cup found
          /\ phase' = phase /\ dead' = dead /\ scan' = scan
      BY <3>1 DEF Grow
    <3>. HIDE DEF found
    <3>. QED
      BY <3>2 DEF Advances, Shrinks
  <2>4. CASE \E e \in CallEdge : ScanNewEdge(e)
    <3>1. PICK e \in CallEdge : ScanNewEdge(e)
      BY <2>4
    <3>. DEFINE found == {m \in {e[2]} : e[1] \in result /\ m \notin result}
    <3>2. /\ e \in scan /\ found \cap result = {}
          /\ result' = result \cup found /\ work' = work \cup found /\ scan' = scan \ {e}
          /\ phase' = phase /\ dead' = dead
      BY <3>1 DEF ScanNewEdge
    <3>. HIDE DEF found
    <3>. QED
      BY <3>2 DEF Advances, Shrinks
  <2>5. CASE AcceptSurvivors \/ BeginInsert \/ BeginExpand \/ ApplyReachableDiff
    BY <2>5 DEF AcceptSurvivors, BeginInsert, BeginExpand, ApplyReachableDiff, Advances, PhasesLeft
  <2>. QED
    BY <1>1, <2>1, <2>2, <2>3, <2>4, <2>5 DEF Step
<1>. QED
  BY <1>1, PTL DEF DeltaProgress
=============================================================================
