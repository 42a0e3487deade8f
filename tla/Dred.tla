-------------------------------- MODULE Dred --------------------------------
(***************************************************************************)
(* Maintenance of atlas.reachable_symbols, one delta (one commit of the    *)
(* indexed repository) after the other.  A delta is a transaction: it      *)
(* replaces the live CALL edges, computes the new reachable set, either    *)
(* incrementally (reach.IncrementalUpdate: over-delete, rederive, insert)  *)
(* or by a breadth-first search (reach.Reachable), and opens and closes    *)
(* the rows of the symbols whose status changed.  A crash or an error      *)
(* before the commit rolls the transaction back.                           *)
(*                                                                         *)
(* The loops of the code run over Go maps and slices.  A queue is a set    *)
(* here, so that every order is allowed, the code's among them.            *)
(***************************************************************************)
EXTENDS Reach

CONSTANTS
  CallEdge,      \* the edges a commit may have
  Shapes,        \* the sets of functions a commit may define
  Mains,         \* the functions that are the main of a package main
  Exported,      \* the functions with an exported name
  MaxSeq,        \* bound: number of deltas
  MaxDelta,      \* bound: edges a delta after the first adds or removes
  Growing,       \* do entry points only come, and only as new functions?
  NULL           \* valid_to of a live row

ASSUME CallEdgeType == CallEdge \subseteq Edge
ASSUME ShapesType == Shapes \subseteq SUBSET Symbol
ASSUME NullType == NULL \notin Nat
ASSUME GrowingType == Growing \in BOOLEAN

VARIABLES
  edges,         \* the live CALL edges, as the open transaction sees them
  rows,          \* atlas.reachable_symbols
  seq,           \* the seq of the next delta
  phase,         \* where the maintenance of the open delta is
  entryPoints,   \* parameter of the open delta, computed from its functions
  oldEdges,      \* SnapshotReachabilityState: edges before the delta ...
  oldReachable,  \* ... and reachable symbols before the delta
  dead,          \* symbols marked by phase 1
  result,        \* symbols found reachable
  work,          \* deadQueue, insertQueue or the queue of the search
  scan,          \* new edges phase 3 has still to look at
  past           \* history: what each committed delta indexed

scratch == <<entryPoints, oldEdges, oldReachable, dead, result, work, scan>>
vars == <<edges, rows, seq, phase, scratch, past>>

Phase == {"idle", "overdelete", "rederive", "insert", "expand", "bfs"}

LiveReachable == {r.symbol : r \in {x \in rows : x.to = NULL}}

\* The symbols whose interval covers the delta at.
ReachableAt(at) ==
  {r.symbol : r \in {x \in rows : x.from <= at /\ (x.to = NULL \/ at < x.to)}}

TypeOK ==
  /\ edges \subseteq CallEdge
  /\ rows \subseteq [symbol : Symbol, support : Nat, from : Nat, to : Nat \cup {NULL}]
  /\ seq \in Nat
  /\ phase \in Phase
  /\ entryPoints \subseteq Symbol
  /\ oldEdges \subseteq CallEdge
  /\ oldReachable \subseteq Symbol
  /\ dead \subseteq Symbol
  /\ result \subseteq Symbol
  /\ work \subseteq Symbol
  /\ scan \subseteq CallEdge
  /\ past \subseteq [at : Nat, edges : SUBSET CallEdge, entries : SUBSET Symbol]

Init ==
  /\ edges = {} /\ rows = {} /\ seq = 0 /\ phase = "idle" /\ past = {}
  /\ entryPoints = {} /\ oldEdges = {} /\ oldReachable = {}
  /\ dead = {} /\ result = {} /\ work = {} /\ scan = {}

\* The call returns: its locals are gone.
DropLocals ==
  /\ entryPoints' = {} /\ oldEdges' = {} /\ oldReachable' = {}
  /\ dead' = {} /\ result' = {} /\ work' = {} /\ scan' = {}

-----------------------------------------------------------------------------
(***************************************************************************)
(* DefaultEntryPoints: a commit that defines a main is a binary, and the   *)
(* walk over its files returns at the first main it meets; any other       *)
(* commit is a library, and what it exports are the entry points.  The     *)
(* order of the files is not modelled: any main may come first.            *)
(***************************************************************************)
DefaultEntryPoints(functions) ==
  IF functions \cap Mains # {}
    THEN {{m} : m \in functions \cap Mains}
    ELSE {functions \cap Exported}

\* ApplyFacts replaces the live edges; the state before is kept, as the
\* snapshot of the incremental path and as what a rollback restores.  Only a
\* function the commit defines has calls.
OpenDelta(functions, newEdges, entries) ==
  /\ phase = "idle"
  /\ seq < MaxSeq
  /\ seq = 0 \/ Cardinality((edges \ newEdges) \cup (newEdges \ edges)) <= MaxDelta
  /\ \A e \in newEdges : e[1] \in functions
  /\ edges' = newEdges
  /\ entryPoints' = entries
  /\ oldEdges' = edges
  /\ oldReachable' = LiveReachable
  /\ UNCHANGED <<rows, seq, past>>

\* Phase 1 starts: the reachable targets of removed edges, never an entry.
BeginIncremental(functions, newEdges, entries) ==
  LET removed == edges \ newEdges
      hit == {m \in LiveReachable \ entries : \E e \in removed : e[2] = m}
  IN /\ OpenDelta(functions, newEdges, entries)
     /\ phase' = "overdelete"
     /\ dead' = hit
     /\ work' = hit
     /\ result' = {}
     /\ scan' = {}

\* MaintainReachability: the search starts from the entry points.
BeginFull(functions, newEdges, entries) ==
  /\ OpenDelta(functions, newEdges, entries)
  /\ phase' = "bfs"
  /\ result' = entries
  /\ work' = entries
  /\ dead' = {}
  /\ scan' = {}

\* Mutant: phase 1 stops at the targets of the removed edges.
OverDeleteTargetsOnly(n) ==
  /\ phase = "overdelete"
  /\ n \in work
  /\ work' = work \ {n}
  /\ UNCHANGED <<edges, rows, seq, phase, entryPoints, oldEdges, oldReachable,
                 dead, result, scan, past>>

\* Phase 1, one turn of the queue: mark the old callees of n.
OverDelete(n) ==
  LET hit == (Successors(oldEdges, n) \cap oldReachable) \ (entryPoints \cup dead)
  IN /\ phase = "overdelete"
     /\ n \in work
     /\ dead' = dead \cup hit
     /\ work' = (work \ {n}) \cup hit
     /\ UNCHANGED <<edges, rows, seq, phase, entryPoints, oldEdges, oldReachable,
                    result, scan, past>>

\* What phase 1 did not mark is accepted without being derived again.
AcceptSurvivors ==
  /\ phase = "overdelete"
  /\ work = {}
  /\ result' = entryPoints \cup (oldReachable \ dead)
  /\ phase' = "rederive"
  /\ UNCHANGED <<edges, rows, seq, entryPoints, oldEdges, oldReachable, dead,
                 work, scan, past>>

\* Mutant: the survivors are searched along the edges of the old graph.
SupportedBefore(d) == \E m \in result : <<m, d>> \in oldEdges

Supported(d) == \E m \in result : <<m, d>> \in edges

\* Phase 2: a marked symbol with a live edge from a confirmed one recovers.
Rederive(d) ==
  /\ phase = "rederive"
  /\ d \in dead \ result
  /\ Supported(d)
  /\ result' = result \cup {d}
  /\ UNCHANGED <<edges, rows, seq, phase, entryPoints, oldEdges, oldReachable,
                 dead, work, scan, past>>

\* Mutant: one pass over dead is taken to be enough.
BeginInsertEarly ==
  /\ phase = "rederive"
  /\ scan' = edges \ oldEdges
  /\ phase' = "insert"
  /\ UNCHANGED <<edges, rows, seq, entryPoints, oldEdges, oldReachable, dead,
                 result, work, past>>

\* A pass over dead changed nothing; phase 3 looks at the new edges.
BeginInsert ==
  /\ phase = "rederive"
  /\ \A d \in dead \ result : ~ Supported(d)
  /\ scan' = edges \ oldEdges
  /\ phase' = "insert"
  /\ UNCHANGED <<edges, rows, seq, entryPoints, oldEdges, oldReachable, dead,
                 result, work, past>>

\* Phase 3, one new edge.
ScanNewEdge(e) ==
  LET found == {m \in {e[2]} : e[1] \in result /\ m \notin result}
  IN /\ phase = "insert"
     /\ e \in scan
     /\ scan' = scan \ {e}
     /\ result' = result \cup found
     /\ work' = work \cup found
     /\ UNCHANGED <<edges, rows, seq, phase, entryPoints, oldEdges, oldReachable,
                    dead, past>>

BeginExpand ==
  /\ phase = "insert"
  /\ scan = {}
  /\ phase' = "expand"
  /\ UNCHANGED <<edges, rows, seq, scratch, past>>

\* Mutant: a symbol is queued again whenever an edge leads to it.
GrowRevisiting(n) ==
  LET found == Successors(edges, n)
  IN /\ n \in work
     /\ result' = result \cup found
     /\ work' = (work \ {n}) \cup found
     /\ UNCHANGED <<edges, rows, seq, phase, entryPoints, oldEdges, oldReachable,
                    dead, scan, past>>

\* One turn of a queue over the new edges.
Grow(n) ==
  LET found == Successors(edges, n) \ result
  IN /\ n \in work
     /\ result' = result \cup found
     /\ work' = (work \ {n}) \cup found
     /\ UNCHANGED <<edges, rows, seq, phase, entryPoints, oldEdges, oldReachable,
                    dead, scan, past>>

\* Phase 3, the queue of symbols reached by new edges.
Expand(n) == phase = "expand" /\ Grow(n)

\* reach.Reachable, the loop of the search.
Visit(n) == phase = "bfs" /\ Grow(n)

\* Mutant: valid_to is read as the last delta the row covers.
CloseReachableLate(r) == [r EXCEPT !.to = seq + 1]

CloseReachable(r) == [r EXCEPT !.to = seq]

\* Mutants: a row opens at the watermark, or at the first seq again.
OpenReachableEarly(s) ==
  [symbol |-> s, support |-> SupportCount(edges, result, entryPoints, s),
   from |-> seq - 1, to |-> NULL]

OpenReachableFromStart(s) ==
  [symbol |-> s, support |-> SupportCount(edges, result, entryPoints, s),
   from |-> 0, to |-> NULL]

OpenReachable(s) ==
  [symbol |-> s, support |-> SupportCount(edges, result, entryPoints, s),
   from |-> seq, to |-> NULL]

\* Mutant: a symbol that comes back gets its old row back.
ReopenReachableDiff ==
  LET leaving == {r \in rows : r.to = NULL /\ r.symbol \in oldReachable \ result}
      back == {r \in rows : r.symbol \in result \ oldReachable}
  IN /\ phase \in {"expand", "bfs"}
     /\ work = {}
     /\ rows' = (rows \ (leaving \cup back))
                  \cup {CloseReachable(r) : r \in leaving}
                  \cup {[r EXCEPT !.to = NULL] : r \in back}
                  \cup {OpenReachable(s) : s \in result \ (oldReachable \cup {r.symbol : r \in back})}
     /\ seq' = seq + 1
     /\ past' = past \cup {[at |-> seq, edges |-> edges, entries |-> entryPoints]}
     /\ phase' = "idle"
     /\ DropLocals
     /\ UNCHANGED edges

\* applyReachableDiff, then the commit of ApplyDelta.
ApplyReachableDiff ==
  LET leaving == {r \in rows : r.to = NULL /\ r.symbol \in oldReachable \ result}
  IN /\ phase \in {"expand", "bfs"}
     /\ work = {}
     /\ rows' = (rows \ leaving)
                  \cup {CloseReachable(r) : r \in leaving}
                  \cup {OpenReachable(s) : s \in result \ oldReachable}
     /\ seq' = seq + 1
     /\ past' = past \cup {[at |-> seq, edges |-> edges, entries |-> entryPoints]}
     /\ phase' = "idle"
     /\ DropLocals
     /\ UNCHANGED edges

\* An error or a crash before the commit: Postgres restores what was there.
Rollback ==
  /\ phase # "idle"
  /\ edges' = oldEdges
  /\ phase' = "idle"
  /\ DropLocals
  /\ UNCHANGED <<rows, seq, past>>

-----------------------------------------------------------------------------
\* The entry points of the last committed delta.
LastEntries == UNION {h.entries : h \in {x \in past : x.at = seq - 1}}

\* A library whose exports grow: none goes, and one that comes is a function
\* that was called before or made no calls, as a new function did not.
EntryPointsGrow(entries) ==
  /\ LastEntries \subseteq entries
  /\ \A e \in edges : e[1] \in entries => e[1] \in LiveReachable

Commit ==
  \E functions \in Shapes, newEdges \in SUBSET CallEdge :
    \E entries \in DefaultEntryPoints(functions) :
      \/ /\ Growing => EntryPointsGrow(entries)
         /\ BeginIncremental(functions, newEdges, entries)
      \/ BeginFull(functions, newEdges, entries)

Step ==
  \/ \E n \in Symbol : OverDelete(n) \/ Rederive(n) \/ Expand(n) \/ Visit(n)
  \/ \E e \in CallEdge : ScanNewEdge(e)
  \/ AcceptSurvivors \/ BeginInsert \/ BeginExpand \/ ApplyReachableDiff

Next == Commit \/ Step \/ Rollback

\* The process that opened a delta runs it; commits and crashes are not owed.
Spec == Init /\ [][Next]_vars
FairSpec == Spec /\ WF_vars(Step)
-----------------------------------------------------------------------------
Incremental == phase \in {"rederive", "insert", "expand"}

(***************************************************************************)
(* architecture.md, I6: the live rows are exactly what a search from the   *)
(* entry points over the live CALL edges reaches, after every delta,       *)
(* whichever of the two paths computed it and whatever came before.        *)
(***************************************************************************)
ReachableExact ==
  \A h \in past :
    h.at = seq - 1 => LiveReachable = LeastFixpoint(h.edges, h.entries)

(***************************************************************************)
(* The intervals answer the question for every earlier delta as well: the  *)
(* rows that cover a delta are what was reachable then.                    *)
(***************************************************************************)
HistoryExact ==
  \A h \in past : ReachableAt(h.at) = LeastFixpoint(h.edges, h.entries)

(***************************************************************************)
(* The claim incremental.go calls load-bearing: what phase 1 leaves        *)
(* unmarked needs no new derivation.  No symbol is ever in the result of   *)
(* an incremental update that the new graph does not reach.                *)
(***************************************************************************)
NeverOverApproximates ==
  Incremental => result \subseteq LeastFixpoint(edges, entryPoints)

(***************************************************************************)
(* Why phase 3 may start from new edges only: after phase 2 no edge that   *)
(* was already there before the delta leads out of the result, except from *)
(* a symbol that still waits in the queue.                                 *)
(***************************************************************************)
OldEdgesSettled ==
  phase \in {"insert", "expand"} =>
    \A e \in edges \cap oldEdges :
      e[1] \in result => e[2] \in result \/ e[1] \in work

(***************************************************************************)
(* The constraints of schema_v6.go hold without the database's help: an    *)
(* interval is not empty, and no two rows of a symbol overlap.             *)
(***************************************************************************)
IntervalsDisjoint ==
  \A r, q \in rows :
    /\ r.to # NULL => r.from < r.to
    /\ r # q /\ r.symbol = q.symbol =>
         \/ r.to # NULL /\ r.to <= q.from
         \/ q.to # NULL /\ q.to <= r.from

(***************************************************************************)
(* The loops of a delta end, on cyclic graphs too: a delta that was opened *)
(* is committed or rolled back.                                            *)
(***************************************************************************)
DeltaEnds == phase # "idle" ~> phase = "idle"

PhasesLeft ==
  [overdelete |-> 4, rederive |-> 3, insert |-> 2, expand |-> 1, bfs |-> 1, idle |-> 0]

Shrinks(S, T) == T \subseteq S /\ T # S

Advances ==
  \/ PhasesLeft[phase'] < PhasesLeft[phase]
  \/ /\ phase' = phase
     /\ dead \subseteq dead' /\ result \subseteq result'
     /\ \/ Shrinks(dead', dead) \/ Shrinks(result', result)
        \/ dead' = dead /\ result' = result /\ Shrinks(work, work') /\ scan' = scan
        \/ dead' = dead /\ result' = result /\ work' = work /\ Shrinks(scan, scan')

(***************************************************************************)
(* And why, for sets of symbols of any size: no step of the loops of       *)
(* incremental.go and reach.go turns in place.  It ends the phase, marks   *)
(* or finds a symbol that was not, or takes from a queue and adds nothing. *)
(***************************************************************************)
DeltaProgress == [][Step => Advances]_vars

(***************************************************************************)
(* architecture.md, I6, with the intervals: whatever a delta does in       *)
(* between, incrementally or not, to a reader it adds one answer, that of  *)
(* a search from scratch, and takes none back; a crash adds nothing.       *)
(***************************************************************************)
StoredEdges == IF phase = "idle" THEN edges ELSE oldEdges
EntrySets == UNION {DefaultEntryPoints(functions) : functions \in Shapes}
History == INSTANCE ReachHistory
             WITH Graphs <- SUBSET CallEdge,
                  graph <- StoredEdges,
                  answers <- [at \in 0 .. seq - 1 |-> ReachableAt(at)]
ImplementsHistory == History!Spec

\* The repository stays what it is: one binary, or a library whose exports
\* are the same in every commit.
EntryPointsFixed ==
  \E P \in SUBSET Symbol : \A functions \in Shapes : DefaultEntryPoints(functions) = {P}

Steady == Growing \/ EntryPointsFixed

-----------------------------------------------------------------------------
(***************************************************************************)
(* The inductive invariant of a steady repository.  Between deltas the     *)
(* live rows are exact for the stored graph and the entry points it was    *)
(* indexed with; inside a delta each phase has a promise to keep.          *)
(***************************************************************************)
StoreExact ==
  /\ LiveReachable = LeastFixpoint(StoredEdges, LastEntries)
  /\ StoredEdges = {} \/ \E h \in past : h.at = seq - 1
  /\ \A h \in past :
       h.at < seq /\ (h.at = seq - 1 => h.edges = StoredEdges /\ h.entries = LastEntries)
  /\ phase # "idle" => oldReachable = LiveReachable

\* EntryPointsGrow, inside the delta.
EntriesGrown ==
  phase \in {"overdelete", "rederive"} =>
    /\ LastEntries \subseteq entryPoints
    /\ \A e \in oldEdges : e[1] \in entryPoints => e[1] \in oldReachable

\* Phase 1 has marked what a removed edge reached, and goes on from work.
MarksDownstream ==
  phase = "overdelete" =>
    /\ work \subseteq dead
    /\ \A e \in oldEdges :
         /\ e[2] \in oldReachable \ entryPoints
         /\ e \notin edges \/ e[1] \in dead \ work
         => e[2] \in dead

\* What is confirmed holds the entries and the survivors, and nothing that
\* the new graph does not reach.
Confirmed ==
  /\ dead \subseteq oldReachable \ entryPoints
  /\ phase \in {"rederive", "insert", "expand", "bfs"} =>
       /\ entryPoints \subseteq result
       /\ result \subseteq LeastFixpoint(edges, entryPoints)
  /\ phase = "rederive" =>
       /\ work = {}
       /\ oldReachable \ dead \subseteq result
       /\ result \subseteq oldReachable \cup entryPoints

\* An edge that leaves the result is one still to be looked at.
OnlyPendingEdgesLeave ==
  /\ phase \in {"insert", "expand", "bfs"} =>
       /\ work \subseteq result
       /\ \A e \in edges :
            e[1] \in result => e[2] \in result \/ e[1] \in work \/ e \in scan
  /\ phase \in {"expand", "bfs"} => scan = {}
  /\ scan \subseteq edges \ oldEdges

Inductive ==
  TypeOK /\ StoreExact /\ EntriesGrown /\ MarksDownstream /\ Confirmed /\ OnlyPendingEdgesLeave
=============================================================================
