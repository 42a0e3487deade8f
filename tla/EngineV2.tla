------------------------------ MODULE EngineV2 ------------------------------
(***************************************************************************)
(* The older engine: one graph per commit, in tables keyed by the commit,  *)
(* and the harness that brings it from commit to commit.                   *)
(*                                                                         *)
(* Update copies the tables of the base commit and then treats the changed *)
(* files one after the other, each in a series of transactions: a file     *)
(* that fails is reported and left as it is.  BuildV2 is the full build    *)
(* the harness compares with.  The tables of older commits are not read    *)
(* again, so the model keeps those of the newest one.                      *)
(***************************************************************************)
EXTENDS Program

CONSTANTS
  Branches,      \* commits a history may hold; each of them builds
  Rank,          \* order of the paths, in git's output and in the symbol table
  MaxCommits,    \* bound on the commits of a run
  MaxFailures    \* bound on errors during a run

OneCallAt(text) == \A c, d \in Source[text].calls : c.line = d.line => c = d

\* The line of a call stands for its position: no two calls share one.
ASSUME V2Assumption ==
  /\ Branches \subseteq {p \in Commit : CheckPoison(p)}
  /\ Rank \in [File -> Nat]
  /\ \A f, g \in File : Rank[f] = Rank[g] => f = g
  /\ \A text \in Text : OneCallAt(text)
  /\ MaxCommits \in Nat /\ MaxFailures \in Nat

VARIABLES
  graph,      \* the tables of the newest commit
  commit,     \* that commit
  at,         \* "idle", or the next transaction of the update
  todo,       \* changed files not treated yet
  file,       \* the file being treated
  affected,   \* interfaces whose implementers it changes
  recheck,    \* dispatch sites to expand again
  verdict,    \* what the harness says of the newest commit
  commits,    \* how many commits the run has seen
  failures,   \* how many errors it has met
  broken      \* history: files whose last change was not brought in

vars == <<graph, commit, at, todo, file, affected, recheck, verdict, commits, failures, broken>>

-----------------------------------------------------------------------------
(* The rows a file contributes. *)

Edge ==
  [caller : Function, target : (Type \cup Interface) \X Method,
   provenance : {"direct_call", "interface_resolved"}, file : File]

Site == [interface : Interface, method : Method, caller : Function, file : File]

TypeIface == [type : Type, interface : Interface, file : File]

SymbolRows == [file : File, text : Text]

EdgeOf(fact) ==
  [caller |-> fact.caller, target |-> fact.target,
   provenance |-> fact.provenance, file |-> fact.file]

\* The references of a file, expanded, each with its position.
FileFacts(p, f) ==
  {d.fact : d \in UNION {DirectFacts(p, f, call) \cup DispatchFacts(p, f, call) : call \in Calls(p, f)}}

\* Its dispatch sites, each with its position.
FileSites(p, f) ==
  UNION {{[interface |-> i, method |-> call.method, caller |-> call.caller,
           file |-> f, line |-> call.line] : i \in StaticType(p, call.on) \cap Interface} :
         call \in Calls(p, f)}

SiteOf(d, f) == [interface |-> d.interface, method |-> d.method, caller |-> d.caller, file |-> f]

FileTypes(p, f) == IF p[f] = NULL THEN {} ELSE Source[p[f]].types

\* ImplementedInterfaces of the types a file defines.
FileIfaces(p, f) ==
  UNION {{[type |-> t, interface |-> i, file |-> f] : t \in FileTypes(p, f) \cap Implementers(p, i)} :
         i \in Interface}

FileSymbols(p, f) == IF p[f] = NULL THEN {} ELSE {[file |-> f, text |-> p[f]]}

-----------------------------------------------------------------------------
(* Inserting into the tables, with their primary keys. *)

SameEdge(a, b) == a.caller = b.caller /\ a.target = b.target

SameSite(a, b) == a.interface = b.interface /\ a.caller = b.caller

SameTypeIface(a, b) == a.type = b.type /\ a.interface = b.interface

Before(rank, a, b) ==
  IF a.file = b.file THEN a.line < b.line ELSE rank[a.file] < rank[b.file]

\* ON CONFLICT DO NOTHING.  The key is the caller and the target: of the edges
\* that share it the first one stays, with its provenance and its file.
InsertEdges(edges, batch, rank) ==
  edges \cup
  {EdgeOf(d) : d \in {new \in batch :
     /\ \A e \in edges : ~SameEdge(e, new)
     /\ \A b \in batch : SameEdge(b, new) /\ EdgeOf(b) # EdgeOf(new) => ~Before(rank, b, new)}}

\* ON CONFLICT DO UPDATE SET method_name.  The key is the interface and the
\* caller: the last method stays, with the file of the first row.
InsertDispatchSites(sites, batch) ==
  LET First(new) ==
        IF \E s \in sites : SameSite(s, new)
          THEN {s \in sites : SameSite(s, new)}
          ELSE {b \in batch : /\ SameSite(b, new)
                              /\ \A c \in batch : SameSite(c, new) /\ c.file # b.file => ~Before(Rank, c, b)}
      last == {new \in batch :
                 \A b \in batch : SameSite(b, new) /\ b.method # new.method => ~Before(Rank, new, b)}
  IN {s \in sites : \A b \in batch : ~SameSite(s, b)} \cup
     UNION {{SiteOf(new, row.file) : row \in First(new)} : new \in last}

\* ON CONFLICT DO NOTHING.  The key is the type and the interface.
InsertTypeIfaces(ifaces, batch) ==
  ifaces \cup {new \in batch : \A t \in ifaces : ~SameTypeIface(t, new)}

\* Deletes the graph and inserts what the whole symbol table says.  The files
\* come as go/packages lists them; here they come by name, which decides only
\* which of two rows with one key is kept.
BuildV2(p) ==
  [edges |-> InsertEdges({}, UNION {FileFacts(p, f) : f \in File}, Rank),
   sites |-> InsertDispatchSites({}, UNION {FileSites(p, f) : f \in File}),
   ifaces |-> InsertTypeIfaces({}, UNION {FileIfaces(p, f) : f \in File}),
   symbols |-> UNION {FileSymbols(p, f) : f \in File}]

NoGraph == [edges |-> {}, sites |-> {}, ifaces |-> {}, symbols |-> {}]

\* git diff --name-only: a renamed file is listed under its new path alone.
RenamedAway(p, q, f) ==
  p[f] # NULL /\ q[f] = NULL /\ \E g \in File : p[g] = NULL /\ q[g] = p[f]

ChangedFiles(p, q) == {f \in File : p[f] # q[f]}

ChangedGoFiles(p, q) == {f \in ChangedFiles(p, q) : ~RenamedAway(p, q, f)}

-----------------------------------------------------------------------------
(* The update of one file, a transaction at a time. *)

FirstOf(files) == {f \in files : \A g \in files : Rank[f] <= Rank[g]}

\* Mutant: the dispatch sites are forgotten.
RetractFileButSites(g, f) ==
  [g EXCEPT !.edges = {e \in @ : e.file # f},
            !.ifaces = {t \in @ : t.file # f},
            !.symbols = {r \in @ : r.file # f}]

\* All of its rows, in one transaction.
RetractFile(g, f) ==
  [edges |-> {e \in g.edges : e.file # f},
   sites |-> {s \in g.sites : s.file # f},
   ifaces |-> {t \in g.ifaces : t.file # f},
   symbols |-> {r \in g.symbols : r.file # f}]

\* Interfaces that a type of the file gained or lost; a type that is new or
\* gone gains or loses all of its own.
DiffIfaceSets(old, new) ==
  {i \in Interface : \E t \in Type :
     (\E a \in old : a.type = t /\ a.interface = i) # (\E b \in new : b.type = t /\ b.interface = i)}

CallersOf(sites, interfaces) == {s.caller : s \in {d \in sites : d.interface \in interfaces}}

\* Mutant: only the sites whose implementers changed.
RecheckAffected(sites, interfaces) == {s \in sites : s.interface \in interfaces}

\* LoadAllDispatchSitesForCallers, of those callers.
Recheck(sites, interfaces) == {s \in sites : s.caller \in CallersOf(sites, interfaces)}

\* Mutant: the callers keep the edges they had.
KeepInterfaceEdges(edges, callers) == edges

RetractInterfaceEdges(edges, callers) ==
  {e \in edges : e.provenance = "direct_call" \/ e.caller \notin callers}

\* The edges of dispatch sites read back from the table.
Recompute(p, sites) ==
  UNION {{[caller |-> s.caller, target |-> <<t, s.method>>, provenance |-> "interface_resolved",
           file |-> s.file, line |-> 0] : t \in DispatchTargets(p, s.interface, s.method)} : s \in sites}

\* The sites come from a SELECT without an order.
Orders == {r \in [File -> {Rank[f] : f \in File}] : \A f, g \in File : r[f] = r[g] => f = g}

Init ==
  /\ commit \in Branches
  /\ graph = BuildV2(commit)
  /\ at = "idle" /\ todo = {} /\ file = NULL /\ affected = {} /\ recheck = {}
  /\ verdict = "none" /\ commits = 1 /\ failures = 0 /\ broken = {}

\* The next commit of the list; whatever comes of it, it is the next base.
Take(q) ==
  /\ at = "idle" /\ commits < MaxCommits
  /\ commit' = q /\ commits' = commits + 1
  /\ UNCHANGED <<file, affected, recheck>>

\* CopyGraphToCommit, then ParseRepo at the new commit.
BeginUpdate(q) ==
  /\ Take(q)
  /\ ChangedGoFiles(commit, q) # {}
  /\ todo' = ChangedGoFiles(commit, q)
  /\ at' = "file" /\ verdict' = "none"
  /\ UNCHANGED <<graph, failures, broken>>

\* Nothing to do: the graph is copied and counts as a pass.
CopyForward(q) ==
  /\ Take(q)
  /\ ChangedGoFiles(commit, q) = {}
  /\ verdict' = "pass"
  /\ UNCHANGED <<graph, at, todo, failures, broken>>

Fails == failures < MaxFailures /\ failures' = failures + 1

\* The diff, the checkout or the copy fails: the new commit has no graph.
NoCopy(q) ==
  /\ Take(q) /\ Fails
  /\ graph' = NoGraph
  /\ verdict' = "error" /\ broken' = File
  /\ UNCHANGED <<at, todo>>

\* The copy is there and the parser fails.
NoParse(q) ==
  /\ Take(q) /\ Fails
  /\ ChangedGoFiles(commit, q) # {}
  /\ verdict' = "error" /\ broken' = broken \cup ChangedFiles(commit, q)
  /\ UNCHANGED <<graph, at, todo>>

Goto(from, to) ==
  /\ at = from /\ at' = to
  /\ UNCHANGED <<commit, verdict, commits, failures>>

\* Step 1, with the comparison of step 2: the old implemented interfaces are
\* read from the table before the file is retracted.
Retract ==
  /\ Goto("file", "callsites")
  /\ \E f \in FirstOf(todo) :
       /\ file' = f
       /\ affected' = DiffIfaceSets({t \in graph.ifaces : t.file = f}, FileIfaces(commit, f))
       /\ graph' = RetractFile(graph, f)
  /\ UNCHANGED <<todo, recheck, broken>>

\* Step 2: the callers through an affected interface lose all their interface
\* edges, and all their sites are read.
RetractCallSites ==
  /\ Goto("callsites", "symbols")
  /\ graph' = [graph EXCEPT !.edges = RetractInterfaceEdges(@, CallersOf(graph.sites, affected))]
  /\ recheck' = Recheck(graph.sites, affected)
  /\ UNCHANGED <<todo, file, affected, broken>>

\* Step 3, in four transactions.
InsertFileSymbols ==
  /\ Goto("symbols", "edges")
  /\ graph' = [graph EXCEPT !.symbols = @ \cup FileSymbols(commit, file)]
  /\ UNCHANGED <<todo, file, affected, recheck, broken>>

InsertFileEdges ==
  /\ Goto("edges", "sites")
  /\ graph' = [graph EXCEPT !.edges = InsertEdges(@, FileFacts(commit, file), Rank)]
  /\ UNCHANGED <<todo, file, affected, recheck, broken>>

InsertFileSites ==
  /\ Goto("sites", "ifaces")
  /\ graph' = [graph EXCEPT !.sites = InsertDispatchSites(@, FileSites(commit, file))]
  /\ UNCHANGED <<todo, file, affected, recheck, broken>>

InsertFileIfaces ==
  /\ Goto("ifaces", "recompute")
  /\ graph' = [graph EXCEPT !.ifaces = InsertTypeIfaces(@, FileIfaces(commit, file))]
  /\ UNCHANGED <<todo, file, affected, recheck, broken>>

\* Mutant: the file is not forgotten.
FileStays == file' = file /\ affected' = {} /\ recheck' = {}

FileDone == file' = NULL /\ affected' = {} /\ recheck' = {}

\* Mutant: the file is treated again.
RecomputeAndRepeat ==
  /\ Goto("recompute", "file")
  /\ \E rank \in Orders :
       graph' = [graph EXCEPT !.edges = InsertEdges(@, Recompute(commit, recheck), rank)]
  /\ FileDone
  /\ UNCHANGED <<todo, broken>>

\* Step 4: the sites of step 2 are expanded with the new symbol table.
RecomputeEdges ==
  /\ Goto("recompute", "file")
  /\ \E rank \in Orders :
       graph' = [graph EXCEPT !.edges = InsertEdges(@, Recompute(commit, recheck), rank)]
  /\ todo' = todo \ {file}
  /\ broken' = broken \ {file}
  /\ FileDone

\* An error in any of these transactions, which is rolled back: a warning, and
\* on to the next file.
SkipFile ==
  /\ at # "idle" /\ todo # {} /\ Fails
  /\ \E f \in IF at = "file" THEN FirstOf(todo) ELSE {file} :
       /\ todo' = todo \ {f}
       /\ broken' = broken \cup {f}
  /\ at' = "file"
  /\ FileDone
  /\ UNCHANGED <<graph, commit, verdict, commits>>

\* An edge is compared by its ends and its provenance.
EdgeSet(edges) == {[caller |-> e.caller, target |-> e.target, provenance |-> e.provenance] : e \in edges}

Compare ==
  /\ at = "file" /\ todo = {} /\ at' = "idle"
  /\ verdict' = IF EdgeSet(graph.edges) = EdgeSet(BuildV2(commit).edges) THEN "pass" ELSE "fail"
  /\ UNCHANGED <<graph, commit, todo, file, affected, recheck, commits, failures, broken>>

\* The full build or one of the two loads fails.
NoComparison ==
  /\ at = "file" /\ todo = {} /\ at' = "idle" /\ Fails
  /\ verdict' = "error"
  /\ UNCHANGED <<graph, commit, todo, file, affected, recheck, commits, broken>>

UpdateStep ==
  \/ Retract \/ RetractCallSites
  \/ InsertFileSymbols \/ InsertFileEdges \/ InsertFileSites \/ InsertFileIfaces
  \/ RecomputeEdges \/ Compare

NextCommit == \E q \in Branches : BeginUpdate(q) \/ CopyForward(q) \/ NoCopy(q) \/ NoParse(q)

Next == NextCommit \/ UpdateStep \/ SkipFile \/ NoComparison

\* The harness is one loop in one process: what it has begun goes on.
Spec == Init /\ [][Next]_vars /\ WF_vars(UpdateStep)

-----------------------------------------------------------------------------
(* What the engine takes for granted of the commits of one history, and     *)
(* nothing in it checks.                                                    *)

CallersIn(p, f) == {call.caller : call \in Calls(p, f)}

\* A function, and a type, is not moved to another file.
Homes ==
  \A p, q \in Branches : \A f, g \in File :
    /\ CallersIn(p, f) \cap CallersIn(q, g) # {} => f = g
    /\ FileTypes(p, f) \cap FileTypes(q, g) # {} => f = g

\* A function calls one method of an interface: the key has no method.
OneMethod ==
  \A p \in Branches : \A f \in File : \A s, r \in FileSites(p, f) : SameSite(s, r) => s.method = r.method

\* It does not call one method both ways: the key has no provenance.
OneProvenance ==
  \A p \in Branches : \A f \in File : \A d, e \in FileFacts(p, f) :
    SameEdge(d, e) => d.provenance = e.provenance

\* A file is not renamed: git lists the new path alone.
NoRename == \A p, q \in Branches : ChangedGoFiles(p, q) = ChangedFiles(p, q)

DirectOf(facts) == {d \in facts : d.provenance = "direct_call"}

\* A file that did not change says what it said: the types of its variables
\* and its types' interfaces do not change behind its back.
ReferencesLocal ==
  \A p, q \in Branches : \A f \in File : p[f] = q[f] =>
    /\ DirectOf(FileFacts(p, f)) = DirectOf(FileFacts(q, f))
    /\ FileSites(p, f) = FileSites(q, f)
    /\ FileIfaces(p, f) = FileIfaces(q, f)

\* Where the targets of such a file's calls change, a type of a changed file
\* gains or loses the interface.
ImplementersLocal ==
  \A p, q \in Branches : \A f \in File : p[f] = q[f] =>
    \A s \in FileSites(p, f) :
      DispatchTargets(p, s.interface, s.method) # DispatchTargets(q, s.interface, s.method) =>
        \E h \in ChangedFiles(p, q) : s.interface \in DiffIfaceSets(FileIfaces(p, h), FileIfaces(q, h))

\* The methods of a type are in its file; every commit has the same interfaces.
MethodsAtHome(p) ==
  \A f, g \in Files(p) : \A d \in Source[p[f]].methods : d[1] \in Source[p[g]].types => f = g

InterfacesStay ==
  \A p, q \in Branches :
    InterfacesOf(p) = InterfacesOf(q) /\ \A i \in Interface : Demands(p, i) = Demands(q, i)

\* Conditions on the sources of a history that grant both.
DeclarationsStay ==
  /\ \A p, q \in Branches : TypesKept(p, q) /\ NothingPromoted(p) /\ MethodsAtHome(p)
  /\ InterfacesStay

V2Assumed ==
  /\ Homes /\ OneMethod /\ OneProvenance
  /\ NoRename /\ ReferencesLocal /\ ImplementersLocal

-----------------------------------------------------------------------------
Stages == {"idle", "file", "callsites", "symbols", "edges", "sites", "ifaces", "recompute"}

V2TypeOK ==
  /\ graph \in [edges : SUBSET Edge, sites : SUBSET Site, ifaces : SUBSET TypeIface, symbols : SUBSET SymbolRows]
  /\ commit \in Branches
  /\ at \in Stages
  /\ todo \subseteq File /\ broken \subseteq File
  /\ IF at \in {"idle", "file"} THEN file = NULL ELSE file \in todo
  /\ at = "idle" => todo = {}
  /\ affected \subseteq Interface /\ recheck \subseteq Site
  /\ verdict \in {"none", "pass", "fail", "error"}
  /\ commits \in 1 .. MaxCommits \cup {1} /\ failures \in 0 .. MaxFailures

(***************************************************************************)
(* engine.go, "incremental == full rebuild": when no transaction failed,   *)
(* all four tables of a commit are those BuildV2 makes of it: what is      *)
(* retracted with one file, or behind the callers of another, comes back.  *)
(***************************************************************************)
TablesAgree == at = "idle" /\ failures = 0 => graph = BuildV2(commit)

\* The rows that only the treatment of their own file writes.
OwnRows(g, f) ==
  [edges |-> {e \in g.edges : e.file = f /\ e.provenance = "direct_call"},
   sites |-> {s \in g.sites : s.file = f},
   ifaces |-> {t \in g.ifaces : t.file = f},
   symbols |-> {r \in g.symbols : r.file = f}]

(***************************************************************************)
(* engine.go:96, the update goes on after a file that failed: wherever an  *)
(* error hits, the own rows of every file whose last change was brought in *)
(* are those of a full build, and a file that failed is right again after  *)
(* its next change.                                                        *)
(***************************************************************************)
FailureContained ==
  at = "idle" => \A f \in File \ broken : OwnRows(graph, f) = OwnRows(BuildV2(commit), f)

\* harness.go, the loop over the commits: an update that has begun ends, with
\* errors in it or without.
UpdateEnds == at # "idle" ~> at = "idle"

(***************************************************************************)
(* harness.go:3: without an error, the edges are those of a full rebuild.  *)
(***************************************************************************)
IncrementalEqualsFull ==
  at = "idle" /\ failures = 0 => EdgeSet(graph.edges) = EdgeSet(BuildV2(commit).edges)

(***************************************************************************)
(* architecture.md, 9.2, "keep the v2 engine as a second oracle": without  *)
(* an error its edges are those of the facts the newer indexer derives of  *)
(* the same commit, in one pass and without tables, if its parser knows    *)
(* all calls.                                                              *)
(***************************************************************************)
OracleAgrees ==
  at = "idle" /\ failures = 0 =>
    \A b \in Build : Variable \subseteq Classifies[b] => EdgeSet(graph.edges) = EdgeSet(FactsOf(commit, b))
=============================================================================
