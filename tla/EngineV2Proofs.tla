--------------------------- MODULE EngineV2Proofs ---------------------------
(***************************************************************************)
(* The older engine, for every program and every history: its types; that  *)
(* an error stays where it hit; and, for the histories the engine is made  *)
(* for, that its tables are those of a full build.                         *)
(***************************************************************************)
EXTENDS EngineV2, ProgramProofs, TLAPS

\* The commits of a history are commits, and Source gives contents.
LEMMA BranchType ==
  ASSUME NEW p \in Branches
  PROVE  /\ p \in Commit
         /\ \A f \in File : p[f] = NULL \/ (p[f] \in Text /\ Source[p[f]] \in Content)
         /\ \A f \in File : Calls(p, f) \subseteq Call
         /\ \A f \in File : FileTypes(p, f) \subseteq Type
         /\ TypesOf(p) \subseteq Type
<1>1. p \in Commit
  BY V2Assumption
<1>2. \A f \in File : p[f] = NULL \/ (p[f] \in Text /\ Source[p[f]] \in Content)
  BY <1>1, SourceType DEF Commit
<1>3. \A f \in File : Calls(p, f) \subseteq Call
  BY <1>2 DEF Calls, Content
<1>4. \A f \in File : FileTypes(p, f) \subseteq Type
  BY <1>2 DEF FileTypes, Content
<1>5. TypesOf(p) \subseteq Type
  BY <1>2 DEF TypesOf, Files, Content
<1>. QED
  BY <1>1, <1>2, <1>3, <1>4, <1>5

LEMMA TargetType ==
  ASSUME NEW p \in Branches, NEW i \in Interface, NEW m
  PROVE  DispatchTargets(p, i, m) \subseteq Type \cup Interface
<1>1. Implementers(p, i) \subseteq Type
  BY BranchType DEF Implementers
<1>. QED
  BY <1>1 DEF DispatchTargets, ExpandInterfaceCall

\* A reference of a file is the file's, made by a function of the file.
LEMMA FileFactType ==
  ASSUME NEW p \in Branches, NEW f \in File, NEW d \in FileFacts(p, f)
  PROVE  /\ d \in Fact /\ d.file = f /\ d.caller \in CallersIn(p, f)
         /\ EdgeOf(d) \in Edge /\ EdgeOf(d).file = f
<1>1. PICK call \in Calls(p, f) : \E x \in DirectFacts(p, f, call) \cup DispatchFacts(p, f, call) : d = x.fact
  BY DEF FileFacts
<1>2. PICK x \in DirectFacts(p, f, call) \cup DispatchFacts(p, f, call) : d = x.fact
  BY <1>1
<1>3. call \in Call
  BY BranchType
<1>4. \E t \in Type \cup Interface : \E provenance \in {"direct_call", "interface_resolved"} :
        d = FactAt(f, call, t, provenance)
  <2>1. CASE x \in DirectFacts(p, f, call)
    <3>1. PICK u \in UNION {Owners(p, t, call.method) : t \in StaticType(p, call.on) \cap Type} :
            x = [fact |-> FactAt(f, call, u, "direct_call"),
                 inputs |-> [file |-> p[f], interfaces |-> NoInterface]]
      BY <2>1 DEF DirectFacts
    <3>2. u \in Type
      BY DEF Owners
    <3>. QED
      BY <1>2, <3>1, <3>2
  <2>2. CASE x \in DispatchFacts(p, f, call)
    <3>1. PICK i \in StaticType(p, call.on) \cap Interface :
            \E t \in DispatchTargets(p, i, call.method) :
              x = [fact |-> FactAt(f, call, t, "interface_resolved"),
                   inputs |-> [file |-> p[f], interfaces |-> [j \in {i} |-> Implementers(p, i)]]]
      BY <2>2 DEF DispatchFacts
    <3>2. PICK t \in DispatchTargets(p, i, call.method) :
            x = [fact |-> FactAt(f, call, t, "interface_resolved"),
                 inputs |-> [file |-> p[f], interfaces |-> [j \in {i} |-> Implementers(p, i)]]]
      BY <3>1
    <3>3. t \in Type \cup Interface
      BY TargetType
    <3>. QED
      BY <1>2, <3>2, <3>3
  <2>. QED
    BY <1>2, <2>1, <2>2
<1>5. d \in Fact /\ d.file = f /\ d.caller = call.caller
  BY <1>3, <1>4 DEF FactAt, Fact, Call
<1>6. EdgeOf(d) \in Edge /\ EdgeOf(d).file = f
  BY <1>5 DEF Fact, Edge, EdgeOf
<1>. QED
  BY <1>5, <1>6 DEF CallersIn

LEMMA FileSiteType ==
  ASSUME NEW p \in Branches, NEW f \in File, NEW d \in FileSites(p, f)
  PROVE  /\ d.file = f /\ d.caller \in CallersIn(p, f) /\ d.caller \in Function
         /\ d.interface \in Interface /\ d.method \in Method
         /\ SiteOf(d, f) \in Site
<1>1. PICK call \in Calls(p, f) : \E i \in StaticType(p, call.on) \cap Interface :
        d = [interface |-> i, method |-> call.method, caller |-> call.caller, file |-> f, line |-> call.line]
  BY DEF FileSites
<1>2. call \in Call
  BY BranchType
<1>3. d.file = f /\ d.caller = call.caller /\ d.interface \in Interface /\ d.method = call.method
  BY <1>1
<1>. QED
  BY <1>2, <1>3 DEF CallersIn, SiteOf, Site, Call

LEMMA FileIfaceType ==
  ASSUME NEW p \in Branches, NEW f \in File, NEW t \in FileIfaces(p, f)
  PROVE  t \in TypeIface /\ t.file = f /\ t.type \in FileTypes(p, f)
<1>1. PICK i \in Interface : t \in {[type |-> u, interface |-> i, file |-> f] : u \in FileTypes(p, f) \cap Implementers(p, i)}
  BY DEF FileIfaces
<1>2. PICK u \in FileTypes(p, f) \cap Implementers(p, i) : t = [type |-> u, interface |-> i, file |-> f]
  BY <1>1
<1>3. u \in Type
  BY BranchType
<1>. QED
  BY <1>2, <1>3 DEF TypeIface

LEMMA FileSymbolType ==
  ASSUME NEW p \in Branches, NEW f \in File
  PROVE  FileSymbols(p, f) \subseteq SymbolRows /\ \A r \in FileSymbols(p, f) : r.file = f
BY BranchType DEF FileSymbols, SymbolRows

\* The edges of sites that are read back.
LEMMA RecomputeType ==
  ASSUME NEW p \in Branches, NEW sites \in SUBSET Site, NEW d \in Recompute(p, sites)
  PROVE  /\ EdgeOf(d) \in Edge
         /\ \E s \in sites : \E t \in DispatchTargets(p, s.interface, s.method) :
              d = [caller |-> s.caller, target |-> <<t, s.method>>, provenance |-> "interface_resolved",
                   file |-> s.file, line |-> 0]
<1>1. PICK s \in sites :
        d \in {[caller |-> s.caller, target |-> <<t, s.method>>, provenance |-> "interface_resolved",
                file |-> s.file, line |-> 0] : t \in DispatchTargets(p, s.interface, s.method)}
  BY DEF Recompute
<1>2. PICK t \in DispatchTargets(p, s.interface, s.method) :
        d = [caller |-> s.caller, target |-> <<t, s.method>>, provenance |-> "interface_resolved",
             file |-> s.file, line |-> 0]
  BY <1>1
<1>3. s \in Site /\ t \in Type \cup Interface
  BY TargetType DEF Site
<1>4. EdgeOf(d) \in Edge
  BY <1>2, <1>3 DEF EdgeOf, Edge, Site
<1>. QED
  BY <1>2, <1>4

-----------------------------------------------------------------------------
Tables == [edges : SUBSET Edge, sites : SUBSET Site, ifaces : SUBSET TypeIface, symbols : SUBSET SymbolRows]

\* What an insertion leaves is what was there and what is inserted.
LEMMA InsertEdgesType ==
  ASSUME NEW edges \in SUBSET Edge, NEW batch, NEW rank, \A d \in batch : EdgeOf(d) \in Edge
  PROVE  InsertEdges(edges, batch, rank) \in SUBSET Edge
BY DEF InsertEdges

LEMMA InsertSitesType ==
  ASSUME NEW sites \in SUBSET Site, NEW batch,
         \A d \in batch : d.file \in File /\ \A f \in File : SiteOf(d, f) \in Site
  PROVE  InsertDispatchSites(sites, batch) \in SUBSET Site
<1>1. \A s \in sites : s.file \in File
  BY DEF Site
<1>. QED
  BY <1>1 DEF InsertDispatchSites

LEMMA SiteOfType ==
  ASSUME NEW p \in Branches, NEW f \in File, NEW d \in FileSites(p, f)
  PROVE  d.file \in File /\ \A g \in File : SiteOf(d, g) \in Site
BY FileSiteType DEF SiteOf, Site

LEMMA BuildType ==
  ASSUME NEW p \in Branches
  PROVE  BuildV2(p) \in Tables
<1>1. InsertEdges({}, UNION {FileFacts(p, f) : f \in File}, Rank) \in SUBSET Edge
  <2>. DEFINE batch == UNION {FileFacts(p, f) : f \in File}
  <2>1. \A f \in File : \A d \in FileFacts(p, f) : EdgeOf(d) \in Edge
    BY FileFactType
  <2>2. \A d \in batch : EdgeOf(d) \in Edge
    BY <2>1
  <2>. HIDE DEF batch
  <2>3. InsertEdges({}, batch, Rank) \in SUBSET Edge
    BY <2>2, InsertEdgesType
  <2>. QED
    BY <2>3 DEF batch
<1>2. InsertDispatchSites({}, UNION {FileSites(p, f) : f \in File}) \in SUBSET Site
  <2>. DEFINE batch == UNION {FileSites(p, f) : f \in File}
  <2>1. \A f \in File : \A d \in FileSites(p, f) : d.file \in File /\ \A g \in File : SiteOf(d, g) \in Site
    BY SiteOfType
  <2>2. \A d \in batch : d.file \in File /\ \A g \in File : SiteOf(d, g) \in Site
    BY <2>1
  <2>. HIDE DEF batch
  <2>3. InsertDispatchSites({}, batch) \in SUBSET Site
    BY <2>2, InsertSitesType
  <2>. QED
    BY <2>3 DEF batch
<1>3. InsertTypeIfaces({}, UNION {FileIfaces(p, f) : f \in File}) \in SUBSET TypeIface
  BY FileIfaceType DEF InsertTypeIfaces
<1>4. UNION {FileSymbols(p, f) : f \in File} \in SUBSET SymbolRows
  BY FileSymbolType
<1>. QED
  BY <1>1, <1>2, <1>3, <1>4 DEF BuildV2, Tables

LEMMA TypeInit == Init => V2TypeOK
<1>. SUFFICES ASSUME Init PROVE V2TypeOK
  OBVIOUS
<1>1. graph \in Tables /\ commit \in Branches
  BY BuildType DEF Init
<1>. QED
  BY <1>1, V2Assumption DEF Init, V2TypeOK, Stages, Tables

\* The beginning of a commit.
LEMMA TypeCommit ==
  ASSUME V2TypeOK, NEW q \in Branches, BeginUpdate(q) \/ CopyForward(q) \/ NoCopy(q) \/ NoParse(q)
  PROVE  V2TypeOK'
<1>1. commits' \in 1 .. MaxCommits \cup {1} /\ commit' = q /\ at = "idle" /\ todo = {} /\ file = NULL
  BY V2Assumption DEF BeginUpdate, CopyForward, NoCopy, NoParse, Take, V2TypeOK
<1>2. failures' \in 0 .. MaxFailures
  BY V2Assumption DEF BeginUpdate, CopyForward, NoCopy, NoParse, Fails, V2TypeOK
<1>3. graph' \in Tables
  BY DEF BeginUpdate, CopyForward, NoCopy, NoParse, NoGraph, V2TypeOK, Tables
<1>4. broken' \subseteq File /\ todo' \subseteq File
  BY DEF BeginUpdate, CopyForward, NoCopy, NoParse, ChangedGoFiles, ChangedFiles, V2TypeOK
<1>. QED
  BY <1>1, <1>2, <1>3, <1>4 DEF BeginUpdate, CopyForward, NoCopy, NoParse, Take, V2TypeOK, Tables, Stages

LEMMA TypeUpdate ==
  ASSUME V2TypeOK, UpdateStep
  PROVE  V2TypeOK'
<1>. USE DEF V2TypeOK
<1>1. /\ commit \in Branches /\ graph \in Tables
      /\ graph.edges \in SUBSET Edge /\ graph.sites \in SUBSET Site
      /\ graph.ifaces \in SUBSET TypeIface /\ graph.symbols \in SUBSET SymbolRows
      /\ graph = [edges |-> graph.edges, sites |-> graph.sites, ifaces |-> graph.ifaces, symbols |-> graph.symbols]
  BY DEF Tables
<1>2. CASE Retract
  <2>1. PICK f \in FirstOf(todo) :
          /\ file' = f
          /\ affected' = DiffIfaceSets({t \in graph.ifaces : t.file = f}, FileIfaces(commit, f))
          /\ graph' = RetractFile(graph, f)
    BY <1>2 DEF Retract
  <2>2. f \in todo /\ affected' \subseteq Interface
    BY <2>1 DEF FirstOf, DiffIfaceSets
  <2>3. graph' \in Tables
    BY <1>1, <2>1 DEF RetractFile, Tables
  <2>. QED
    BY <1>2, <2>1, <2>2, <2>3 DEF Retract, Goto, Stages, Tables
<1>3. CASE RetractCallSites
  <2>1. graph' \in Tables
    BY <1>1, <1>3 DEF RetractCallSites, RetractInterfaceEdges, Tables
  <2>2. recheck' \subseteq Site
    BY <1>1, <1>3 DEF RetractCallSites, Recheck
  <2>. QED
    BY <1>3, <2>1, <2>2 DEF RetractCallSites, Goto, Stages, Tables
<1>4. CASE InsertFileSymbols
  <2>1. file \in File
    BY <1>4 DEF InsertFileSymbols, Goto
  <2>2. FileSymbols(commit, file) \subseteq SymbolRows
    BY <1>1, <2>1, FileSymbolType
  <2>3. graph' \in Tables
    BY <1>1, <1>4, <2>2 DEF InsertFileSymbols, Tables
  <2>. QED
    BY <1>4, <2>3 DEF InsertFileSymbols, Goto, Stages, Tables
<1>5. CASE InsertFileEdges
  <2>1. file \in File
    BY <1>5 DEF InsertFileEdges, Goto
  <2>2. InsertEdges(graph.edges, FileFacts(commit, file), Rank) \in SUBSET Edge
    BY <1>1, <2>1, FileFactType, InsertEdgesType
  <2>3. graph' \in Tables
    BY <1>1, <1>5, <2>2 DEF InsertFileEdges, Tables
  <2>. QED
    BY <1>5, <2>3 DEF InsertFileEdges, Goto, Stages, Tables
<1>6. CASE InsertFileSites
  <2>1. file \in File
    BY <1>6 DEF InsertFileSites, Goto
  <2>2. InsertDispatchSites(graph.sites, FileSites(commit, file)) \in SUBSET Site
    BY <1>1, <2>1, SiteOfType, InsertSitesType
  <2>3. graph' \in Tables
    BY <1>1, <1>6, <2>2 DEF InsertFileSites, Tables
  <2>. QED
    BY <1>6, <2>3 DEF InsertFileSites, Goto, Stages, Tables
<1>7. CASE InsertFileIfaces
  <2>1. file \in File
    BY <1>7 DEF InsertFileIfaces, Goto
  <2>2. InsertTypeIfaces(graph.ifaces, FileIfaces(commit, file)) \in SUBSET TypeIface
    BY <1>1, <2>1, FileIfaceType DEF InsertTypeIfaces
  <2>3. graph' \in Tables
    BY <1>1, <1>7, <2>2 DEF InsertFileIfaces, Tables
  <2>. QED
    BY <1>7, <2>3 DEF InsertFileIfaces, Goto, Stages, Tables
<1>8. CASE RecomputeEdges
  <2>1. PICK rank \in Orders : graph' = [graph EXCEPT !.edges = InsertEdges(@, Recompute(commit, recheck), rank)]
    BY <1>8 DEF RecomputeEdges
  <2>2. InsertEdges(graph.edges, Recompute(commit, recheck), rank) \in SUBSET Edge
    BY <1>1, RecomputeType, InsertEdgesType
  <2>3. graph' \in Tables
    BY <1>1, <2>1, <2>2 DEF Tables
  <2>. QED
    BY <1>8, <2>3 DEF RecomputeEdges, FileDone, Goto, Stages, Tables
<1>9. CASE Compare
  BY <1>9 DEF Compare, Stages
<1>. QED
  BY <1>2, <1>3, <1>4, <1>5, <1>6, <1>7, <1>8, <1>9 DEF UpdateStep

LEMMA TypeStep == V2TypeOK /\ [Next]_vars => V2TypeOK'
<1>. SUFFICES ASSUME V2TypeOK, [Next]_vars PROVE V2TypeOK'
  OBVIOUS
<1>1. CASE SkipFile
  <2>1. failures' \in 0 .. MaxFailures
    BY <1>1, V2Assumption DEF SkipFile, Fails, V2TypeOK
  <2>2. todo' \subseteq File /\ broken' \subseteq File
    BY <1>1 DEF SkipFile, FirstOf, V2TypeOK
  <2>. QED
    BY <1>1, <2>1, <2>2 DEF SkipFile, FileDone, V2TypeOK, Stages
<1>2. CASE NoComparison
  <2>1. failures' \in 0 .. MaxFailures
    BY <1>2, V2Assumption DEF NoComparison, Fails, V2TypeOK
  <2>. QED
    BY <1>2, <2>1 DEF NoComparison, V2TypeOK, Stages
<1>3. CASE UNCHANGED vars
  BY <1>3 DEF vars, V2TypeOK
<1>. QED
  BY <1>1, <1>2, <1>3, TypeCommit, TypeUpdate DEF Next, NextCommit

(***************************************************************************)
(* The tables hold rows of their kinds, the file being treated is one that *)
(* waits, and nothing waits when the engine is idle.                       *)
(***************************************************************************)
THEOREM TypeCorrect == Spec => []V2TypeOK
<1>. QED
  BY TypeInit, TypeStep, PTL DEF Spec

-----------------------------------------------------------------------------
(* The rows of one file.                                                    *)

At(rows, f) == {r \in rows : r.file = f}

Direct(edges) == {e \in edges : e.provenance = "direct_call"}

FileEdges(p, f) == {EdgeOf(d) : d \in FileFacts(p, f)}

FileSiteRows(p, f) == {SiteOf(d, f) : d \in FileSites(p, f)}

\* The files a function or a type can be in, for a whole history.
Home(f) == {c \in Function : \E p \in Branches : c \in CallersIn(p, f)}
TypeHome(f) == {t \in Type : \E p \in Branches : t \in FileTypes(p, f)}

EdgesAtHome(edges) == \A e \in edges : e.caller \in Home(e.file)
SitesAtHome(sites) == \A s \in sites : s.caller \in Home(s.file)
IfacesAtHome(ifaces) == \A t \in ifaces : t.type \in TypeHome(t.file)

LEMMA OneHome ==
  ASSUME Homes, NEW f \in File, NEW g \in File
  PROVE  /\ \A c : c \in Home(f) /\ c \in Home(g) => f = g
         /\ \A t : t \in TypeHome(f) /\ t \in TypeHome(g) => f = g
<1>1. ASSUME NEW c, c \in Home(f), c \in Home(g)
      PROVE  f = g
  <2>1. PICK p \in Branches : c \in CallersIn(p, f)
    BY <1>1 DEF Home
  <2>2. PICK q \in Branches : c \in CallersIn(q, g)
    BY <1>1 DEF Home
  <2>. QED
    BY <2>1, <2>2 DEF Homes
<1>2. ASSUME NEW t, t \in TypeHome(f), t \in TypeHome(g)
      PROVE  f = g
  <2>1. PICK p \in Branches : t \in FileTypes(p, f)
    BY <1>2 DEF TypeHome
  <2>2. PICK q \in Branches : t \in FileTypes(q, g)
    BY <1>2 DEF TypeHome
  <2>. QED
    BY <2>1, <2>2 DEF Homes
<1>. QED
  BY <1>1, <1>2

\* What a file contributes is at home.
LEMMA ContributionsAtHome ==
  ASSUME NEW p \in Branches, NEW f \in File
  PROVE  /\ \A d \in FileFacts(p, f) : d.caller \in Home(f) /\ d.file = f
         /\ \A d \in FileSites(p, f) : d.caller \in Home(f) /\ d.file = f
         /\ \A t \in FileIfaces(p, f) : t.type \in TypeHome(f) /\ t.file = f
<1>1. \A d \in FileFacts(p, f) : d.caller \in Home(f) /\ d.file = f
  BY FileFactType DEF Home, Fact
<1>2. \A d \in FileSites(p, f) : d.caller \in Home(f) /\ d.file = f
  BY FileSiteType DEF Home
<1>3. \A t \in FileIfaces(p, f) : t.type \in TypeHome(f) /\ t.file = f
  BY FileIfaceType, BranchType DEF TypeHome
<1>. QED
  BY <1>1, <1>2, <1>3

-----------------------------------------------------------------------------
(* Insertions without conflicts of keys.                                    *)

\* Of one file, all edges go in whose key is free or taken by the same edge.
LEMMA InsertEdgesAt ==
  ASSUME NEW edges, NEW batch, NEW rank, NEW f,
         \A e \in edges, d \in batch : SameEdge(e, d) => e.file = d.file,
         \A b, d \in batch : SameEdge(b, d) => b.file = d.file,
         \A e \in edges, d \in batch : SameEdge(e, d) /\ d.file = f => e = EdgeOf(d),
         \A b, d \in batch : SameEdge(b, d) /\ d.file = f => EdgeOf(b) = EdgeOf(d)
  PROVE  At(InsertEdges(edges, batch, rank), f) = At(edges, f) \cup {EdgeOf(d) : d \in At(batch, f)}
<1>1. \A d : EdgeOf(d).file = d.file
  BY DEF EdgeOf
<1>2. \A r \in InsertEdges(edges, batch, rank) : r \in edges \/ \E d \in batch : r = EdgeOf(d)
  BY DEF InsertEdges
<1>3. ASSUME NEW d \in batch, d.file = f
      PROVE  EdgeOf(d) \in InsertEdges(edges, batch, rank)
  <2>1. CASE \E e \in edges : SameEdge(e, d)
    BY <1>3, <2>1 DEF InsertEdges
  <2>2. CASE \A e \in edges : ~SameEdge(e, d)
    <3>1. \A b \in batch : SameEdge(b, d) /\ EdgeOf(b) # EdgeOf(d) => ~Before(rank, b, d)
      BY <1>3
    <3>. QED
      BY <2>2, <3>1 DEF InsertEdges
  <2>. QED
    BY <2>1, <2>2
<1>4. edges \subseteq InsertEdges(edges, batch, rank)
  BY DEF InsertEdges
<1>. QED
  BY <1>1, <1>2, <1>3, <1>4 DEF At

\* Sites with free keys and one method each.
LEMMA InsertSitesAll ==
  ASSUME NEW sites, NEW batch,
         \A s \in sites, b \in batch : ~SameSite(s, b),
         \A b, c \in batch : SameSite(b, c) => b.file = c.file /\ b.method = c.method
  PROVE  InsertDispatchSites(sites, batch) = sites \cup {SiteOf(d, d.file) : d \in batch}
<1>. DEFINE First(new) ==
              IF \E s \in sites : SameSite(s, new)
                THEN {s \in sites : SameSite(s, new)}
                ELSE {b \in batch : /\ SameSite(b, new)
                                    /\ \A c \in batch : SameSite(c, new) /\ c.file # b.file => ~Before(Rank, c, b)}
            last == {new \in batch :
                       \A b \in batch : SameSite(b, new) /\ b.method # new.method => ~Before(Rank, new, b)}
            added == UNION {{SiteOf(new, row.file) : row \in First(new)} : new \in last}
<1>1. InsertDispatchSites(sites, batch) = {s \in sites : \A b \in batch : ~SameSite(s, b)} \cup added
  BY Zenon DEF InsertDispatchSites
<1>2. {s \in sites : \A b \in batch : ~SameSite(s, b)} = sites
  OBVIOUS
<1>3. last = batch
  OBVIOUS
<1>4. \A new \in batch : SameSite(new, new)
  BY DEF SameSite
<1>5. \A new \in batch : new \in First(new) /\ \A row \in First(new) : row.file = new.file
  BY <1>4
<1>. HIDE DEF First, last
<1>6. added = {SiteOf(d, d.file) : d \in batch}
  <2>1. ASSUME NEW new \in batch
        PROVE  {SiteOf(new, row.file) : row \in First(new)} = {SiteOf(new, new.file)}
    BY <1>5
  <2>2. added = UNION {{SiteOf(new, new.file)} : new \in batch}
    BY <1>3, <2>1
  <2>. QED
    BY <2>2
<1>. QED
  BY <1>1, <1>2, <1>6

LEMMA InsertIfacesAll ==
  ASSUME NEW ifaces, NEW batch, \A t \in ifaces, b \in batch : ~SameTypeIface(t, b)
  PROVE  InsertTypeIfaces(ifaces, batch) = ifaces \cup batch
BY DEF InsertTypeIfaces

-----------------------------------------------------------------------------
\* A full build takes all that the files contribute.
LEMMA BuildIs ==
  ASSUME V2Assumed, NEW p \in Branches
  PROVE  /\ \A e \in BuildV2(p).edges : e.file \in File
         /\ \A s \in BuildV2(p).sites : s.file \in File
         /\ \A t \in BuildV2(p).ifaces : t.file \in File
         /\ \A r \in BuildV2(p).symbols : r.file \in File
         /\ \A f \in File :
              /\ At(BuildV2(p).edges, f) = FileEdges(p, f)
              /\ At(BuildV2(p).sites, f) = FileSiteRows(p, f)
              /\ At(BuildV2(p).ifaces, f) = FileIfaces(p, f)
              /\ At(BuildV2(p).symbols, f) = FileSymbols(p, f)
<1>. DEFINE facts == UNION {FileFacts(p, f) : f \in File}
            places == UNION {FileSites(p, f) : f \in File}
            ifaces == UNION {FileIfaces(p, f) : f \in File}
<1>1. /\ \A d \in facts : d.file \in File /\ d \in FileFacts(p, d.file) /\ d.caller \in Home(d.file)
      /\ \A d \in places : d.file \in File /\ d \in FileSites(p, d.file) /\ d.caller \in Home(d.file)
      /\ \A t \in ifaces : t.file \in File /\ t \in FileIfaces(p, t.file)
  BY ContributionsAtHome
<1>2. \A f \in File : At(facts, f) = FileFacts(p, f) /\ At(places, f) = FileSites(p, f) /\ At(ifaces, f) = FileIfaces(p, f)
  <2>1. \A f \in File : FileFacts(p, f) \subseteq facts /\ FileSites(p, f) \subseteq places /\ FileIfaces(p, f) \subseteq ifaces
    OBVIOUS
  <2>. HIDE DEF facts, places, ifaces
  <2>. QED
    BY <1>1, <2>1, ContributionsAtHome DEF At
<1>3. /\ BuildV2(p).edges = InsertEdges({}, facts, Rank)
      /\ BuildV2(p).sites = InsertDispatchSites({}, places)
      /\ BuildV2(p).ifaces = InsertTypeIfaces({}, ifaces)
      /\ InsertTypeIfaces({}, ifaces) = ifaces
  <2>1. InsertTypeIfaces({}, ifaces) = ifaces
    BY DEF InsertTypeIfaces
  <2>. QED
    BY <2>1 DEF BuildV2
<1>4. BuildV2(p).symbols = UNION {FileSymbols(p, f) : f \in File}
  BY DEF BuildV2
<1>5. \A b, d \in facts : SameEdge(b, d) => b.file = d.file /\ EdgeOf(b) = EdgeOf(d)
  <2>. SUFFICES ASSUME NEW b \in facts, NEW d \in facts, SameEdge(b, d)
                PROVE  b.file = d.file /\ EdgeOf(b) = EdgeOf(d)
    OBVIOUS
  <2>. HIDE DEF facts
  <2>1. b.caller = d.caller /\ b.target = d.target
    BY DEF SameEdge
  <2>2. b.file = d.file
    BY <1>1, <2>1, OneHome DEF V2Assumed
  <2>3. b.provenance = d.provenance
    BY <1>1, <2>2 DEF V2Assumed, OneProvenance
  <2>. QED
    BY <2>1, <2>2, <2>3 DEF EdgeOf
<1>6. \A b, c \in places : SameSite(b, c) => b.file = c.file /\ b.method = c.method
  <2>. SUFFICES ASSUME NEW b \in places, NEW c \in places, SameSite(b, c)
                PROVE  b.file = c.file /\ b.method = c.method
    OBVIOUS
  <2>. HIDE DEF places
  <2>1. b.caller = c.caller
    BY DEF SameSite
  <2>2. b.file = c.file
    BY <1>1, <2>1, OneHome DEF V2Assumed
  <2>. QED
    BY <1>1, <2>2 DEF V2Assumed, OneMethod
<1>. HIDE DEF facts, places, ifaces
<1>7. BuildV2(p).sites = {SiteOf(d, d.file) : d \in places}
  <2>1. InsertDispatchSites({}, places) = {} \cup {SiteOf(d, d.file) : d \in places}
    BY <1>6, InsertSitesAll
  <2>. QED
    BY <1>3, <2>1
<1>8. ASSUME NEW f \in File
      PROVE  At(BuildV2(p).edges, f) = FileEdges(p, f)
  <2>1. At(InsertEdges({}, facts, Rank), f) = At({}, f) \cup {EdgeOf(d) : d \in At(facts, f)}
    BY <1>5, InsertEdgesAt
  <2>2. At({}, f) = {}
    BY DEF At
  <2>. QED
    BY <1>2, <1>3, <2>1, <2>2 DEF FileEdges
<1>9. ASSUME NEW f \in File
      PROVE  At(BuildV2(p).sites, f) = FileSiteRows(p, f)
  <2>1. \A d : SiteOf(d, d.file).file = d.file
    BY DEF SiteOf
  <2>2. At(BuildV2(p).sites, f) = {SiteOf(d, d.file) : d \in At(places, f)}
    BY <1>7, <2>1 DEF At
  <2>3. \A d \in At(places, f) : d.file = f
    BY DEF At
  <2>. QED
    BY <1>2, <2>2, <2>3 DEF FileSiteRows
<1>10. \A f \in File : At(BuildV2(p).symbols, f) = FileSymbols(p, f)
  BY <1>4, FileSymbolType DEF At
<1>11. /\ \A e \in BuildV2(p).edges : e.file \in File
       /\ \A s \in BuildV2(p).sites : s.file \in File
       /\ \A t \in BuildV2(p).ifaces : t.file \in File
       /\ \A r \in BuildV2(p).symbols : r.file \in File
  BY BuildType DEF Tables, Edge, Site, TypeIface, SymbolRows
<1>. QED
  BY <1>2, <1>3, <1>8, <1>9, <1>10, <1>11

-----------------------------------------------------------------------------
(* An error stays where it hit.                                             *)

Treating == at \notin {"idle", "file"}

AtHome ==
  /\ EdgesAtHome(graph.edges) /\ SitesAtHome(graph.sites) /\ IfacesAtHome(graph.ifaces)
  /\ Treating => \A s \in recheck : at # "callsites" => s.caller \in Home(s.file) /\ s.file # file

\* What is back of the file that is being treated.
TreatedSoFar ==
  Treating =>
    /\ At(graph.symbols, file) = IF at \in {"callsites", "symbols"} THEN {} ELSE FileSymbols(commit, file)
    /\ At(graph.edges, file) =
         IF at \in {"callsites", "symbols", "edges"} THEN {} ELSE FileEdges(commit, file)
    /\ At(graph.sites, file) =
         IF at \in {"callsites", "symbols", "edges", "sites"} THEN {} ELSE FileSiteRows(commit, file)
    /\ At(graph.ifaces, file) = IF at # "recompute" THEN {} ELSE FileIfaces(commit, file)

\* The own rows of a file are those of a full build.
Settled(g, p, f) ==
  /\ Direct(At(g.edges, f)) = Direct(FileEdges(p, f))
  /\ At(g.sites, f) = FileSiteRows(p, f)
  /\ At(g.ifaces, f) = FileIfaces(p, f)
  /\ At(g.symbols, f) = FileSymbols(p, f)

OthersSettled == \A f \in File \ (todo \cup broken) : Settled(graph, commit, f)

Contained == V2TypeOK /\ AtHome /\ TreatedSoFar /\ OthersSettled

\* Only this much of the tables matters to a file.
LEMMA SettledKept ==
  ASSUME NEW g, NEW h, NEW p, NEW f, Settled(g, p, f),
         Direct(At(h.edges, f)) = Direct(At(g.edges, f)), At(h.sites, f) = At(g.sites, f),
         At(h.ifaces, f) = At(g.ifaces, f), At(h.symbols, f) = At(g.symbols, f)
  PROVE  Settled(h, p, f)
BY DEF Settled

\* A file that did not change is settled at the next commit too.
LEMMA UnchangedSettled ==
  ASSUME V2Assumed, NEW p \in Branches, NEW q \in Branches, NEW f \in File,
         f \notin ChangedGoFiles(p, q), NEW g, Settled(g, p, f)
  PROVE  p[f] = q[f] /\ Settled(g, q, f)
<1>1. p[f] = q[f]
  BY DEF V2Assumed, NoRename, ChangedFiles
<1>2. /\ DirectOf(FileFacts(p, f)) = DirectOf(FileFacts(q, f))
      /\ FileSites(p, f) = FileSites(q, f) /\ FileIfaces(p, f) = FileIfaces(q, f)
  BY <1>1 DEF V2Assumed, ReferencesLocal
<1>3. \A r \in Branches : Direct(FileEdges(r, f)) = {EdgeOf(d) : d \in DirectOf(FileFacts(r, f))}
  BY DEF Direct, FileEdges, DirectOf, EdgeOf
<1>4. FileSymbols(p, f) = FileSymbols(q, f)
  BY <1>1 DEF FileSymbols
<1>. QED
  BY <1>1, <1>2, <1>3, <1>4 DEF Settled, FileSiteRows

LEMMA ContainedInit ==
  ASSUME V2Assumed, Init
  PROVE  Contained
<1>1. graph = BuildV2(commit) /\ commit \in Branches /\ at = "idle"
  BY DEF Init
<1>2. V2TypeOK
  BY TypeInit
<1>3. \A f \in File : Settled(graph, commit, f)
  BY <1>1, BuildIs DEF Settled
<1>4. AtHome
  <2>1. ASSUME NEW e \in graph.edges
        PROVE  e.caller \in Home(e.file)
    <3>1. e.file \in File /\ e \in FileEdges(commit, e.file)
      BY <1>1, BuildIs DEF At
    <3>2. PICK d \in FileFacts(commit, e.file) : e = EdgeOf(d)
      BY <3>1 DEF FileEdges
    <3>. QED
      BY <1>1, <3>1, <3>2, ContributionsAtHome DEF EdgeOf
  <2>2. ASSUME NEW s \in graph.sites
        PROVE  s.caller \in Home(s.file)
    <3>1. s.file \in File /\ s \in FileSiteRows(commit, s.file)
      BY <1>1, BuildIs DEF At
    <3>2. PICK d \in FileSites(commit, s.file) : s = SiteOf(d, s.file)
      BY <3>1 DEF FileSiteRows
    <3>. QED
      BY <1>1, <3>1, <3>2, ContributionsAtHome DEF SiteOf
  <2>3. ASSUME NEW t \in graph.ifaces
        PROVE  t.type \in TypeHome(t.file)
    <3>1. t.file \in File /\ t \in FileIfaces(commit, t.file)
      BY <1>1, BuildIs DEF At
    <3>. QED
      BY <1>1, <3>1, ContributionsAtHome
  <2>. QED
    BY <1>1, <2>1, <2>2, <2>3 DEF AtHome, EdgesAtHome, SitesAtHome, IfacesAtHome, Treating
<1>. QED
  BY <1>1, <1>2, <1>3, <1>4 DEF Contained, TreatedSoFar, Treating, OthersSettled

LEMMA ContainedCommit ==
  ASSUME V2Assumed, Contained, NEW q \in Branches,
         BeginUpdate(q) \/ CopyForward(q) \/ NoCopy(q) \/ NoParse(q)
  PROVE  Contained'
<1>. USE DEF Contained
<1>1. V2TypeOK' /\ commit' = q /\ at = "idle" /\ todo = {} /\ commit \in Branches
  BY TypeCommit DEF BeginUpdate, CopyForward, NoCopy, NoParse, Take, V2TypeOK
<1>2. ~Treating'
  BY <1>1 DEF BeginUpdate, CopyForward, NoCopy, NoParse, Treating
<1>3. CASE NoCopy(q)
  <2>1. graph' = NoGraph /\ broken' = File
    BY <1>3 DEF NoCopy
  <2>2. AtHome'
    BY <1>2, <2>1 DEF AtHome, NoGraph, EdgesAtHome, SitesAtHome, IfacesAtHome
  <2>. QED
    BY <1>1, <1>2, <2>1, <2>2 DEF TreatedSoFar, OthersSettled
<1>4. CASE ~NoCopy(q)
  <2>1. graph' = graph
    BY <1>4 DEF BeginUpdate, CopyForward, NoParse
  <2>2. AtHome'
    BY <1>2, <2>1 DEF AtHome, EdgesAtHome, SitesAtHome, IfacesAtHome
  <2>3. ASSUME NEW f \in File \ (todo' \cup broken')
        PROVE  f \notin ChangedGoFiles(commit, q) /\ f \notin broken
    BY <1>4, <2>3 DEF BeginUpdate, CopyForward, NoParse, ChangedGoFiles
  <2>4. OthersSettled'
    BY <1>1, <2>1, <2>3, UnchangedSettled DEF OthersSettled
  <2>. QED
    BY <1>1, <1>2, <2>2, <2>4 DEF TreatedSoFar
<1>. QED
  BY <1>3, <1>4

\* A step of the treatment of a file leaves the own rows of the others alone.
LEMMA OthersKept ==
  ASSUME OthersSettled, todo' = todo, broken' = broken, commit' = commit, file \in todo,
         \A f \in File \ {file} :
           /\ Direct(At(graph'.edges, f)) = Direct(At(graph.edges, f))
           /\ At(graph'.sites, f) = At(graph.sites, f)
           /\ At(graph'.ifaces, f) = At(graph.ifaces, f)
           /\ At(graph'.symbols, f) = At(graph.symbols, f)
  PROVE  OthersSettled'
BY SettledKept DEF OthersSettled

LEMMA ContainedRetract ==
  ASSUME V2Assumed, Contained, Retract
  PROVE  Contained'
<1>. USE DEF Contained
<1>1. V2TypeOK'
  BY TypeUpdate DEF UpdateStep
<1>2. PICK f \in FirstOf(todo) : file' = f /\ graph' = RetractFile(graph, f)
  BY DEF Retract
<1>3. f \in todo /\ at' = "callsites" /\ UNCHANGED <<commit, todo, broken>>
  BY DEF Retract, Goto, FirstOf
<1>4. AtHome'
  BY <1>2, <1>3 DEF AtHome, RetractFile, EdgesAtHome, SitesAtHome, IfacesAtHome
<1>5. TreatedSoFar'
  BY <1>2, <1>3 DEF TreatedSoFar, RetractFile, At
<1>6. ASSUME NEW g \in File \ {f}
      PROVE  /\ At(graph'.edges, g) = At(graph.edges, g)
             /\ At(graph'.sites, g) = At(graph.sites, g)
             /\ At(graph'.ifaces, g) = At(graph.ifaces, g)
             /\ At(graph'.symbols, g) = At(graph.symbols, g)
  BY <1>2 DEF RetractFile, At
<1>7. OthersSettled'
  BY <1>3, <1>6, SettledKept DEF OthersSettled
<1>. QED
  BY <1>1, <1>4, <1>5, <1>7

LEMMA ContainedCallSites ==
  ASSUME V2Assumed, Contained, RetractCallSites
  PROVE  Contained'
<1>. USE DEF Contained
<1>1. V2TypeOK' /\ file \in todo /\ at = "callsites" /\ at' = "symbols"
  BY TypeUpdate DEF UpdateStep, RetractCallSites, Goto, V2TypeOK
<1>2. /\ graph'.edges = RetractInterfaceEdges(graph.edges, CallersOf(graph.sites, affected))
      /\ graph'.sites = graph.sites /\ graph'.ifaces = graph.ifaces /\ graph'.symbols = graph.symbols
      /\ recheck' = Recheck(graph.sites, affected)
      /\ UNCHANGED <<commit, todo, file, broken>>
  BY DEF RetractCallSites, Goto, V2TypeOK
<1>3. graph'.edges \subseteq graph.edges
  BY <1>2 DEF RetractInterfaceEdges
<1>4. \A f : Direct(At(graph'.edges, f)) = Direct(At(graph.edges, f))
  BY <1>2 DEF RetractInterfaceEdges, Direct, At
<1>5. AtHome'
  <2>1. \A s \in graph.sites : s.file # file
    BY <1>1 DEF TreatedSoFar, Treating, At
  <2>2. recheck' \subseteq graph.sites
    BY <1>2 DEF Recheck
  <2>. QED
    BY <1>2, <1>3, <2>1, <2>2 DEF AtHome, EdgesAtHome, SitesAtHome, IfacesAtHome
<1>6. TreatedSoFar'
  BY <1>1, <1>2, <1>3 DEF TreatedSoFar, Treating, At
<1>7. OthersSettled'
  BY <1>1, <1>2, <1>4, OthersKept
<1>. QED
  BY <1>1, <1>5, <1>6, <1>7

LEMMA ContainedSymbols ==
  ASSUME V2Assumed, Contained, InsertFileSymbols
  PROVE  Contained'
<1>. USE DEF Contained
<1>1. V2TypeOK' /\ file \in todo /\ file \in File /\ at = "symbols" /\ at' = "edges" /\ commit \in Branches
  BY TypeUpdate DEF UpdateStep, InsertFileSymbols, Goto, V2TypeOK
<1>2. /\ graph'.symbols = graph.symbols \cup FileSymbols(commit, file)
      /\ graph'.sites = graph.sites /\ graph'.ifaces = graph.ifaces /\ graph'.edges = graph.edges
      /\ UNCHANGED <<commit, todo, file, broken, recheck>>
  BY DEF InsertFileSymbols, Goto, V2TypeOK
<1>3. /\ \A r \in FileSymbols(commit, file) : r.file = file
  BY <1>1, FileSymbolType
<1>4. AtHome'
  BY <1>1, <1>2 DEF AtHome, EdgesAtHome, SitesAtHome, IfacesAtHome, Treating
<1>5. TreatedSoFar'
  <2>1. At(graph'.symbols, file) = FileSymbols(commit, file)
    BY <1>1, <1>2, <1>3 DEF TreatedSoFar, Treating, At
  <2>. QED
    BY <1>1, <1>2, <2>1 DEF TreatedSoFar, Treating
<1>6. \A f \in File \ {file} : At(graph'.symbols, f) = At(graph.symbols, f)
  BY <1>2, <1>3 DEF At
<1>7. OthersSettled'
  BY <1>1, <1>2, <1>6, OthersKept
<1>. QED
  BY <1>1, <1>4, <1>5, <1>7

\* The edges of a file whose old ones are gone.
LEMMA FileEdgesInserted ==
  ASSUME V2Assumed, Contained, InsertFileEdges
  PROVE  /\ At(graph'.edges, file) = FileEdges(commit, file)
         /\ \A f \in File \ {file} : At(graph'.edges, f) = At(graph.edges, f)
         /\ EdgesAtHome(graph'.edges)
<1>. USE DEF Contained
<1>. DEFINE batch == FileFacts(commit, file)
            edges == graph.edges
<1>1. file \in File /\ commit \in Branches /\ At(edges, file) = {} /\ EdgesAtHome(edges) /\ edges \subseteq Edge
  BY DEF InsertFileEdges, Goto, V2TypeOK, TreatedSoFar, Treating, AtHome
<1>2. graph'.edges = InsertEdges(edges, batch, Rank)
  BY DEF InsertFileEdges, V2TypeOK
<1>3. \A d \in batch : d.caller \in Home(file) /\ d.file = file
  BY <1>1, ContributionsAtHome
<1>4. \A e \in edges : e.caller \in Home(e.file) /\ e.file \in File /\ e.file # file
  BY <1>1 DEF EdgesAtHome, Edge, At
<1>. HIDE DEF batch, edges
<1>5. \A e \in edges, d \in batch : ~SameEdge(e, d)
  BY <1>1, <1>3, <1>4, OneHome DEF SameEdge, V2Assumed
<1>6. \A b, d \in batch : SameEdge(b, d) => EdgeOf(b) = EdgeOf(d)
  <2>. SUFFICES ASSUME NEW b \in batch, NEW d \in batch, SameEdge(b, d)
                PROVE  EdgeOf(b) = EdgeOf(d)
    OBVIOUS
  <2>1. b.provenance = d.provenance
    BY <1>1 DEF V2Assumed, OneProvenance, batch
  <2>. QED
    BY <1>3, <2>1 DEF SameEdge, EdgeOf
<1>7. \A f : At(InsertEdges(edges, batch, Rank), f) = At(edges, f) \cup {EdgeOf(d) : d \in At(batch, f)}
  BY <1>3, <1>5, <1>6, InsertEdgesAt
<1>8. At(batch, file) = batch /\ \A f : f # file => At(batch, f) = {}
  BY <1>3 DEF At
<1>9. At(graph'.edges, file) = FileEdges(commit, file)
  BY <1>1, <1>2, <1>7, <1>8 DEF FileEdges, batch
<1>10. \A f \in File \ {file} : At(graph'.edges, f) = At(graph.edges, f)
  BY <1>2, <1>7, <1>8 DEF edges
<1>11. EdgesAtHome(graph'.edges)
  <2>1. \A e \in graph'.edges : e \in edges \/ \E d \in batch : e = EdgeOf(d)
    BY <1>2 DEF InsertEdges
  <2>. QED
    BY <1>1, <1>3, <2>1 DEF EdgesAtHome, EdgeOf
<1>. QED
  BY <1>9, <1>10, <1>11

LEMMA ContainedEdges ==
  ASSUME V2Assumed, Contained, InsertFileEdges
  PROVE  Contained'
<1>. USE DEF Contained
<1>1. V2TypeOK' /\ file \in todo /\ file \in File /\ at = "edges" /\ at' = "sites"
  BY TypeUpdate DEF UpdateStep, InsertFileEdges, Goto, V2TypeOK
<1>2. /\ graph'.sites = graph.sites /\ graph'.ifaces = graph.ifaces /\ graph'.symbols = graph.symbols
      /\ UNCHANGED <<commit, todo, file, broken, recheck>>
  BY DEF InsertFileEdges, Goto, V2TypeOK
<1>3. /\ At(graph'.edges, file) = FileEdges(commit, file)
      /\ \A f \in File \ {file} : At(graph'.edges, f) = At(graph.edges, f)
      /\ EdgesAtHome(graph'.edges)
  BY FileEdgesInserted
<1>4. AtHome'
  BY <1>1, <1>2, <1>3 DEF AtHome, SitesAtHome, IfacesAtHome, Treating
<1>5. TreatedSoFar'
  BY <1>1, <1>2, <1>3 DEF TreatedSoFar, Treating
<1>6. OthersSettled'
  BY <1>1, <1>2, <1>3, OthersKept
<1>. QED
  BY <1>1, <1>4, <1>5, <1>6

LEMMA ContainedSites ==
  ASSUME V2Assumed, Contained, InsertFileSites
  PROVE  Contained' /\ graph'.sites = graph.sites \cup FileSiteRows(commit, file)
<1>. USE DEF Contained
<1>. DEFINE batch == FileSites(commit, file)
            sites == graph.sites
<1>1. /\ V2TypeOK' /\ file \in todo /\ file \in File /\ at = "sites" /\ at' = "ifaces"
      /\ commit \in Branches /\ At(sites, file) = {} /\ SitesAtHome(sites) /\ sites \subseteq Site
  BY TypeUpdate DEF UpdateStep, InsertFileSites, Goto, V2TypeOK, TreatedSoFar, Treating, AtHome
<1>2. /\ graph'.sites = InsertDispatchSites(sites, batch)
      /\ graph'.edges = graph.edges /\ graph'.ifaces = graph.ifaces /\ graph'.symbols = graph.symbols
      /\ UNCHANGED <<commit, todo, file, broken, recheck>>
  BY DEF InsertFileSites, Goto, V2TypeOK
<1>3. \A d \in batch : d.caller \in Home(file) /\ d.file = file
  BY <1>1, ContributionsAtHome
<1>4. \A s \in sites : s.caller \in Home(s.file) /\ s.file \in File /\ s.file # file
  BY <1>1 DEF SitesAtHome, Site, At
<1>. HIDE DEF batch, sites
<1>5. \A s \in sites, d \in batch : ~SameSite(s, d)
  BY <1>1, <1>3, <1>4, OneHome DEF SameSite, V2Assumed
<1>6. \A b, d \in batch : SameSite(b, d) => b.file = d.file /\ b.method = d.method
  BY <1>1, <1>3 DEF V2Assumed, OneMethod, batch
<1>7. InsertDispatchSites(sites, batch) = sites \cup {SiteOf(d, d.file) : d \in batch}
  BY <1>5, <1>6, InsertSitesAll
<1>8. {SiteOf(d, d.file) : d \in batch} = FileSiteRows(commit, file)
  BY <1>3 DEF FileSiteRows, batch
<1>9. \A s \in FileSiteRows(commit, file) : s.file = file /\ s.caller \in Home(file)
  BY <1>3 DEF FileSiteRows, SiteOf, batch
<1>10. AtHome'
  BY <1>1, <1>2, <1>7, <1>8, <1>9 DEF AtHome, SitesAtHome, IfacesAtHome, EdgesAtHome, Treating, sites
<1>11. At(graph'.sites, file) = FileSiteRows(commit, file) /\ \A f \in File \ {file} : At(graph'.sites, f) = At(graph.sites, f)
  BY <1>1, <1>2, <1>7, <1>8, <1>9 DEF At, sites
<1>12. TreatedSoFar'
  BY <1>1, <1>2, <1>11 DEF TreatedSoFar, Treating
<1>13. OthersSettled'
  BY <1>1, <1>2, <1>11, OthersKept
<1>14. graph'.sites = graph.sites \cup FileSiteRows(commit, file)
  BY <1>2, <1>7, <1>8 DEF sites
<1>. QED
  BY <1>1, <1>10, <1>12, <1>13, <1>14

LEMMA ContainedIfaces ==
  ASSUME V2Assumed, Contained, InsertFileIfaces
  PROVE  Contained' /\ graph'.ifaces = graph.ifaces \cup FileIfaces(commit, file)
<1>. USE DEF Contained
<1>. DEFINE batch == FileIfaces(commit, file)
            ifaces == graph.ifaces
<1>1. /\ V2TypeOK' /\ file \in todo /\ file \in File /\ at = "ifaces" /\ at' = "recompute"
      /\ commit \in Branches /\ At(ifaces, file) = {} /\ IfacesAtHome(ifaces) /\ ifaces \subseteq TypeIface
  BY TypeUpdate DEF UpdateStep, InsertFileIfaces, Goto, V2TypeOK, TreatedSoFar, Treating, AtHome
<1>2. /\ graph'.ifaces = InsertTypeIfaces(ifaces, batch)
      /\ graph'.edges = graph.edges /\ graph'.sites = graph.sites /\ graph'.symbols = graph.symbols
      /\ UNCHANGED <<commit, todo, file, broken, recheck>>
  BY DEF InsertFileIfaces, Goto, V2TypeOK
<1>3. \A t \in batch : t.type \in TypeHome(file) /\ t.file = file
  BY <1>1, ContributionsAtHome
<1>4. \A t \in ifaces : t.type \in TypeHome(t.file) /\ t.file \in File /\ t.file # file
  BY <1>1 DEF IfacesAtHome, TypeIface, At
<1>. HIDE DEF batch, ifaces
<1>5. \A t \in ifaces, b \in batch : ~SameTypeIface(t, b)
  BY <1>1, <1>3, <1>4, OneHome DEF SameTypeIface, V2Assumed
<1>6. InsertTypeIfaces(ifaces, batch) = ifaces \cup batch
  BY <1>5, InsertIfacesAll
<1>7. AtHome'
  BY <1>1, <1>2, <1>3, <1>6 DEF AtHome, SitesAtHome, IfacesAtHome, EdgesAtHome, Treating, ifaces
<1>8. At(graph'.ifaces, file) = FileIfaces(commit, file) /\ \A f \in File \ {file} : At(graph'.ifaces, f) = At(graph.ifaces, f)
  BY <1>1, <1>2, <1>3, <1>6 DEF At, ifaces, batch
<1>9. TreatedSoFar'
  BY <1>1, <1>2, <1>8 DEF TreatedSoFar, Treating
<1>10. OthersSettled'
  BY <1>1, <1>2, <1>8, OthersKept
<1>11. graph'.ifaces = graph.ifaces \cup FileIfaces(commit, file)
  BY <1>2, <1>6 DEF ifaces, batch
<1>. QED
  BY <1>1, <1>7, <1>9, <1>10, <1>11

\* The interface edges that come back belong to sites of other files.
LEMMA Recomputed ==
  ASSUME V2Assumed, Contained, at = "recompute"
  PROVE  \A d \in Recompute(commit, recheck) :
           /\ d.provenance = "interface_resolved" /\ d.file \in File /\ d.file # file
           /\ d.caller \in Home(d.file)
<1>. USE DEF Contained
<1>1. commit \in Branches /\ recheck \in SUBSET Site
  BY DEF V2TypeOK
<1>2. \A s \in recheck : s.caller \in Home(s.file) /\ s.file # file /\ s.file \in File
  BY <1>1 DEF AtHome, Treating, Site
<1>. QED
  BY <1>1, <1>2, RecomputeType

LEMMA ContainedRecompute ==
  ASSUME V2Assumed, Contained, RecomputeEdges
  PROVE  Contained'
<1>. USE DEF Contained
<1>1. V2TypeOK' /\ file \in todo /\ file \in File /\ at = "recompute" /\ at' = "file" /\ commit \in Branches
  BY TypeUpdate DEF UpdateStep, RecomputeEdges, Goto, V2TypeOK
<1>2. PICK rank \in Orders : graph' = [graph EXCEPT !.edges = InsertEdges(@, Recompute(commit, recheck), rank)]
  BY DEF RecomputeEdges
<1>3. /\ graph'.edges = InsertEdges(graph.edges, Recompute(commit, recheck), rank)
      /\ graph'.sites = graph.sites /\ graph'.ifaces = graph.ifaces /\ graph'.symbols = graph.symbols
      /\ commit' = commit /\ todo' = todo \ {file} /\ broken' = broken \ {file}
  BY <1>2 DEF RecomputeEdges, Goto, V2TypeOK
<1>4. /\ graph.edges \subseteq graph'.edges
      /\ \A e \in graph'.edges : e \in graph.edges \/
           /\ e.provenance = "interface_resolved" /\ e.file # file /\ e.caller \in Home(e.file)
  <2>1. \A e \in graph'.edges : e \in graph.edges \/ \E d \in Recompute(commit, recheck) : e = EdgeOf(d)
    BY <1>3 DEF InsertEdges
  <2>2. graph.edges \subseteq graph'.edges
    BY <1>3 DEF InsertEdges
  <2>. QED
    BY <1>1, <2>1, <2>2, Recomputed DEF EdgeOf
<1>5. \A f : Direct(At(graph'.edges, f)) = Direct(At(graph.edges, f))
  BY <1>4 DEF Direct, At
<1>6. AtHome'
  BY <1>1, <1>3, <1>4 DEF AtHome, SitesAtHome, IfacesAtHome, EdgesAtHome, Treating
<1>7. Settled(graph, commit, file)
  BY <1>1 DEF TreatedSoFar, Treating, Settled
<1>8. \A f \in File \ (todo' \cup broken') : Settled(graph, commit, f)
  BY <1>3, <1>7 DEF OthersSettled
<1>9. OthersSettled'
  BY <1>3, <1>5, <1>8, SettledKept DEF OthersSettled
<1>. QED
  BY <1>1, <1>6, <1>9 DEF TreatedSoFar, Treating

LEMMA ContainedStep == V2Assumed /\ Contained /\ [Next]_vars => Contained'
<1>. SUFFICES ASSUME V2Assumed, Contained, [Next]_vars PROVE Contained'
  OBVIOUS
<1>. USE DEF Contained
<1>1. V2TypeOK'
  BY TypeStep
<1>2. CASE SkipFile
  <2>1. PICK f \in IF at = "file" THEN FirstOf(todo) ELSE {file} : todo' = todo \ {f} /\ broken' = broken \cup {f}
    BY <1>2 DEF SkipFile
  <2>2. graph' = graph /\ commit' = commit /\ at' = "file"
    BY <1>2 DEF SkipFile
  <2>3. AtHome' /\ TreatedSoFar'
    BY <2>2 DEF AtHome, EdgesAtHome, SitesAtHome, IfacesAtHome, Treating, TreatedSoFar
  <2>4. OthersSettled'
    BY <2>1, <2>2 DEF OthersSettled
  <2>. QED
    BY <1>1, <2>3, <2>4
<1>3. CASE Compare \/ NoComparison
  <2>1. graph' = graph /\ commit' = commit /\ at' = "idle" /\ todo' = todo /\ broken' = broken
    BY <1>3 DEF Compare, NoComparison
  <2>2. AtHome' /\ TreatedSoFar' /\ OthersSettled'
    BY <2>1 DEF AtHome, EdgesAtHome, SitesAtHome, IfacesAtHome, Treating, TreatedSoFar, OthersSettled
  <2>. QED
    BY <1>1, <2>2
<1>4. CASE UNCHANGED vars
  <2>1. UNCHANGED <<graph, commit, at, todo, file, recheck, broken>>
    BY <1>4 DEF vars
  <2>2. AtHome' /\ TreatedSoFar' /\ OthersSettled'
    BY <2>1 DEF AtHome, EdgesAtHome, SitesAtHome, IfacesAtHome, Treating, TreatedSoFar, OthersSettled
  <2>. QED
    BY <1>1, <2>2
<1>. QED
  BY <1>2, <1>3, <1>4, ContainedCommit, ContainedRetract, ContainedCallSites, ContainedSymbols,
     ContainedEdges, ContainedSites, ContainedIfaces, ContainedRecompute
     DEF Next, NextCommit, UpdateStep

LEMMA ContainedHolds == V2Assumed => (Spec => []Contained)
<1>. SUFFICES ASSUME V2Assumed PROVE Spec => []Contained
  OBVIOUS
<1>. QED
  BY ContainedInit, ContainedStep, PTL DEF Spec

LEMMA SettledIsOwn ==
  ASSUME V2Assumed, NEW p \in Branches, NEW f \in File, NEW g, Settled(g, p, f)
  PROVE  OwnRows(g, f) = OwnRows(BuildV2(p), f)
<1>1. \A h : OwnRows(h, f) =
        [edges |-> Direct(At(h.edges, f)), sites |-> At(h.sites, f),
         ifaces |-> At(h.ifaces, f), symbols |-> At(h.symbols, f)]
  BY DEF OwnRows, Direct, At
<1>. QED
  BY <1>1, BuildIs DEF Settled

(***************************************************************************)
(* engine.go:96, for every program: wherever errors hit, and however many, *)
(* a file whose last change was brought in has its own rows right.         *)
(***************************************************************************)
THEOREM FailuresAreContained == V2Assumed => (Spec => []FailureContained)
<1>. SUFFICES ASSUME V2Assumed PROVE Spec => []FailureContained
  OBVIOUS
<1>1. Contained => FailureContained
  <2>. SUFFICES ASSUME Contained, at = "idle", NEW f \in File \ broken
                PROVE  OwnRows(graph, f) = OwnRows(BuildV2(commit), f)
    BY DEF FailureContained
  <2>1. commit \in Branches /\ todo = {}
    BY DEF Contained, V2TypeOK
  <2>2. Settled(graph, commit, f)
    BY <2>1 DEF Contained, OthersSettled
  <2>. QED
    BY <2>1, <2>2, SettledIsOwn
<1>. QED
  BY ContainedHolds, <1>1, PTL

-----------------------------------------------------------------------------
(* Without an error the tables agree.                                       *)

\* The edges of a function that come from dispatch sites.
Resolved(edges, c) == {e \in edges : e.provenance = "interface_resolved" /\ e.caller = c}

\* The edges of the callers through affected interfaces are retracted, and not
\* yet back.
Marked == Treating /\ at # "callsites"

Others == {s \in graph.sites : s.file # file}

Lost == IF Marked THEN CallersOf(Others, affected) ELSE {}

Current(f, c) == Resolved(At(graph.edges, f), c) = Resolved(FileEdges(commit, f), c)

\* Nothing that was treated so far matters to the calls of c.
Unconcerned(p, f, c) ==
  \A h \in (ChangedFiles(p, commit) \ todo) \cup (IF Marked THEN {file} ELSE {}) :
    \A s \in FileSites(commit, f) :
      s.caller = c => s.interface \notin DiffIfaceSets(FileIfaces(p, h), FileIfaces(commit, h))

Behind(p, f, c) ==
  /\ p[f] = commit[f]
  /\ Resolved(At(graph.edges, f), c) = Resolved(FileEdges(p, f), c)
  /\ Unconcerned(p, f, c)

\* The update of p's tables is under way.
Updating(p) ==
  /\ todo \subseteq ChangedFiles(p, commit)
  /\ \A f \in todo : ~(Treating /\ f = file) => At(graph.ifaces, f) = FileIfaces(p, f)
  /\ Treating => affected = DiffIfaceSets(FileIfaces(p, file), FileIfaces(commit, file))
  /\ Marked => /\ recheck = Recheck(Others, affected)
               /\ \A e \in graph.edges :
                    e.provenance = "interface_resolved" /\ e.caller \in Lost => e.file = file
  /\ \A f \in File \ todo : \A c \in Function \ Lost : Current(f, c) \/ Behind(p, f, c)

EdgesAgree == \A f \in File : At(graph.edges, f) = FileEdges(commit, f)

Exact ==
  failures = 0 =>
    /\ broken = {}
    /\ IF at = "idle" THEN EdgesAgree ELSE \E p \in Branches : Updating(p)

\* They are those of its sites.
LEMMA ResolvedIs ==
  ASSUME NEW p \in Branches, NEW f \in File, NEW c, NEW e
  PROVE  e \in Resolved(FileEdges(p, f), c) <=>
           \E s \in FileSites(p, f) : \E t \in DispatchTargets(p, s.interface, s.method) :
             /\ s.caller = c
             /\ e = [caller |-> s.caller, target |-> <<t, s.method>>, provenance |-> "interface_resolved", file |-> f]
<1>1. ASSUME e \in Resolved(FileEdges(p, f), c)
      PROVE  \E s \in FileSites(p, f) : \E t \in DispatchTargets(p, s.interface, s.method) :
               /\ s.caller = c
               /\ e = [caller |-> s.caller, target |-> <<t, s.method>>, provenance |-> "interface_resolved", file |-> f]
  <2>1. PICK d \in FileFacts(p, f) : e = EdgeOf(d)
    BY <1>1 DEF Resolved, FileEdges
  <2>2. d.provenance = "interface_resolved" /\ e.caller = c
    BY <1>1, <2>1 DEF Resolved, EdgeOf
  <2>3. PICK call \in Calls(p, f) : \E x \in DirectFacts(p, f, call) \cup DispatchFacts(p, f, call) : d = x.fact
    BY DEF FileFacts
  <2>4. PICK x \in DirectFacts(p, f, call) \cup DispatchFacts(p, f, call) : d = x.fact
    BY <2>3
  <2>5. x \notin DirectFacts(p, f, call)
    BY <2>2, <2>4 DEF DirectFacts, FactAt
  <2>6. PICK i \in StaticType(p, call.on) \cap Interface :
          \E t \in DispatchTargets(p, i, call.method) :
            x = [fact |-> FactAt(f, call, t, "interface_resolved"),
                 inputs |-> [file |-> p[f], interfaces |-> [j \in {i} |-> Implementers(p, i)]]]
    BY <2>4, <2>5 DEF DispatchFacts
  <2>7. PICK t \in DispatchTargets(p, i, call.method) :
          x = [fact |-> FactAt(f, call, t, "interface_resolved"),
               inputs |-> [file |-> p[f], interfaces |-> [j \in {i} |-> Implementers(p, i)]]]
    BY <2>6
  <2>. DEFINE s == [interface |-> i, method |-> call.method, caller |-> call.caller, file |-> f, line |-> call.line]
  <2>8. s \in FileSites(p, f)
    BY DEF FileSites
  <2>9. e = [caller |-> s.caller, target |-> <<t, s.method>>, provenance |-> "interface_resolved", file |-> f]
    BY <2>1, <2>4, <2>7 DEF EdgeOf, FactAt
  <2>10. s.caller = c /\ t \in DispatchTargets(p, s.interface, s.method)
    BY <2>2, <2>9
  <2>. HIDE DEF s
  <2>. QED
    BY <2>8, <2>9, <2>10
<1>2. ASSUME NEW s \in FileSites(p, f), NEW t \in DispatchTargets(p, s.interface, s.method), s.caller = c,
             e = [caller |-> s.caller, target |-> <<t, s.method>>, provenance |-> "interface_resolved", file |-> f]
      PROVE  e \in Resolved(FileEdges(p, f), c)
  <2>1. PICK call \in Calls(p, f) : \E i \in StaticType(p, call.on) \cap Interface :
          s = [interface |-> i, method |-> call.method, caller |-> call.caller, file |-> f, line |-> call.line]
    BY DEF FileSites
  <2>2. PICK i \in StaticType(p, call.on) \cap Interface :
          s = [interface |-> i, method |-> call.method, caller |-> call.caller, file |-> f, line |-> call.line]
    BY <2>1
  <2>. DEFINE x == [fact |-> FactAt(f, call, t, "interface_resolved"),
                    inputs |-> [file |-> p[f], interfaces |-> [j \in {i} |-> Implementers(p, i)]]]
  <2>3. t \in DispatchTargets(p, i, call.method)
    BY <2>2
  <2>4. x \in DispatchFacts(p, f, call)
    BY <2>3 DEF DispatchFacts
  <2>5. x.fact \in FileFacts(p, f)
    <3>. HIDE DEF x
    <3>. QED
      BY <2>4 DEF FileFacts
  <2>6. e = EdgeOf(x.fact)
    BY <1>2, <2>2 DEF EdgeOf, FactAt
  <2>7. e \in FileEdges(p, f)
    <3>. HIDE DEF x
    <3>. QED
      BY <2>5, <2>6 DEF FileEdges
  <2>. QED
    BY <1>2, <2>7 DEF Resolved
<1>. QED
  BY <1>1, <1>2

\* A file's edges are its direct ones and the resolved ones of each function.
LEMMA EdgesFromParts ==
  ASSUME NEW E \in SUBSET Edge, NEW D \in SUBSET Edge, Direct(E) = Direct(D),
         \A c \in Function : Resolved(E, c) = Resolved(D, c)
  PROVE  E = D
<1>1. ASSUME NEW A \in SUBSET Edge, NEW B \in SUBSET Edge, Direct(A) = Direct(B),
             \A c \in Function : Resolved(A, c) = Resolved(B, c), NEW e \in A
      PROVE  e \in B
  <2>1. e.provenance \in {"direct_call", "interface_resolved"} /\ e.caller \in Function
    BY DEF Edge
  <2>2. CASE e.provenance = "direct_call"
    BY <1>1, <2>2 DEF Direct
  <2>3. CASE e.provenance = "interface_resolved"
    <3>1. e \in Resolved(A, e.caller)
      BY <2>3 DEF Resolved
    <3>2. e \in Resolved(B, e.caller)
      BY <1>1, <2>1, <3>1
    <3>. QED
      BY <3>2 DEF Resolved
  <2>. QED
    BY <2>1, <2>2, <2>3
<1>. QED
  BY <1>1

LEMMA FileEdgesType ==
  ASSUME NEW p \in Branches, NEW f \in File
  PROVE  FileEdges(p, f) \in SUBSET Edge
BY FileFactType DEF FileEdges

\* Two commits that give all files the same text are the same.
LEMMA NothingChanged ==
  ASSUME V2Assumed, NEW p \in Branches, NEW q \in Branches, ChangedGoFiles(p, q) = {}
  PROVE  p = q
<1>1. p \in Commit /\ q \in Commit
  BY BranchType
<1>2. \A f \in File : p[f] = q[f]
  BY DEF V2Assumed, NoRename, ChangedFiles
<1>. QED
  BY <1>1, <1>2 DEF Commit

LEMMA ExactCommit ==
  ASSUME V2Assumed, Contained, Exact, NEW q \in Branches,
         BeginUpdate(q) \/ CopyForward(q) \/ NoCopy(q) \/ NoParse(q)
  PROVE  Exact'
<1>1. at = "idle" /\ todo = {} /\ commit' = q /\ commit \in Branches /\ failures \in Nat
  BY V2Assumption DEF BeginUpdate, CopyForward, NoCopy, NoParse, Take, Contained, V2TypeOK
<1>2. CASE NoCopy(q) \/ NoParse(q)
  <2>1. failures' # 0
    BY <1>1, <1>2 DEF NoCopy, NoParse, Fails
  <2>. QED
    BY <2>1 DEF Exact
<1>3. CASE CopyForward(q)
  <2>1. commit = q
    BY <1>1, <1>3, NothingChanged DEF CopyForward
  <2>. QED
    BY <1>1, <1>3, <2>1 DEF CopyForward, Exact, EdgesAgree
<1>4. CASE BeginUpdate(q) /\ failures = 0
  <2>0. PICK p \in Branches : p = commit
    BY <1>1
  <2>1. /\ graph' = graph /\ at' = "file" /\ broken' = {} /\ broken = {} /\ EdgesAgree /\ failures' = 0
        /\ todo' = ChangedFiles(p, q) /\ file' = file
    BY <1>1, <1>4, <2>0 DEF BeginUpdate, Take, Exact, V2Assumed, NoRename
  <2>2. ~Treating' /\ ~Marked' /\ Lost' = {}
    BY <2>1 DEF Treating, Marked, Lost
  <2>3. \A f \in todo' : At(graph'.ifaces, f) = FileIfaces(p, f)
    <3>1. \A f \in File : Settled(graph, commit, f)
      BY <1>1, <2>1 DEF Contained, OthersSettled
    <3>. QED
      BY <2>0, <2>1, <3>1 DEF Settled, ChangedFiles
  <2>4. ASSUME NEW f \in File \ todo', NEW c \in Function
        PROVE  Behind(p, f, c)'
    <3>1. p[f] = commit'[f]
      BY <1>1, <2>0, <2>1 DEF ChangedFiles
    <3>2. Resolved(At(graph'.edges, f), c) = Resolved(FileEdges(p, f), c)
      BY <2>0, <2>1 DEF EdgesAgree
    <3>3. Unconcerned(p, f, c)'
      BY <1>1, <2>1, <2>2 DEF Unconcerned
    <3>. QED
      BY <3>1, <3>2, <3>3 DEF Behind
  <2>5. Updating(p)'
    BY <1>1, <2>1, <2>2, <2>3, <2>4 DEF Updating
  <2>. QED
    BY <1>1, <2>1, <2>5 DEF Exact
<1>5. CASE BeginUpdate(q) /\ failures # 0
  BY <1>5 DEF BeginUpdate, Exact
<1>. QED
  BY <1>2, <1>3, <1>4, <1>5

LEMMA ExactRetract ==
  ASSUME V2Assumed, Contained, Retract, NEW p \in Branches, Updating(p)
  PROVE  Updating(p)'
<1>1. PICK f \in FirstOf(todo) :
        /\ file' = f
        /\ affected' = DiffIfaceSets({t \in graph.ifaces : t.file = f}, FileIfaces(commit, f))
        /\ graph' = RetractFile(graph, f)
  BY DEF Retract
<1>2. f \in todo /\ at = "file" /\ at' = "callsites" /\ UNCHANGED <<commit, todo>>
  BY DEF Retract, Goto, FirstOf
<1>3. ~Treating /\ ~Marked /\ Lost = {} /\ Treating' /\ ~Marked' /\ Lost' = {}
  BY <1>2 DEF Treating, Marked, Lost
<1>4. \A g : g # f => At(graph'.edges, g) = At(graph.edges, g) /\ At(graph'.ifaces, g) = At(graph.ifaces, g)
  BY <1>1 DEF RetractFile, At
<1>5. affected' = DiffIfaceSets(FileIfaces(p, f), FileIfaces(commit, f))
  <2>1. At(graph.ifaces, f) = FileIfaces(p, f)
    BY <1>2, <1>3 DEF Updating
  <2>. QED
    BY <1>1, <2>1 DEF At
<1>6. ASSUME NEW g \in File \ todo, NEW c \in Function
      PROVE  (Current(g, c) \/ Behind(p, g, c))'
  <2>1. Current(g, c) \/ Behind(p, g, c)
    BY <1>3 DEF Updating
  <2>2. At(graph'.edges, g) = At(graph.edges, g)
    BY <1>2, <1>4
  <2>3. Current(g, c)' <=> Current(g, c)
    BY <1>2, <2>2 DEF Current
  <2>4. Unconcerned(p, g, c)' <=> Unconcerned(p, g, c)
    BY <1>2, <1>3 DEF Unconcerned
  <2>5. Behind(p, g, c)' <=> Behind(p, g, c)
    BY <1>2, <2>2, <2>4 DEF Behind
  <2>. QED
    BY <2>1, <2>3, <2>5
<1>7. \A g \in todo' : ~(Treating' /\ g = file') => At(graph'.ifaces, g) = FileIfaces(p, g)
  BY <1>1, <1>2, <1>3, <1>4 DEF Updating
<1>8. todo' \subseteq ChangedFiles(p, commit')
  BY <1>2 DEF Updating
<1>. QED
  BY <1>1, <1>2, <1>3, <1>5, <1>6, <1>7, <1>8 DEF Updating

LEMMA ExactCallSites ==
  ASSUME V2Assumed, Contained, broken = {}, RetractCallSites, NEW p \in Branches, Updating(p)
  PROVE  Updating(p)'
<1>1. /\ at = "callsites" /\ at' = "symbols" /\ file \in todo
      /\ graph'.edges = RetractInterfaceEdges(graph.edges, CallersOf(graph.sites, affected))
      /\ graph'.sites = graph.sites /\ graph'.ifaces = graph.ifaces
      /\ recheck' = Recheck(graph.sites, affected)
      /\ UNCHANGED <<commit, todo, file, affected>>
  BY DEF RetractCallSites, Goto, Contained, V2TypeOK
<1>2. Treating /\ ~Marked /\ Lost = {} /\ Treating' /\ Marked'
  BY <1>1 DEF Treating, Marked, Lost
<1>3. Others = graph.sites /\ Others' = graph.sites
  <2>1. At(graph.sites, file) = {}
    BY <1>1, <1>2 DEF Contained, TreatedSoFar
  <2>2. \A s \in graph.sites : s.file # file
    BY <2>1 DEF At
  <2>. QED
    BY <1>1, <2>2 DEF Others
<1>4. Lost' = CallersOf(graph.sites, affected)
  BY <1>1, <1>2, <1>3 DEF Lost
<1>5. \A e \in graph'.edges : ~(e.provenance = "interface_resolved" /\ e.caller \in Lost')
  BY <1>1, <1>4 DEF RetractInterfaceEdges
<1>6. \A g, c : c \notin Lost' => Resolved(At(graph'.edges, g), c) = Resolved(At(graph.edges, g), c)
  BY <1>1, <1>4 DEF RetractInterfaceEdges, Resolved, At
<1>7. ASSUME NEW g \in File \ todo, NEW c \in Function \ Lost'
      PROVE  (Current(g, c) \/ Behind(p, g, c))'
  <2>1. Current(g, c) \/ Behind(p, g, c)
    BY <1>2 DEF Updating
  <2>2. CASE Current(g, c)
    BY <1>1, <1>6, <2>2 DEF Current
  <2>3. CASE Behind(p, g, c)
    <3>1. At(graph.sites, g) = FileSiteRows(commit, g)
      BY DEF Contained, OthersSettled, Settled
    <3>2. ASSUME NEW s \in FileSites(commit, g), s.caller = c
          PROVE  s.interface \notin affected
      <4>1. SiteOf(s, g) \in graph.sites
        BY <3>1 DEF FileSiteRows, At
      <4>2. SiteOf(s, g).caller = c /\ SiteOf(s, g).interface = s.interface
        BY <3>2 DEF SiteOf
      <4>. QED
        BY <1>4, <4>1, <4>2 DEF CallersOf
    <3>3. affected = DiffIfaceSets(FileIfaces(p, file), FileIfaces(commit, file))
      BY <1>2 DEF Updating
    <3>4. Unconcerned(p, g, c)'
      BY <1>1, <1>2, <2>3, <3>2, <3>3 DEF Behind, Unconcerned
    <3>. QED
      BY <1>1, <1>6, <2>3, <3>4 DEF Behind
  <2>. QED
    BY <2>1, <2>2, <2>3
<1>8. recheck' = Recheck(Others', affected')
  BY <1>1, <1>3
<1>9. /\ todo' \subseteq ChangedFiles(p, commit')
      /\ \A f \in todo' : ~(Treating' /\ f = file') => At(graph'.ifaces, f) = FileIfaces(p, f)
      /\ affected' = DiffIfaceSets(FileIfaces(p, file'), FileIfaces(commit', file'))
  BY <1>1, <1>2 DEF Updating
<1>. QED
  BY <1>1, <1>2, <1>5, <1>7, <1>8, <1>9 DEF Updating

\* Inserting the rows of the file itself concerns no other one.
LEMMA ExactInsert ==
  ASSUME NEW p \in Branches, Updating(p), Marked, Marked', file \in todo,
         UNCHANGED <<commit, todo, file, affected, recheck>>,
         \A f \in File \ {file} : At(graph'.edges, f) = At(graph.edges, f) /\ At(graph'.ifaces, f) = At(graph.ifaces, f),
         \A e \in graph'.edges : e \in graph.edges \/ e.file = file,
         Others' = Others, todo \subseteq File
  PROVE  Updating(p)'
<1>1. Treating /\ Treating' /\ Lost' = Lost
  BY DEF Marked, Lost
<1>2. ASSUME NEW g \in File \ todo, NEW c \in Function \ Lost
      PROVE  (Current(g, c) \/ Behind(p, g, c))'
  <2>1. Current(g, c) \/ Behind(p, g, c)
    BY DEF Updating
  <2>2. Current(g, c)' <=> Current(g, c)
    BY DEF Current
  <2>3. Unconcerned(p, g, c)' <=> Unconcerned(p, g, c)
    BY DEF Unconcerned
  <2>4. Behind(p, g, c)' <=> Behind(p, g, c)
    BY <2>3 DEF Behind
  <2>. QED
    BY <2>1, <2>2, <2>4
<1>3. /\ todo' \subseteq ChangedFiles(p, commit')
      /\ \A f \in todo' : ~(Treating' /\ f = file') => At(graph'.ifaces, f) = FileIfaces(p, f)
      /\ affected' = DiffIfaceSets(FileIfaces(p, file'), FileIfaces(commit', file'))
      /\ recheck' = Recheck(Others', affected')
  BY <1>1 DEF Updating
<1>4. \A e \in graph'.edges : e.provenance = "interface_resolved" /\ e.caller \in Lost' => e.file = file'
  BY <1>1 DEF Updating
<1>. QED
  BY <1>1, <1>2, <1>3, <1>4 DEF Updating

LEMMA ExactInserts ==
  ASSUME V2Assumed, Contained, InsertFileSymbols \/ InsertFileEdges \/ InsertFileSites \/ InsertFileIfaces,
         NEW p \in Branches, Updating(p)
  PROVE  Updating(p)'
<1>1. /\ Marked /\ Marked' /\ file \in todo /\ todo \subseteq File /\ commit \in Branches
      /\ UNCHANGED <<commit, todo, file, affected, recheck>>
  BY DEF InsertFileSymbols, InsertFileEdges, InsertFileSites, InsertFileIfaces, Goto, Marked, Treating, Contained, V2TypeOK
<1>2. CASE InsertFileSymbols
  <2>1. graph'.edges = graph.edges /\ graph'.sites = graph.sites /\ graph'.ifaces = graph.ifaces
    BY <1>2 DEF InsertFileSymbols, Contained, V2TypeOK
  <2>2. Others' = Others
    BY <1>1, <2>1 DEF Others
  <2>. QED
    BY <1>1, <2>1, <2>2, ExactInsert
<1>3. CASE InsertFileEdges
  <2>1. graph'.sites = graph.sites /\ graph'.ifaces = graph.ifaces
    BY <1>3 DEF InsertFileEdges, Contained, V2TypeOK
  <2>2. Others' = Others
    BY <1>1, <2>1 DEF Others
  <2>3. \A f \in File \ {file} : At(graph'.edges, f) = At(graph.edges, f)
    BY <1>3, FileEdgesInserted
  <2>4. \A e \in graph'.edges : e \in graph.edges \/ e.file = file
    <3>1. graph'.edges = InsertEdges(graph.edges, FileFacts(commit, file), Rank)
      BY <1>3 DEF InsertFileEdges, Contained, V2TypeOK
    <3>2. \A d \in FileFacts(commit, file) : EdgeOf(d).file = file
      BY <1>1, FileFactType
    <3>. QED
      BY <3>1, <3>2 DEF InsertEdges
  <2>. QED
    BY <1>1, <2>1, <2>2, <2>3, <2>4, ExactInsert
<1>4. CASE InsertFileSites
  <2>1. graph'.edges = graph.edges /\ graph'.ifaces = graph.ifaces
    BY <1>4 DEF InsertFileSites, Contained, V2TypeOK
  <2>2. graph'.sites = graph.sites \cup FileSiteRows(commit, file)
    BY <1>4, ContainedSites
  <2>3. \A s \in FileSiteRows(commit, file) : s.file = file
    BY DEF FileSiteRows, SiteOf
  <2>4. Others' = Others
    BY <1>1, <2>2, <2>3 DEF Others
  <2>. QED
    BY <1>1, <2>1, <2>4, ExactInsert
<1>5. CASE InsertFileIfaces
  <2>1. graph'.edges = graph.edges /\ graph'.sites = graph.sites
    BY <1>5 DEF InsertFileIfaces, Contained, V2TypeOK
  <2>2. graph'.ifaces = graph.ifaces \cup FileIfaces(commit, file)
    BY <1>5, ContainedIfaces
  <2>3. \A t \in FileIfaces(commit, file) : t.file = file
    BY <1>1, FileIfaceType
  <2>4. \A f \in File \ {file} : At(graph'.ifaces, f) = At(graph.ifaces, f)
    BY <2>2, <2>3 DEF At
  <2>5. Others' = Others
    BY <1>1, <2>1 DEF Others
  <2>. QED
    BY <1>1, <2>1, <2>4, <2>5, ExactInsert
<1>. QED
  BY <1>2, <1>3, <1>4, <1>5

LEMMA RecomputeHas ==
  ASSUME NEW p, NEW sites, NEW s \in sites, NEW t \in DispatchTargets(p, s.interface, s.method)
  PROVE  [caller |-> s.caller, target |-> <<t, s.method>>, provenance |-> "interface_resolved",
          file |-> s.file, line |-> 0] \in Recompute(p, sites)
<1>. DEFINE Rows(r) ==
       {[caller |-> r.caller, target |-> <<u, r.method>>, provenance |-> "interface_resolved",
         file |-> r.file, line |-> 0] : u \in DispatchTargets(p, r.interface, r.method)}
<1>1. Recompute(p, sites) = UNION {Rows(r) : r \in sites}
  BY Zenon DEF Recompute
<1>2. [caller |-> s.caller, target |-> <<t, s.method>>, provenance |-> "interface_resolved",
       file |-> s.file, line |-> 0] \in Rows(s)
  OBVIOUS
<1>. HIDE DEF Rows
<1>. QED
  BY <1>1, <1>2

\* What the sites that were read expand to, of a file that is settled.
LEMMA RecomputeIs ==
  ASSUME V2Assumed, Contained, broken = {}, at = "recompute", NEW p \in Branches, Updating(p),
         NEW f \in File, f \notin todo, NEW c, NEW e
  PROVE  (e \in {EdgeOf(d) : d \in At(Recompute(commit, recheck), f)} /\ e.caller = c) <=>
           (c \in Lost /\ e \in Resolved(FileEdges(commit, f), c))
<1>1. /\ commit \in Branches /\ recheck = Recheck(Others, affected) /\ Lost = CallersOf(Others, affected)
      /\ file \in todo /\ At(graph.sites, f) = FileSiteRows(commit, f)
  BY DEF Contained, V2TypeOK, OthersSettled, Settled, Updating, Marked, Treating, Lost
<1>2. f # file
  BY <1>1
<1>3. ASSUME e \in {EdgeOf(d) : d \in At(Recompute(commit, recheck), f)}, e.caller = c
      PROVE  c \in Lost /\ e \in Resolved(FileEdges(commit, f), c)
  <2>1. PICK d \in Recompute(commit, recheck) : d.file = f /\ e = EdgeOf(d)
    BY <1>3 DEF At
  <2>2. PICK s \in recheck : \E t \in DispatchTargets(commit, s.interface, s.method) :
          d = [caller |-> s.caller, target |-> <<t, s.method>>, provenance |-> "interface_resolved",
               file |-> s.file, line |-> 0]
    BY <2>1 DEF Recompute
  <2>3. PICK t \in DispatchTargets(commit, s.interface, s.method) :
          d = [caller |-> s.caller, target |-> <<t, s.method>>, provenance |-> "interface_resolved",
               file |-> s.file, line |-> 0]
    BY <2>2
  <2>4. s.file = f /\ s \in graph.sites /\ s.caller \in Lost
    BY <1>1, <2>1, <2>3 DEF Recheck, Others
  <2>5. PICK x \in FileSites(commit, f) : s = SiteOf(x, f)
    BY <1>1, <2>4 DEF FileSiteRows, At
  <2>6. x.caller = s.caller /\ x.interface = s.interface /\ x.method = s.method
    BY <2>5 DEF SiteOf
  <2>7. e = [caller |-> x.caller, target |-> <<t, x.method>>, provenance |-> "interface_resolved", file |-> f]
    BY <2>1, <2>3, <2>4, <2>6 DEF EdgeOf
  <2>8. x.caller = c
    BY <1>3, <2>7
  <2>9. t \in DispatchTargets(commit, x.interface, x.method)
    BY <2>6
  <2>10. e \in Resolved(FileEdges(commit, f), c)
    BY <1>1, <2>7, <2>8, <2>9, ResolvedIs
  <2>. QED
    BY <2>4, <2>6, <2>8, <2>10
<1>4. ASSUME c \in Lost, e \in Resolved(FileEdges(commit, f), c)
      PROVE  e \in {EdgeOf(d) : d \in At(Recompute(commit, recheck), f)} /\ e.caller = c
  <2>1. PICK x \in FileSites(commit, f) : \E t \in DispatchTargets(commit, x.interface, x.method) :
          /\ x.caller = c
          /\ e = [caller |-> x.caller, target |-> <<t, x.method>>, provenance |-> "interface_resolved", file |-> f]
    BY <1>1, <1>4, ResolvedIs
  <2>2. PICK t \in DispatchTargets(commit, x.interface, x.method) :
          /\ x.caller = c
          /\ e = [caller |-> x.caller, target |-> <<t, x.method>>, provenance |-> "interface_resolved", file |-> f]
    BY <2>1
  <2>. DEFINE s == SiteOf(x, f)
              d == [caller |-> s.caller, target |-> <<t, s.method>>, provenance |-> "interface_resolved",
                    file |-> s.file, line |-> 0]
  <2>3. s.caller = c /\ s.file = f /\ s.interface = x.interface /\ s.method = x.method
    BY <2>2 DEF SiteOf
  <2>4. s \in graph.sites
    BY <1>1 DEF FileSiteRows, At
  <2>. HIDE DEF s
  <2>5. s \in recheck
    BY <1>1, <1>2, <1>4, <2>3, <2>4 DEF Recheck, Others
  <2>6. t \in DispatchTargets(commit, s.interface, s.method)
    BY <2>3
  <2>7. d \in Recompute(commit, recheck)
    BY <2>5, <2>6, RecomputeHas
  <2>8. d.file = f /\ EdgeOf(d) = e
    BY <2>2, <2>3 DEF EdgeOf
  <2>9. e.caller = c
    BY <2>2
  <2>. HIDE DEF d
  <2>. QED
    BY <2>7, <2>8, <2>9 DEF At
<1>. QED
  BY <1>3, <1>4

\* They all go in: nothing of the file holds their keys.
LEMMA RecomputeInserted ==
  ASSUME V2Assumed, Contained, broken = {}, at = "recompute", NEW p \in Branches, Updating(p),
         NEW f \in File, f \notin todo, NEW rank
  PROVE  At(InsertEdges(graph.edges, Recompute(commit, recheck), rank), f) =
           At(graph.edges, f) \cup {EdgeOf(d) : d \in At(Recompute(commit, recheck), f)}
<1>. DEFINE batch == Recompute(commit, recheck)
<1>1. /\ commit \in Branches /\ file \in todo /\ graph.edges \subseteq Edge /\ EdgesAtHome(graph.edges)
      /\ Direct(At(graph.edges, f)) = Direct(FileEdges(commit, f)) /\ Marked
  BY DEF Contained, V2TypeOK, OthersSettled, Settled, AtHome, Marked, Treating
<1>2. \A e \in graph.edges : e.file \in File /\ e.caller \in Home(e.file)
                             /\ e.provenance \in {"direct_call", "interface_resolved"}
  BY <1>1 DEF EdgesAtHome, Edge
<1>3. \A d \in batch : /\ d.provenance = "interface_resolved" /\ d.file \in File /\ d.file # file
                       /\ d.caller \in Home(d.file)
  BY Recomputed
<1>. HIDE DEF batch
<1>4. \A e \in graph.edges, d \in batch : SameEdge(e, d) => e.file = d.file
  BY <1>2, <1>3, OneHome DEF SameEdge, V2Assumed
<1>5. \A b, d \in batch : SameEdge(b, d) => b.file = d.file
  BY <1>3, OneHome DEF SameEdge, V2Assumed
<1>6. \A b, d \in batch : SameEdge(b, d) /\ d.file = f => EdgeOf(b) = EdgeOf(d)
  BY <1>3, <1>5 DEF SameEdge, EdgeOf
<1>7. ASSUME NEW e \in graph.edges, NEW d \in batch, SameEdge(e, d), d.file = f
      PROVE  FALSE
  <2>1. e.file = f /\ e.caller = d.caller /\ e.target = d.target
    BY <1>4, <1>7 DEF SameEdge
  <2>2. EdgeOf(d) \in {EdgeOf(x) : x \in At(batch, f)} /\ EdgeOf(d).caller = d.caller
    BY <1>7 DEF At, EdgeOf
  <2>3. d.caller \in Lost /\ EdgeOf(d) \in Resolved(FileEdges(commit, f), d.caller)
    BY <2>2, RecomputeIs DEF batch
  <2>4. e.provenance = "direct_call"
    BY <1>1, <1>2, <2>1, <2>3, <1>3, <1>7 DEF Updating
  <2>5. e \in FileEdges(commit, f)
    BY <1>1, <2>1, <2>4 DEF Direct, At
  <2>6. PICK x \in FileFacts(commit, f) : e = EdgeOf(x)
    BY <2>5 DEF FileEdges
  <2>7. PICK y \in FileFacts(commit, f) : EdgeOf(d) = EdgeOf(y)
    BY <2>3 DEF FileEdges, Resolved
  <2>8. /\ x.caller = e.caller /\ x.target = e.target /\ x.provenance = e.provenance
        /\ y.caller = d.caller /\ y.target = d.target /\ y.provenance = d.provenance
    <3>1. \A u : /\ EdgeOf(u).caller = u.caller /\ EdgeOf(u).target = u.target
                 /\ EdgeOf(u).provenance = u.provenance
      BY DEF EdgeOf
    <3>. QED
      BY <2>6, <2>7, <3>1
  <2>9. SameEdge(x, y) /\ x.provenance = "direct_call" /\ y.provenance = "interface_resolved"
    BY <1>3, <2>1, <2>4, <2>8 DEF SameEdge
  <2>. QED
    BY <1>1, <2>9 DEF V2Assumed, OneProvenance
<1>8. \A e \in graph.edges, d \in batch : SameEdge(e, d) /\ d.file = f => e = EdgeOf(d)
  BY <1>7
<1>9. At(InsertEdges(graph.edges, batch, rank), f) = At(graph.edges, f) \cup {EdgeOf(d) : d \in At(batch, f)}
  BY <1>4, <1>5, <1>6, <1>8, InsertEdgesAt
<1>. QED
  BY <1>9 DEF batch

LEMMA ExactRecompute ==
  ASSUME V2Assumed, Contained, broken = {}, RecomputeEdges, NEW p \in Branches, Updating(p)
  PROVE  Updating(p)'
<1>1. PICK rank \in Orders : graph' = [graph EXCEPT !.edges = InsertEdges(@, Recompute(commit, recheck), rank)]
  BY DEF RecomputeEdges
<1>2. /\ at = "recompute" /\ at' = "file" /\ file \in todo /\ file \in File /\ commit \in Branches
      /\ graph'.edges = InsertEdges(graph.edges, Recompute(commit, recheck), rank)
      /\ graph'.ifaces = graph.ifaces /\ commit' = commit /\ todo' = todo \ {file}
  BY <1>1 DEF RecomputeEdges, Goto, Contained, V2TypeOK
<1>3. Treating /\ Marked /\ ~Treating' /\ ~Marked' /\ Lost' = {}
  BY <1>2 DEF Treating, Marked, Lost
<1>4. ASSUME NEW c \in Function
      PROVE  Resolved(At(graph'.edges, file), c) = Resolved(FileEdges(commit', file), c)
  <2>1. At(graph.edges, file) = FileEdges(commit, file)
    BY <1>2, <1>3 DEF Contained, TreatedSoFar
  <2>2. \A e \in graph'.edges : e \in graph.edges \/ e.file # file
    <3>1. \A d \in Recompute(commit, recheck) : EdgeOf(d).file # file
      BY <1>2, Recomputed DEF EdgeOf
    <3>. QED
      BY <1>2, <3>1 DEF InsertEdges
  <2>3. graph.edges \subseteq graph'.edges
    BY <1>2 DEF InsertEdges
  <2>4. At(graph'.edges, file) = FileEdges(commit, file)
    BY <2>1, <2>2, <2>3 DEF At
  <2>. QED
    BY <1>2, <2>4
<1>5. ASSUME NEW f \in File, f \notin todo, NEW c \in Function
      PROVE  (Current(f, c) \/ Behind(p, f, c))'
  <2>1. At(graph'.edges, f) = At(graph.edges, f) \cup {EdgeOf(d) : d \in At(Recompute(commit, recheck), f)}
    BY <1>2, <1>5, RecomputeInserted
  <2>. DEFINE back == {EdgeOf(d) : d \in At(Recompute(commit, recheck), f)}
  <2>2. \A e : e \in back /\ e.caller = c <=> c \in Lost /\ e \in Resolved(FileEdges(commit, f), c)
    BY <1>2, <1>5, RecomputeIs
  <2>. HIDE DEF back
  <2>3. At(graph'.edges, f) = At(graph.edges, f) \cup back
    BY <2>1 DEF back
  <2>4. CASE c \in Lost
    <3>1. Resolved(At(graph.edges, f), c) = {}
      BY <1>2, <1>3, <1>5, <2>4 DEF Resolved, At, Updating
    <3>2. Resolved(At(graph'.edges, f), c) = Resolved(FileEdges(commit, f), c)
      BY <2>2, <2>3, <2>4, <3>1 DEF Resolved
    <3>. QED
      BY <1>2, <3>2 DEF Current
  <2>5. CASE c \notin Lost
    <3>1. Resolved(At(graph'.edges, f), c) = Resolved(At(graph.edges, f), c)
      BY <2>2, <2>3, <2>5 DEF Resolved
    <3>2. Current(f, c) \/ Behind(p, f, c)
      BY <1>5, <2>5 DEF Updating
    <3>3. CASE Current(f, c)
      BY <1>2, <3>1, <3>3 DEF Current
    <3>4. CASE Behind(p, f, c)
      <4>1. Unconcerned(p, f, c)'
        BY <1>2, <1>3, <3>4 DEF Behind, Unconcerned
      <4>. QED
        BY <1>2, <3>1, <3>4, <4>1 DEF Behind
    <3>. QED
      BY <3>2, <3>3, <3>4
  <2>. QED
    BY <2>4, <2>5
<1>6. ASSUME NEW f \in File \ todo', NEW c \in Function
      PROVE  (Current(f, c) \/ Behind(p, f, c))'
  <2>1. CASE f = file
    BY <1>4, <1>2, <2>1 DEF Current
  <2>2. CASE f # file
    BY <1>2, <1>5, <2>2
  <2>. QED
    BY <2>1, <2>2
<1>7. /\ todo' \subseteq ChangedFiles(p, commit')
      /\ \A f \in todo' : At(graph'.ifaces, f) = FileIfaces(p, f)
  BY <1>2 DEF Updating
<1>. QED
  BY <1>3, <1>6, <1>7 DEF Updating

\* A file that was not treated, and that nothing concerned, says what it said.
LEMMA BehindIsCurrent ==
  ASSUME V2Assumed, NEW p \in Branches, NEW f \in File, NEW c, commit \in Branches,
         todo = {}, ~Marked, Behind(p, f, c)
  PROVE  Current(f, c)
<1>1. p[f] = commit[f]
  BY DEF Behind
<1>2. FileSites(p, f) = FileSites(commit, f)
  BY <1>1 DEF V2Assumed, ReferencesLocal
<1>3. \A h \in ChangedFiles(p, commit) : \A s \in FileSites(commit, f) :
        s.caller = c => s.interface \notin DiffIfaceSets(FileIfaces(p, h), FileIfaces(commit, h))
  BY DEF Behind, Unconcerned
<1>4. \A s \in FileSites(p, f) :
        s.caller = c => DispatchTargets(p, s.interface, s.method) = DispatchTargets(commit, s.interface, s.method)
  BY <1>1, <1>2, <1>3 DEF V2Assumed, ImplementersLocal
<1>5. ASSUME NEW e
      PROVE  e \in Resolved(FileEdges(p, f), c) <=> e \in Resolved(FileEdges(commit, f), c)
  <2>1. ASSUME e \in Resolved(FileEdges(p, f), c)
        PROVE  e \in Resolved(FileEdges(commit, f), c)
    <3>1. PICK s \in FileSites(p, f) : \E t \in DispatchTargets(p, s.interface, s.method) :
            /\ s.caller = c
            /\ e = [caller |-> s.caller, target |-> <<t, s.method>>, provenance |-> "interface_resolved", file |-> f]
      BY <2>1, ResolvedIs
    <3>2. s \in FileSites(commit, f) /\ DispatchTargets(p, s.interface, s.method) = DispatchTargets(commit, s.interface, s.method)
      BY <1>2, <1>4, <3>1
    <3>. QED
      BY <3>1, <3>2, ResolvedIs
  <2>2. ASSUME e \in Resolved(FileEdges(commit, f), c)
        PROVE  e \in Resolved(FileEdges(p, f), c)
    <3>1. PICK s \in FileSites(commit, f) : \E t \in DispatchTargets(commit, s.interface, s.method) :
            /\ s.caller = c
            /\ e = [caller |-> s.caller, target |-> <<t, s.method>>, provenance |-> "interface_resolved", file |-> f]
      BY <2>2, ResolvedIs
    <3>2. s \in FileSites(p, f) /\ DispatchTargets(p, s.interface, s.method) = DispatchTargets(commit, s.interface, s.method)
      BY <1>2, <1>4, <3>1
    <3>. QED
      BY <3>1, <3>2, ResolvedIs
  <2>. QED
    BY <2>1, <2>2
<1>6. Resolved(FileEdges(p, f), c) = Resolved(FileEdges(commit, f), c)
  BY <1>5
<1>. QED
  BY <1>6 DEF Behind, Current

\* When the last file is treated all edges are right.
LEMMA ExactCompare ==
  ASSUME V2Assumed, Contained, broken = {}, at = "file", todo = {}, NEW p \in Branches, Updating(p)
  PROVE  EdgesAgree
<1>. SUFFICES ASSUME NEW f \in File
              PROVE  At(graph.edges, f) = FileEdges(commit, f)
  BY DEF EdgesAgree
<1>1. ~Marked /\ Lost = {} /\ commit \in Branches /\ graph.edges \subseteq Edge
  BY DEF Marked, Treating, Lost, Contained, V2TypeOK
<1>2. \A c \in Function : Current(f, c)
  <2>1. \A c \in Function : Current(f, c) \/ Behind(p, f, c)
    BY <1>1 DEF Updating
  <2>. QED
    BY <1>1, <2>1, BehindIsCurrent
<1>3. Direct(At(graph.edges, f)) = Direct(FileEdges(commit, f))
  BY DEF Contained, OthersSettled, Settled
<1>4. At(graph.edges, f) \in SUBSET Edge /\ FileEdges(commit, f) \in SUBSET Edge
  BY <1>1, FileEdgesType DEF At
<1>. QED
  BY <1>2, <1>3, <1>4, EdgesFromParts DEF Current

LEMMA ExactStep ==
  ASSUME V2Assumed, Contained, Exact, [Next]_vars
  PROVE  Exact'
<1>1. failures \in Nat /\ (at = "idle" => todo = {})
  BY V2Assumption DEF Contained, V2TypeOK
<1>2. CASE SkipFile \/ NoComparison
  <2>1. failures' # 0
    BY <1>1, <1>2 DEF SkipFile, NoComparison, Fails
  <2>. QED
    BY <2>1 DEF Exact
<1>3. CASE UNCHANGED vars
  <2>1. UNCHANGED <<graph, commit, at, todo, file, affected, recheck, failures, broken>>
    BY <1>3 DEF vars
  <2>2. EdgesAgree' <=> EdgesAgree
    BY <2>1 DEF EdgesAgree
  <2>3. \A p \in Branches : Updating(p)' <=> Updating(p)
    BY <2>1 DEF Updating, Current, Behind, Unconcerned, Lost, Marked, Others, Treating
  <2>. QED
    BY <2>1, <2>2, <2>3 DEF Exact
<1>4. CASE UpdateStep /\ failures = 0
  <2>1. failures' = failures /\ at # "idle"
    BY <1>4 DEF UpdateStep, Retract, RetractCallSites, InsertFileSymbols, InsertFileEdges, InsertFileSites,
       InsertFileIfaces, RecomputeEdges, Compare, Goto
  <2>2. broken = {}
    BY <1>4 DEF Exact
  <2>3. PICK p \in Branches : Updating(p)
    BY <1>4, <2>1 DEF Exact
  <2>4. CASE Compare
    <3>1. EdgesAgree
      BY <2>2, <2>3, <2>4, ExactCompare DEF Compare
    <3>. QED
      BY <2>2, <2>4, <3>1 DEF Exact, EdgesAgree, Compare
  <2>5. CASE Retract \/ RetractCallSites \/ InsertFileSymbols \/ InsertFileEdges \/ InsertFileSites
             \/ InsertFileIfaces \/ RecomputeEdges
    <3>1. Updating(p)'
      BY <2>2, <2>3, <2>5, ExactRetract, ExactCallSites, ExactInserts, ExactRecompute
    <3>2. at' # "idle" /\ broken' = {}
      BY <2>2, <2>5 DEF Retract, RetractCallSites, InsertFileSymbols, InsertFileEdges, InsertFileSites,
         InsertFileIfaces, RecomputeEdges, Goto
    <3>. QED
      BY <3>1, <3>2 DEF Exact
  <2>. QED
    BY <1>4, <2>4, <2>5 DEF UpdateStep
<1>5. CASE UpdateStep /\ failures # 0
  <2>1. failures' = failures
    BY <1>5 DEF UpdateStep, Retract, RetractCallSites, InsertFileSymbols, InsertFileEdges, InsertFileSites,
       InsertFileIfaces, RecomputeEdges, Compare, Goto
  <2>. QED
    BY <1>5, <2>1 DEF Exact
<1>. QED
  BY <1>2, <1>3, <1>4, <1>5, ExactCommit DEF Next, NextCommit

LEMMA ExactHolds == V2Assumed => (Spec => [](Contained /\ Exact))
<1>. SUFFICES ASSUME V2Assumed PROVE Spec => [](Contained /\ Exact)
  OBVIOUS
<1>1. Init => Contained /\ Exact
  <2>. SUFFICES ASSUME Init PROVE Contained /\ Exact
    OBVIOUS
  <2>1. Contained
    BY ContainedInit
  <2>2. graph = BuildV2(commit) /\ commit \in Branches /\ at = "idle" /\ broken = {}
    BY DEF Init
  <2>3. EdgesAgree
    BY <2>2, BuildIs DEF EdgesAgree
  <2>. QED
    BY <2>1, <2>2, <2>3 DEF Exact
<1>2. Contained /\ Exact /\ [Next]_vars => (Contained /\ Exact)'
  BY ContainedStep, ExactStep
<1>. QED
  BY <1>1, <1>2, PTL DEF Spec

LEMMA SameRows ==
  ASSUME NEW A, NEW B, \A r \in A : r.file \in File, \A r \in B : r.file \in File,
         \A f \in File : At(A, f) = At(B, f)
  PROVE  A = B
<1>1. ASSUME NEW r \in A
      PROVE  r \in B
  <2>1. r \in At(A, r.file) /\ At(A, r.file) = At(B, r.file)
    BY DEF At
  <2>. QED
    BY <2>1 DEF At
<1>2. ASSUME NEW r \in B
      PROVE  r \in A
  <2>1. r \in At(B, r.file) /\ At(A, r.file) = At(B, r.file)
    BY DEF At
  <2>. QED
    BY <2>1 DEF At
<1>. QED
  BY <1>1, <1>2

\* Tables that agree on the rows of every file are the same.
LEMMA TablesFromRows ==
  ASSUME V2Assumed, Contained, commit \in Branches, EdgesAgree,
         \A f \in File : Settled(graph, commit, f)
  PROVE  graph = BuildV2(commit)
<1>. DEFINE build == BuildV2(commit)
<1>1. graph \in Tables /\ build \in Tables
  BY BuildType DEF Contained, V2TypeOK, Tables
<1>2. /\ \A r \in graph.edges : r.file \in File
      /\ \A r \in graph.sites : r.file \in File
      /\ \A r \in graph.ifaces : r.file \in File
      /\ \A r \in graph.symbols : r.file \in File
  BY <1>1 DEF Tables, Edge, Site, TypeIface, SymbolRows
<1>3. /\ \A r \in build.edges : r.file \in File
      /\ \A r \in build.sites : r.file \in File
      /\ \A r \in build.ifaces : r.file \in File
      /\ \A r \in build.symbols : r.file \in File
      /\ \A f \in File :
           /\ At(build.edges, f) = At(graph.edges, f)
           /\ At(build.sites, f) = At(graph.sites, f)
           /\ At(build.ifaces, f) = At(graph.ifaces, f)
           /\ At(build.symbols, f) = At(graph.symbols, f)
  BY BuildIs DEF EdgesAgree, Settled
<1>. HIDE DEF build
<1>5. graph.edges = build.edges
  BY <1>2, <1>3, SameRows
<1>6. graph.sites = build.sites
  BY <1>2, <1>3, SameRows
<1>7. graph.ifaces = build.ifaces
  BY <1>2, <1>3, SameRows
<1>8. graph.symbols = build.symbols
  BY <1>2, <1>3, SameRows
<1>9. graph = build
  BY <1>1, <1>5, <1>6, <1>7, <1>8 DEF Tables
<1>. QED
  BY <1>9 DEF build

(***************************************************************************)
(* engine.go, for every program and every history it is made for: as long  *)
(* as nothing fails, the tables the updates leave are those of a full      *)
(* build, rows, keys and all, whatever the order of the commits.           *)
(***************************************************************************)
THEOREM UpdatesAreExact == V2Assumed => (Spec => []TablesAgree)
<1>. SUFFICES ASSUME V2Assumed PROVE Spec => []TablesAgree
  OBVIOUS
<1>1. Contained /\ Exact => TablesAgree
  <2>. SUFFICES ASSUME Contained, Exact, at = "idle", failures = 0
                PROVE  graph = BuildV2(commit)
    BY DEF TablesAgree
  <2>1. commit \in Branches /\ todo = {} /\ broken = {} /\ EdgesAgree
    BY DEF Contained, V2TypeOK, Exact
  <2>2. \A f \in File : Settled(graph, commit, f)
    BY <2>1 DEF Contained, OthersSettled
  <2>. QED
    BY <2>1, <2>2, TablesFromRows
<1>. QED
  BY ExactHolds, <1>1, PTL

\* harness.go:3, for every program and every such history.
COROLLARY VerdictsAgree == V2Assumed => (Spec => []IncrementalEqualsFull)
<1>. SUFFICES ASSUME V2Assumed PROVE Spec => []IncrementalEqualsFull
  OBVIOUS
<1>1. TablesAgree => IncrementalEqualsFull
  BY DEF TablesAgree, IncrementalEqualsFull
<1>. QED
  BY UpdatesAreExact, <1>1, PTL

-----------------------------------------------------------------------------
(* The other indexer.                                                       *)

\* Its facts are the references of all files, if its parser knows the calls.
LEMMA FactsAreReferences ==
  ASSUME NEW p \in Branches, NEW b \in Build, Variable \subseteq Classifies[b], NEW fact
  PROVE  fact \in FactsOf(p, b) <=> \E f \in File : fact \in FileFacts(p, f)
<1>1. \A f \in File : Classified(p, f, b) = Calls(p, f)
  BY BranchType DEF Classified, Call
<1>2. \A f \in File : \A call \in Calls(p, f) : f \in Files(p)
  BY DEF Calls, Files
<1>3. fact \in FactsOf(p, b) <=> \E d \in ComputeFacts(p, b) : fact = d.fact
  BY DEF FactsOf
<1>4. \A d : d \in ComputeFacts(p, b) <=>
        \E f \in Files(p) : \E call \in Classified(p, f, b) : d \in DirectFacts(p, f, call) \cup DispatchFacts(p, f, call)
  BY DerivedFrom, DispatchedThrough
<1>5. \A f : fact \in FileFacts(p, f) <=>
        \E call \in Calls(p, f) : \E d \in DirectFacts(p, f, call) \cup DispatchFacts(p, f, call) : fact = d.fact
  BY DEF FileFacts
<1>6. ASSUME fact \in FactsOf(p, b)
      PROVE  \E f \in File : fact \in FileFacts(p, f)
  <2>1. PICK d \in ComputeFacts(p, b) : fact = d.fact
    BY <1>3, <1>6
  <2>2. PICK f \in Files(p) : \E call \in Classified(p, f, b) : d \in DirectFacts(p, f, call) \cup DispatchFacts(p, f, call)
    BY <1>4
  <2>3. f \in File
    BY DEF Files
  <2>. QED
    BY <1>1, <1>5, <2>1, <2>2, <2>3
<1>7. ASSUME NEW f \in File, fact \in FileFacts(p, f)
      PROVE  fact \in FactsOf(p, b)
  BY <1>1, <1>2, <1>3, <1>4, <1>5, <1>7
<1>. QED
  BY <1>6, <1>7

\* An edge and the fact it is made of show the same.
Shown(e) == [caller |-> e.caller, target |-> e.target, provenance |-> e.provenance]

LEMMA EdgesShowFacts ==
  ASSUME V2Assumed, NEW p \in Branches, NEW b \in Build, Variable \subseteq Classifies[b]
  PROVE  EdgeSet(BuildV2(p).edges) = EdgeSet(FactsOf(p, b))
<1>1. \A rows : EdgeSet(rows) = {Shown(e) : e \in rows}
  BY DEF EdgeSet, Shown
<1>2. \A d : Shown(EdgeOf(d)) = Shown(d)
  BY DEF Shown, EdgeOf
<1>3. \A e : e \in BuildV2(p).edges <=> \E f \in File : e \in FileEdges(p, f)
  BY BuildIs DEF At
<1>4. \A e : e \in BuildV2(p).edges <=> \E f \in File : \E d \in FileFacts(p, f) : e = EdgeOf(d)
  BY <1>3 DEF FileEdges
<1>5. \A d : d \in FactsOf(p, b) <=> \E f \in File : d \in FileFacts(p, f)
  BY FactsAreReferences
<1>6. ASSUME NEW x
      PROVE  (\E e \in BuildV2(p).edges : x = Shown(e)) <=> (\E d \in FactsOf(p, b) : x = Shown(d))
  BY <1>2, <1>4, <1>5
<1>7. {Shown(e) : e \in BuildV2(p).edges} = {Shown(d) : d \in FactsOf(p, b)}
  BY <1>6
<1>. QED
  BY <1>1, <1>7

(***************************************************************************)
(* architecture.md, 9.2, for every program and every history the older     *)
(* engine is made for: it is an oracle for the newer one.                  *)
(***************************************************************************)
THEOREM OraclesAgree == V2Assumed => (Spec => []OracleAgrees)
<1>. SUFFICES ASSUME V2Assumed PROVE Spec => []OracleAgrees
  OBVIOUS
<1>1. V2TypeOK /\ TablesAgree => OracleAgrees
  BY EdgesShowFacts DEF V2TypeOK, TablesAgree, OracleAgrees
<1>. QED
  BY TypeCorrect, UpdatesAreExact, <1>1, PTL

-----------------------------------------------------------------------------
(* What a history must say for this.                                        *)

\* Without promotion a type has the methods it declares.
LEMMA OwnMethodSet ==
  ASSUME NEW p \in Branches, NothingPromoted(p), NEW t \in Type
  PROVE  MethodSet(p, t) = {m \in Method : <<t, m>> \in Methods(p)}
<1>1. ASSUME NEW m \in Method, Owners(p, t, m) # {}
      PROVE  <<t, m>> \in Methods(p)
  <2>. SUFFICES ASSUME <<t, m>> \notin Methods(p) PROVE FALSE
    OBVIOUS
  <2>1. PICK u \in Type : <<t, u>> \in Embeds(p) /\ <<u, m>> \in Methods(p)
    BY <1>1 DEF Owners
  <2>. DEFINE d == <<t, u>>
  <2>2. d \in Embeds(p) /\ <<d[2], m>> \in Methods(p) /\ d[1] = t
    BY <2>1
  <2>3. <<d[1], m>> \in Methods(p)
    BY <2>2 DEF NothingPromoted
  <2>. QED
    BY <2>2, <2>3
<1>2. ASSUME NEW m \in Method, <<t, m>> \in Methods(p)
      PROVE  Owners(p, t, m) # {}
  BY <1>2 DEF Owners
<1>. QED
  BY <1>1, <1>2 DEF MethodSet

\* A type of a file that stays has the same methods.
LEMMA SameMethods ==
  ASSUME NEW p \in Branches, NEW q \in Branches, MethodsAtHome(p),
         NEW f \in File, p[f] = q[f], NEW t \in FileTypes(p, f), NEW m, <<t, m>> \in Methods(p)
  PROVE  <<t, m>> \in Methods(q)
<1>1. PICK g \in Files(p) : <<t, m>> \in Source[p[g]].methods
  BY DEF Methods
<1>2. f \in Files(p) /\ f \in Files(q) /\ t \in Source[p[f]].types
  BY DEF FileTypes, Files
<1>. DEFINE d == <<t, m>>
<1>3. d \in Source[p[g]].methods /\ d[1] \in Source[p[f]].types
  BY <1>1, <1>2
<1>. HIDE DEF d
<1>4. g = f
  BY <1>2, <1>3 DEF MethodsAtHome
<1>. QED
  BY <1>1, <1>2, <1>4 DEF Methods

LEMMA SameIfaces ==
  ASSUME DeclarationsStay, NEW p \in Branches, NEW q \in Branches,
         NEW f \in File, p[f] = q[f], NEW t \in FileTypes(p, f), NEW i \in Interface, t \in Implementers(p, i)
  PROVE  t \in FileTypes(q, f) /\ t \in Implementers(q, i)
<1>1. /\ MethodsAtHome(p) /\ NothingPromoted(p) /\ NothingPromoted(q)
      /\ InterfacesOf(p) = InterfacesOf(q) /\ Demands(p, i) = Demands(q, i)
  BY DEF DeclarationsStay, InterfacesStay
<1>2. t \in Type /\ t \in FileTypes(q, f)
  BY BranchType DEF FileTypes
<1>3. t \in TypesOf(q)
  BY <1>2 DEF FileTypes, TypesOf, Files
<1>4. i \in InterfacesOf(p) /\ Demands(p, i) \subseteq MethodSet(p, t)
  BY DEF Implementers
<1>5. ASSUME NEW m \in Demands(q, i)
      PROVE  m \in MethodSet(q, t)
  <2>1. m \in Method /\ <<t, m>> \in Methods(p)
    BY <1>1, <1>2, <1>4, <1>5, OwnMethodSet
  <2>2. <<t, m>> \in Methods(q)
    BY <1>1, <2>1, SameMethods
  <2>. QED
    BY <1>1, <1>2, <2>1, <2>2, OwnMethodSet
<1>. QED
  BY <1>1, <1>2, <1>3, <1>4, <1>5 DEF Implementers

LEMMA FileIfaceIs ==
  ASSUME NEW p, NEW f, NEW r
  PROVE  r \in FileIfaces(p, f) <=>
           \E i \in Interface : \E t \in FileTypes(p, f) :
             t \in Implementers(p, i) /\ r = [type |-> t, interface |-> i, file |-> f]
BY DEF FileIfaces

\* The type rows of a file that stays.
LEMMA IfacesLocal ==
  ASSUME DeclarationsStay, NEW p \in Branches, NEW q \in Branches, NEW f \in File, p[f] = q[f]
  PROVE  FileIfaces(p, f) = FileIfaces(q, f)
<1>1. \A r : r \in FileIfaces(p, f) => r \in FileIfaces(q, f)
  BY SameIfaces, FileIfaceIs
<1>2. \A r : r \in FileIfaces(q, f) => r \in FileIfaces(p, f)
  BY SameIfaces, FileIfaceIs
<1>. QED
  BY <1>1, <1>2

\* Its calls.
LEMMA FileFactFrom ==
  ASSUME NEW p, NEW f, NEW fact
  PROVE  fact \in FileFacts(p, f) <=>
           \E call \in Calls(p, f) : \E d \in DirectFacts(p, f, call) \cup DispatchFacts(p, f, call) : fact = d.fact
BY DEF FileFacts

LEMMA DirectLocal ==
  ASSUME DeclarationsStay, NEW p \in Branches, NEW q \in Branches, NEW f \in File, p[f] = q[f],
         NEW fact \in DirectOf(FileFacts(p, f))
  PROVE  fact \in DirectOf(FileFacts(q, f))
<1>1. /\ p \in Commit /\ q \in Commit /\ CheckPoison(p) /\ CheckPoison(q)
      /\ TypesKept(p, q) /\ NothingPromoted(p) /\ NothingPromoted(q)
  BY V2Assumption DEF DeclarationsStay
<1>2. fact \in FileFacts(p, f) /\ fact.provenance = "direct_call"
  BY DEF DirectOf
<1>3. PICK call \in Calls(p, f) :
        \E d \in DirectFacts(p, f, call) \cup DispatchFacts(p, f, call) : fact = d.fact
  BY <1>2, FileFactFrom
<1>4. PICK d \in DirectFacts(p, f, call) \cup DispatchFacts(p, f, call) : fact = d.fact
  BY <1>3
<1>5. f \in Files(p)
  BY DEF Calls, Files
<1>6. d \in DirectFacts(p, f, call)
  <2>1. \A i : Through(d, p, f, call, i) => d.fact.provenance = "interface_resolved"
    BY ThroughShows
  <2>2. d \notin DispatchFacts(p, f, call)
    BY <1>2, <1>4, <2>1, DispatchedThrough
  <2>. QED
    BY <1>4, <2>2
<1>7. d \in DirectFacts(q, f, call) /\ call \in Calls(q, f)
  BY <1>1, <1>5, <1>6, SameDirectFacts DEF Calls
<1>8. fact \in FileFacts(q, f)
  BY <1>4, <1>7, FileFactFrom
<1>. QED
  BY <1>2, <1>8 DEF DirectOf

LEMMA SitesLocal ==
  ASSUME DeclarationsStay, NEW p \in Branches, NEW q \in Branches, NEW f \in File, p[f] = q[f]
  PROVE  FileSites(p, f) = FileSites(q, f)
<1>1. Calls(p, f) = Calls(q, f)
  BY DEF Calls
<1>2. \A call \in Calls(p, f) : StaticType(p, call.on) = StaticType(q, call.on)
  <2>1. \A call \in Calls(p, f) : f \in Files(p)
    BY DEF Calls, Files
  <2>. QED
    BY <2>1 DEF DeclarationsStay, TypesKept
<1>. QED
  BY <1>1, <1>2 DEF FileSites

\* A type that is an implementer in one of two commits alone is one of a
\* changed file, which gains or loses the interface there.
LEMMA ChangedImplementer ==
  ASSUME DeclarationsStay, NEW p \in Branches, NEW q \in Branches, NEW i \in Interface,
         NEW t \in Implementers(p, i), t \notin Implementers(q, i)
  PROVE  \E h \in ChangedFiles(p, q) :
           /\ i \in DiffIfaceSets(FileIfaces(p, h), FileIfaces(q, h))
           /\ i \in DiffIfaceSets(FileIfaces(q, h), FileIfaces(p, h))
<1>1. PICK h \in Files(p) : t \in Source[p[h]].types
  BY DEF Implementers, TypesOf
<1>2. h \in File /\ t \in FileTypes(p, h) /\ t \in Type
  <2>1. h \in File /\ t \in FileTypes(p, h)
    BY <1>1 DEF Files, FileTypes
  <2>. QED
    BY <2>1, BranchType
<1>3. h \in ChangedFiles(p, q)
  BY <1>2, SameIfaces DEF ChangedFiles
<1>4. [type |-> t, interface |-> i, file |-> h] \in FileIfaces(p, h)
  BY <1>2, FileIfaceIs
<1>5. \A r \in FileIfaces(q, h) : ~(r.type = t /\ r.interface = i)
  BY FileIfaceIs
<1>6. \E a \in FileIfaces(p, h) : a.type = t /\ a.interface = i
  BY <1>4
<1>. QED
  BY <1>2, <1>3, <1>5, <1>6 DEF DiffIfaceSets

LEMMA TargetsLocal ==
  ASSUME DeclarationsStay, NEW p \in Branches, NEW q \in Branches, NEW f \in File, p[f] = q[f],
         NEW s \in FileSites(p, f),
         DispatchTargets(p, s.interface, s.method) # DispatchTargets(q, s.interface, s.method)
  PROVE  \E h \in ChangedFiles(p, q) : s.interface \in DiffIfaceSets(FileIfaces(p, h), FileIfaces(q, h))
<1>1. /\ p \in Commit /\ q \in Commit /\ CheckPoison(p) /\ CheckPoison(q)
      /\ TypesKept(p, q) /\ NothingPromoted(p) /\ NothingPromoted(q)
  BY V2Assumption DEF DeclarationsStay
<1>2. PICK call \in Calls(p, f) : \E i \in StaticType(p, call.on) \cap Interface :
        s = [interface |-> i, method |-> call.method, caller |-> call.caller, file |-> f, line |-> call.line]
  BY DEF FileSites
<1>3. s.interface \in StaticType(p, call.on) \cap Interface /\ s.method = call.method
  BY <1>2
<1>4. f \in Files(p)
  BY DEF Calls, Files
<1>5. Implementers(p, s.interface) # Implementers(q, s.interface)
  BY <1>1, <1>3, <1>4, SameTargets
<1>6. PICK t : t \in Implementers(p, s.interface) <=> t \notin Implementers(q, s.interface)
  BY <1>5
<1>7. CASE t \in Implementers(p, s.interface)
  BY <1>3, <1>6, <1>7, ChangedImplementer
<1>8. CASE t \in Implementers(q, s.interface)
  <2>1. \E h \in ChangedFiles(q, p) : s.interface \in DiffIfaceSets(FileIfaces(p, h), FileIfaces(q, h))
    BY <1>3, <1>6, <1>8, ChangedImplementer
  <2>. QED
    BY <2>1 DEF ChangedFiles
<1>. QED
  BY <1>6, <1>7, <1>8

(***************************************************************************)
(* What the engine takes for granted of derivations, it may take for       *)
(* granted of every history that declares methods with their types and     *)
(* leaves its interfaces and the types of its variables alone.             *)
(***************************************************************************)
THEOREM DeclarationsSuffice == DeclarationsStay => ReferencesLocal /\ ImplementersLocal
<1>. SUFFICES ASSUME DeclarationsStay PROVE ReferencesLocal /\ ImplementersLocal
  OBVIOUS
<1>1. ReferencesLocal
  <2>. SUFFICES ASSUME NEW p \in Branches, NEW q \in Branches, NEW f \in File, p[f] = q[f]
                PROVE  /\ DirectOf(FileFacts(p, f)) = DirectOf(FileFacts(q, f))
                       /\ FileSites(p, f) = FileSites(q, f)
                       /\ FileIfaces(p, f) = FileIfaces(q, f)
    BY DEF ReferencesLocal
  <2>1. DirectOf(FileFacts(p, f)) \subseteq DirectOf(FileFacts(q, f))
    BY DirectLocal
  <2>2. DirectOf(FileFacts(q, f)) \subseteq DirectOf(FileFacts(p, f))
    BY DirectLocal
  <2>. QED
    BY <2>1, <2>2, SitesLocal, IfacesLocal
<1>2. ImplementersLocal
  BY TargetsLocal DEF ImplementersLocal
<1>. QED
  BY <1>1, <1>2

(***************************************************************************)
(* engine.go, "incremental == full rebuild", from conditions on the        *)
(* sources of a history and on the keys of the tables alone.               *)
(***************************************************************************)
THEOREM HistoriesUpdateExactly ==
  DeclarationsStay /\ Homes /\ OneMethod /\ OneProvenance /\ NoRename => (Spec => []TablesAgree)
BY DeclarationsSuffice, UpdatesAreExact DEF V2Assumed
=============================================================================
