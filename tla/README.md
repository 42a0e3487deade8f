# A TLA+ verification of Atlas (symex)

Atlas indexes the commits of a Go repository: it derives the call graph of each
commit, keeps it in PostgreSQL as facts with a validity interval, brings it from
commit to commit selectively, and maintains which symbols are reachable from the
entry points. An older engine (v2, "symex") that stores one graph per commit is
kept beside it as an oracle. This directory holds TLA+ models of that code, the
TLC runs that check them, and proofs that TLAPS checks. Paths below are relative
to the repository root; `internal/` is where the code is.

## 1. Inventory

| Part | State | Operations | Talks to |
|---|---|---|---|
| Linearization and indexing loop: `linearize`, `store/linearization_sync.go`, `store/schema_v3.go`, `index/run.go` | `atlas.commits`, `atlas.repo_state` (watermark and fingerprint), `atlas.skipped_commits`; the working tree | `Walk`, `Fingerprint`, `VerifyFingerprint`, `SyncCommits`, `RunIndexer` | git, and the pipeline once per commit |
| Per-commit pipeline: `index/apply.go`, `index/version.go`, `store/schema_v8.go` | `atlas.analyzer_state` | `IndexCommitFromRepo`: load, gate, derive, diff file hashes, apply in a transaction, record the analyzer version | parser, derivation, store |
| Fact derivation: `parser`, `index/compute.go`, `callgraph/expand.go`, `derive` | none | `BuildSymbolTable`, `CheckPoison`, `ComputeFacts` | `go/packages` |
| Interval store: `store/interval.go`, `store/derivation.go`, `store/crash.go`, schemas 4, 5, 9 | `atlas.facts`, `atlas.derivations`, `atlas.interface_implementers`, `atlas.file_versions` | open, close, refresh; `ApplyFacts`; `ApplyDelta` | PostgreSQL |
| Reachability maintenance: `reach`, `index/reachability.go`, `index/entrypoints.go`, `store/reachability.go` | `atlas.reachable_symbols` | `Reachable`, `IncrementalUpdate` (DRed), `MaintainReachability[Incremental]`, `DefaultEntryPoints` | the CALL facts |
| Engine v2 and harness: `incremental`, `callgraph/builder.go`, `store/incremental.go`, `store/schema_v2.go` | `facts`, `dispatch_sites`, `type_ifaces`, one graph per commit | `Update`, `BuildV2`, `RunHarness` | PostgreSQL |
| Weakest-link reachability: `reachability` | none | `Run` | a loaded graph |
| Differ and classifier: `differ`, `classifier`, `canonicalize` | none | hunks to symbols; kind of a change | `git diff`, syntax trees |
| Dependency versions: `modver`, `store/schema_v7.go` | `atlas.dependency_versions` | `UpsertDependencyVersion` (no caller in the pipeline) | |
| Commands, the audit log of v2, plain types | `facts_audit`, written by a trigger | wiring; a log that only a measurement reads | all of the above |

What makes each part correct, and what is hard about it:

- **Reachability.** The live rows are the least fixpoint over the live edges
  (invariant I6 of `architecture.md`), which mutual recursion makes hard: a cycle
  must not support itself (I7). Every delta builds on the result of the one
  before, so an error stays.
- **Interval store.** For each seq, the facts are those of a full rebuild (I1),
  although only what looks changed is touched. That rests on the recorded inputs
  being complete (I10) and current, on one transaction per commit (I9), and on
  the analyzer version (I13).
- **Indexing loop.** Branches are pushed to and rewritten, runs fail anywhere:
  what is indexed is one history (I16), and nothing is lost silently (I17 and the
  skip record).
- **Engine v2.** An incremental update of the tables equals a full build. It is a
  series of transactions, any of which may fail and leave the rest; its tables have keys
  that leave out what tells two rows apart, and what is retracted behind other files
  has to come back.
- **Change impact.** No change may be missed, whatever alignment git chose, nor be called
  trivial, and a trivial one must not be reported: hunk arithmetic, the numbering of
  local names, and the decision of the classifier together. The search then reports
  all that a change reaches, by a shortest path.

`PROJECT.json` lists every component with its status, and the hazards by line.

## 2. Modules

| Module | Models |
|---|---|
| `Reach` | graphs, successors, support counts, and the least fixpoint as the reference |
| `Dred` | the maintenance of `atlas.reachable_symbols`, one delta after the other |
| `ReachHistory` | abstract specification of the reachability intervals: one search from scratch per delta, and answers that stay |
| `Program` | commits, what their files say, and the facts a commit derives with their inputs |
| `FullRebuild` | abstract specification of the store: indexing a commit replaces all facts |
| `FactStore` | the interval store and `IndexCommitFromRepo` |
| `Indexer` | `RunIndexer` over `FactStore`: walk, fingerprint, list, loop, failures |
| `EngineV2` | the tables of the older engine, `Update`, `BuildV2` and the harness, over `Program` |
| `Differ` | from the alignments of git to the symbols a diff touches |
| `Classifier` | two versions of a function compared, the canonical hash, and what a version does as the reference |
| `Impact` | `symex-graph analyze`: diff, classification and weakest-link search, over `Differ` and `Classifier` |
| `MCDred`, `MCFactStore`, `MCIndexer`, `MCEngineV2`, `MCImpact` | instances for TLC |
| `ProgramProofs`, `DredProofs`, `FactStoreProofs`, `FactHistoryProofs`, `IndexerProofs`, `EngineV2Proofs`, `DifferProofs`, `ImpactProofs` | theorems |

An operator whose comment starts with "Mutant" is a wrong variant of the operator
after it. Nothing uses it; it shows what a property notices when it is put in.

### Dred

`BeginIncremental` and `BeginFull` open a delta: they replace the live edges, as
`ApplyFacts` does earlier in the same transaction, and keep the old ones, as
`SnapshotReachabilityState` does. Then come the loops of `IncrementalUpdate`, a
turn at a time: `OverDelete` (phase 1), `AcceptSurvivors`, `Rederive` (phase 2),
`ScanNewEdge` and `Expand` (phase 3); or `Visit`, the search of `Reachable`.
`ApplyReachableDiff` opens and closes rows and commits. `Rollback` is an error or
a crash before that. Go maps have no order and the code's queues have one;
the model's queues are sets, so it allows every order. An edge stands for one call
site, which only the support count could tell. `DefaultEntryPoints` is a set of
choices, because the first main in file order wins and that order is not modelled.
Neither maintenance function is called by `RunIndexer`; as in the repository's
tests, a caller composes them with `ApplyDelta`, so the module is separate from
`FactStore`. No code decides which of the two paths a delta takes, so `Commit` offers
both; with `Growing`, the incremental one only to a delta whose entry points at most grow
(`EntryPointsGrow`), which is what the algorithm can do.

`ReachHistory` says what the table amounts to: `Search` adds an answer, that of a search
of the new graph from scratch, and changes none. `ImplementsHistory` is that
specification under the mapping that reads `answers` from the intervals.

### Program, FactStore, FullRebuild

A commit is a function from files to texts. A text is its own hash and
`Source[text]` is what the parser gets from it: calls on variables, the static
types of variables, types with their declared and embedded methods, interfaces.
From these `Program` derives facts as `classifyCall`, `ComputeFacts`,
`implementersOf` and `expandInterfaceCall` do: implementing counts promoted
methods, while the target of a call must be declared by the type itself.
`CheckPoison` refuses commits that do not type-check; the model's language has
one package.

A fact is its natural key (`facts_live_uniq`); a row adds the recorded inputs and
the interval. `Load` is the pipeline up to the transaction: it reads file versions
and the analyzer version outside it, as the code does. `ApplyDelta` is the
transaction: `ApplyFacts` with its close-candidates, touched facts, refreshes and
opens, `UpsertInterfaceImplementers`, `UpdateFileVersions` and the watermark. When the
unique index would refuse an insert it is not enabled (`Refused`), and only
`Rollback` is left. `SetAnalyzerVersion` comes after it, in a transaction of its
own, and `Crash` may always hit between the two. `Install` changes
the analyzer; while the version on record is not that of the live facts (`VersionBehind`)
it does so only when `UpgradeBehind` says so. Several calls with one key are met in file order in the code, in any
order here (`SeenChoices`).

`FullRebuild` says what this amounts to: `Index` replaces the answer by what a
rebuild derives. `ImplementsRebuild` is that specification under the mapping
`answer <- LiveFacts`, `at <- resume`, `analyzer <- build`.

### Indexer

`Indexer` extends `FactStore`: it decides which commit `Load` takes. `Sync` is
`SyncCommits` with `ListCommits`; the branch is read once, so it is one step.
`RecordSkippedCommit`, `IndexCommit`, `CommitDelta` and `Advance` are the loop. The gate
refuses a commit whose packages have errors, each time; one of `NeedsModules` may be refused
and may load, at each attempt anew, since a module that is missing now may be had later
(`Refuses`). Its skip stays on record when it is indexed afterwards, as no code deletes skips.
`Fail` is an error or a crash at any of its steps. `Push` and `Rewrite` move the
branch, during a run too. A hash covers its ancestors, so it is modelled by the
sequence of commits it ends; SHA-256 is taken to be injective, and the fingerprint
is the list of hashes it was computed from. The working tree is left out: `Walk`
reads the branch by name, not HEAD.

### EngineV2

`EngineV2` shares `Program` with the interval store: the same commits and the same
derivation, other tables. `graph` is the newest commit's four tables (edges, dispatch
sites, implemented interfaces, symbols); those of older commits are never read again.
A symbol row stands for the text it comes from. The primary keys are in `SameEdge`,
`SameSite` and `SameTypeIface`, and what an insert does on a conflict is in
`InsertEdges`, `InsertDispatchSites` and `InsertTypeIfaces`: the order of a batch
decides, which is path order where the code sorts and any order (`Orders`) where it
selects without one.

`BeginUpdate`, `CopyForward`, `NoCopy` and `NoParse` are the beginnings `RunHarness` and
`Update` can make of a commit: git lists changed files or none, copying fails, parsing
fails. Then `updateOneFile` for each file, in path order, a transaction at a time: `Retract`, with the
diff of implemented interfaces that is taken before it; `RetractCallSites`, which takes
all interface edges of every caller through an affected interface; four inserts; and
`RecomputeEdges`. `SkipFile` is an error in any of them: the transaction is rolled back,
what earlier ones did stays, and the loop goes on. `Compare` is the harness's verdict.
`broken` is no state of the code: it remembers which files' last change was not
brought in.

### Differ, Classifier, Impact

`Differ` lets git align two files in any order-preserving way; what it leaves over are
the hunks, and `HunkRanges` is what `parseDiff` makes of their headers, pure deletions
included. `Classifier` has a function as its receiver, its parameters and results, each in a
field, and the tokens of its body. `FuncHash` renames as `localRenamer` does: what `:=`, `var`, `const`
and `range` declare, and the parameters, but neither the receiver nor what a closure or a local type
declares; and by spelling, so that a selected field or a global named like a local is replaced too.
`PrintSignature` prints one type for a field, and no receiver. The code never asks what an
identifier refers to. The reference does: each token says which declaration it means, and `Behaviour` is
what a function says to its callers and does, whatever its locals are called. `Scoped` is what Go's
scopes grant: where the same declarations are spelled like an identifier, it means the same one.

The two do not agree, and no hypothesis makes them. `MayHide` names the causes for which a change
may be called trivial: another receiver (its type, or its name), a local spelled like the receiver (so that assigning to one is
taken for declaring the other), parameters that are grouped otherwise, a parameter that got or lost its name,
and an outside name, spelled like a local, that is replaced. `MayMislead` names those for which a
renaming may be called a change: another name of the receiver, parameters that are grouped otherwise, a
parameter that got or lost its name (the locals after it are numbered otherwise), a closure's parameter renamed, and names that were spelled
alike and are so no more, or the reverse. `FrontierComplete` and `FrontierPrecise` say that nothing else
goes wrong; the instance has edits for every cause, and is violated when any one is struck out.
`Impact` is `runAnalysisCore`: `MapDiff`, `Classify` a symbol at a time,
`ClassifyBlindly` when git show or the parser fails, `BeginSearch` and `Visit`, one turn of
the search of `reachability.Run`; `Exit` is a step whose error ends the program. Frontier
and edges come in any order, since they are read from maps and queries without one.

## 3. Runs

| Run | Bounds | Shows |
|---|---|---|
| `dred` | 4 symbols; 5 candidate edges with a mutually recursive pair, two ways into it and a callee behind it; a library whose exports grow until it becomes a binary; any first graph, then two deltas of up to 2 edges each; rollback anywhere; either path | the table is exact now (`ReachableExact`) and for every earlier seq (`HistoryExact`), which is what `ReachHistory` promises (`ImplementsHistory`); results never over-approximate; phase 3 may start from new edges; rows do not overlap; no step turns in place (`DeltaProgress`), and loops end |
| `dred_library` (violation) | exports may disappear | with moving entry points the two paths disagree |
| `fact_store` | 2 files, one of 2 texts and one of 4, each may be missing; 13 commits, and 2 that the gate refuses; 2 builds that differ on the calls of one variable, any 3 commits in any order, seqs skipped or not, crashes before and after the commit of a delta; no upgrade while the version on record is behind | I1 at every seq, inputs current, intervals disjoint and begun and ended by indexed commits (I4), no delta refused, lifetimes kept, closed rows never touched, and the refinement of `FullRebuild` |
| `fact_store_promoted`, `_one_line`, `_window` (violations) | two commits each | section 5 |
| `indexer` | branches of up to 3 commits, each either without a call or with one and in need of a module that a run may have or not, 2 builds, upgrades at any time, one failure; rewrites that reach an indexed commit, or none that is listed | one history per run, the fingerprint tells what the facts are, every seq accounted for, any seq answered as a rebuild of the commit the branch had there (`AnswersFollowBranch`), every commit indexed or skipped in the end |
| `indexer_rewrite` (violation) | the same with any rewrite | section 5 |
| `engine` | 4 files, 2 types, 2 interfaces, 3 callers; any 3 commits of 14; one error in any transaction | without an error all four tables are those of `BuildV2`, and its edges those the newer derivation finds (`OracleAgrees`); with one, the rows of the other files are; updates end |
| `engine_equal` (violation) | 4 commits, 2 of them in a history, no error | section 5 |
| `impact` | every ordered pair of 17 trees of 2 files, and of 5 groups of edits the classifier may mistake (receivers, unnamed and grouped parameters, selected names, closures); every alignment; a library with a cycle, a self-loop and two ways to one symbol; one error | the frontier is what changed, no less and no more but for the named causes; the search reports what it reaches, by shortest paths with the weakest provenance; the full-confidence part of the report rests on direct calls (`MustRunCertain`); the program ends |
| `impact_receiver` (violation) | the same, no error | section 5 |

Why the bounds are enough. Two edges per delta allow a removal and an insertion in
the same delta, so that what phase 1 marks may be recovered by phase 2 or 3; the third
delta starts from a maintained table. In the store a fact can be opened, left alone,
refreshed, closed and opened again within three commits, and each of the caller, the
implementers, both or neither may change at each of them, under either analyzer. In `indexer` three
commits let a skipped one sit before, between and after those that are indexed, and a run resume in each
place; the one that has a call may be skipped by one run and loaded by the next, so that
every pattern of skips is met, and every one that a later run undoes. The other commit has no
call, so that two histories never answer alike; finer differences between
facts are checked in `FactStore` and carry over by `ImplementsStore` below. In `engine` both types gain and lose interfaces, callers come, change and
go, a caller goes through both interfaces, and one lives in the file of a type;
with three commits a file that failed is copied once and can be treated again. In `impact` a
function is edited in each way the classifier tells apart (body, local, parameter, type of a
parameter, comment, deletion, names swapped and crossed), is added and removed, and moves within a file
and between two; further edits, one group for each thing the classifier does not see, are compared within
their group; six symbols are enough for a path that is longer and stronger than another.

CHECK_DEADLOCK is off everywhere: the models stop when the bound on deltas or
commits is reached and nothing is left to do, or the program has ended.

Fairness. `DeltaEnds` assumes that the process that opened a delta goes on
(`WF` of `Step`): the loops run in one goroutine without waiting for anyone. It
assumes nothing of commits or rollbacks. `CommitsGetIndexed` assumes the same of a run, and
that `RunIndexer` is called again after it returned (`WF` of `Run`): a service or
a cron job does that, not this code, and without it nothing is ever indexed.
Failures are bounded by `MaxFailures`; if every run failed no commit would be
indexed. `UpdateEnds` and `AnalysisEnds` assume `WF` of the steps of an update, and of an
analysis: each is one loop in one goroutine. They assume nothing of errors, and nothing makes the harness take
the next commit.

## 4. Proofs

TLAPS proves, for every value of the constants that satisfies the named assumptions:

- `DredProofs`: the least fixpoint exists and is unique (`FixpointClosed`,
  `FixpointLeast`, `FixpointUnique`), and `IsolatedCycleUnreachable`, which is I7.
  `TypeCorrect`, `RowsNeverOverlap`, `DeltaAdvances`; and under `Steady` `ReachableIsExact`,
  `NeverOver`, `OldEdgesStaySettled`, `HistoryIsExact` and the refinement
  `MaintenanceIsASearch`. `Steady` is that entry points are the same in every
  commit (a binary with one main), or that they only grow by functions that are new or were
  reachable already.
  The inductive invariant is `Inductive(P)` in `Dred`. None of the properties is
  inductive alone. It says what each phase owes: the stored rows are exact for the
  stored graph; phase 1 has marked everything downstream of what it took from the
  queue (`MarksDownstream`); what is confirmed holds the survivors and only
  symbols the new graph reaches (`Confirmed`); an edge that leaves the result starts
  in the queue or is still to be scanned (`OnlyPendingEdgesLeave`). When phase 1
  ends, the unmarked symbols are closed backwards under the old graph,
  which is why they need no new derivation. An entry point that was not reachable before
  makes no call of the old graph (`EntriesGrown`), so phase 3 scans all its calls.
- `ProgramProofs`: what derivation reads. A file derives the same facts in two commits when
  what it calls on has the same static types and the same implementers, and keys of
  facts tell call sites apart. Both engines' proofs cite it.
- `FactStoreProofs`: `TypeCorrect`, and, under `Assumed`, `NeverRefused`, `InputsStayCurrent`
  and `SelectionIsSound` (`FactsExact`, I1). `Assumed` is the conjunction of three
  hypotheses. `LocalDerivation`: a fact of a file that two commits share is derived in both,
  unless a recorded implementer set differs. `UniqueDerivation`: a key always
  dispatches through the same interfaces. `VersionsTell`: versions tell builds apart and
  none is installed while the version on record is behind, or there is one build. The inductive invariant says
  that the live rows, inputs included, are exactly the derivations of the
  last commit; that the table of implementer sets agrees with the rows; and that
  nothing a delta read outside its transaction has moved. The core is
  `UntouchedRow` and `UntouchedDerivation`: what selection leaves alone would be
  derived again as it is. The first two hypotheses speak of derived facts; `SourcesSuffice`
  grants them from what a reader can see in the sources (`SourcesKeep`): what an unchanged
  file calls on keeps its static type (`TypesKept`), a type declares itself what an embedded one
  could lend it (`NothingPromoted`), and calls with one key are on one interface
  (`SitesStay`). `SourcesAreIndexedExactly` is I1 from there.
- `FactHistoryProofs`: `EndpointsAreIndexed` (I4) with no hypothesis at all, from
  `SeqsInOrder`; and under `Assumed` `RowsNeverOverlap` (I2 and I3 for all rows),
  `RowsAreLifetimes` (a fact that stays derivable keeps its row, and a closed row is never touched), and the refinement `StoreImplementsRebuild`. Each row after
  the transaction continues one that was there or is opened for a fact with no live row
  (`Origin`), and no row is continued twice (`OneContinuation`).
- `IndexerProofs`: `ImplementsStore`, every behaviour of the indexer is one of
  `FactStore`, so that its theorems hold there (`RunsIndexExactly` is I1 for the
  indexer); `IndexTypeCorrect`; and from `IndexInductive`, that a
  run works on the table's list, the list begins with the fingerprint, and skipped
  seqs hold commits the gate may refuse: `FingerprintTells`, `NothingLost` (every seq below the watermark is
  indexed or skipped; a seq may be both, when a skipped commit loaded later), and, when listed
  history is not rewritten, `RunsKeepOneHistory`. `ReadersSeeTheBranch` joins the two halves:
  what the rows answer for any seq is what the branch had there; `SourcesAreReadExactly`
  is that, and the refinement of `FullRebuild`, from `SourcesKeep` and telling versions.
- `EngineV2Proofs`: `TypeCorrect`, and, under `V2Assumed`, `FailuresAreContained`,
  `UpdatesAreExact` (`TablesAgree`), its corollary `VerdictsAgree`, and `OraclesAgree`: the two
  engines find the same edges. `V2Assumed` is what the
  engine takes for granted of a history: functions and types stay in their file
  (`Homes`), the keys tell rows apart (`OneMethod`, `OneProvenance`), no file is renamed
  (`NoRename`), and an unchanged file says what it said (`ReferencesLocal`,
  `ImplementersLocal`). The last two follow from conditions on declarations
  (`DeclarationsSuffice`): `TypesKept` and `NothingPromoted` again, methods in the file of their
  type (`MethodsAtHome`), and the same interfaces in every commit (`InterfacesStay`). The invariant has two parts. `Contained` holds with errors: every row is
  at home, the file being treated has exactly the rows of the transactions done, and
  all others have their own rows right. `Exact` holds without: for each treated file and
  each caller, the interface edges are those of the new commit, or still those of the old
  one and nothing treated so far concerns them (`Current`, `Behind`), except for the callers
  whose edges are retracted and not yet back (`Lost`), of which all sites of settled files
  are being rechecked. `RecomputeIs` shows that these bring back exactly what was lost.
- `DifferProofs`: `MapMissesNothing`, for any two files and any alignment: a function no
  hunk is mapped to is, line for line, in the base file. Where the argument would be an
  induction over lines it takes a least or a greatest counterexample instead (`Least`, `Greatest`).
- `ImpactProofs`: `TypeCorrect`; for any graph and order, `SearchIsExact`, `PathsAreReal`,
  `PathsAreShortest` (no walk of calls is shorter, along reported symbols or not),
  `MustRunIsCertain` and `SearchAdvances`; and, under `SourcesTell`, `FrontierIsComplete` and `FrontierIsPrecise`.
  `SourcesTell` says what Go files are like and nothing of the classifier: rows lie in their file and have
  one home (`RowsPlaced`, `OneHome`), the lines of a function say what it does (`TextTells`), and
  names are resolved by scope (`ScopesTell`). That the classifier is right but for the named causes is
  what is proved. `TrivialRight`: of two versions with one signature and one hash the fields have the same
  types, and the first turns that meet a name agree, so that an identifier is spelled like one declaration
  in both or in neither; `Scoped` then gives it the same meaning. `ChangeRight`: where no
  two names were parted or joined, both versions number the same turns alike, and what is not a local is
  spelled as it was. The search's invariant orders the queue by depth, which spans at most two
  depths at a time.

The passing runs satisfy the hypotheses (`MCFactStore`, `MCIndexer`, `MCEngineV2` and `MCImpact` have TLC
evaluate them); each violating run of the store and of the engine breaks one of them (`engine_equal` breaks
`Homes`). `indexer` is the exception: it lets an upgrade come while the version on record is behind, which
`VersionsTell` excludes. Its two builds agree on the calls of its commits, so that `AnswersFollowBranch`
holds there, and the other properties do not need that hypothesis.

Only model-checked: `DeltaEnds`, `CommitsGetIndexed`, `UpdateEnds` and `AnalysisEnds`, because
liveness is out of the prover's reach. For `DeltaEnds` and `AnalysisEnds` the argument is a measure that
each step brings down, and that part is proved: `DeltaProgress` (a step ends its phase, marks or finds a symbol
that was not, or shortens a queue and does nothing else) and `SearchProgress` (a turn finds new symbols or
shortens the queue). What TLC adds is that a step is always possible before the end. An update is a loop over
a list of files, each with a fixed series of transactions.
`CommitsGetIndexed` has no such part: moves of the branch and failures undo progress.

## 5. What the violations show

`PROJECT.json` quotes the statement each one contradicts.

1. `dred_library`: a symbol reachable only as an entry point stays live when it
   stops being one: it lost no edge, so phase 1 does not mark it.
2. `fact_store_promoted`: an implementer gets a method of its own where it had a
   promoted one; no recorded input moves, the new edge is never opened. The same
   hypothesis (`LocalDerivation`) fails when the type of a receiver is declared in
   another file than the call.
3. `fact_store_one_line`: one line, one method, two interfaces: one key with two
   inputs, of which one is recorded. A later change of the other makes a delta
   that is refused for ever. The same hypothesis (`UniqueDerivation`) fails when a
   call moves from one interface to another: the old input stays recorded.
4. `fact_store_window`: no version on record is taken for nothing to invalidate.
5. `indexer_rewrite`: rows of `atlas.commits` beyond the watermark survive a rewrite.
6. `engine_equal`: a function moves to a file that is treated before the one it
   left; its edge is skipped as a duplicate, and then retracted with the old file. The other
   hypotheses of `V2Assumed` name more ways to the same end (a rename, one caller and two
   methods of an interface, one method called both ways), each a hazard in `PROJECT.json`.
7. `impact_receiver`: a method gets a value receiver where it had a pointer. The classifier's header calls
   that a signature change; neither the printed signature nor the hash holds the receiver, and
   the method is called trivial. The test of the repository for this case logs the outcome and asserts nothing.

## 6. Not modelled

- Syntax trees, printing, command lines, the audit log and SQL as text. The code-to-content
  step of derivation is a table (`Source`).
- Calls through function values and generics: they yield no fact, or a raw name, in
  the code.
- Two indexers of one repository at once: nothing in the code locks, and no document
  promises it.
- Why a package does not load: in `Indexer` a commit that needs a module is refused or not, at each attempt.
  `Program.CheckPoison` is the half of the gate that the sources decide.
- Support counts and repositories with several mains: `Dred` has both as the code has, no
  run is about them. `NaiveSupportCounting` is kept in the code as a rejected mechanism and
  is called by its tests only.
- Dependency versions: one upsert without a caller.
- In `EngineV2`: `Build`, the variant of `BuildV2` that `symex-graph` uses; a database
  that holds the tables of earlier runs of the harness; `maxCommits = 0`, which means no limit.
- In `Impact`: files git reports as renamed, deleted functions (the head commit's rows are
  looked up, so they are never classified), type parameters of generic functions, and two `init`
  functions in one file. A key of a composite literal counts as a selected name.

## 7. Plan

Done, each with its runs and proofs: 1. `Reach`, `Dred`. 2. `Program`, `FactStore`, `FullRebuild`.
3. `Indexer`. 4. `EngineV2`. 5. `Differ`, `Classifier`, `Impact`. 6. The hypotheses of the store and
of the older engine traced back to sources (`ProgramProofs`), an end-to-end statement for the indexer,
and the refinement of `ReachHistory`. 7. The classifier with what identifiers refer to, and the
causes of its errors named.

What is left is small: two indexers at once (the module would need the reads of `Load` to interleave with
another process's transaction, for a use no document promises), and weaker hypotheses for
`UpdatesAreExact`, where `Homes` could allow a move to a file that is treated later.
