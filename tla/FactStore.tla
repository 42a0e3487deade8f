----------------------------- MODULE FactStore -----------------------------
(***************************************************************************)
(* The interval store of v3.1 and IndexCommitFromRepo, which brings it     *)
(* from one commit to the next.  The facts of the new commit are derived   *)
(* in full; what is written is selective: only facts of a file whose hash  *)
(* moved, and facts that dispatch through an interface whose implementer   *)
(* set moved, are opened, refreshed or closed.  The writes of a commit and *)
(* its watermark are one transaction (ApplyDelta); the analyzer version is *)
(* recorded after it, in another one.                                      *)
(*                                                                         *)
(* Which commit comes next is open here, any at or after the watermark:    *)
(* module Indexer says which one RunIndexer takes.                         *)
(***************************************************************************)
EXTENDS Program

CONSTANTS
  Tree,            \* the commits a branch may hold, by name
  VersionOf,       \* AnalyzerVersion of a build
  UpgradeBehind,   \* may a build be installed while the version on record is behind?
  MaxSeq           \* bound: number of commits

Commits == DOMAIN Tree

ASSUME TreeType == Tree \in [Commits -> Commit]
ASSUME VersionType == \A b \in Build : VersionOf[b] # NULL
ASSUME NullIsNoSeq == NULL \notin Nat
ASSUME SeqBound == MaxSeq \in Nat
ASSUME BehindType == UpgradeBehind \in BOOLEAN

VARIABLES
  facts,           \* atlas.facts, with the derivations of each row
  implementers,    \* atlas.interface_implementers: the live hash per interface
  versions,        \* atlas.file_versions: the live hash per file
  resume,          \* ResumeFromSeq: last_applied_seq + 1, 0 for a fresh repo
  recorded,        \* atlas.analyzer_state, NULL when nothing is recorded
  build,           \* the analyzer that is installed
  delta,           \* IndexCommitFromRepo under way, NULL when there is none
  past             \* history: what each applied delta indexed

store == <<facts, implementers, versions, resume, recorded>>
vars == <<facts, implementers, versions, resume, recorded, build, delta, past>>

Live == {r \in facts : r.to = NULL}
LiveFacts == {r.fact : r \in Live}

\* QueryFactsAt.
FactsAt(at) ==
  {r.fact : r \in {x \in facts : x.from <= at /\ (x.to = NULL \/ at < x.to)}}

Deltas ==
  [commit : Commits, at : Nat, changed : SUBSET File, stage : {"loaded", "applied"}]

ASSUME NullIsNoDelta == NULL \notin Deltas

TypeOK ==
  /\ facts \subseteq [fact : Fact, inputs : Inputs, from : Nat, to : Nat \cup {NULL}]
  /\ implementers \in Hashes
  /\ versions \in Commit
  /\ resume \in Nat
  /\ recorded \in {VersionOf[b] : b \in Build} \cup {NULL}
  /\ build \in Build
  /\ delta \in Deltas \cup {NULL}
  /\ past \subseteq [at : Nat, commit : Commits, build : Build]

Init ==
  /\ facts = {} /\ implementers = NoInterface /\ resume = 0
  /\ versions = [f \in File |-> NULL]
  /\ recorded = NULL /\ build \in Build /\ delta = NULL /\ past = {}

-----------------------------------------------------------------------------
\* diffFileHashes: new, removed and edited files.
DiffFileHashes(p) == {f \in File : versions[f] # p[f]}

\* Mutant: the analyzer version is not looked at.
ChangedOnDisk(p) == DiffFileHashes(p)

\* I13: facts of another analyzer are not trusted, every file counts as changed.
ChangedFiles(p) ==
  IF recorded # NULL /\ recorded # VersionOf[build]
    THEN Files(p) \cup Files(versions)
    ELSE DiffFileHashes(p)

\* IndexCommitFromRepo up to ApplyDelta, for a commit the gate lets through.
Load(c, at) ==
  /\ delta = NULL
  /\ at \in resume .. MaxSeq - 1
  /\ CheckPoison(Tree[c])
  /\ delta' = [commit |-> c, at |-> at, changed |-> ChangedFiles(Tree[c]), stage |-> "loaded"]
  /\ UNCHANGED <<store, build, past>>

(***************************************************************************)
(* ApplyFacts, in the terms of the delta under way.                        *)
(***************************************************************************)
NewFacts == ComputeFacts(Tree[delta.commit], build)

\* The interfaces the new facts dispatch through; no other one is looked at.
Dispatched == UNION {DOMAIN d.inputs.interfaces : d \in NewFacts}

\* Mutant: the hash of v3, over the methods an interface demands.
MethodSetHash(i) == Demands(Tree[delta.commit], i)

IfaceHash(i) == Implementers(Tree[delta.commit], i)

\* UpsertInterfaceImplementers returned changed.
ChangedInterfaces ==
  {i \in Dispatched : i \notin DOMAIN implementers \/ implementers[i] # IfaceHash(i)}

\* Mutant: facts of changed files only.
CandidatesByFile == {r \in Live : r.fact.file \in delta.changed}

\* LiveFactsForFiles and StaleLiveFacts: the live rows that may be closed.
CloseCandidates ==
  {r \in Live :
     \/ r.fact.file \in delta.changed
     \/ \E i \in ChangedInterfaces \cap DOMAIN r.inputs.interfaces :
          r.inputs.interfaces[i] # IfaceHash(i)}

Touched ==
  {d \in NewFacts :
     \/ d.fact.file \in delta.changed
     \/ DOMAIN d.inputs.interfaces \cap ChangedInterfaces # {}}

\* Two calls may have one natural key: the first of them counts, and any may
\* come first.
SeenChoices == {S \in SUBSET Touched : \A d \in Touched : \E s \in S : s.fact = d.fact}

FirstSeen(S) == \A d, e \in S : d.fact = e.fact => d = e

\* Mutant: an input that is recorded already keeps its hash.
RecordMissing(old, new) ==
  [file |-> new.file,
   interfaces |-> [i \in DOMAIN new.interfaces \cup DOMAIN old.interfaces |->
                     IF i \in DOMAIN old.interfaces THEN old.interfaces[i]
                                                    ELSE new.interfaces[i]]]

\* RecordDerivations: a row per input, those of other interfaces stay.
RecordDerivations(old, new) ==
  [file |-> new.file,
   interfaces |-> [i \in DOMAIN new.interfaces \cup DOMAIN old.interfaces |->
                     IF i \in DOMAIN new.interfaces THEN new.interfaces[i]
                                                    ELSE old.interfaces[i]]]

\* facts_live_uniq: a key that is live, but not among the candidates, cannot
\* be opened, and the error rolls the delta back.
Refused ==
  \E d \in Touched, r \in Live \ CloseCandidates : r.fact = d.fact

\* Mutant: a refreshed row starts anew.
RefreshedAnew(seen) ==
  UNION {{[r EXCEPT !.inputs = RecordDerivations(r.inputs, d.inputs), !.from = delta.at] :
            d \in {e \in seen : e.fact = r.fact}} : r \in CloseCandidates}

Refreshed(seen) ==
  UNION {{[r EXCEPT !.inputs = RecordDerivations(r.inputs, d.inputs)] :
            d \in {e \in seen : e.fact = r.fact}} : r \in CloseCandidates}

\* Mutant: valid_to is the last delta the row covers.
CloseFactEarly(r) == [r EXCEPT !.to = resume - 1]

CloseFact(r) == [r EXCEPT !.to = delta.at]

Closed(seen) ==
  {CloseFact(r) : r \in {x \in CloseCandidates : \A d \in seen : d.fact # x.fact}}

\* Mutant: a row opens at the watermark.
OpenFactEarly(d) == [fact |-> d.fact, inputs |-> d.inputs, from |-> resume - 1, to |-> NULL]

\* Mutant: a row opens at the first seq that is not indexed.
OpenFactAtResume(d) == [fact |-> d.fact, inputs |-> d.inputs, from |-> resume, to |-> NULL]

OpenFact(d) == [fact |-> d.fact, inputs |-> d.inputs, from |-> delta.at, to |-> NULL]

Opened(seen) ==
  {OpenFact(d) : d \in {x \in seen : \A r \in CloseCandidates : r.fact # x.fact}}

ApplyFacts(seen) ==
  facts' = (facts \ CloseCandidates) \cup Refreshed(seen) \cup Closed(seen) \cup Opened(seen)

UpsertInterfaceImplementers ==
  implementers' = [i \in DOMAIN implementers \cup Dispatched |->
                     IF i \in Dispatched THEN IfaceHash(i) ELSE implementers[i]]

\* The transaction of ApplyDelta: facts, file versions and watermark.
ApplyDelta ==
  /\ delta # NULL
  /\ delta.stage = "loaded"
  /\ ~ Refused
  /\ \E seen \in SeenChoices : FirstSeen(seen) /\ ApplyFacts(seen)
  /\ UpsertInterfaceImplementers
  /\ versions' = Tree[delta.commit]
  /\ resume' = delta.at + 1
  /\ past' = past \cup {[at |-> delta.at, commit |-> delta.commit, build |-> build]}
  /\ delta' = [delta EXCEPT !.stage = "applied"]
  /\ UNCHANGED <<recorded, build>>

\* The call returns to RunIndexer.
SetAnalyzerVersion ==
  /\ delta # NULL
  /\ delta.stage = "applied"
  /\ recorded' = VersionOf[build]
  /\ delta' = NULL
  /\ UNCHANGED <<facts, implementers, versions, resume, build, past>>

\* A crash, an error of the database or a refused insert before the commit:
\* the transaction is rolled back.
Rollback ==
  /\ delta # NULL
  /\ delta.stage = "loaded"
  /\ delta' = NULL
  /\ UNCHANGED <<store, build, past>>

\* A crash or an error after it: the delta stays, the version is not recorded.
Crash ==
  /\ delta # NULL
  /\ delta.stage = "applied"
  /\ delta' = NULL
  /\ UNCHANGED <<store, build, past>>

\* The live facts are of a build that is not the one on record.
VersionBehind == \E h \in past : h.at = resume - 1 /\ recorded # VersionOf[h.build]

\* Another build of the indexer is installed between two runs.
Install(b) ==
  /\ delta = NULL
  /\ UpgradeBehind \/ ~ VersionBehind
  /\ b # build
  /\ build' = b
  /\ UNCHANGED <<store, delta, past>>

Finish == ApplyDelta \/ SetAnalyzerVersion \/ Rollback \/ Crash

Next ==
  \/ \E c \in Commits, at \in 0 .. MaxSeq - 1 : Load(c, at)
  \/ Finish
  \/ \E b \in Build : Install(b)

Spec == Init /\ [][Next]_vars
-----------------------------------------------------------------------------
(***************************************************************************)
(* architecture.md, I1: for every applied seq, the facts live at it are    *)
(* those a full rebuild of its commit derives, however selective the       *)
(* deltas before and after it were.                                        *)
(***************************************************************************)
FactsExact ==
  \A h \in past : FactsAt(h.at) = FactsOf(Tree[h.commit], h.build)

(***************************************************************************)
(* What makes a later withdrawal sound: a live row has recorded the inputs *)
(* that derive it now, no hash of an earlier commit and no input that is   *)
(* no longer one, and the table of implementer sets agrees with the rows.  *)
(***************************************************************************)
InputsCurrent ==
  \A h \in past, r \in Live :
    h.at = resume - 1 =>
      /\ [fact |-> r.fact, inputs |-> r.inputs] \in ComputeFacts(Tree[h.commit], h.build)
      /\ \A i \in DOMAIN r.inputs.interfaces :
           i \in DOMAIN implementers /\ implementers[i] = r.inputs.interfaces[i]

(***************************************************************************)
(* architecture.md, I2 and I3: the rows of a fact do not overlap and none  *)
(* is empty.  facts_live_uniq and the CHECK see a live row only.           *)
(***************************************************************************)
IntervalsDisjoint ==
  \A r, q \in facts :
    /\ r.to # NULL => r.from < r.to
    /\ r # q /\ r.fact = q.fact =>
         \/ r.to # NULL /\ r.to <= q.from
         \/ q.to # NULL /\ q.to <= r.from

Indexed == {h.at : h \in past}

(***************************************************************************)
(* architecture.md, I4, which no foreign key enforces: where an interval   *)
(* begins or ends, a commit was indexed.  A seq that was skipped or not    *)
(* reached yet starts nothing and ends nothing.                            *)
(***************************************************************************)
EndpointsIndexed ==
  \A r \in facts : r.from \in Indexed /\ (r.to # NULL => r.to \in Indexed)

\* The delta whose facts a reader of seq s sees.
LastIndexed(s) == {h \in past : h.at <= s /\ \A g \in past : g.at <= s => g.at <= h.at}

(***************************************************************************)
(* No delta is refused by facts_live_uniq: what ApplyFacts opens is never  *)
(* live already.  A refused delta would be refused again at every retry,   *)
(* and the indexer could not pass that commit.                             *)
(***************************************************************************)
DeltaAccepted == delta # NULL /\ delta.stage = "loaded" => ~ Refused

(***************************************************************************)
(* A row is a fact's lifetime: a step that leaves a fact derivable keeps   *)
(* its row, with the seq it was opened at, and a closed row never changes. *)
(***************************************************************************)
KeepsLifetimes ==
  \A r \in facts :
    IF r.to # NULL
      THEN r \in facts'
      ELSE \E q \in facts' :
             /\ q.fact = r.fact /\ q.from = r.from
             /\ q.to # NULL =>
                  \E h \in past' : h.at = q.to /\ r.fact \notin FactsOf(Tree[h.commit], h.build)

LifetimesKept == [][KeepsLifetimes]_vars

(***************************************************************************)
(* The store implements the rebuild it saves: every delta takes the live   *)
(* facts from those of one commit to those of the next, and a crash, a     *)
(* retry or an error takes them nowhere.                                   *)
(***************************************************************************)
Rebuild == INSTANCE FullRebuild WITH answer <- LiveFacts, at <- resume, analyzer <- build
ImplementsRebuild == Rebuild!Spec
-----------------------------------------------------------------------------
(***************************************************************************)
(* What selection takes for granted, and Go source does not always grant.  *)
(***************************************************************************)
CleanCommits == {c \in Commits : CheckPoison(Tree[c])}

DispatchedIn(p, b) == UNION {DOMAIN d.inputs.interfaces : d \in ComputeFacts(p, b)}

\* A fact of a file that two commits share is derived in both, unless an
\* implementer set it depends on differs.
LocalDerivation ==
  \A c, e \in CleanCommits, b \in Build :
    \A d \in ComputeFacts(Tree[c], b) :
      Tree[c][d.fact.file] = Tree[e][d.fact.file] =>
        /\ DOMAIN d.inputs.interfaces \subseteq DispatchedIn(Tree[e], b)
        /\ (\A i \in DOMAIN d.inputs.interfaces :
               Implementers(Tree[c], i) = Implementers(Tree[e], i))
           => d \in ComputeFacts(Tree[e], b)

\* One natural key always dispatches through the same interfaces.
UniqueDerivation ==
  \A c, e \in CleanCommits, a, b \in Build :
    \A d \in ComputeFacts(Tree[c], a), g \in ComputeFacts(Tree[e], b) :
      d.fact = g.fact => DOMAIN d.inputs.interfaces = DOMAIN g.inputs.interfaces

\* Two calls with one natural key are on the same interface, in all commits.
SitesStay ==
  \A c, e \in CleanCommits, f \in File :
    \A k \in Calls(Tree[c], f), n \in Calls(Tree[e], f) :
      k.line = n.line /\ k.caller = n.caller /\ k.method = n.method =>
        \A i \in StaticType(Tree[c], k.on) \cap Interface, j \in StaticType(Tree[e], n.on) \cap Interface : i = j

\* Conditions on the sources of a branch that grant both.
SourcesKeep ==
  /\ \A c, e \in CleanCommits : TypesKept(Tree[c], Tree[e]) /\ NothingPromoted(Tree[c])
  /\ SitesStay

\* There is one build; or versions tell builds apart, and none is installed
\* while the version of the live facts is not on record.
VersionsTell ==
  \/ \A a, b \in Build : a = b
  \/ /\ \A a, b \in Build : VersionOf[a] = VersionOf[b] => a = b
     /\ ~ UpgradeBehind

-----------------------------------------------------------------------------
(***************************************************************************)
(* The inductive invariant.  Between deltas the store is that of one clean *)
(* commit: its files, and a live row for each of its derivations.          *)
(***************************************************************************)
Derived(r) == [fact |-> r.fact, inputs |-> r.inputs]

LiveDerived == {Derived(r) : r \in Live}

AtStage(stage) == delta # NULL /\ delta.stage = stage

\* Nothing is indexed, or the last delta of past is what the store holds.
Settled ==
  /\ \/ /\ resume = 0 /\ past = {} /\ facts = {}
        /\ versions = [f \in File |-> NULL]
     \/ resume > 0 /\ \E h \in past : h.at = resume - 1
  /\ \A h \in past :
       /\ h.at < resume /\ h.commit \in CleanCommits
       /\ h.at = resume - 1 =>
            /\ versions = Tree[h.commit]
            /\ LiveDerived = ComputeFacts(Tree[h.commit], h.build)
            /\ h.build = build \/ recorded = VersionOf[h.build]
            /\ AtStage("applied") => h.build = build

\* The table of implementer sets knows what the live rows have recorded.
TableAgrees ==
  \A r \in Live : \A i \in DOMAIN r.inputs.interfaces :
    i \in DOMAIN implementers /\ implementers[i] = r.inputs.interfaces[i]

RowsOrdered ==
  /\ \A r \in facts :
       r.from < resume /\ (r.to # NULL => r.from < r.to /\ r.to < resume)
  /\ \A r, q \in Live : r.fact = q.fact => r = q

\* Nothing the delta read before its transaction has moved since.
DeltaCurrent ==
  /\ delta # NULL => delta.commit \in CleanCommits
  /\ AtStage("loaded") =>
       /\ delta.at \in resume .. MaxSeq - 1
       /\ delta.changed = ChangedFiles(Tree[delta.commit])
  /\ AtStage("applied") => resume > 0

Inductive ==
  TypeOK /\ Settled /\ TableAgrees /\ RowsOrdered /\ DeltaCurrent
=============================================================================
