------------------------------ MODULE Indexer ------------------------------
(***************************************************************************)
(* RunIndexer over the interval store: the loop that decides which commit  *)
(* FactStore indexes next.  A run walks the first-parent history of the    *)
(* branch, refuses it when the part that is indexed was rewritten, lists   *)
(* the commits it did not know, and goes on from the watermark: a commit   *)
(* whose packages have errors is recorded as skipped, any other is         *)
(* indexed.  A run may fail or crash anywhere, and is started again.       *)
(*                                                                         *)
(* Meanwhile the branch moves: commits are pushed, and history is          *)
(* rewritten.  A commit hash covers the commits before it, so it stands    *)
(* for its history: the sequence of the commits from the root.             *)
(***************************************************************************)
EXTENDS FactStore, Sequences

CONSTANTS
  NeedsModules,    \* commits that load only where their modules can be had
  RewritesListed,  \* may history be rewritten that is listed but not indexed?
  MaxFailures      \* bound: number of runs that fail

ASSUME ModulesType == NeedsModules \subseteq Commits
ASSUME RewritesType == RewritesListed \in BOOLEAN
ASSUME FailuresType == MaxFailures \in Nat
ASSUME SomeSeq == MaxSeq > 0

\* A hash has one seq in every history that holds it: its length less one.
Hash == Seq(Commits) \ {<<>>}

ASSUME NullIsNoHash == NULL \notin Seq(Hash)

VARIABLES
  branch,          \* the commits of the branch, oldest first
  commits,         \* atlas.commits: the hash listed at each seq
  fingerprint,     \* linearization_fingerprint, NULL before the first delta
  skipped,         \* atlas.skipped_commits: its seqs
  run,             \* RunIndexer under way, NULL when there is none
  failures

loop == <<branch, commits, fingerprint, skipped, run, failures>>
indexVars == <<vars, loop>>

\* linearize.Walk: the hash of each commit, the root first.
Walk(history) == [i \in 1 .. Len(history) |-> SubSeq(history, 1, i)]

Checkout(hash) == hash[Len(hash)]

\* Mutant: the commit at the watermark is left out.
StableBeforeLast(walked) ==
  fingerprint # NULL =>
    resume <= Len(walked) /\ SubSeq(walked, 1, resume - 1) = SubSeq(fingerprint, 1, resume - 1)

\* VerifyFingerprint, over the commits up to the watermark.
Stable(walked) ==
  \/ fingerprint = NULL
  \/ resume <= Len(walked) /\ SubSeq(walked, 1, resume) = fingerprint

IndexTypeOK ==
  /\ TypeOK
  /\ branch \in Hash /\ Len(branch) <= MaxSeq
  /\ commits \in Seq(Hash) /\ Len(commits) <= MaxSeq
  /\ fingerprint \in Seq(Hash) \cup {NULL}
  /\ skipped \subseteq Nat
  /\ run \in [walked : Seq(Hash), list : Seq(Hash), next : Nat] \cup {NULL}
  /\ failures \in Nat

IndexInit ==
  /\ Init
  /\ branch \in {<<c>> : c \in Commits}
  /\ commits = <<>> /\ fingerprint = NULL /\ skipped = {}
  /\ run = NULL /\ failures = 0

-----------------------------------------------------------------------------
(***************************************************************************)
(* The branch.  A rewrite that leaves the indexed commits alone and        *)
(* changes one that is listed already is a case of its own.                *)
(***************************************************************************)
Kept(history, i) == i <= Len(history) /\ Walk(history)[i] = commits[i]

ChangesListed(history) ==
  /\ \A i \in 1 .. resume : Kept(history, i)
  /\ \E i \in resume + 1 .. Len(commits) : ~ Kept(history, i)

Move(history) ==
  /\ history # branch
  /\ RewritesListed \/ ~ ChangesListed(history)
  /\ branch' = history
  /\ UNCHANGED <<vars, commits, fingerprint, skipped, run, failures>>

Push(c) == Len(branch) < MaxSeq /\ Move(Append(branch, c))

\* A force-push: the commits after the first k are dropped, or replaced.
Rewrite(k, c) ==
  \/ k > 0 /\ Move(SubSeq(branch, 1, k))
  \/ Move(Append(SubSeq(branch, 1, k), c))

-----------------------------------------------------------------------------
\* Mutants: every commit of the walk gets a row, or only those of the first walk.
InsertAgain(walked) == commits \o walked

InsertOnce(walked) == IF commits = <<>> THEN walked ELSE commits

\* InsertCommits: a seq that has a row keeps it.
InsertCommits(walked) == commits \o SubSeq(walked, Len(commits) + 1, Len(walked))

\* SyncCommits and ListCommits; a history that is not stable is refused.
Sync ==
  LET walked == Walk(branch) IN
  /\ run = NULL
  /\ Stable(walked)
  /\ commits' = InsertCommits(walked)
  /\ run' = [walked |-> walked, list |-> commits', next |-> resume]
  /\ UNCHANGED <<vars, branch, fingerprint, skipped, failures>>

\* The loop of RunIndexer is at a commit.
Pending == run # NULL /\ delta = NULL /\ run.next < Len(run.list)

NextCommit == Checkout(run.list[run.next + 1])

\* The poison gate: packages with errors, or, at this load, without a module
\* that a later load may find.
Refuses(c) == ~ CheckPoison(Tree[c]) \/ c \in NeedsModules

\* Mutant: the gate leaves no record.
SkipSilently ==
  /\ Pending
  /\ Refuses(NextCommit)
  /\ run' = [run EXCEPT !.next = run.next + 1]
  /\ UNCHANGED <<vars, branch, commits, fingerprint, skipped, failures>>

\* No row is ever taken out of the skip record.
RecordSkippedCommit ==
  /\ Pending
  /\ Refuses(NextCommit)
  /\ skipped' = skipped \cup {run.next}
  /\ run' = [run EXCEPT !.next = run.next + 1]
  /\ UNCHANGED <<vars, branch, commits, fingerprint, failures>>

IndexCommit ==
  /\ Pending
  /\ Load(NextCommit, run.next)
  /\ UNCHANGED loop

\* Mutant: the branch is walked again for the fingerprint.
FingerprintOfBranch(upTo) ==
  SubSeq(Walk(branch), 1, IF upTo < Len(branch) THEN upTo + 1 ELSE Len(branch))

\* The delta's transaction, with the fingerprint of the commits up to its seq.
Fingerprint(upTo) == SubSeq(run.list, 1, upTo + 1)

CommitDelta ==
  /\ ApplyDelta
  /\ fingerprint' = Fingerprint(delta.at)
  /\ UNCHANGED <<branch, commits, skipped, run, failures>>

Advance ==
  /\ SetAnalyzerVersion
  /\ run' = [run EXCEPT !.next = run.next + 1]
  /\ UNCHANGED <<branch, commits, fingerprint, skipped, failures>>

Return ==
  /\ run # NULL
  /\ delta = NULL
  /\ run.next >= Len(run.list)
  /\ run' = NULL
  /\ UNCHANGED <<vars, branch, commits, fingerprint, skipped, failures>>

\* A failed checkout, load or query, or a crash: the run is over.
Fail ==
  /\ run # NULL
  /\ failures < MaxFailures
  /\ Rollback \/ Crash \/ (delta = NULL /\ UNCHANGED vars)
  /\ run' = NULL
  /\ failures' = failures + 1
  /\ UNCHANGED <<branch, commits, fingerprint, skipped>>

Upgrade(b) == run = NULL /\ Install(b) /\ UNCHANGED loop

Run == Sync \/ RecordSkippedCommit \/ IndexCommit \/ CommitDelta \/ Advance \/ Return

IndexNext ==
  \/ \E c \in Commits : Push(c)
  \/ \E k \in 0 .. Len(branch) - 1, c \in Commits : Rewrite(k, c)
  \/ Run
  \/ Fail
  \/ \E b \in Build : Upgrade(b)

IndexSpec == IndexInit /\ [][IndexNext]_indexVars

\* A run goes on while it can, and RunIndexer is called again and again.
FairIndexSpec == IndexSpec /\ WF_indexVars(Run)
-----------------------------------------------------------------------------
(***************************************************************************)
(* architecture.md, I16: a run that was not refused indexes the branch it  *)
(* walked, and what was indexed before it is of the same history: the      *)
(* commits up to the watermark are the first ones of the walk.             *)
(***************************************************************************)
OneHistory ==
  run # NULL /\ fingerprint # NULL =>
    \A i \in 1 .. resume : i <= Len(run.walked) /\ run.walked[i] = fingerprint[i]

(***************************************************************************)
(* architecture.md, I9 and I16: the fingerprint tells which commits the    *)
(* facts come from, at every instant, crashes included: it ends at the     *)
(* watermark, and each applied delta derived the facts of its commit.      *)
(***************************************************************************)
FingerprintTellsFacts ==
  IF fingerprint = NULL
    THEN resume = 0 /\ past = {}
    ELSE /\ Len(fingerprint) = resume
         /\ \A h \in past : h.commit = Checkout(fingerprint[h.at + 1])

(***************************************************************************)
(* No commit is lost silently: each seq up to the watermark was indexed,   *)
(* or it is on record as skipped.  It may be both: a commit that was       *)
(* skipped at the end of a run and loads in the next one stays on record.  *)
(***************************************************************************)
EverySeqAccounted ==
  \A s \in 0 .. resume - 1 : s \in Indexed \/ s \in skipped

(***************************************************************************)
(* What the store is for (interval.go:104, QueryFactsAt): whichever seq up *)
(* to the watermark a reader asks for, the answer is that of a full        *)
(* rebuild of the commit the fingerprint lists there, or of the last one   *)
(* before it that could be indexed, whatever failed, moved or was skipped. *)
(***************************************************************************)
AnswersFollowBranch ==
  \A s \in 0 .. resume - 1 :
    FactsAt(s) =
      UNION {FactsOf(Tree[Checkout(fingerprint[h.at + 1])], h.build) : h \in LastIndexed(s)}

(***************************************************************************)
(* Every commit of the branch is indexed or skipped in the end, whatever   *)
(* fails on the way, unless the history that is indexed was rewritten.     *)
(***************************************************************************)
CommitsGetIndexed ==
  \A s \in 0 .. MaxSeq - 1 :
    Len(branch) > s
      ~> s \in Indexed \cup skipped \/ Len(branch) <= s \/ ~ Stable(Walk(branch))

-----------------------------------------------------------------------------
(***************************************************************************)
(* The inductive invariant.  The table lists one history: its first rows   *)
(* are the fingerprint, the applied deltas and the skip record are about   *)
(* its rows, and a run works on it, from the watermark on.                 *)
(***************************************************************************)
TableBeginsWithFingerprint ==
  /\ resume <= Len(commits)
  /\ fingerprint = IF resume = 0 THEN NULL ELSE SubSeq(commits, 1, resume)

PastIsListed ==
  \A h \in past :
    /\ h.at < resume
    /\ h.commit = Checkout(commits[h.at + 1])
    /\ CheckPoison(Tree[h.commit])

SkippedIsRefused ==
  \A s \in skipped : s < Len(commits) /\ Refuses(Checkout(commits[s + 1]))

\* What lies between the watermark and the place of a run was skipped.
RunFollowsTable ==
  run # NULL =>
    /\ run.list = commits
    /\ run.next <= Len(commits)
    /\ ~ AtStage("applied") => resume <= run.next
    /\ \A s \in resume .. run.next - 1 : s \in skipped

DeltaIsOfRun ==
  delta # NULL =>
    /\ run # NULL /\ run.next < Len(commits)
    /\ delta.at = run.next
    /\ delta.commit = Checkout(commits[run.next + 1])
    /\ CheckPoison(Tree[delta.commit])
    /\ AtStage("applied") => resume = run.next + 1

IndexInductive ==
  /\ IndexTypeOK
  /\ TableBeginsWithFingerprint
  /\ PastIsListed
  /\ SkippedIsRefused
  /\ RunFollowsTable
  /\ DeltaIsOfRun
  /\ EverySeqAccounted

\* When no listed row is rewritten, a run that is not refused walked the table.
OneTable ==
  /\ ~ ChangesListed(branch)
  /\ run # NULL => run.walked = commits
=============================================================================
