--------------------------- MODULE IndexerProofs ---------------------------
(***************************************************************************)
(* Proofs about Indexer: it is an instance of FactStore, its fingerprint   *)
(* tells what the facts are, and it loses no commit.                       *)
(***************************************************************************)
EXTENDS Indexer, FactHistoryProofs, SequenceTheorems

-----------------------------------------------------------------------------
(***************************************************************************)
(* Lemmas about the operators.                                             *)
(***************************************************************************)

\* The walk of a branch lists one hash per commit.
LEMMA WalkType ==
  ASSUME NEW history \in Hash
  PROVE  /\ Walk(history) \in Seq(Hash)
         /\ Len(Walk(history)) = Len(history)
<1>1. history \in Seq(Commits) /\ Len(history) \in Nat
  BY DEF Hash
<1>2. ASSUME NEW i \in 1 .. Len(history) PROVE SubSeq(history, 1, i) \in Hash
  <2>1. \A j \in 1 .. i : history[j] \in Commits
    BY <1>1, ElementOfSeq
  <2>2. SubSeq(history, 1, i) \in Seq(Commits) /\ Len(SubSeq(history, 1, i)) = i
    BY <2>1, SubSeqProperties
  <2> QED BY <2>2, EmptySeq DEF Hash
<1>3. Walk(history) \in Seq(Hash)
  BY <1>1, <1>2, IsASeq DEF Walk
<1>4. Len(Walk(history)) = Len(history)
  BY <1>1 DEF Walk
<1> QED BY <1>3, <1>4

\* A row that is there is kept, and rows of the walk are added behind it.
LEMMA InsertType ==
  ASSUME commits \in Seq(Hash), NEW walked \in Seq(Hash)
  PROVE  /\ InsertCommits(walked) \in Seq(Hash)
         /\ Len(InsertCommits(walked)) = IF Len(walked) > Len(commits) THEN Len(walked)
                                                                      ELSE Len(commits)
         /\ \A i \in 1 .. Len(commits) : InsertCommits(walked)[i] = commits[i]
         /\ \A i \in Len(commits) + 1 .. Len(walked) : InsertCommits(walked)[i] = walked[i]
<1> DEFINE old == Len(commits)
           new == Len(walked)
           added == SubSeq(walked, old + 1, new)
<1>1. old \in Nat /\ new \in Nat
  BY LenProperties
<1>2. \A i \in old + 1 .. new : walked[i] \in Hash
  BY <1>1, ElementOfSeq
<1>3. /\ added \in Seq(Hash)
      /\ Len(added) = IF old + 1 <= new THEN new - (old + 1) + 1 ELSE 0
      /\ \A i \in 1 .. new - (old + 1) + 1 : added[i] = walked[old + 1 + i - 1]
  BY <1>1, <1>2, SubSeqProperties
<1>4. /\ InsertCommits(walked) \in Seq(Hash)
      /\ Len(InsertCommits(walked)) = old + Len(added)
      /\ \A i \in 1 .. old + Len(added) :
           InsertCommits(walked)[i] = IF i <= old THEN commits[i] ELSE added[i - old]
  BY <1>3, ConcatProperties DEF InsertCommits
<1>5. Len(InsertCommits(walked)) = IF new > old THEN new ELSE old
  BY <1>1, <1>3, <1>4
<1>6. \A i \in 1 .. old : InsertCommits(walked)[i] = commits[i]
  BY <1>1, <1>3, <1>4
<1>7. ASSUME NEW i \in old + 1 .. new PROVE InsertCommits(walked)[i] = walked[i]
  <2>1. i - old \in 1 .. new - (old + 1) + 1 /\ old + 1 + (i - old) - 1 = i
    BY <1>1
  <2>2. added[i - old] = walked[i]
    BY <1>3, <2>1
  <2>3. i \in 1 .. old + Len(added) /\ ~ (i <= old)
    BY <1>1, <1>3
  <2> QED BY <1>4, <2>2, <2>3
<1> HIDE DEF added
<1> QED BY <1>4, <1>5, <1>6, <1>7

\* The first rows are what SubSeq takes.
LEMMA PrefixType ==
  ASSUME NEW list \in Seq(Hash), NEW n \in Nat, n <= Len(list)
  PROVE  /\ SubSeq(list, 1, n) \in Seq(Hash)
         /\ Len(SubSeq(list, 1, n)) = n
         /\ \A i \in 1 .. n : SubSeq(list, 1, n)[i] = list[i]
<1>1. \A i \in 1 .. n : list[i] \in Hash
  BY LenProperties, ElementOfSeq
<1>2. /\ SubSeq(list, 1, n) \in Seq(Hash)
      /\ Len(SubSeq(list, 1, n)) = IF 1 <= n THEN n - 1 + 1 ELSE 0
      /\ \A i \in 1 .. n - 1 + 1 : SubSeq(list, 1, n)[i] = list[1 + i - 1]
  BY <1>1, SubSeqProperties
<1> QED BY <1>2

LEMMA CheckoutType ==
  ASSUME NEW hash \in Hash
  PROVE  Checkout(hash) \in Commits
<1>1. hash \in Seq(Commits) /\ Len(hash) \in Nat /\ Len(hash) # 0
  BY EmptySeq DEF Hash
<1> QED BY <1>1, ElementOfSeq DEF Checkout

-----------------------------------------------------------------------------
(***************************************************************************)
(* The indexer is an instance of the store.                                *)
(***************************************************************************)

\* The commit that a run is at is one.
LEMMA NextCommitType ==
  ASSUME IndexInductive, Pending
  PROVE  /\ run \in [walked : Seq(Hash), list : Seq(Hash), next : Nat]
         /\ run.list = commits /\ run.next \in Nat /\ run.next < Len(commits)
         /\ resume \in Nat /\ resume <= run.next
         /\ NextCommit \in Commits
         /\ NextCommit = Checkout(commits[run.next + 1])
<1>1. /\ run \in [walked : Seq(Hash), list : Seq(Hash), next : Nat]
      /\ run.list = commits /\ run.next < Len(commits) /\ run.next \in Nat
      /\ resume <= run.next /\ resume \in Nat
  BY DEF IndexInductive, IndexTypeOK, TypeOK, RunFollowsTable, Pending, AtStage
<1>2. commits \in Seq(Hash) /\ Len(commits) \in Nat
  BY LenProperties DEF IndexInductive, IndexTypeOK
<1>3. commits[run.next + 1] \in Hash
  BY <1>1, <1>2, ElementOfSeq
<1> QED BY <1>1, <1>3, CheckoutType DEF NextCommit

\* Each step of the indexer is one of the store, or leaves it alone.
LEMMA StoreStep == IndexInductive /\ [IndexNext]_indexVars => [Next]_vars
<1> SUFFICES ASSUME IndexInductive, [IndexNext]_indexVars PROVE [Next]_vars
  OBVIOUS
<1>1. CASE \E c \in Commits : Push(c)
  BY <1>1 DEF Push, Move
<1>2. CASE \E k \in 0 .. Len(branch) - 1, c \in Commits : Rewrite(k, c)
  BY <1>2 DEF Rewrite, Move
<1>3. CASE Sync \/ RecordSkippedCommit \/ Return
  BY <1>3 DEF Sync, RecordSkippedCommit, Return
<1>4. CASE IndexCommit
  <2>1. NextCommit \in Commits /\ resume \in Nat
    BY <1>4, NextCommitType DEF IndexCommit
  <2>2. Load(NextCommit, run.next) /\ run.next \in 0 .. MaxSeq - 1
    BY <1>4, <2>1, SeqBound DEF IndexCommit, Load
  <2> QED BY <2>1, <2>2 DEF Next
<1>5. CASE CommitDelta \/ Advance
  BY <1>5 DEF CommitDelta, Advance, Next, Finish
<1>6. CASE Fail
  BY <1>6 DEF Fail, Next, Finish
<1>7. CASE \E b \in Build : Upgrade(b)
  BY <1>7 DEF Upgrade, Next
<1>8. CASE UNCHANGED indexVars
  BY <1>8 DEF indexVars
<1> QED BY <1>1, <1>2, <1>3, <1>4, <1>5, <1>6, <1>7, <1>8 DEF IndexNext, Run

-----------------------------------------------------------------------------
(***************************************************************************)
(* The inductive invariant.                                                *)
(***************************************************************************)
LEMMA InitIndexInductive == IndexInit => IndexInductive
<1> SUFFICES ASSUME IndexInit PROVE IndexInductive
  OBVIOUS
<1>1. TypeOK
  BY InitType DEF IndexInit
<1>2. resume = 0 /\ past = {} /\ delta = NULL
  BY DEF IndexInit, Init
<1>3. commits \in Seq(Hash) /\ Len(commits) = 0
  BY EmptySeq DEF IndexInit
<1>4. PICK c \in Commits : branch = <<c>>
  BY DEF IndexInit
<1>5. branch \in Seq(Commits) /\ Len(branch) = 1 /\ branch # <<>>
  BY <1>4
<1>6. IndexTypeOK
  BY <1>1, <1>3, <1>5, SomeSeq, SeqBound DEF IndexInit, IndexTypeOK, Hash
<1>7. /\ TableBeginsWithFingerprint /\ PastIsListed /\ SkippedIsRefused
      /\ RunFollowsTable /\ DeltaIsOfRun
  BY <1>2, <1>3
  DEF IndexInit, TableBeginsWithFingerprint, PastIsListed, SkippedIsRefused,
      RunFollowsTable, DeltaIsOfRun
<1>8. EverySeqAccounted
  BY <1>2 DEF EverySeqAccounted
<1> QED BY <1>6, <1>7, <1>8 DEF IndexInductive

\* What a step leaves alone when it changes neither the table nor the store.
LEMMA TableAlone ==
  ASSUME IndexInductive, UNCHANGED <<vars, commits, fingerprint, skipped>>
  PROVE  /\ TypeOK'
         /\ TableBeginsWithFingerprint' /\ PastIsListed' /\ SkippedIsRefused'
         /\ EverySeqAccounted'
<1>1. UNCHANGED <<facts, implementers, versions, resume, recorded, build, delta, past>>
  BY DEF vars
<1>2. TypeOK'
  BY <1>1 DEF IndexInductive, IndexTypeOK, TypeOK
<1>3. TableBeginsWithFingerprint' /\ PastIsListed' /\ SkippedIsRefused' /\ EverySeqAccounted'
  BY <1>1
  DEF IndexInductive, TableBeginsWithFingerprint, PastIsListed, SkippedIsRefused,
      EverySeqAccounted, Indexed
<1> QED BY <1>2, <1>3

LEMMA MoveInductive ==
  ASSUME IndexInductive, NEW history \in Hash, Len(history) <= MaxSeq, Move(history)
  PROVE  IndexInductive'
<1>1. UNCHANGED <<vars, commits, fingerprint, skipped, run, failures>> /\ branch' = history
  BY DEF Move
<1>2. UNCHANGED <<delta, resume>>
  BY <1>1 DEF vars
<1>3. IndexTypeOK'
  BY <1>1, TableAlone DEF IndexInductive, IndexTypeOK
<1>4. RunFollowsTable' /\ DeltaIsOfRun'
  BY <1>1, <1>2 DEF IndexInductive, RunFollowsTable, DeltaIsOfRun, AtStage
<1> QED BY <1>1, <1>3, <1>4, TableAlone DEF IndexInductive

\* Pushes and rewrites.
LEMMA BranchInductive ==
  ASSUME IndexInductive,
         \/ \E c \in Commits : Push(c)
         \/ \E k \in 0 .. Len(branch) - 1, c \in Commits : Rewrite(k, c)
  PROVE  \E history \in Hash : Len(history) <= MaxSeq /\ Move(history)
<1>1. branch \in Seq(Commits) /\ Len(branch) \in Nat /\ Len(branch) <= MaxSeq
  BY LenProperties DEF IndexInductive, IndexTypeOK, Hash
<1>2. ASSUME NEW c \in Commits, Push(c) PROVE \E history \in Hash : Len(history) <= MaxSeq /\ Move(history)
  <2> DEFINE pushed == Append(branch, c)
  <2>1. pushed \in Seq(Commits) /\ Len(pushed) = Len(branch) + 1
    BY <1>1, AppendProperties
  <2>2. Len(branch) < MaxSeq /\ Move(pushed)
    BY <1>2 DEF Push
  <2> HIDE DEF pushed
  <2>3. pushed \in Hash /\ Len(pushed) <= MaxSeq
    BY <1>1, <2>1, <2>2, EmptySeq, SeqBound DEF Hash
  <2> QED BY <2>2, <2>3
<1>3. ASSUME NEW k \in 0 .. Len(branch) - 1, NEW c \in Commits, Rewrite(k, c)
      PROVE  \E history \in Hash : Len(history) <= MaxSeq /\ Move(history)
  <2> DEFINE kept == SubSeq(branch, 1, k)
  <2>1. kept \in Seq(Commits) /\ Len(kept) = k
    <3>1. k \in Nat /\ \A j \in 1 .. k : branch[j] \in Commits
      BY <1>1, ElementOfSeq
    <3> QED BY <3>1, SubSeqProperties
  <2>2. Append(kept, c) \in Seq(Commits) /\ Len(Append(kept, c)) = k + 1
    BY <2>1, AppendProperties
  <2>3. Append(kept, c) \in Hash /\ Len(Append(kept, c)) <= MaxSeq
    BY <1>1, <2>2, EmptySeq, SeqBound DEF Hash
  <2>4. k > 0 => kept \in Hash /\ Len(kept) <= MaxSeq
    BY <1>1, <2>1, EmptySeq, SeqBound DEF Hash
  <2>5. (k > 0 /\ Move(kept)) \/ Move(Append(kept, c))
    BY <1>3 DEF Rewrite
  <2> QED BY <2>3, <2>4, <2>5
<1> QED BY <1>2, <1>3

LEMMA SyncInductive ==
  ASSUME IndexInductive, Sync
  PROVE  IndexInductive'
<1> DEFINE walked == Walk(branch)
<1>1. /\ UNCHANGED <<vars, branch, fingerprint, skipped, failures>>
      /\ commits' = InsertCommits(walked)
      /\ run = NULL /\ run' = [walked |-> walked, list |-> commits', next |-> resume]
  BY DEF Sync
<1>2. UNCHANGED <<facts, implementers, versions, resume, recorded, build, delta, past>>
  BY <1>1 DEF vars
<1>3. /\ commits \in Seq(Hash) /\ Len(commits) \in Nat /\ Len(commits) <= MaxSeq
      /\ branch \in Hash /\ Len(branch) \in Nat /\ Len(branch) <= MaxSeq /\ resume \in Nat
      /\ resume <= Len(commits)
  BY LenProperties
  DEF IndexInductive, IndexTypeOK, TypeOK, TableBeginsWithFingerprint, Hash
<1>4. walked \in Seq(Hash) /\ Len(walked) = Len(branch)
  BY <1>3, WalkType
<1>5. /\ commits' \in Seq(Hash) /\ Len(commits') <= MaxSeq /\ Len(commits') >= Len(commits)
      /\ Len(commits') \in Nat
      /\ \A i \in 1 .. Len(commits) : commits'[i] = commits[i]
  <2> DEFINE inserted == InsertCommits(walked)
  <2>1. /\ inserted \in Seq(Hash)
        /\ Len(inserted) = IF Len(walked) > Len(commits) THEN Len(walked) ELSE Len(commits)
        /\ \A i \in 1 .. Len(commits) : inserted[i] = commits[i]
    BY <1>3, <1>4, InsertType
  <2>2. commits' = inserted
    BY <1>1
  <2> HIDE DEF inserted, walked
  <2> QED BY <1>3, <1>4, <2>1, <2>2, SeqBound
<1>6. IndexTypeOK'
  <2>1. TypeOK'
    BY <1>2 DEF IndexInductive, IndexTypeOK, TypeOK
  <2> QED BY <1>1, <1>3, <1>4, <1>5, <2>1 DEF IndexInductive, IndexTypeOK
<1>7. TableBeginsWithFingerprint'
  <2>1. SubSeq(commits', 1, resume) = SubSeq(commits, 1, resume)
    <3>1. /\ SubSeq(commits, 1, resume) \in Seq(Hash) /\ Len(SubSeq(commits, 1, resume)) = resume
          /\ \A i \in 1 .. resume : SubSeq(commits, 1, resume)[i] = commits[i]
      BY <1>3, PrefixType
    <3>2. resume <= Len(commits')
      BY <1>3, <1>5
    <3>3. /\ SubSeq(commits', 1, resume) \in Seq(Hash) /\ Len(SubSeq(commits', 1, resume)) = resume
          /\ \A i \in 1 .. resume : SubSeq(commits', 1, resume)[i] = commits'[i]
      BY <1>3, <1>5, <3>2, PrefixType
    <3>4. \A i \in 1 .. resume : commits'[i] = commits[i]
      BY <1>3, <1>5
    <3> QED BY <3>1, <3>3, <3>4, SeqEqual
  <2>2. fingerprint = IF resume = 0 THEN NULL ELSE SubSeq(commits, 1, resume)
    BY DEF IndexInductive, TableBeginsWithFingerprint
  <2>3. fingerprint' = IF resume' = 0 THEN NULL ELSE SubSeq(commits', 1, resume')
    BY <1>1, <1>2, <2>1, <2>2
  <2>4. resume' <= Len(commits')
    BY <1>2, <1>3, <1>5
  <2> QED BY <2>3, <2>4 DEF TableBeginsWithFingerprint
<1>8. PastIsListed'
  <2>1. \A h \in past : h.at \in Nat
    BY DEF IndexInductive, IndexTypeOK, TypeOK
  <2>2. \A h \in past : h.at + 1 \in 1 .. Len(commits)
    BY <1>3, <2>1 DEF IndexInductive, PastIsListed
  <2> QED BY <1>2, <1>5, <2>2 DEF IndexInductive, PastIsListed
<1>9. SkippedIsRefused'
  <2>1. \A s \in skipped : s \in Nat /\ s < Len(commits)
    BY DEF IndexInductive, IndexTypeOK, SkippedIsRefused
  <2>2. \A s \in skipped : s + 1 \in 1 .. Len(commits) /\ s < Len(commits')
    BY <1>3, <1>5, <2>1
  <2> QED BY <1>1, <1>5, <2>2 DEF IndexInductive, SkippedIsRefused
<1>10. RunFollowsTable'
  <2>1. run'.list = commits' /\ run'.next = resume
    BY <1>1
  <2> QED BY <1>2, <1>3, <1>5, <2>1 DEF RunFollowsTable
<1>11. DeltaIsOfRun'
  BY <1>1, <1>2 DEF IndexInductive, DeltaIsOfRun
<1>12. EverySeqAccounted'
  BY <1>1, <1>2 DEF IndexInductive, EverySeqAccounted, Indexed
<1> QED BY <1>6, <1>7, <1>8, <1>9, <1>10, <1>11, <1>12 DEF IndexInductive

\* The gate refuses the commit the run is at.
LEMMA SkipInductive ==
  ASSUME IndexInductive, RecordSkippedCommit
  PROVE  IndexInductive'
<1>1. /\ UNCHANGED <<vars, branch, commits, fingerprint, failures>>
      /\ Refuses(NextCommit)
      /\ skipped' = skipped \cup {run.next}
      /\ run' = [run EXCEPT !.next = run.next + 1]
      /\ delta = NULL
  BY DEF RecordSkippedCommit, Pending
<1>2. UNCHANGED <<facts, implementers, versions, resume, recorded, build, delta, past>>
  BY <1>1 DEF vars
<1>3. /\ run \in [walked : Seq(Hash), list : Seq(Hash), next : Nat]
      /\ run.list = commits /\ run.next \in Nat /\ run.next < Len(commits)
      /\ resume \in Nat /\ resume <= run.next
      /\ NextCommit = Checkout(commits[run.next + 1])
  BY NextCommitType DEF RecordSkippedCommit
<1>4. commits \in Seq(Hash) /\ Len(commits) \in Nat
  BY LenProperties DEF IndexInductive, IndexTypeOK
<1>5. /\ run' \in [walked : Seq(Hash), list : Seq(Hash), next : Nat]
      /\ run'.list = commits /\ run'.next = run.next + 1
  BY <1>1, <1>3
<1>6. IndexTypeOK'
  <2>1. TypeOK'
    BY <1>2 DEF IndexInductive, IndexTypeOK, TypeOK
  <2>2. skipped' \subseteq Nat
    BY <1>1, <1>3 DEF IndexInductive, IndexTypeOK
  <2> QED BY <1>1, <1>5, <2>1, <2>2 DEF IndexInductive, IndexTypeOK
<1>7. TableBeginsWithFingerprint' /\ PastIsListed'
  BY <1>1, <1>2 DEF IndexInductive, TableBeginsWithFingerprint, PastIsListed
<1>8. SkippedIsRefused'
  BY <1>1, <1>3 DEF IndexInductive, SkippedIsRefused
<1>9. RunFollowsTable'
  <2>1. \A s \in resume .. run.next - 1 : s \in skipped
    BY <1>3, <1>5 DEF IndexInductive, RunFollowsTable, RecordSkippedCommit, Pending
  <2>2. \A s \in resume .. run'.next - 1 : s \in skipped'
    BY <1>1, <1>3, <1>5, <2>1
  <2>3. run'.next <= Len(commits) /\ resume <= run'.next
    BY <1>3, <1>4, <1>5
  <2> QED BY <1>1, <1>2, <1>5, <2>2, <2>3 DEF RunFollowsTable
<1>10. DeltaIsOfRun'
  BY <1>1, <1>2 DEF DeltaIsOfRun
<1>11. EverySeqAccounted'
  <2>1. \A s \in 0 .. resume - 1 : s # run.next
    BY <1>3
  <2> QED BY <1>1, <1>2, <2>1 DEF IndexInductive, EverySeqAccounted, Indexed
<1> QED BY <1>6, <1>7, <1>8, <1>9, <1>10, <1>11 DEF IndexInductive

LEMMA LoadInductive ==
  ASSUME IndexInductive, IndexCommit
  PROVE  IndexInductive'
<1>1. /\ UNCHANGED <<branch, commits, fingerprint, skipped, run, failures>>
      /\ UNCHANGED <<facts, implementers, versions, resume, recorded, build, past>>
      /\ delta = NULL /\ run # NULL /\ CheckPoison(Tree[NextCommit])
      /\ delta' = [commit |-> NextCommit, at |-> run.next,
                   changed |-> ChangedFiles(Tree[NextCommit]), stage |-> "loaded"]
  BY DEF IndexCommit, Load, Pending, loop, store
<1>2. /\ run.next < Len(commits) /\ run.list = commits
      /\ NextCommit = Checkout(commits[run.next + 1])
      /\ resume <= run.next /\ resume \in Nat
  BY NextCommitType DEF IndexCommit
<1>3. TypeOK'
  <2>1. [Next]_vars
    BY StoreStep DEF IndexNext, Run
  <2> QED BY <2>1, NextType DEF IndexInductive, IndexTypeOK
<1>4. IndexTypeOK'
  BY <1>1, <1>3 DEF IndexInductive, IndexTypeOK
<1>5. TableBeginsWithFingerprint' /\ PastIsListed' /\ SkippedIsRefused' /\ EverySeqAccounted'
  BY <1>1
  DEF IndexInductive, TableBeginsWithFingerprint, PastIsListed, SkippedIsRefused,
      EverySeqAccounted, Indexed
<1>6. RunFollowsTable'
  BY <1>1, <1>2 DEF IndexInductive, RunFollowsTable
<1>7. DeltaIsOfRun'
  <2>1. /\ delta'.at = run.next /\ delta'.commit = NextCommit /\ delta'.stage = "loaded"
    BY <1>1
  <2> QED BY <1>1, <1>2, <2>1 DEF DeltaIsOfRun, AtStage
<1> QED BY <1>4, <1>5, <1>6, <1>7 DEF IndexInductive

LEMMA CommitDeltaInductive ==
  ASSUME IndexInductive, CommitDelta
  PROVE  IndexInductive'
<1>1. /\ UNCHANGED <<branch, commits, skipped, run, failures>>
      /\ fingerprint' = SubSeq(run.list, 1, delta.at + 1)
      /\ delta # NULL /\ delta.stage = "loaded"
      /\ delta' = [delta EXCEPT !.stage = "applied"]
      /\ resume' = delta.at + 1
      /\ past' = past \cup {[at |-> delta.at, commit |-> delta.commit, build |-> build]}
  BY DEF CommitDelta, ApplyDelta, Fingerprint
<1>2. AtStage("loaded") /\ ~ AtStage("applied")
  BY <1>1 DEF AtStage
<1>3. /\ run # NULL /\ run.next < Len(commits) /\ run.next \in Nat
      /\ delta.at = run.next /\ run.list = commits
      /\ delta.commit = Checkout(commits[run.next + 1])
      /\ CheckPoison(Tree[delta.commit])
      /\ resume <= run.next /\ resume \in Nat
      /\ \A s \in resume .. run.next - 1 : s \in skipped
  BY <1>1, <1>2 DEF IndexInductive, DeltaIsOfRun, RunFollowsTable, IndexTypeOK, TypeOK
<1>4. delta \in Deltas
  BY <1>1 DEF IndexInductive, IndexTypeOK, TypeOK
<1>5. delta'.at = delta.at /\ delta'.commit = delta.commit /\ delta'.stage = "applied"
  BY <1>1, <1>4 DEF Deltas
<1>6. commits \in Seq(Hash) /\ Len(commits) \in Nat
  BY LenProperties DEF IndexInductive, IndexTypeOK
<1>7. fingerprint' = SubSeq(commits, 1, resume') /\ resume' = run.next + 1
      /\ resume' <= Len(commits) /\ resume' \in Nat
  BY <1>1, <1>3, <1>6
<1>8. IndexTypeOK'
  <2>1. TypeOK'
    <3>1. [Next]_vars
      BY StoreStep DEF IndexNext, Run
    <3> QED BY <3>1, NextType DEF IndexInductive, IndexTypeOK
  <2>2. fingerprint' \in Seq(Hash)
    BY <1>6, <1>7, PrefixType
  <2> QED BY <1>1, <2>1, <2>2 DEF IndexInductive, IndexTypeOK
<1>9. TableBeginsWithFingerprint'
  BY <1>1, <1>3, <1>7 DEF TableBeginsWithFingerprint
<1>10. PastIsListed'
  <2>1. \A h \in past : h.at \in Nat /\ h.at < resume'
    <3>1. \A h \in past : h.at \in Nat /\ h.at < resume
      BY DEF IndexInductive, IndexTypeOK, TypeOK, PastIsListed
    <3> QED BY <1>3, <1>7, <3>1
  <2> DEFINE now == [at |-> delta.at, commit |-> delta.commit, build |-> build]
  <2>2. now.at < resume' /\ now.commit = Checkout(commits[now.at + 1]) /\ CheckPoison(Tree[now.commit])
    <3>1. now.at = run.next /\ now.commit = delta.commit
      BY <1>3
    <3> QED BY <1>3, <1>7, <3>1
  <2> HIDE DEF now
  <2>3. past' = past \cup {now}
    BY <1>1 DEF now
  <2> QED BY <1>1, <2>1, <2>2, <2>3 DEF IndexInductive, PastIsListed
<1>11. SkippedIsRefused'
  BY <1>1 DEF IndexInductive, SkippedIsRefused
<1>12. RunFollowsTable'
  <2>1. AtStage("applied")'
    BY <1>4, <1>5, <1>1, NullIsNoDelta DEF AtStage, Deltas
  <2>2. \A s : s \notin resume' .. run.next - 1
    BY <1>3, <1>7
  <2> QED BY <1>1, <1>3, <2>1, <2>2 DEF RunFollowsTable
<1>13. DeltaIsOfRun'
  BY <1>1, <1>3, <1>5, <1>7 DEF DeltaIsOfRun
<1>14. EverySeqAccounted'
  <2>1. Indexed' = Indexed \cup {run.next}
    <3> DEFINE now == [at |-> delta.at, commit |-> delta.commit, build |-> build]
    <3>1. now.at = run.next
      BY <1>3
    <3>2. past' = past \cup {now}
      BY <1>1
    <3> HIDE DEF now
    <3> QED BY <3>1, <3>2 DEF Indexed
  <2>2. ASSUME NEW s \in 0 .. resume' - 1 PROVE s \in Indexed' \/ s \in skipped
    <3>1. CASE s < resume
      BY <1>3, <1>7, <2>1, <2>2, <3>1 DEF IndexInductive, EverySeqAccounted
    <3>2. CASE resume <= s /\ s < run.next
      BY <1>3, <2>2, <3>2
    <3>3. CASE s = run.next
      BY <2>1, <3>3
    <3> QED BY <1>3, <1>7, <2>2, <3>1, <3>2, <3>3
  <2> QED BY <1>1, <2>2 DEF EverySeqAccounted
<1> QED BY <1>8, <1>9, <1>10, <1>11, <1>12, <1>13, <1>14 DEF IndexInductive

\* The call returns and the loop goes on.
LEMMA AdvanceInductive ==
  ASSUME IndexInductive, Advance
  PROVE  IndexInductive'
<1>1. /\ UNCHANGED <<branch, commits, fingerprint, skipped, failures>>
      /\ UNCHANGED <<facts, implementers, versions, resume, build, past>>
      /\ delta # NULL /\ AtStage("applied") /\ delta' = NULL
      /\ run' = [run EXCEPT !.next = run.next + 1]
  BY DEF Advance, SetAnalyzerVersion, AtStage
<1>2. /\ run \in [walked : Seq(Hash), list : Seq(Hash), next : Nat]
      /\ run.list = commits /\ run.next < Len(commits) /\ run.next \in Nat
      /\ resume = run.next + 1
  BY <1>1 DEF IndexInductive, DeltaIsOfRun, RunFollowsTable, IndexTypeOK
<1>3. /\ run' \in [walked : Seq(Hash), list : Seq(Hash), next : Nat]
      /\ run'.list = commits /\ run'.next = run.next + 1
  BY <1>1, <1>2
<1>4. TypeOK'
  <2>1. [Next]_vars
    BY StoreStep DEF IndexNext, Run
  <2> QED BY <2>1, NextType DEF IndexInductive, IndexTypeOK
<1>5. IndexTypeOK'
  BY <1>1, <1>3, <1>4 DEF IndexInductive, IndexTypeOK
<1>6. TableBeginsWithFingerprint' /\ PastIsListed' /\ SkippedIsRefused' /\ EverySeqAccounted'
  BY <1>1
  DEF IndexInductive, TableBeginsWithFingerprint, PastIsListed, SkippedIsRefused,
      EverySeqAccounted, Indexed
<1>7. RunFollowsTable'
  <2>1. Len(commits) \in Nat
    BY LenProperties DEF IndexInductive, IndexTypeOK
  <2>2. run'.next <= Len(commits) /\ resume <= run'.next
    BY <1>2, <1>3, <2>1
  <2>3. \A s : s \notin resume .. run'.next - 1
    BY <1>2, <1>3
  <2> QED BY <1>1, <1>3, <2>2, <2>3 DEF RunFollowsTable
<1>8. DeltaIsOfRun'
  BY <1>1 DEF DeltaIsOfRun
<1> QED BY <1>5, <1>6, <1>7, <1>8 DEF IndexInductive

\* A run that ends, well or badly, leaves the tables.
LEMMA EndInductive ==
  ASSUME IndexInductive, Return \/ Fail
  PROVE  IndexInductive'
<1>1. /\ UNCHANGED <<branch, commits, fingerprint, skipped>>
      /\ UNCHANGED <<facts, implementers, versions, resume, recorded, build, past>>
      /\ delta' = NULL /\ run' = NULL
      /\ failures' \in Nat
  BY DEF Return, Fail, Rollback, Crash, vars, store, IndexInductive, IndexTypeOK
<1>2. TypeOK'
  BY <1>1 DEF IndexInductive, IndexTypeOK, TypeOK
<1>3. IndexTypeOK'
  BY <1>1, <1>2 DEF IndexInductive, IndexTypeOK
<1>4. TableBeginsWithFingerprint' /\ PastIsListed' /\ SkippedIsRefused' /\ EverySeqAccounted'
  BY <1>1
  DEF IndexInductive, TableBeginsWithFingerprint, PastIsListed, SkippedIsRefused,
      EverySeqAccounted, Indexed
<1>5. RunFollowsTable' /\ DeltaIsOfRun'
  BY <1>1 DEF RunFollowsTable, DeltaIsOfRun
<1> QED BY <1>3, <1>4, <1>5 DEF IndexInductive

LEMMA UpgradeInductive ==
  ASSUME IndexInductive, NEW b \in Build, Upgrade(b)
  PROVE  IndexInductive'
<1>1. /\ UNCHANGED <<branch, commits, fingerprint, skipped, run, failures>>
      /\ UNCHANGED <<facts, implementers, versions, resume, recorded, delta, past>>
      /\ run = NULL /\ delta = NULL /\ build' = b
  BY DEF Upgrade, Install, loop, store
<1>2. TypeOK'
  BY <1>1 DEF IndexInductive, IndexTypeOK, TypeOK
<1>3. IndexTypeOK'
  BY <1>1, <1>2 DEF IndexInductive, IndexTypeOK
<1>4. TableBeginsWithFingerprint' /\ PastIsListed' /\ SkippedIsRefused' /\ EverySeqAccounted'
  BY <1>1
  DEF IndexInductive, TableBeginsWithFingerprint, PastIsListed, SkippedIsRefused,
      EverySeqAccounted, Indexed
<1>5. RunFollowsTable' /\ DeltaIsOfRun'
  BY <1>1 DEF RunFollowsTable, DeltaIsOfRun
<1> QED BY <1>3, <1>4, <1>5 DEF IndexInductive

LEMMA NextIndexInductive == IndexInductive /\ [IndexNext]_indexVars => IndexInductive'
<1> SUFFICES ASSUME IndexInductive, [IndexNext]_indexVars PROVE IndexInductive'
  OBVIOUS
<1>1. CASE \/ \E c \in Commits : Push(c)
           \/ \E k \in 0 .. Len(branch) - 1, c \in Commits : Rewrite(k, c)
  BY <1>1, BranchInductive, MoveInductive
<1>2. CASE Run
  BY <1>2, SyncInductive, SkipInductive, LoadInductive, CommitDeltaInductive,
     AdvanceInductive, EndInductive
  DEF Run
<1>3. CASE UNCHANGED indexVars
  <2>1. UNCHANGED <<vars, branch, commits, fingerprint, skipped, run, failures>>
    BY <1>3 DEF indexVars, loop
  <2>2. UNCHANGED <<delta, resume>>
    BY <2>1 DEF vars
  <2>3. IndexTypeOK'
    BY <2>1, TableAlone DEF IndexInductive, IndexTypeOK
  <2>4. RunFollowsTable' /\ DeltaIsOfRun'
    BY <2>1, <2>2 DEF IndexInductive, RunFollowsTable, DeltaIsOfRun, AtStage
  <2> QED BY <2>1, <2>3, <2>4, TableAlone DEF IndexInductive
<1> QED BY <1>1, <1>2, <1>3, EndInductive, UpgradeInductive DEF IndexNext

LEMMA AlwaysIndexInductive == IndexSpec => []IndexInductive
BY InitIndexInductive, NextIndexInductive, PTL DEF IndexSpec

-----------------------------------------------------------------------------
(***************************************************************************)
(* The theorems.                                                           *)
(***************************************************************************)

(***************************************************************************)
(* The variables of the loop keep their types.                             *)
(***************************************************************************)
THEOREM IndexTypeCorrect == IndexSpec => []IndexTypeOK
<1>1. IndexInductive => IndexTypeOK
  BY DEF IndexInductive
<1> QED BY <1>1, AlwaysIndexInductive, PTL

(***************************************************************************)
(* RunIndexer drives the store as FactStore allows: what is proved of      *)
(* FactStore holds of every run.                                           *)
(***************************************************************************)
THEOREM ImplementsStore == IndexSpec => Spec
<1>1. IndexInit => Init
  BY DEF IndexInit
<1> QED BY <1>1, StoreStep, AlwaysIndexInductive, PTL DEF IndexSpec, Spec

(***************************************************************************)
(* So the facts at every indexed seq are those of a full rebuild, whatever *)
(* fails, whenever the branch moves.                                       *)
(***************************************************************************)
THEOREM RunsIndexExactly == Assumed => (IndexSpec => []FactsExact)
<1> SUFFICES ASSUME Assumed PROVE IndexSpec => []FactsExact
  OBVIOUS
<1>1. Spec => []FactsExact
  BY SelectionIsSound
<1> QED BY <1>1, ImplementsStore, PTL

(***************************************************************************)
(* At every instant the fingerprint tells which commits the facts are of.  *)
(***************************************************************************)
THEOREM FingerprintTells == IndexSpec => []FingerprintTellsFacts
<1>1. IndexInductive => FingerprintTellsFacts
  <2> SUFFICES ASSUME IndexInductive PROVE FingerprintTellsFacts
    OBVIOUS
  <2>1. /\ resume \in Nat /\ resume <= Len(commits) /\ commits \in Seq(Hash)
        /\ fingerprint = IF resume = 0 THEN NULL ELSE SubSeq(commits, 1, resume)
    BY DEF IndexInductive, IndexTypeOK, TypeOK, TableBeginsWithFingerprint
  <2>2. \A h \in past :
          h.at \in Nat /\ h.at < resume /\ h.commit = Checkout(commits[h.at + 1])
    BY DEF IndexInductive, IndexTypeOK, TypeOK, PastIsListed
  <2>3. CASE resume = 0
    <3>1. past = {}
      BY <2>2, <2>3
    <3> QED BY <2>1, <2>3, <3>1 DEF FingerprintTellsFacts
  <2>4. CASE resume # 0
    <3>1. /\ fingerprint \in Seq(Hash) /\ Len(fingerprint) = resume
          /\ \A i \in 1 .. resume : fingerprint[i] = commits[i]
      BY <2>1, <2>4, PrefixType
    <3>2. \A h \in past : h.at + 1 \in 1 .. resume
      BY <2>1, <2>2
    <3>3. fingerprint # NULL
      BY <3>1, NullIsNoHash
    <3> QED BY <2>2, <3>1, <3>2, <3>3 DEF FingerprintTellsFacts
  <2> QED BY <2>3, <2>4
<1> QED BY <1>1, AlwaysIndexInductive, PTL

(***************************************************************************)
(* Each seq up to the watermark is indexed or on record as skipped.        *)
(***************************************************************************)
THEOREM NothingLost == IndexSpec => []EverySeqAccounted
<1>1. IndexInductive => EverySeqAccounted
  BY DEF IndexInductive
<1> QED BY <1>1, AlwaysIndexInductive, PTL

\* A run that is not refused walked the table, when no listed row was rewritten.
LEMMA SyncOneTable ==
  ASSUME IndexInductive, OneTable, Sync
  PROVE  OneTable'
<1> DEFINE walked == Walk(branch)
<1>1. /\ UNCHANGED <<resume, branch>> /\ Stable(walked)
      /\ commits' = InsertCommits(walked)
      /\ run' = [walked |-> walked, list |-> commits', next |-> resume]
  BY DEF Sync, vars
<1>2. /\ commits \in Seq(Hash) /\ Len(commits) \in Nat /\ branch \in Hash
      /\ Len(branch) \in Nat /\ resume \in Nat /\ resume <= Len(commits)
      /\ fingerprint = IF resume = 0 THEN NULL ELSE SubSeq(commits, 1, resume)
  BY LenProperties
  DEF IndexInductive, IndexTypeOK, TypeOK, TableBeginsWithFingerprint, Hash
<1>3. walked \in Seq(Hash) /\ Len(walked) = Len(branch)
  BY <1>2, WalkType
<1>4. \A i \in 1 .. resume : Kept(branch, i)
  <2>1. CASE resume = 0
    BY <2>1
  <2>2. CASE resume # 0
    <3>1. /\ fingerprint \in Seq(Hash) /\ \A i \in 1 .. resume : fingerprint[i] = commits[i]
      BY <1>2, <2>2, PrefixType
    <3>2. resume <= Len(walked) /\ SubSeq(walked, 1, resume) = fingerprint
      BY <1>1, <3>1, NullIsNoHash DEF Stable
    <3>3. \A i \in 1 .. resume : SubSeq(walked, 1, resume)[i] = walked[i]
      BY <1>2, <1>3, <3>2, PrefixType
    <3> QED BY <1>2, <1>3, <3>1, <3>2, <3>3 DEF Kept
  <2> QED BY <2>1, <2>2
<1>5. \A i \in 1 .. Len(commits) : i <= Len(walked) /\ walked[i] = commits[i]
  <2>1. \A i \in 1 .. Len(commits) : Kept(branch, i)
    BY <1>2, <1>4 DEF OneTable, ChangesListed
  <2> QED BY <1>3, <2>1 DEF Kept
<1>6. Len(commits) <= Len(walked)
  <2>1. CASE Len(commits) = 0
    BY <1>2, <1>3, <2>1
  <2>2. CASE Len(commits) # 0
    <3>1. Len(commits) \in 1 .. Len(commits)
      BY <1>2, <2>2
    <3> QED BY <1>5, <3>1
  <2> QED BY <2>1, <2>2
<1>7. commits' = walked
  <2> DEFINE inserted == InsertCommits(walked)
  <2>1. /\ inserted \in Seq(Hash)
        /\ Len(inserted) = IF Len(walked) > Len(commits) THEN Len(walked) ELSE Len(commits)
        /\ \A i \in 1 .. Len(commits) : inserted[i] = commits[i]
        /\ \A i \in Len(commits) + 1 .. Len(walked) : inserted[i] = walked[i]
    BY <1>2, <1>3, InsertType
  <2> HIDE DEF inserted, walked
  <2>2. Len(inserted) = Len(walked)
    BY <1>2, <1>3, <1>6, <2>1
  <2>3. \A i \in 1 .. Len(inserted) : inserted[i] = walked[i]
    BY <1>2, <1>3, <1>5, <2>1, <2>2
  <2>4. inserted = walked
    BY <1>3, <2>1, <2>2, <2>3, SeqEqual
  <2> QED BY <1>1, <2>4 DEF inserted
<1>8. ~ ChangesListed(branch)'
  <2>1. \A i \in 1 .. Len(commits') : Kept(branch, i)'
    BY <1>1, <1>3, <1>7 DEF Kept
  <2> QED BY <1>1, <1>2, <2>1 DEF ChangesListed
<1>9. run'.walked = commits'
  BY <1>1, <1>7
<1> QED BY <1>8, <1>9 DEF OneTable

LEMMA NextOneTable ==
  ASSUME ~ RewritesListed, IndexInductive, OneTable, [IndexNext]_indexVars
  PROVE  OneTable'
<1>1. ASSUME NEW history, Move(history) PROVE OneTable'
  <2>1. UNCHANGED <<resume, commits, run>> /\ branch' = history /\ ~ ChangesListed(history)
    BY <1>1 DEF Move, vars
  <2>2. ~ ChangesListed(branch)'
    BY <2>1 DEF ChangesListed, Kept
  <2> QED BY <2>1, <2>2 DEF OneTable
<1>2. CASE CommitDelta
  <2>1. UNCHANGED <<branch, commits, run>> /\ resume' = delta.at + 1 /\ delta # NULL
        /\ delta.stage = "loaded"
    BY <1>2 DEF CommitDelta, ApplyDelta
  <2>2. resume' > resume /\ resume \in Nat /\ resume' \in Nat
    <3>1. ~ AtStage("applied")
      BY <2>1 DEF AtStage
    <3>2. delta.at = run.next /\ run.next \in Nat /\ resume <= run.next /\ resume \in Nat
      BY <2>1, <3>1
      DEF IndexInductive, IndexTypeOK, TypeOK, DeltaIsOfRun, RunFollowsTable
    <3> QED BY <2>1, <3>2
  <2>3. Len(commits) \in Nat
    BY LenProperties DEF IndexInductive, IndexTypeOK
  <2>4. ~ ChangesListed(branch)'
    <3>1. \A i : Kept(branch, i)' <=> Kept(branch, i)
      BY <2>1 DEF Kept
    <3> QED BY <2>1, <2>2, <2>3, <3>1 DEF OneTable, ChangesListed
  <2> QED BY <2>1, <2>4 DEF OneTable
<1>3. CASE RecordSkippedCommit \/ Advance
  <2>1. UNCHANGED <<resume, branch, commits>> /\ run' = [run EXCEPT !.next = run.next + 1]
    BY <1>3 DEF RecordSkippedCommit, Advance, SetAnalyzerVersion, vars
  <2>2. run \in [walked : Seq(Hash), list : Seq(Hash), next : Nat] /\ run # NULL
    BY <1>3
    DEF IndexInductive, IndexTypeOK, DeltaIsOfRun, RecordSkippedCommit, Pending, Advance,
        SetAnalyzerVersion
  <2>3. run'.walked = commits'
    BY <2>1, <2>2 DEF OneTable
  <2>4. ~ ChangesListed(branch)'
    BY <2>1 DEF OneTable, ChangesListed, Kept
  <2> QED BY <2>3, <2>4 DEF OneTable
<1>4. CASE IndexCommit \/ Return \/ Fail \/ (\E b \in Build : Upgrade(b)) \/ UNCHANGED indexVars
  <2>1. UNCHANGED <<resume, branch, commits>> /\ run' \in {run, NULL}
    BY <1>4
    DEF IndexCommit, Load, Return, Fail, Rollback, Crash, Upgrade, Install, indexVars, loop,
        vars, store
  <2>2. ~ ChangesListed(branch)'
    BY <2>1 DEF OneTable, ChangesListed, Kept
  <2> QED BY <2>1, <2>2 DEF OneTable
<1> QED BY <1>1, <1>2, <1>3, <1>4, BranchInductive, SyncOneTable DEF IndexNext, Run

(***************************************************************************)
(* I16: a run that goes ahead indexes the branch it walked, on top of the  *)
(* same history, provided history that is listed but not yet indexed is    *)
(* not rewritten.  The violation of OneHistory shows that the proviso is   *)
(* needed.                                                                 *)
(***************************************************************************)
THEOREM RunsKeepOneHistory == ~ RewritesListed => (IndexSpec => []OneHistory)
<1> SUFFICES ASSUME ~ RewritesListed PROVE IndexSpec => []OneHistory
  OBVIOUS
<1>1. IndexInit => OneTable
  <2> SUFFICES ASSUME IndexInit PROVE OneTable
    OBVIOUS
  <2>1. commits = <<>> /\ resume = 0 /\ run = NULL
    BY DEF IndexInit, Init
  <2>2. Len(commits) = 0
    BY <2>1
  <2> QED BY <2>1, <2>2 DEF OneTable, ChangesListed
<1>2. IndexInductive /\ OneTable /\ [IndexNext]_indexVars => OneTable'
  BY NextOneTable
<1>3. IndexInductive /\ OneTable => OneHistory
  <2> SUFFICES ASSUME IndexInductive, OneTable, run # NULL, fingerprint # NULL,
                      NEW i \in 1 .. resume
               PROVE  i <= Len(run.walked) /\ run.walked[i] = fingerprint[i]
    BY DEF OneHistory
  <2>1. /\ resume \in Nat /\ resume <= Len(commits) /\ commits \in Seq(Hash)
        /\ fingerprint = SubSeq(commits, 1, resume) /\ run.walked = commits
    BY DEF IndexInductive, IndexTypeOK, TypeOK, TableBeginsWithFingerprint, OneTable
  <2>2. fingerprint[i] = commits[i]
    BY <2>1, PrefixType
  <2>3. Len(commits) \in Nat
    BY <2>1, LenProperties
  <2> QED BY <2>1, <2>2, <2>3
<1> QED BY <1>1, <1>2, <1>3, AlwaysIndexInductive, PTL DEF IndexSpec

-----------------------------------------------------------------------------
(***************************************************************************)
(* What a reader sees, whichever seq it asks for.                          *)
(***************************************************************************)
THEOREM ReadersSeeTheBranch == Assumed => (IndexSpec => []AnswersFollowBranch)
<1> SUFFICES ASSUME Assumed PROVE IndexSpec => []AnswersFollowBranch
  OBVIOUS
<1>1. SeqsInOrder /\ FactsExact /\ FingerprintTellsFacts => AnswersFollowBranch
  <2> SUFFICES ASSUME SeqsInOrder, FactsExact, FingerprintTellsFacts, NEW s \in 0 .. resume - 1
               PROVE  FactsAt(s) = UNION {FactsOf(Tree[Checkout(fingerprint[h.at + 1])], h.build) :
                                            h \in LastIndexed(s)}
    BY DEF AnswersFollowBranch
  <2>1. s \in Nat
    BY DEF SeqsInOrder, TypeOK
  <2>2. CASE LastIndexed(s) = {}
    BY <2>1, <2>2, BeforeDeltas
  <2>3. CASE LastIndexed(s) # {}
    <3>1. ASSUME NEW h \in LastIndexed(s)
          PROVE  FactsOf(Tree[Checkout(fingerprint[h.at + 1])], h.build) = FactsAt(s)
      <4>1. h \in past
        BY DEF LastIndexed
      <4>2. FactsAt(s) = FactsAt(h.at)
        BY <2>1, BetweenDeltas
      <4>3. FactsAt(h.at) = FactsOf(Tree[h.commit], h.build)
        BY <4>1 DEF FactsExact
      <4>4. h.commit = Checkout(fingerprint[h.at + 1])
        BY <4>1 DEF FingerprintTellsFacts
      <4> QED BY <4>2, <4>3, <4>4
    <3> QED BY <2>3, <3>1
  <2> QED BY <2>2, <2>3
<1>2. IndexSpec => []SeqsInOrder
  BY ImplementsStore, SeqsStayInOrder, PTL
<1> QED BY <1>1, <1>2, RunsIndexExactly, FingerprintTells, PTL

(***************************************************************************)
(* From the sources alone, whatever a run meets: what a reader sees is     *)
(* what a full rebuild derives, and the live facts move from one rebuild   *)
(* to the next, all at once.                                               *)
(***************************************************************************)
THEOREM SourcesAreReadExactly ==
  SourcesKeep /\ VersionsTell => (IndexSpec => []AnswersFollowBranch /\ ImplementsRebuild)
<1> SUFFICES ASSUME SourcesKeep, VersionsTell
             PROVE  IndexSpec => []AnswersFollowBranch /\ ImplementsRebuild
  OBVIOUS
<1>1. Assumed
  BY SourcesSuffice DEF Assumed
<1>2. IndexSpec => []AnswersFollowBranch
  BY <1>1, ReadersSeeTheBranch
<1>3. Spec => ImplementsRebuild
  BY <1>1, StoreImplementsRebuild
<1> QED BY <1>2, <1>3, ImplementsStore, PTL
=============================================================================
