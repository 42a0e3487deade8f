-------------------------- MODULE FactStoreProofs --------------------------
(***************************************************************************)
(* Proofs about FactStore.  Selection is sound when derivations are local  *)
(* and unique and versions tell builds apart: then the live rows carry, at *)
(* all times, exactly the derivations of the last applied commit, and the  *)
(* rest follows.                                                           *)
(***************************************************************************)
EXTENDS FactStore, ProgramProofs, TLAPS

-----------------------------------------------------------------------------
\* Two derivations of one commit with the same key are the same.
LEMMA OneDerivationPerFact ==
  ASSUME UniqueDerivation, NEW c \in CleanCommits, NEW b \in Build,
         NEW d \in ComputeFacts(Tree[c], b), NEW g \in ComputeFacts(Tree[c], b),
         d.fact = g.fact
  PROVE  d = g
<1>1. Tree[c] \in Commit
  BY TreeType DEF CleanCommits
<1>2. DOMAIN d.inputs.interfaces = DOMAIN g.inputs.interfaces
  BY DEF UniqueDerivation
<1>3. /\ d.inputs.file = Tree[c][d.fact.file]
      /\ \A i \in DOMAIN d.inputs.interfaces :
           d.inputs.interfaces[i] = Implementers(Tree[c], i)
      /\ d = [fact |-> d.fact, inputs |-> d.inputs]
      /\ d.inputs = [file |-> d.inputs.file, interfaces |-> d.inputs.interfaces]
      /\ d.inputs.interfaces = [i \in DOMAIN d.inputs.interfaces |-> d.inputs.interfaces[i]]
  BY <1>1, DerivationInputs
<1>4. /\ g.inputs.file = Tree[c][g.fact.file]
      /\ \A i \in DOMAIN g.inputs.interfaces :
           g.inputs.interfaces[i] = Implementers(Tree[c], i)
      /\ g = [fact |-> g.fact, inputs |-> g.inputs]
      /\ g.inputs = [file |-> g.inputs.file, interfaces |-> g.inputs.interfaces]
      /\ g.inputs.interfaces = [i \in DOMAIN g.inputs.interfaces |-> g.inputs.interfaces[i]]
  BY <1>1, DerivationInputs
<1>5. d.inputs.interfaces = g.inputs.interfaces
  <2>1. \A i \in DOMAIN d.inputs.interfaces :
          d.inputs.interfaces[i] = g.inputs.interfaces[i]
    BY <1>2, <1>3, <1>4
  <2> QED BY <1>2, <1>3, <1>4, <2>1
<1>6. d.inputs.file = g.inputs.file
  BY <1>3, <1>4
<1> QED BY <1>3, <1>4, <1>5, <1>6

-----------------------------------------------------------------------------
(***************************************************************************)
(* Type correctness.                                                       *)
(***************************************************************************)

\* Recording derivations over old ones gives inputs again.
LEMMA RecordType ==
  ASSUME NEW old \in Inputs, NEW new \in Inputs
  PROVE  RecordDerivations(old, new) \in Inputs
<1>1. PICK S \in SUBSET Interface : old.interfaces \in [S -> SUBSET Type]
  BY DEF Inputs, Hashes
<1>2. PICK R \in SUBSET Interface : new.interfaces \in [R -> SUBSET Type]
  BY DEF Inputs, Hashes
<1> DEFINE both == [i \in DOMAIN new.interfaces \cup DOMAIN old.interfaces |->
                      IF i \in DOMAIN new.interfaces THEN new.interfaces[i]
                                                     ELSE old.interfaces[i]]
<1>3. both \in [R \cup S -> SUBSET Type]
  BY <1>1, <1>2
<1>4. R \cup S \in SUBSET Interface
  OBVIOUS
<1>5. both \in Hashes
  BY <1>3, <1>4 DEF Hashes
<1> QED BY <1>5 DEF RecordDerivations, Inputs

LEMMA InitType == Init => TypeOK
<1> SUFFICES ASSUME Init PROVE TypeOK
  OBVIOUS
<1>1. NoInterface \in Hashes
  <2>1. NoInterface \in [{} -> SUBSET Type]
    BY DEF NoInterface
  <2> QED BY <2>1 DEF Hashes
<1>2. versions \in Commit
  BY DEF Init, Commit
<1> QED BY <1>1, <1>2 DEF Init, TypeOK

\* The rows that the transaction writes are rows.
LEMMA RowsType ==
  ASSUME TypeOK, delta \in Deltas, NEW seen \in SeenChoices, ApplyFacts(seen)
  PROVE  facts' \subseteq [fact : Fact, inputs : Inputs, from : Nat, to : Nat \cup {NULL}]
<1>3. delta.commit \in Commits /\ delta.at \in Nat /\ Tree[delta.commit] \in Commit /\ build \in Build
  BY TreeType DEF Deltas, TypeOK
<1>4. \A d \in NewFacts : d.fact \in Fact /\ d.inputs \in Inputs
  <2>1. ASSUME NEW d \in NewFacts PROVE d \in Derivation
    BY <1>3, DerivationType DEF NewFacts
  <2> QED BY <2>1 DEF Derivation
<1>5. \A d \in seen : d \in NewFacts
  BY DEF SeenChoices, Touched
<1> DEFINE Row == [fact : Fact, inputs : Inputs, from : Nat, to : Nat \cup {NULL}]
<1>6. Refreshed(seen) \subseteq Row
  <2>1. ASSUME NEW r \in CloseCandidates, NEW d \in seen
        PROVE  [r EXCEPT !.inputs = RecordDerivations(r.inputs, d.inputs)] \in Row
    <3>1. r \in Row
      BY DEF CloseCandidates, Live, TypeOK
    <3>2. RecordDerivations(r.inputs, d.inputs) \in Inputs
      BY <1>4, <1>5, <3>1, RecordType
    <3> QED BY <3>1, <3>2
  <2> QED BY <2>1 DEF Refreshed
<1>7. Closed(seen) \subseteq Row
  <2>1. ASSUME NEW r \in CloseCandidates PROVE CloseFact(r) \in Row
    BY <1>3 DEF CloseCandidates, Live, TypeOK, CloseFact
  <2> QED BY <2>1 DEF Closed
<1>8. Opened(seen) \subseteq Row
  BY <1>3, <1>4, <1>5 DEF Opened, OpenFact
<1> QED BY <1>6, <1>7, <1>8 DEF ApplyFacts, TypeOK

\* The transaction keeps the types of the tables.
LEMMA ApplyType == TypeOK /\ ApplyDelta => TypeOK'
<1> SUFFICES ASSUME TypeOK, ApplyDelta PROVE TypeOK'
  OBVIOUS
<1>1. PICK seen \in SeenChoices : ApplyFacts(seen)
  BY DEF ApplyDelta
<1>2. delta \in Deltas
  BY DEF TypeOK, ApplyDelta
<1>3. delta.commit \in Commits /\ delta.at \in Nat /\ Tree[delta.commit] \in Commit /\ build \in Build
  BY <1>2, TreeType DEF Deltas, TypeOK
<1>9. facts' \subseteq [fact : Fact, inputs : Inputs, from : Nat, to : Nat \cup {NULL}]
  BY <1>1, <1>2, RowsType
<1>10. implementers' \in Hashes
  <2>1. PICK S \in SUBSET Interface : implementers \in [S -> SUBSET Type]
    BY DEF TypeOK, Hashes
  <2>2. Dispatched \subseteq Interface
    BY <1>3, DerivationInputs DEF Dispatched, NewFacts
  <2>3. \A i \in Dispatched : IfaceHash(i) \subseteq Type
    BY <1>3, ImplementersType DEF IfaceHash
  <2>4. implementers' \in [S \cup Dispatched -> SUBSET Type]
    BY <2>1, <2>3 DEF ApplyDelta, UpsertInterfaceImplementers
  <2>5. S \cup Dispatched \in SUBSET Interface
    BY <2>2
  <2> QED BY <2>4, <2>5 DEF Hashes
<1>11. delta' \in Deltas
  BY <1>2 DEF ApplyDelta, Deltas
<1>12. past' \subseteq [at : Nat, commit : Commits, build : Build]
  BY <1>3 DEF ApplyDelta, TypeOK
<1>13. versions' \in Commit /\ resume' \in Nat
  BY <1>3 DEF ApplyDelta
<1> QED BY <1>9, <1>10, <1>11, <1>12, <1>13 DEF TypeOK, ApplyDelta

LEMMA NextType == TypeOK /\ [Next]_vars => TypeOK'
<1> SUFFICES ASSUME TypeOK, [Next]_vars PROVE TypeOK'
  OBVIOUS
<1>1. ASSUME NEW c \in Commits, NEW n \in 0 .. MaxSeq - 1, Load(c, n) PROVE TypeOK'
  <2>1. n \in Nat
    BY SeqBound
  <2>2. ChangedFiles(Tree[c]) \subseteq File
    BY DEF ChangedFiles, DiffFileHashes, Files
  <2>3. delta' \in Deltas
    BY <1>1, <2>1, <2>2 DEF Load, Deltas
  <2> QED BY <1>1, <2>3 DEF Load, TypeOK, store
<1>2. CASE SetAnalyzerVersion
  BY <1>2 DEF SetAnalyzerVersion, TypeOK
<1>3. CASE Rollback \/ Crash
  BY <1>3 DEF Rollback, Crash, TypeOK, store
<1>4. ASSUME NEW b \in Build, Install(b) PROVE TypeOK'
  BY <1>4 DEF Install, TypeOK, store
<1>5. CASE UNCHANGED vars
  BY <1>5 DEF vars, TypeOK
<1> QED BY <1>1, <1>2, <1>3, <1>4, <1>5, ApplyType DEF Next, Finish

(***************************************************************************)
(* The tables, the delta and the history keep their types.                 *)
(***************************************************************************)
THEOREM TypeCorrect == Spec => []TypeOK
<1> QED BY InitType, NextType, PTL DEF Spec

-----------------------------------------------------------------------------
(***************************************************************************)
(* Why selection loses nothing.                                            *)
(***************************************************************************)
Assumed == LocalDerivation /\ UniqueDerivation /\ VersionsTell

Ready == Assumed /\ Inductive /\ AtStage("loaded")

\* Facts about the delta that the lemmas below share.
LEMMA ReadyDelta ==
  ASSUME Ready
  PROVE  /\ delta \in Deltas /\ delta.commit \in CleanCommits /\ build \in Build
         /\ Tree[delta.commit] \in Commit
         /\ delta.at \in Nat /\ delta.at >= resume /\ resume \in Nat
         /\ delta.at \in 0 .. MaxSeq - 1
         /\ delta.changed = ChangedFiles(Tree[delta.commit])
BY TreeType, SeqBound DEF Ready, Inductive, TypeOK, AtStage, DeltaCurrent, Deltas, CleanCommits

\* What is live is what the last applied commit derives, with its inputs.
LEMMA LiveRows ==
  ASSUME Ready, NEW h \in past, h.at = resume - 1
  PROVE  /\ h.commit \in CleanCommits /\ h.build \in Build
         /\ Tree[h.commit] \in Commit
         /\ versions = Tree[h.commit]
         /\ \A r \in Live : Derived(r) \in ComputeFacts(Tree[h.commit], h.build)
         /\ \A d \in ComputeFacts(Tree[h.commit], h.build) : \E r \in Live : d = Derived(r)
         /\ \A r \in Live :
              /\ r.fact.file \in Files(Tree[h.commit])
              /\ \A i \in DOMAIN r.inputs.interfaces :
                   r.inputs.interfaces[i] = Implementers(Tree[h.commit], i)
<1>1. /\ h.commit \in CleanCommits /\ h.build \in Build /\ Tree[h.commit] \in Commit
      /\ versions = Tree[h.commit]
      /\ LiveDerived = ComputeFacts(Tree[h.commit], h.build)
  BY TreeType DEF Ready, Inductive, Settled, CleanCommits, TypeOK
<1>2. ASSUME NEW r \in Live
      PROVE  /\ Derived(r) \in ComputeFacts(Tree[h.commit], h.build)
             /\ r.fact.file \in Files(Tree[h.commit])
             /\ \A i \in DOMAIN r.inputs.interfaces :
                  r.inputs.interfaces[i] = Implementers(Tree[h.commit], i)
  <2>1. Derived(r) \in ComputeFacts(Tree[h.commit], h.build)
    BY <1>1 DEF LiveDerived
  <2>2. Derived(r).fact = r.fact /\ Derived(r).inputs = r.inputs
    BY DEF Derived
  <2>3. /\ Derived(r).fact.file \in Files(Tree[h.commit])
        /\ \A i \in DOMAIN Derived(r).inputs.interfaces :
             Derived(r).inputs.interfaces[i] = Implementers(Tree[h.commit], i)
    BY <1>1, <2>1, DerivationInputs
  <2> QED BY <2>1, <2>2, <2>3
<1>3. \A d \in ComputeFacts(Tree[h.commit], h.build) : \E r \in Live : d = Derived(r)
  BY <1>1 DEF LiveDerived
<1> QED BY <1>1, <1>2, <1>3

\* Either the same build derived what is live, and the changed files are
\* those whose text differs, or every file counts as changed.
LEMMA SameBuildOrForced ==
  ASSUME Ready, NEW h \in past, h.at = resume - 1
  PROVE  \/ h.build = build /\ \A f \in File \ delta.changed :
                                  versions[f] = Tree[delta.commit][f]
         \/ Files(versions) \cup Files(Tree[delta.commit]) \subseteq delta.changed
<1>1. delta.changed = ChangedFiles(Tree[delta.commit])
  BY ReadyDelta
<1>2. CASE recorded # NULL /\ recorded # VersionOf[build]
  BY <1>1, <1>2 DEF ChangedFiles
<1>3. CASE ~ (recorded # NULL /\ recorded # VersionOf[build])
  <2>1. \A f \in File \ delta.changed : versions[f] = Tree[delta.commit][f]
    BY <1>1, <1>3 DEF ChangedFiles, DiffFileHashes
  <2>2. h.build \in Build /\ build \in Build
    BY LiveRows, ReadyDelta
  <2>3. h.build = build \/ recorded = VersionOf[h.build]
    BY DEF Ready, Inductive, Settled
  <2>4. h.build = build
    <3>1. CASE \A a, b \in Build : a = b
      BY <2>2, <3>1
    <3>2. CASE \A a, b \in Build : VersionOf[a] = VersionOf[b] => a = b
      BY <1>3, <2>2, <2>3, <3>2, VersionType
    <3> QED BY <3>1, <3>2 DEF Ready, Assumed, VersionsTell
  <2> QED BY <2>1, <2>4
<1> QED BY <1>2, <1>3

\* A fact that a row and a new derivation share goes through the same
\* interfaces in both.
LEMMA SameInterfaces ==
  ASSUME Ready, NEW h \in past, h.at = resume - 1,
         NEW r \in Live, NEW d \in NewFacts, r.fact = d.fact
  PROVE  DOMAIN r.inputs.interfaces = DOMAIN d.inputs.interfaces
<1>1. /\ Derived(r) \in ComputeFacts(Tree[h.commit], h.build)
      /\ h.commit \in CleanCommits /\ h.build \in Build
  BY LiveRows
<1>2. d \in ComputeFacts(Tree[delta.commit], build)
  BY DEF NewFacts
<1>3. delta.commit \in CleanCommits /\ build \in Build
  BY ReadyDelta
<1>4. Derived(r).fact = r.fact /\ Derived(r).inputs = r.inputs
  BY DEF Derived
<1> QED BY <1>1, <1>2, <1>3, <1>4 DEF Ready, Assumed, UniqueDerivation

\* A row that is no candidate is derived by the new commit as well.
LEMMA UntouchedRow ==
  ASSUME Ready, NEW r \in Live \ CloseCandidates
  PROVE  Derived(r) \in NewFacts
<1>1. resume > 0 /\ \E h \in past : h.at = resume - 1
  BY DEF Ready, Inductive, Settled, Live
<1>2. PICK h \in past : h.at = resume - 1
  BY <1>1
<1> DEFINE p == Tree[h.commit]
           q == Tree[delta.commit]
<1>3. /\ h.commit \in CleanCommits /\ p \in Commit /\ versions = p
      /\ Derived(r) \in ComputeFacts(p, h.build)
      /\ r.fact.file \in Files(p)
      /\ \A i \in DOMAIN r.inputs.interfaces : r.inputs.interfaces[i] = Implementers(p, i)
  BY <1>2, LiveRows
<1>4. /\ delta.commit \in CleanCommits /\ q \in Commit /\ build \in Build
  BY ReadyDelta
<1>5. r.fact.file \notin delta.changed /\ r.fact.file \in File
  BY <1>3 DEF CloseCandidates, Files
<1>6. h.build = build /\ p[r.fact.file] = q[r.fact.file]
  <2>1. ~ Files(versions) \cup Files(Tree[delta.commit]) \subseteq delta.changed
    BY <1>3, <1>5
  <2> QED BY <1>2, <1>3, <1>5, <2>1, SameBuildOrForced
<1>7. Derived(r).fact = r.fact /\ Derived(r).inputs = r.inputs
  BY DEF Derived
<1>8. /\ DOMAIN r.inputs.interfaces \subseteq DispatchedIn(q, build)
      /\ (\A i \in DOMAIN r.inputs.interfaces : Implementers(p, i) = Implementers(q, i))
           => Derived(r) \in ComputeFacts(q, build)
  BY <1>3, <1>4, <1>6, <1>7 DEF Ready, Assumed, LocalDerivation
<1>9. ASSUME NEW i \in DOMAIN r.inputs.interfaces
      PROVE  Implementers(p, i) = Implementers(q, i)
  <2>1. i \in Dispatched
    BY <1>8 DEF Dispatched, DispatchedIn, NewFacts
  <2>2. i \in DOMAIN implementers /\ implementers[i] = r.inputs.interfaces[i]
    BY DEF Ready, Inductive, TableAgrees
  <2>3. CASE i \in ChangedInterfaces
    BY <1>3, <2>3 DEF CloseCandidates, IfaceHash
  <2>4. CASE i \notin ChangedInterfaces
    BY <1>3, <2>1, <2>2, <2>4 DEF ChangedInterfaces, IfaceHash
  <2> QED BY <2>3, <2>4
<1> QED BY <1>8, <1>9 DEF NewFacts

\* A new derivation that is not touched has its row, and keeps it.
LEMMA UntouchedDerivation ==
  ASSUME Ready, NEW d \in NewFacts \ Touched
  PROVE  \E r \in Live \ CloseCandidates : d = Derived(r)
<1> DEFINE q == Tree[delta.commit]
<1>1. /\ delta.commit \in CleanCommits /\ q \in Commit /\ build \in Build
      /\ delta.changed = ChangedFiles(q)
  BY ReadyDelta
<1>2. d \in ComputeFacts(q, build)
  BY DEF NewFacts
<1>3. /\ d.fact.file \in Files(q) /\ d.fact.file \in File
      /\ \A i \in DOMAIN d.inputs.interfaces : d.inputs.interfaces[i] = Implementers(q, i)
  BY <1>1, <1>2, DerivationInputs DEF Files
<1>4. d.fact.file \notin delta.changed
  BY DEF Touched
<1>5. \A i \in DOMAIN d.inputs.interfaces : i \notin ChangedInterfaces
  BY DEF Touched
<1>6. resume # 0
  <2>1. SUFFICES ASSUME resume = 0 PROVE FALSE
    OBVIOUS
  <2>2. versions[d.fact.file] = NULL
    BY <1>3, <2>1 DEF Ready, Inductive, Settled
  <2>3. d.fact.file \in ChangedFiles(q)
    BY <1>3, <2>2 DEF ChangedFiles, DiffFileHashes, Files
  <2> QED BY <1>1, <1>4, <2>3
<1>7. PICK h \in past : h.at = resume - 1
  BY <1>6 DEF Ready, Inductive, Settled
<1> DEFINE p == Tree[h.commit]
<1>8. /\ h.commit \in CleanCommits /\ p \in Commit /\ versions = p
  BY <1>7, LiveRows
<1>9. h.build = build /\ p[d.fact.file] = q[d.fact.file]
  <2>1. ~ Files(versions) \cup Files(Tree[delta.commit]) \subseteq delta.changed
    BY <1>3, <1>4
  <2> QED BY <1>3, <1>4, <1>7, <1>8, <2>1, SameBuildOrForced
<1>10. /\ DOMAIN d.inputs.interfaces \subseteq DispatchedIn(p, build)
       /\ (\A i \in DOMAIN d.inputs.interfaces : Implementers(q, i) = Implementers(p, i))
            => d \in ComputeFacts(p, build)
  BY <1>1, <1>2, <1>8, <1>9 DEF Ready, Assumed, LocalDerivation
<1>11. ASSUME NEW i \in DOMAIN d.inputs.interfaces
       PROVE  Implementers(q, i) = Implementers(p, i)
  <2>1. PICK g \in ComputeFacts(p, build) : i \in DOMAIN g.inputs.interfaces
    BY <1>10 DEF DispatchedIn
  <2>2. PICK r \in Live : g = Derived(r)
    BY <1>7, <1>9, <2>1, LiveRows
  <2>3. i \in DOMAIN r.inputs.interfaces
    BY <2>1, <2>2 DEF Derived
  <2>4. /\ i \in DOMAIN implementers /\ implementers[i] = r.inputs.interfaces[i]
        /\ r.inputs.interfaces[i] = Implementers(p, i)
    BY <1>7, <2>3, LiveRows DEF Ready, Inductive, TableAgrees
  <2>5. i \in Dispatched
    BY DEF Dispatched
  <2>6. implementers[i] = IfaceHash(i)
    BY <1>5, <2>4, <2>5 DEF ChangedInterfaces
  <2> QED BY <2>4, <2>6 DEF IfaceHash
<1>12. PICK r \in Live : d = Derived(r)
  BY <1>7, <1>9, <1>10, <1>11, LiveRows
<1>13. r \notin CloseCandidates
  BY <1>4, <1>5, <1>12 DEF CloseCandidates, Derived
<1> QED BY <1>12, <1>13

\* What is touched is live among the candidates only.
LEMMA NotRefused ==
  ASSUME Ready
  PROVE  ~ Refused
<1> SUFFICES ASSUME NEW d \in Touched, NEW r \in Live \ CloseCandidates, r.fact = d.fact
             PROVE  FALSE
  BY DEF Refused
<1>1. Derived(r) \in NewFacts /\ d \in NewFacts
  BY UntouchedRow DEF Touched
<1>2. Derived(r).fact = d.fact /\ Derived(r).inputs = r.inputs
  BY DEF Derived
<1>3. Derived(r) = d
  BY <1>1, <1>2, ReadyDelta, OneDerivationPerFact DEF NewFacts, Ready, Assumed
<1>4. r.fact.file \notin delta.changed
  BY DEF CloseCandidates
<1>5. PICK i \in DOMAIN d.inputs.interfaces : i \in ChangedInterfaces
  BY <1>4 DEF Touched
<1>6. i \in DOMAIN implementers /\ implementers[i] = r.inputs.interfaces[i]
  BY <1>2, <1>3, <1>5 DEF Ready, Inductive, TableAgrees
<1>7. r.inputs.interfaces[i] # IfaceHash(i)
  BY <1>5, <1>6 DEF ChangedInterfaces
<1>8. r \in CloseCandidates
  BY <1>2, <1>3, <1>5, <1>7 DEF CloseCandidates
<1> QED BY <1>8

-----------------------------------------------------------------------------
(***************************************************************************)
(* What the transaction leaves behind.                                     *)
(***************************************************************************)
Writing(seen) ==
  /\ Ready /\ seen \in SeenChoices /\ FirstSeen(seen) /\ ApplyFacts(seen)

\* seen holds every touched derivation.
LEMMA SeenIsTouched ==
  ASSUME NEW seen, Writing(seen)
  PROVE  seen = Touched
<1>1. seen \subseteq Touched /\ \A d \in Touched : \E s \in seen : s.fact = d.fact
  BY DEF Writing, SeenChoices
<1>2. ASSUME NEW d \in Touched PROVE d \in seen
  <2>1. PICK s \in seen : s.fact = d.fact
    BY <1>1
  <2>2. s \in NewFacts /\ d \in NewFacts
    BY <1>1 DEF Touched
  <2>3. s = d
    BY <2>1, <2>2, ReadyDelta, OneDerivationPerFact DEF Writing, NewFacts, Ready, Assumed
  <2> QED BY <2>3
<1> QED BY <1>1, <1>2

\* A refreshed row has the inputs of its new derivation, and no others.
LEMMA RefreshedRow ==
  ASSUME Ready, NEW r \in CloseCandidates, NEW d \in NewFacts, r.fact = d.fact
  PROVE  RecordDerivations(r.inputs, d.inputs) = d.inputs
<1>1. r \in Live /\ facts # {}
  BY DEF CloseCandidates, Live
<1>2. PICK h \in past : h.at = resume - 1
  BY <1>1 DEF Ready, Inductive, Settled
<1>3. DOMAIN r.inputs.interfaces = DOMAIN d.inputs.interfaces
  BY <1>1, <1>2, SameInterfaces
<1>4. d \in ComputeFacts(Tree[delta.commit], build) /\ Tree[delta.commit] \in Commit /\ build \in Build
  BY ReadyDelta DEF NewFacts
<1>5. /\ d.inputs = [file |-> d.inputs.file, interfaces |-> d.inputs.interfaces]
      /\ d.inputs.interfaces = [i \in DOMAIN d.inputs.interfaces |-> d.inputs.interfaces[i]]
  BY <1>4, DerivationInputs
<1> DEFINE both == [i \in DOMAIN d.inputs.interfaces \cup DOMAIN r.inputs.interfaces |->
                      IF i \in DOMAIN d.inputs.interfaces THEN d.inputs.interfaces[i]
                                                          ELSE r.inputs.interfaces[i]]
<1>6. both = d.inputs.interfaces
  BY <1>3, <1>5
<1>7. RecordDerivations(r.inputs, d.inputs) = [file |-> d.inputs.file, interfaces |-> both]
  BY DEF RecordDerivations
<1> QED BY <1>5, <1>6, <1>7

\* The rows after the transaction: where a live one comes from.
LEMMA LiveAfter ==
  ASSUME NEW seen, Writing(seen)
  PROVE  Live' = (Live \ CloseCandidates) \cup Refreshed(seen) \cup Opened(seen)
<1>1. CloseCandidates \subseteq Live /\ Live \subseteq facts
  BY DEF CloseCandidates, Live
<1>2. ASSUME NEW r \in Refreshed(seen) PROVE r.to = NULL
  <2>1. PICK o \in CloseCandidates :
          \E d \in seen : r = [o EXCEPT !.inputs = RecordDerivations(o.inputs, d.inputs)]
    BY DEF Refreshed
  <2>2. o \in [fact : Fact, inputs : Inputs, from : Nat, to : Nat \cup {NULL}] /\ o.to = NULL
    BY DEF CloseCandidates, Live, Writing, Ready, Inductive, TypeOK
  <2> QED BY <2>1, <2>2
<1>3. \A r \in Opened(seen) : r.to = NULL
  BY DEF Opened, OpenFact
<1>4. \A r \in Closed(seen) : r.to # NULL
  <2>1. delta.at \in Nat
    BY ReadyDelta DEF Writing
  <2>2. \A r \in CloseCandidates : CloseFact(r).to = delta.at
    BY DEF CloseCandidates, Live, CloseFact, Writing, Ready, Inductive, TypeOK
  <2> QED BY <2>1, <2>2, NullIsNoSeq DEF Closed
<1>5. facts' = (facts \ CloseCandidates) \cup Refreshed(seen) \cup Closed(seen) \cup Opened(seen)
  BY DEF Writing, ApplyFacts
<1> QED BY <1>1, <1>2, <1>3, <1>4, <1>5 DEF Live

\* Each live row after it is a derivation of the new commit, as derived.
LEMMA RowsAfter ==
  ASSUME NEW seen, Writing(seen)
  PROVE  /\ \A r \in Refreshed(seen) :
              \E o \in CloseCandidates, d \in seen :
                /\ o.fact = d.fact /\ r = [o EXCEPT !.inputs = d.inputs]
                /\ Derived(r) = d /\ r.fact = o.fact /\ r.from = o.from /\ r.to = NULL
         /\ \A r \in Opened(seen) :
              \E d \in seen :
                /\ r = OpenFact(d) /\ Derived(r) = d /\ r.fact = d.fact /\ r.from = delta.at
                /\ r.to = NULL /\ \A o \in CloseCandidates : o.fact # d.fact
<1>1. /\ seen \subseteq NewFacts
      /\ \A d \in seen : d = [fact |-> d.fact, inputs |-> d.inputs]
  <2>1. seen \subseteq NewFacts
    BY DEF Writing, SeenChoices, Touched
  <2>2. ASSUME NEW d \in seen PROVE d = [fact |-> d.fact, inputs |-> d.inputs]
    <3>1. d \in ComputeFacts(Tree[delta.commit], build)
      BY <2>1 DEF NewFacts
    <3> QED BY <3>1, ReadyDelta, DerivationInputs DEF Writing
  <2> QED BY <2>1, <2>2
<1>2. ASSUME NEW r \in Refreshed(seen)
      PROVE  \E o \in CloseCandidates, d \in seen :
               /\ o.fact = d.fact /\ r = [o EXCEPT !.inputs = d.inputs]
               /\ Derived(r) = d /\ r.fact = o.fact /\ r.from = o.from /\ r.to = NULL
  <2>1. PICK o \in CloseCandidates :
          \E d \in seen :
            d.fact = o.fact /\ r = [o EXCEPT !.inputs = RecordDerivations(o.inputs, d.inputs)]
    BY DEF Refreshed
  <2>2. PICK d \in seen :
          d.fact = o.fact /\ r = [o EXCEPT !.inputs = RecordDerivations(o.inputs, d.inputs)]
    BY <2>1
  <2>3. RecordDerivations(o.inputs, d.inputs) = d.inputs
    BY <1>1, <2>2, RefreshedRow DEF Writing
  <2>4. /\ o.to = NULL
        /\ o \in [fact : Fact, inputs : Inputs, from : Nat, to : Nat \cup {NULL}]
    BY DEF CloseCandidates, Live, Writing, Ready, Inductive, TypeOK
  <2>5. r.fact = o.fact /\ r.inputs = d.inputs /\ r.from = o.from /\ r.to = NULL
    BY <2>2, <2>3, <2>4
  <2>6. Derived(r) = d
    BY <1>1, <2>2, <2>5 DEF Derived
  <2> QED BY <2>2, <2>3, <2>5, <2>6
<1>3. ASSUME NEW r \in Opened(seen)
      PROVE  \E d \in seen :
               /\ r = OpenFact(d) /\ Derived(r) = d /\ r.fact = d.fact /\ r.from = delta.at
               /\ r.to = NULL /\ \A o \in CloseCandidates : o.fact # d.fact
  <2>1. PICK d \in seen : r = OpenFact(d) /\ \A o \in CloseCandidates : o.fact # d.fact
    BY DEF Opened
  <2> QED BY <1>1, <2>1 DEF OpenFact, Derived
<1> QED BY <1>2, <1>3

\* Together they are the derivations of the new commit.
LEMMA DerivedAfter ==
  ASSUME NEW seen, Writing(seen)
  PROVE  LiveDerived' = NewFacts
<1>1. LiveDerived' = {Derived(r) : r \in Live'}
  BY DEF LiveDerived, Derived
<1>2. ASSUME NEW r \in Live' PROVE Derived(r) \in NewFacts
  <2>1. seen \subseteq NewFacts
    BY DEF Writing, SeenChoices, Touched
  <2>2. CASE r \in Live \ CloseCandidates
    BY <2>2, UntouchedRow DEF Writing
  <2>3. CASE r \in Refreshed(seen) \cup Opened(seen)
    BY <2>1, <2>3, RowsAfter
  <2> QED BY <2>2, <2>3, LiveAfter
<1>3. ASSUME NEW d \in NewFacts PROVE \E r \in Live' : d = Derived(r)
  <2>1. CASE d \notin Touched
    BY <2>1, UntouchedDerivation, LiveAfter DEF Writing
  <2>2. CASE d \in Touched
    <3>1. d \in seen
      BY <2>2, SeenIsTouched
    <3>2. CASE \E o \in CloseCandidates : o.fact = d.fact
      <4>1. PICK o \in CloseCandidates : o.fact = d.fact
        BY <3>2
      <4> DEFINE r == [o EXCEPT !.inputs = RecordDerivations(o.inputs, d.inputs)]
      <4>2. r \in Refreshed(seen)
        BY <3>1, <4>1 DEF Refreshed
      <4>3. PICK g \in seen : Derived(r) = g /\ r.fact = o.fact /\ o.fact = g.fact
        <5>1. o \in [fact : Fact, inputs : Inputs, from : Nat, to : Nat \cup {NULL}]
          BY DEF CloseCandidates, Live, Writing, Ready, Inductive, TypeOK
        <5>2. r.fact = o.fact
          BY <5>1
        <5>3. PICK g \in seen : Derived(r) = g
          BY <4>2, RowsAfter
        <5>4. g.fact = r.fact
          BY <5>3 DEF Derived
        <5> QED BY <5>2, <5>3, <5>4
      <4>4. g = d
        BY <3>1, <4>1, <4>3 DEF Writing, FirstSeen
      <4> QED BY <4>2, <4>3, <4>4, LiveAfter
    <3>3. CASE \A o \in CloseCandidates : o.fact # d.fact
      <4>1. OpenFact(d) \in Opened(seen)
        BY <3>1, <3>3 DEF Opened
      <4>2. Derived(OpenFact(d)) = d
        <5>1. d \in ComputeFacts(Tree[delta.commit], build)
          BY DEF NewFacts
        <5>2. d = [fact |-> d.fact, inputs |-> d.inputs]
          BY <5>1, ReadyDelta, DerivationInputs DEF Writing
        <5> QED BY <5>2 DEF Derived, OpenFact
      <4> QED BY <4>1, <4>2, LiveAfter
    <3> QED BY <3>2, <3>3
  <2> QED BY <2>1, <2>2
<1> QED BY <1>1, <1>2, <1>3

\* After it a fact has one live row, with ordered ends.
LEMMA OneRowAfter ==
  ASSUME NEW seen, Writing(seen), NEW r \in Live', NEW q \in Live', r.fact = q.fact
  PROVE  r = q
<1> DEFINE Kept == Live \ CloseCandidates
<1>1. /\ r \in Kept \cup Refreshed(seen) \cup Opened(seen)
      /\ q \in Kept \cup Refreshed(seen) \cup Opened(seen)
  BY LiveAfter
<1>2. \A o, x \in Live : o.fact = x.fact => o = x
  BY DEF Writing, Ready, Inductive, RowsOrdered
<1>3. \A d, e \in seen : d.fact = e.fact => d = e
  BY DEF Writing, FirstSeen
<1>4. \A d \in seen, o \in Kept : o.fact # d.fact
  BY NotRefused, SeenIsTouched DEF Refused, Writing
<1>5. CloseCandidates \subseteq Live
  BY DEF CloseCandidates
<1>6. \A o \in CloseCandidates, x \in Kept : o.fact # x.fact
  BY <1>2, <1>5
<1>7. ASSUME NEW u \in Refreshed(seen)
      PROVE  \E o \in CloseCandidates, d \in seen :
               /\ o.fact = d.fact /\ u = [o EXCEPT !.inputs = d.inputs]
               /\ Derived(u) = d /\ u.fact = o.fact
  BY RowsAfter
<1>8. ASSUME NEW u \in Opened(seen)
      PROVE  \E d \in seen : /\ u = OpenFact(d) /\ u.fact = d.fact
                             /\ \A o \in CloseCandidates : o.fact # d.fact
  BY RowsAfter
<1>9. CASE r \in Kept /\ q \in Kept
  BY <1>2, <1>9
<1>10. CASE r \in Refreshed(seen) /\ q \in Refreshed(seen)
  <2>1. PICK o \in CloseCandidates : \E d \in seen :
          o.fact = d.fact /\ r = [o EXCEPT !.inputs = d.inputs] /\ r.fact = o.fact
    BY <1>7, <1>10
  <2>2. PICK x \in CloseCandidates : \E d \in seen :
          x.fact = d.fact /\ q = [x EXCEPT !.inputs = d.inputs] /\ q.fact = x.fact
    BY <1>7, <1>10
  <2>3. o = x
    BY <1>2, <1>5, <2>1, <2>2
  <2> QED BY <1>3, <2>1, <2>2, <2>3
<1>11. CASE r \in Opened(seen) /\ q \in Opened(seen)
  BY <1>3, <1>8, <1>11
<1>12. \A u \in Refreshed(seen), x \in Kept : u.fact # x.fact
  BY <1>6, <1>7
<1>13. \A u \in Opened(seen), x \in Kept : u.fact # x.fact
  BY <1>4, <1>8
<1>14. \A u \in Opened(seen), x \in Refreshed(seen) : u.fact # x.fact
  BY <1>7, <1>8
<1> QED BY <1>1, <1>9, <1>10, <1>11, <1>12, <1>13, <1>14

\* The rows of the transaction end before the next delta starts.
LEMMA OrderAfter ==
  ASSUME NEW seen, Writing(seen), resume' = delta.at + 1, NEW r \in facts'
  PROVE  r.from < resume' /\ (r.to # NULL => r.from < r.to /\ r.to < resume')
<1>1. delta.at \in Nat /\ resume \in Nat /\ delta.at >= resume
  BY ReadyDelta DEF Writing
<1> DEFINE Row == [fact : Fact, inputs : Inputs, from : Nat, to : Nat \cup {NULL}]
<1>2. /\ facts \subseteq Row
      /\ \A x \in facts : x.from < resume /\ (x.to # NULL => x.from < x.to /\ x.to < resume)
  BY DEF Writing, Ready, Inductive, TypeOK, RowsOrdered
<1>3. CloseCandidates \subseteq facts
  BY DEF CloseCandidates, Live
<1>4. CASE r \in facts
  <2>1. r.from \in Nat /\ r.to \in Nat \cup {NULL}
    BY <1>2, <1>4
  <2> QED BY <1>1, <1>2, <1>4, <2>1, NullIsNoSeq
<1>5. CASE r \in Refreshed(seen)
  <2>1. PICK o \in CloseCandidates : r.from = o.from /\ r.to = NULL
    BY <1>5, RowsAfter
  <2>2. o.from \in Nat /\ o.from < resume
    BY <1>2, <1>3
  <2> QED BY <1>1, <2>1, <2>2
<1>6. CASE r \in Opened(seen)
  <2>1. r.from = delta.at /\ r.to = NULL
    BY <1>6, RowsAfter
  <2> QED BY <1>1, <2>1
<1>7. CASE r \in Closed(seen)
  <2>1. PICK o \in CloseCandidates : r = CloseFact(o)
    BY <1>7 DEF Closed
  <2>2. o \in Row /\ o.from < resume
    BY <1>2, <1>3
  <2>3. r.from = o.from /\ r.to = delta.at /\ o.from \in Nat
    BY <2>1, <2>2 DEF CloseFact
  <2> QED BY <1>1, <2>2, <2>3
<1> QED BY <1>4, <1>5, <1>6, <1>7 DEF Writing, ApplyFacts

LEMMA ApplyInductive == Assumed /\ Inductive /\ ApplyDelta => Inductive'
<1> SUFFICES ASSUME Assumed, Inductive, ApplyDelta PROVE Inductive'
  OBVIOUS
<1>1. PICK seen \in SeenChoices : FirstSeen(seen) /\ ApplyFacts(seen)
  BY DEF ApplyDelta
<1>2. Ready /\ Writing(seen)
  BY <1>1 DEF ApplyDelta, Ready, AtStage, Writing
<1>3. /\ delta.commit \in CleanCommits /\ delta.at \in Nat /\ resume \in Nat
      /\ delta.at >= resume /\ build \in Build /\ Tree[delta.commit] \in Commit
      /\ delta \in Deltas
  BY <1>2, ReadyDelta
<1>4. TypeOK'
  BY ApplyType DEF Inductive
<1>5. /\ resume' = delta.at + 1 /\ versions' = Tree[delta.commit] /\ build' = build
      /\ past' = past \cup {[at |-> delta.at, commit |-> delta.commit, build |-> build]}
      /\ delta' = [delta EXCEPT !.stage = "applied"]
  BY DEF ApplyDelta
<1>6. delta'.stage = "applied" /\ delta'.commit = delta.commit
  BY <1>3, <1>5 DEF Deltas
<1>7. delta' # NULL
  BY <1>3, <1>5, NullIsNoDelta DEF Deltas
<1>8. Settled'
  <2>1. resume' > 0 /\ resume' - 1 = delta.at
    BY <1>3, <1>5
  <2>2. \A h \in past : h.at < resume /\ h.at \in Nat /\ h.commit \in CleanCommits
    BY DEF Inductive, Settled, TypeOK
  <2>3. \A h \in past' : h.at < resume' /\ h.commit \in CleanCommits
    BY <1>3, <1>5, <2>2
  <2>4. ASSUME NEW h \in past', h.at = resume' - 1
        PROVE  h.commit = delta.commit /\ h.build = build
    <3>1. h \notin past
      BY <1>3, <2>1, <2>2, <2>4
    <3> QED BY <1>5, <3>1
  <2>5. LiveDerived' = ComputeFacts(Tree[delta.commit], build)
    BY <1>2, DerivedAfter DEF NewFacts
  <2>6. AtStage("applied")'
    BY <1>6, <1>7 DEF AtStage
  <2>7. \E h \in past' : h.at = resume' - 1
    <3>1. [at |-> delta.at, commit |-> delta.commit, build |-> build].at = resume' - 1
      BY <2>1
    <3> QED BY <1>5, <3>1
  <2>8. CleanCommits' = CleanCommits
    BY DEF CleanCommits, Commits
  <2> QED BY <1>5, <2>1, <2>3, <2>4, <2>5, <2>6, <2>7, <2>8 DEF Settled
<1>9. TableAgrees'
  <2>1. ASSUME NEW r \in Live', NEW i \in DOMAIN r.inputs.interfaces
        PROVE  i \in DOMAIN implementers' /\ implementers'[i] = r.inputs.interfaces[i]
    <3>1. Derived(r) \in LiveDerived'
      BY DEF LiveDerived, Derived
    <3>2. Derived(r) \in NewFacts
      BY <1>2, <3>1, DerivedAfter
    <3>3. Derived(r).inputs = r.inputs
      BY DEF Derived
    <3>4. i \in Dispatched
      BY <3>2, <3>3 DEF Dispatched
    <3>5. r.inputs.interfaces[i] = Implementers(Tree[delta.commit], i)
      <4>1. \A j \in DOMAIN Derived(r).inputs.interfaces :
              Derived(r).inputs.interfaces[j] = Implementers(Tree[delta.commit], j)
        BY <1>3, <3>2, DerivationInputs DEF NewFacts
      <4> QED BY <3>3, <4>1
    <3>6. implementers'[i] = IfaceHash(i) /\ i \in DOMAIN implementers'
      BY <3>4 DEF ApplyDelta, UpsertInterfaceImplementers
    <3> QED BY <3>5, <3>6 DEF IfaceHash
  <2> QED BY <2>1 DEF TableAgrees
<1>10. RowsOrdered'
  <2>1. \A r \in facts' : r.from < resume' /\ (r.to # NULL => r.from < r.to /\ r.to < resume')
    BY <1>2, <1>5, OrderAfter
  <2>2. \A r, q \in Live' : r.fact = q.fact => r = q
    BY <1>2, OneRowAfter
  <2> QED BY <2>1, <2>2 DEF RowsOrdered
<1>11. DeltaCurrent'
  <2>1. ~ AtStage("loaded")'
    BY <1>6 DEF AtStage
  <2>2. CleanCommits' = CleanCommits
    BY DEF CleanCommits, Commits
  <2>3. resume' > 0
    BY <1>3, <1>5
  <2> QED BY <1>3, <1>6, <2>1, <2>2, <2>3 DEF DeltaCurrent
<1> QED BY <1>4, <1>8, <1>9, <1>10, <1>11 DEF Inductive

LEMMA InitInductive == Init => Inductive
<1> SUFFICES ASSUME Init PROVE Inductive
  OBVIOUS
<1>1. TypeOK
  BY InitType
<1>2. Settled /\ TableAgrees /\ RowsOrdered /\ DeltaCurrent
  BY DEF Init, Settled, TableAgrees, RowsOrdered, DeltaCurrent, Live, AtStage
<1> QED BY <1>1, <1>2 DEF Inductive

LEMMA NextInductive == Assumed /\ Inductive /\ [Next]_vars => Inductive'
<1> SUFFICES ASSUME Assumed, Inductive, [Next]_vars PROVE Inductive'
  OBVIOUS
<1>1. TypeOK'
  BY NextType DEF Inductive
<1>2. CleanCommits' = CleanCommits
  BY DEF CleanCommits, Commits
<1>3. ASSUME UNCHANGED <<facts, implementers, versions, resume, past>>
      PROVE  TableAgrees' /\ RowsOrdered' /\ LiveDerived' = LiveDerived
  BY <1>3 DEF Inductive, TableAgrees, RowsOrdered, Live, LiveDerived, Derived
<1>4. ASSUME NEW c \in Commits, NEW n \in 0 .. MaxSeq - 1, Load(c, n) PROVE Inductive'
  <2>1. UNCHANGED <<facts, implementers, versions, resume, recorded, build, past>>
    BY <1>4 DEF Load, store
  <2>2. /\ delta' = [commit |-> c, at |-> n, changed |-> ChangedFiles(Tree[c]), stage |-> "loaded"]
        /\ delta = NULL /\ CheckPoison(Tree[c])
        /\ n \in resume .. MaxSeq - 1
    BY <1>4 DEF Load
  <2>3. c \in CleanCommits
    BY <2>2 DEF CleanCommits
  <2>4. ~ AtStage("applied") /\ ~ AtStage("applied")'
    BY <2>2 DEF AtStage
  <2>5. Settled'
    BY <1>2, <1>3, <2>1, <2>4 DEF Inductive, Settled
  <2>6. ChangedFiles(Tree[c])' = ChangedFiles(Tree[c])
    BY <2>1 DEF ChangedFiles, DiffFileHashes
  <2>7. n >= resume
    BY <2>2, SeqBound DEF Inductive, TypeOK
  <2>8. DeltaCurrent'
    <3>1. delta'.commit = c /\ delta'.at = n /\ delta'.changed = ChangedFiles(Tree[c])
      BY <2>2
    <3>2. ChangedFiles(Tree[delta.commit])' = ChangedFiles(Tree[c])
      BY <2>1, <3>1 DEF ChangedFiles, DiffFileHashes
    <3> QED BY <1>2, <2>1, <2>3, <2>4, <2>7, <3>1, <3>2 DEF DeltaCurrent
  <2> QED BY <1>1, <1>3, <2>1, <2>5, <2>8 DEF Inductive
<1>5. CASE SetAnalyzerVersion
  <2>1. UNCHANGED <<facts, implementers, versions, resume, build, past>> /\ delta' = NULL
    BY <1>5 DEF SetAnalyzerVersion
  <2>2. AtStage("applied") /\ ~ AtStage("applied")' /\ recorded' = VersionOf[build]
    BY <1>5 DEF SetAnalyzerVersion, AtStage
  <2>3. Settled'
    BY <1>2, <1>3, <2>1, <2>2 DEF Inductive, Settled
  <2> QED BY <1>1, <1>3, <2>1, <2>3 DEF Inductive, DeltaCurrent, AtStage
<1>6. CASE Rollback
  <2>1. UNCHANGED <<facts, implementers, versions, resume, recorded, build, past>> /\ delta' = NULL
    BY <1>6 DEF Rollback, store
  <2>2. ~ AtStage("applied") /\ ~ AtStage("applied")'
    BY <1>6, <2>1 DEF Rollback, AtStage
  <2>3. Settled'
    BY <1>2, <1>3, <2>1, <2>2 DEF Inductive, Settled
  <2> QED BY <1>1, <1>3, <2>1, <2>3 DEF Inductive, DeltaCurrent, AtStage
<1>7. CASE Crash
  <2>1. UNCHANGED <<facts, implementers, versions, resume, recorded, build, past>> /\ delta' = NULL
    BY <1>7 DEF Crash, store
  <2>2. ~ AtStage("applied")'
    BY <2>1 DEF AtStage
  <2>3. Settled'
    BY <1>2, <1>3, <2>1, <2>2 DEF Inductive, Settled
  <2> QED BY <1>1, <1>3, <2>1, <2>3 DEF Inductive, DeltaCurrent, AtStage
<1>8. ASSUME NEW b \in Build, Install(b) PROVE Inductive'
  <2>1. UNCHANGED <<facts, implementers, versions, resume, recorded, delta, past>> /\ delta = NULL
    BY <1>8 DEF Install, store
  <2>2. \A h \in past : h.at = resume - 1 => h.build = b \/ recorded = VersionOf[h.build]
    <3>1. CASE \A x, y \in Build : x = y
      BY <3>1 DEF Inductive, TypeOK
    <3>2. CASE ~ UpgradeBehind
      BY <1>8, <3>2 DEF Install, VersionBehind
    <3> QED BY <3>1, <3>2 DEF Assumed, VersionsTell
  <2>3. build' = b /\ ~ AtStage("applied")'
    BY <1>8, <2>1 DEF Install, AtStage
  <2>4. Settled'
    BY <1>2, <1>3, <2>1, <2>2, <2>3 DEF Inductive, Settled
  <2> QED BY <1>1, <1>3, <2>1, <2>4 DEF Inductive, DeltaCurrent, AtStage
<1>9. CASE UNCHANGED vars
  <2>1. UNCHANGED <<facts, implementers, versions, resume, recorded, build, delta, past>>
    BY <1>9 DEF vars
  <2>2. Settled'
    BY <1>2, <1>3, <2>1 DEF Inductive, Settled, AtStage
  <2>3. DeltaCurrent'
    BY <1>2, <2>1 DEF Inductive, DeltaCurrent, AtStage, ChangedFiles, DiffFileHashes
  <2> QED BY <1>1, <1>3, <2>1, <2>2, <2>3 DEF Inductive
<1> QED BY <1>4, <1>5, <1>6, <1>7, <1>8, <1>9, ApplyInductive DEF Next, Finish

LEMMA AlwaysInductive == Assumed => (Spec => []Inductive)
<1> SUFFICES ASSUME Assumed PROVE Spec => []Inductive
  OBVIOUS
<1>1. Inductive /\ [Next]_vars => Inductive'
  BY NextInductive
<1> QED BY <1>1, InitInductive, PTL DEF Spec

-----------------------------------------------------------------------------
(***************************************************************************)
(* The theorems: what selection keeps, under what it takes for granted.    *)
(***************************************************************************)

(***************************************************************************)
(* No delta is refused by the unique index of atlas.facts.                 *)
(***************************************************************************)
THEOREM NeverRefused == Assumed => (Spec => []DeltaAccepted)
<1> SUFFICES ASSUME Assumed PROVE Spec => []DeltaAccepted
  OBVIOUS
<1>1. Inductive => DeltaAccepted
  BY NotRefused DEF DeltaAccepted, Ready, AtStage
<1> QED BY <1>1, AlwaysInductive, PTL

(***************************************************************************)
(* A live row records the inputs that derive it in the last applied        *)
(* commit, and the table of implementer sets agrees with it.               *)
(***************************************************************************)
THEOREM InputsStayCurrent == Assumed => (Spec => []InputsCurrent)
<1> SUFFICES ASSUME Assumed PROVE Spec => []InputsCurrent
  OBVIOUS
<1>1. Inductive => InputsCurrent
  <2> SUFFICES ASSUME Inductive, NEW h \in past, NEW r \in Live, h.at = resume - 1
               PROVE  /\ [fact |-> r.fact, inputs |-> r.inputs]
                            \in ComputeFacts(Tree[h.commit], h.build)
                      /\ \A i \in DOMAIN r.inputs.interfaces :
                           i \in DOMAIN implementers /\ implementers[i] = r.inputs.interfaces[i]
    BY DEF InputsCurrent
  <2>1. Derived(r) \in ComputeFacts(Tree[h.commit], h.build)
    BY DEF Inductive, Settled, LiveDerived
  <2> QED BY <2>1 DEF Derived, Inductive, TableAgrees
<1> QED BY <1>1, AlwaysInductive, PTL

\* The facts that the transaction leaves at an earlier seq are those it found.
LEMMA EarlierUntouched ==
  ASSUME NEW seen, Writing(seen), NEW n \in Nat, n < resume
  PROVE  FactsAt(n)' = FactsAt(n)
<1> DEFINE Covers(r) == r.from <= n /\ (r.to = NULL \/ n < r.to)
<1>1. delta.at \in Nat /\ resume \in Nat /\ delta.at >= resume
  BY ReadyDelta DEF Writing
<1>2. facts' = (facts \ CloseCandidates) \cup Refreshed(seen) \cup Closed(seen) \cup Opened(seen)
  BY DEF Writing, ApplyFacts
<1>3. \A r \in Opened(seen) : ~ Covers(r)
  BY <1>1, RowsAfter
<1>4. \A r \in CloseCandidates :
        /\ r \in facts /\ r.to = NULL
        /\ CloseFact(r).fact = r.fact /\ CloseFact(r).from = r.from /\ CloseFact(r).to = delta.at
  BY DEF CloseCandidates, Live, CloseFact, Writing, Ready, Inductive, TypeOK
<1>5. ASSUME NEW r \in facts', Covers(r) PROVE r.fact \in FactsAt(n)
  <2>1. CASE r \in facts
    BY <1>5, <2>1 DEF FactsAt
  <2>2. CASE r \in Refreshed(seen)
    <3>1. PICK o \in CloseCandidates : r.fact = o.fact /\ r.from = o.from /\ r.to = NULL
      BY <2>2, RowsAfter
    <3>2. o \in facts /\ Covers(o)
      BY <1>4, <1>5, <3>1
    <3> QED BY <3>1, <3>2 DEF FactsAt
  <2>3. CASE r \in Closed(seen)
    <3>1. PICK o \in CloseCandidates : r = CloseFact(o)
      BY <2>3 DEF Closed
    <3>2. o \in facts /\ Covers(o) /\ o.fact = r.fact
      BY <1>4, <1>5, <3>1
    <3> QED BY <3>2 DEF FactsAt
  <2> QED BY <1>2, <1>3, <1>5, <2>1, <2>2, <2>3
<1>6. ASSUME NEW r \in facts, Covers(r) PROVE \E x \in facts' : x.fact = r.fact /\ Covers(x)
  <2>1. CASE r \notin CloseCandidates
    BY <1>2, <1>6, <2>1
  <2>2. CASE r \in CloseCandidates /\ \E d \in seen : d.fact = r.fact
    <3>1. PICK d \in seen : d.fact = r.fact
      BY <2>2
    <3> DEFINE x == [r EXCEPT !.inputs = RecordDerivations(r.inputs, d.inputs)]
    <3>2. x \in Refreshed(seen)
      BY <2>2, <3>1 DEF Refreshed
    <3>3. x.fact = r.fact /\ x.from = r.from /\ x.to = r.to
      BY <2>2, <1>4 DEF Writing, Ready, Inductive, TypeOK
    <3> QED BY <1>2, <1>6, <3>2, <3>3
  <2>3. CASE r \in CloseCandidates /\ \A d \in seen : d.fact # r.fact
    <3>1. CloseFact(r) \in Closed(seen)
      BY <2>3 DEF Closed
    <3> QED BY <1>1, <1>2, <1>4, <1>6, <2>3, <3>1
  <2> QED BY <2>1, <2>2, <2>3
<1>7. FactsAt(n)' = {r.fact : r \in {x \in facts' : Covers(x)}}
  BY DEF FactsAt
<1>8. FactsAt(n) = {r.fact : r \in {x \in facts : Covers(x)}}
  BY DEF FactsAt
<1> HIDE DEF Covers
<1> QED BY <1>5, <1>6, <1>7, <1>8

\* At the seq of the delta the facts are those of its commit.
LEMMA NowRebuilt ==
  ASSUME NEW seen, Writing(seen), resume' = delta.at + 1, NEW n \in Nat, n = delta.at
  PROVE  FactsAt(n)' = FactsOf(Tree[delta.commit], build) /\ LiveFacts' = FactsAt(n)'
<1>1. LiveDerived' = ComputeFacts(Tree[delta.commit], build)
  BY DerivedAfter DEF NewFacts
<1>2. LiveFacts' = {d.fact : d \in LiveDerived'}
  <2>1. \A r \in Live' : Derived(r).fact = r.fact
    BY DEF Derived
  <2>2. LiveDerived' = {Derived(r) : r \in Live'}
    BY DEF LiveDerived, Derived
  <2>3. LiveFacts' = {r.fact : r \in Live'}
    BY DEF LiveFacts
  <2> QED BY <2>1, <2>2, <2>3
<1>3. \A r \in facts' : r.from <= n /\ (r.to = NULL \/ n < r.to) <=> r.to = NULL
  <2>1. ASSUME NEW r \in facts'
        PROVE  r.from < n + 1 /\ (r.to # NULL => r.to < n + 1) /\ r.from \in Nat
               /\ r.to \in Nat \cup {NULL}
    <3>1. r.from < n + 1 /\ (r.to # NULL => r.to < n + 1)
      BY OrderAfter
    <3>2. r \in [fact : Fact, inputs : Inputs, from : Nat, to : Nat \cup {NULL}]
      BY ReadyDelta, RowsType DEF Writing, Ready, Inductive
    <3> QED BY <3>1, <3>2
  <2> QED BY <2>1, NullIsNoSeq
<1>4. FactsAt(n)' = {r.fact : r \in {x \in facts' : x.from <= n /\ (x.to = NULL \/ n < x.to)}}
  BY DEF FactsAt
<1>5. {x \in facts' : x.from <= n /\ (x.to = NULL \/ n < x.to)} = Live'
  BY <1>3 DEF Live
<1> QED BY <1>1, <1>2, <1>4, <1>5 DEF LiveFacts, FactsOf

(***************************************************************************)
(* I1 of architecture.md, at every applied seq and for any number of       *)
(* files, types and commits: what is live there is what a full rebuild     *)
(* derives.                                                                *)
(***************************************************************************)
THEOREM SelectionIsSound == Assumed => (Spec => []FactsExact)
<1> SUFFICES ASSUME Assumed PROVE Spec => []FactsExact
  OBVIOUS
<1>1. Init => FactsExact
  BY DEF Init, FactsExact
<1>2. Inductive /\ FactsExact /\ [Next]_vars => FactsExact'
  <2> SUFFICES ASSUME Inductive, FactsExact, [Next]_vars, NEW h \in past'
               PROVE  FactsAt(h.at)' = FactsOf(Tree[h.commit], h.build)
    BY DEF FactsExact
  <2>1. CASE ApplyDelta
    <3>1. PICK seen : Writing(seen)
      BY <2>1 DEF ApplyDelta, Writing, Ready, AtStage
    <3>2. resume' = delta.at + 1
          /\ past' = past \cup {[at |-> delta.at, commit |-> delta.commit, build |-> build]}
      BY <2>1 DEF ApplyDelta
    <3>3. CASE h \in past
      <4>1. h.at \in Nat /\ h.at < resume
        BY <3>3 DEF Inductive, TypeOK, Settled
      <4>2. FactsAt(h.at)' = FactsAt(h.at)
        BY <3>1, <4>1, EarlierUntouched
      <4> QED BY <3>3, <4>2 DEF FactsExact
    <3>4. CASE h = [at |-> delta.at, commit |-> delta.commit, build |-> build]
      <4>1. h.at = delta.at /\ h.at \in Nat /\ h.commit = delta.commit /\ h.build = build
        BY <3>1, <3>4, ReadyDelta DEF Writing
      <4>2. FactsAt(h.at)' = FactsOf(Tree[delta.commit], build)
        BY <3>1, <3>2, <4>1, NowRebuilt
      <4> QED BY <4>1, <4>2
    <3> QED BY <3>2, <3>3, <3>4
  <2>2. CASE UNCHANGED <<facts, past>>
    <3>1. FactsAt(h.at)' = FactsAt(h.at)
      BY <2>2 DEF FactsAt
    <3> QED BY <2>2, <3>1 DEF FactsExact
  <2>3. ~ ApplyDelta => UNCHANGED <<facts, past>>
    BY DEF Next, Finish, Load, SetAnalyzerVersion, Rollback, Crash, Install, store, vars
  <2> QED BY <2>1, <2>2, <2>3
<1> QED BY <1>1, <1>2, AlwaysInductive, PTL DEF Spec

-----------------------------------------------------------------------------
(* What the sources must be like.                                           *)

LEMMA SourcesDeriveLocally ==
  ASSUME SourcesKeep, NEW c \in CleanCommits, NEW e \in CleanCommits, NEW b \in Build,
         NEW d \in ComputeFacts(Tree[c], b), Tree[c][d.fact.file] = Tree[e][d.fact.file]
  PROVE  /\ DOMAIN d.inputs.interfaces \subseteq DispatchedIn(Tree[e], b)
         /\ (\A i \in DOMAIN d.inputs.interfaces : Implementers(Tree[c], i) = Implementers(Tree[e], i))
            => d \in ComputeFacts(Tree[e], b)
<1>1. Tree[c] \in Commit /\ Tree[e] \in Commit
  BY TreeType DEF CleanCommits
<1>2. /\ CheckPoison(Tree[c]) /\ CheckPoison(Tree[e])
      /\ TypesKept(Tree[c], Tree[e]) /\ NothingPromoted(Tree[c]) /\ NothingPromoted(Tree[e])
  BY DEF CleanCommits, SourcesKeep
<1>3. /\ \A i \in DOMAIN d.inputs.interfaces :
           \E g \in ComputeFacts(Tree[e], b) : i \in DOMAIN g.inputs.interfaces
      /\ (\A i \in DOMAIN d.inputs.interfaces : Implementers(Tree[c], i) = Implementers(Tree[e], i))
         => d \in ComputeFacts(Tree[e], b)
  BY <1>1, <1>2, SharedDerivation
<1>. QED
  BY <1>3 DEF DispatchedIn

LEMMA SourcesDeriveUniquely ==
  ASSUME SourcesKeep, NEW c \in CleanCommits, NEW e \in CleanCommits, NEW a \in Build, NEW b \in Build,
         NEW d \in ComputeFacts(Tree[c], a), NEW g \in ComputeFacts(Tree[e], b), d.fact = g.fact
  PROVE  DOMAIN d.inputs.interfaces = DOMAIN g.inputs.interfaces
<1>1. PICK f \in Files(Tree[c]) : \E call \in Classified(Tree[c], f, a) :
        d \in DirectFacts(Tree[c], f, call) \/ \E i \in Interface : Through(d, Tree[c], f, call, i)
  BY DerivedFrom
<1>2. PICK k \in Classified(Tree[c], f, a) :
        d \in DirectFacts(Tree[c], f, k) \/ \E i \in Interface : Through(d, Tree[c], f, k, i)
  BY <1>1
<1>3. PICK h \in Files(Tree[e]) : \E call \in Classified(Tree[e], h, b) :
        g \in DirectFacts(Tree[e], h, call) \/ \E i \in Interface : Through(g, Tree[e], h, call, i)
  BY DerivedFrom
<1>4. PICK n \in Classified(Tree[e], h, b) :
        g \in DirectFacts(Tree[e], h, n) \/ \E i \in Interface : Through(g, Tree[e], h, n, i)
  BY <1>3
<1>5. CASE d.fact.provenance = "direct_call"
  <2>1. d \in DirectFacts(Tree[c], f, k)
    <3>1. \A i : Through(d, Tree[c], f, k, i) => d.fact.provenance = "interface_resolved"
      BY ThroughShows
    <3>. QED
      BY <1>2, <1>5, <3>1
  <2>2. g \in DirectFacts(Tree[e], h, n)
    <3>1. \A i : Through(g, Tree[e], h, n, i) => g.fact.provenance = "interface_resolved"
      BY ThroughShows
    <3>. QED
      BY <1>4, <1>5, <3>1
  <2>. QED
    BY <2>1, <2>2, DirectShows
<1>6. CASE d.fact.provenance # "direct_call"
  <2>1. PICK i \in Interface : Through(d, Tree[c], f, k, i)
    BY <1>2, <1>6, DirectShows
  <2>2. PICK j \in Interface : Through(g, Tree[e], h, n, j)
    BY <1>4, <1>6, DirectShows
  <2>3. /\ f = h /\ k.line = n.line /\ k.caller = n.caller /\ k.method = n.method
        /\ i \in StaticType(Tree[c], k.on) \cap Interface
        /\ j \in StaticType(Tree[e], n.on) \cap Interface
        /\ DOMAIN d.inputs.interfaces = {i} /\ DOMAIN g.inputs.interfaces = {j}
    BY <2>1, <2>2, ThroughShows
  <2>4. f \in File /\ k \in Calls(Tree[c], f) /\ n \in Calls(Tree[e], f)
    BY <1>2, <1>4, <2>3 DEF Classified, Files
  <2>5. i = j
    BY <2>3, <2>4 DEF SourcesKeep, SitesStay
  <2>. QED
    BY <2>3, <2>5
<1>. QED
  BY <1>5, <1>6

(***************************************************************************)
(* What selection takes for granted holds for every branch in which what   *)
(* an unchanged file calls on keeps its type, types declare themselves     *)
(* what an embedded type could lend them, and sites keep their interface.  *)
(***************************************************************************)
THEOREM SourcesSuffice == SourcesKeep => LocalDerivation /\ UniqueDerivation
<1>. SUFFICES ASSUME SourcesKeep PROVE LocalDerivation /\ UniqueDerivation
  OBVIOUS
<1>1. LocalDerivation
  BY SourcesDeriveLocally DEF LocalDerivation
<1>2. UniqueDerivation
  BY SourcesDeriveUniquely DEF UniqueDerivation
<1>. QED
  BY <1>1, <1>2

(***************************************************************************)
(* I1 from conditions on the sources alone: the facts at every applied seq *)
(* are those of a full rebuild.                                            *)
(***************************************************************************)
THEOREM SourcesAreIndexedExactly == SourcesKeep /\ VersionsTell => (Spec => []FactsExact)
BY SourcesSuffice, SelectionIsSound DEF Assumed
=============================================================================
