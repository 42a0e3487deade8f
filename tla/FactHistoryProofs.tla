------------------------- MODULE FactHistoryProofs -------------------------
(***************************************************************************)
(* Proofs about the rows of FactStore over time: the rows of a fact do not *)
(* overlap, a row lives as long as its fact is derived, and the live facts *)
(* behave as FullRebuild says.                                             *)
(***************************************************************************)
EXTENDS FactStoreProofs

-----------------------------------------------------------------------------
(***************************************************************************)
(* Where the rows of the transaction come from.                            *)
(***************************************************************************)

\* x is what the transaction makes of the row o.
Continues(x, o, seen) ==
  \/ x = o /\ o \notin CloseCandidates
  \/ /\ o \in CloseCandidates
     /\ x \in Refreshed(seen) \cup Closed(seen)
     /\ x.fact = o.fact /\ x.from = o.from

\* Each row continues one that was there, or is opened for a fact that has
\* no live one.
LEMMA Origin ==
  ASSUME NEW seen, Writing(seen), NEW x \in facts'
  PROVE  \/ \E o \in facts : Continues(x, o, seen)
         \/ /\ x.from = delta.at /\ x.to = NULL
            /\ \A o \in Live : o.fact # x.fact
<1>1. CASE x \in facts /\ x \notin CloseCandidates
  BY <1>1 DEF Continues
<1>2. CASE x \in Refreshed(seen)
  <2>1. PICK o \in CloseCandidates : x.fact = o.fact /\ x.from = o.from
    BY <1>2, RowsAfter
  <2>2. o \in facts
    BY DEF CloseCandidates, Live
  <2> QED BY <1>2, <2>1, <2>2 DEF Continues
<1>3. CASE x \in Closed(seen)
  <2>1. PICK o \in CloseCandidates : x = CloseFact(o)
    BY <1>3 DEF Closed
  <2>2. /\ o \in facts
        /\ o \in [fact : Fact, inputs : Inputs, from : Nat, to : Nat \cup {NULL}]
    BY DEF CloseCandidates, Live, Writing, Ready, Inductive, TypeOK
  <2>3. x.fact = o.fact /\ x.from = o.from
    BY <2>1, <2>2 DEF CloseFact
  <2> QED BY <1>3, <2>2, <2>3 DEF Continues
<1>4. CASE x \in Opened(seen)
  <2>1. PICK d \in seen : /\ x.fact = d.fact /\ x.from = delta.at /\ x.to = NULL
                          /\ \A o \in CloseCandidates : o.fact # d.fact
    BY <1>4, RowsAfter
  <2>2. d \in Touched
    BY SeenIsTouched
  <2>3. \A o \in Live \ CloseCandidates : o.fact # d.fact
    BY <2>2, NotRefused DEF Refused, Writing
  <2> QED BY <2>1, <2>3
<1> QED BY <1>1, <1>2, <1>3, <1>4 DEF Writing, ApplyFacts

\* The candidates that are closed are those nothing seen derives.
LEMMA ClosedRow ==
  ASSUME NEW seen, Writing(seen), NEW x \in Closed(seen), NEW o \in Live, x.fact = o.fact
  PROVE  x = CloseFact(o) /\ x.to = delta.at /\ \A d \in seen : d.fact # o.fact
<1>1. PICK c \in CloseCandidates : x = CloseFact(c) /\ \A d \in seen : d.fact # c.fact
  BY DEF Closed
<1>2. /\ c \in Live
      /\ c \in [fact : Fact, inputs : Inputs, from : Nat, to : Nat \cup {NULL}]
  BY DEF CloseCandidates, Live, Writing, Ready, Inductive, TypeOK
<1>3. x.fact = c.fact /\ x.to = delta.at
  BY <1>1, <1>2 DEF CloseFact
<1>4. c = o
  BY <1>2, <1>3 DEF Writing, Ready, Inductive, RowsOrdered
<1> QED BY <1>1, <1>3, <1>4

\* No row is continued twice.
LEMMA OneContinuation ==
  ASSUME NEW seen, Writing(seen), NEW o \in facts,
         NEW x \in facts', NEW y \in facts', Continues(x, o, seen), Continues(y, o, seen)
  PROVE  x = y
<1>1. CASE o \notin CloseCandidates
  BY <1>1 DEF Continues
<1>2. CASE o \in CloseCandidates
  <2>1. /\ x \in Refreshed(seen) \cup Closed(seen) /\ x.fact = o.fact
        /\ y \in Refreshed(seen) \cup Closed(seen) /\ y.fact = o.fact
        /\ o \in Live
    BY <1>2 DEF Continues, CloseCandidates
  <2>2. CASE x \in Refreshed(seen) /\ y \in Refreshed(seen)
    BY <2>1, <2>2, LiveAfter, OneRowAfter
  <2>3. CASE x \in Closed(seen) /\ y \in Closed(seen)
    BY <2>1, <2>3, ClosedRow
  <2>4. \A u \in Refreshed(seen) : \E d \in seen : d.fact = u.fact
    BY RowsAfter
  <2>5. \A u \in Closed(seen) : u.fact = o.fact => \A d \in seen : d.fact # o.fact
    BY <2>1, ClosedRow
  <2> QED BY <2>1, <2>2, <2>3, <2>4, <2>5
<1> QED BY <1>1, <1>2

-----------------------------------------------------------------------------
(***************************************************************************)
(* The theorems.                                                           *)
(***************************************************************************)

\* Two rows of one fact, the first over before the second begins.
Before(r, q) == r.to # NULL /\ r.to <= q.from

LEMMA ApplyDisjoint ==
  ASSUME Assumed, Inductive, IntervalsDisjoint, ApplyDelta
  PROVE  IntervalsDisjoint'
<1>1. PICK seen : Writing(seen) /\ resume' = delta.at + 1
  BY DEF ApplyDelta, Writing, Ready, AtStage
<1>2. \A r \in facts' : r.to # NULL => r.from < r.to
  BY <1>1, OrderAfter
<1>3. /\ delta.at \in Nat /\ delta.at >= resume /\ resume \in Nat
      /\ \A o \in facts : o.to # NULL => o.to \in Nat /\ o.to < resume
  BY <1>1, ReadyDelta DEF Writing, Inductive, RowsOrdered, TypeOK
<1>4. ASSUME NEW x \in facts', NEW y \in facts', NEW o \in facts, x.fact = y.fact,
             Continues(x, o, seen), y.from = delta.at, \A q \in Live : q.fact # y.fact
      PROVE  Before(x, y)
  <2>1. o \notin Live
    <3>1. o.fact = x.fact
      BY <1>4 DEF Continues
    <3> QED BY <1>4, <3>1
  <2>2. x = o /\ o.to # NULL
    BY <1>4, <2>1 DEF Continues, CloseCandidates, Live
  <2> QED BY <1>3, <1>4, <2>2 DEF Before
<1>5. ASSUME NEW x \in facts', NEW y \in facts', NEW o \in facts, NEW p \in facts,
             x.fact = y.fact, Continues(x, o, seen), Continues(y, p, seen), Before(o, p)
      PROVE  Before(x, y)
  <2>1. x = o
    BY <1>5 DEF Continues, CloseCandidates, Live, Before
  <2>2. y.from = p.from
    BY <1>5 DEF Continues
  <2> QED BY <1>5, <2>1, <2>2 DEF Before
<1>6. ASSUME NEW x \in facts', NEW y \in facts', x # y, x.fact = y.fact
      PROVE  Before(x, y) \/ Before(y, x)
  <2>1. CASE \E o \in facts, p \in facts : Continues(x, o, seen) /\ Continues(y, p, seen)
    <3>1. PICK o \in facts : \E p \in facts : Continues(x, o, seen) /\ Continues(y, p, seen)
      BY <2>1
    <3>2. PICK p \in facts : Continues(x, o, seen) /\ Continues(y, p, seen)
      BY <3>1
    <3>3. o # p
      BY <1>1, <1>6, <3>2, OneContinuation
    <3>4. o.fact = p.fact
      BY <1>6, <3>2 DEF Continues
    <3>5. Before(o, p) \/ Before(p, o)
      BY <3>3, <3>4 DEF IntervalsDisjoint, Before
    <3> QED BY <1>5, <1>6, <3>2, <3>5
  <2>2. CASE x.to = NULL /\ y.to = NULL
    <3>1. x \in Live' /\ y \in Live'
      BY <2>2 DEF Live
    <3> QED BY <1>1, <1>6, <3>1, OneRowAfter
  <2>3. /\ \/ \E o \in facts : Continues(x, o, seen)
           \/ x.from = delta.at /\ x.to = NULL /\ \A q \in Live : q.fact # x.fact
        /\ \/ \E o \in facts : Continues(y, o, seen)
           \/ y.from = delta.at /\ y.to = NULL /\ \A q \in Live : q.fact # y.fact
    BY <1>1, Origin
  <2> QED BY <1>4, <1>6, <2>1, <2>2, <2>3
<1> QED BY <1>2, <1>6 DEF IntervalsDisjoint, Before

(***************************************************************************)
(* I2 and I3 of architecture.md for every row, closed ones included: the   *)
(* intervals of a fact are not empty and do not overlap.                   *)
(***************************************************************************)
THEOREM RowsNeverOverlap == Assumed => (Spec => []IntervalsDisjoint)
<1> SUFFICES ASSUME Assumed PROVE Spec => []IntervalsDisjoint
  OBVIOUS
<1>1. Init => IntervalsDisjoint
  BY DEF Init, IntervalsDisjoint
<1>2. Inductive /\ IntervalsDisjoint /\ [Next]_vars => IntervalsDisjoint'
  <2> SUFFICES ASSUME Inductive, IntervalsDisjoint, [Next]_vars PROVE IntervalsDisjoint'
    OBVIOUS
  <2>1. ~ ApplyDelta => UNCHANGED facts
    BY DEF Next, Finish, Load, SetAnalyzerVersion, Rollback, Crash, Install, store, vars
  <2>2. UNCHANGED facts => IntervalsDisjoint'
    BY DEF IntervalsDisjoint
  <2> QED BY <2>1, <2>2, ApplyDisjoint
<1> QED BY <1>1, <1>2, AlwaysInductive, PTL DEF Spec

\* A row is closed only when the new commit does not derive its fact.
LEMMA ClosedNotDerived ==
  ASSUME NEW seen, Writing(seen), NEW r \in CloseCandidates, \A d \in seen : d.fact # r.fact
  PROVE  r.fact \notin FactsOf(Tree[delta.commit], build)
<1> SUFFICES ASSUME NEW d \in NewFacts, d.fact = r.fact PROVE FALSE
  BY DEF FactsOf, NewFacts
<1>1. d \notin Touched
  BY SeenIsTouched
<1>2. PICK q \in Live \ CloseCandidates : d = Derived(q)
  BY <1>1, UntouchedDerivation DEF Writing
<1>3. q.fact = r.fact /\ r \in Live
  BY <1>2 DEF Derived, CloseCandidates
<1> QED BY <1>2, <1>3 DEF Writing, Ready, Inductive, RowsOrdered

LEMMA ApplyKeepsLifetimes ==
  ASSUME Assumed, Inductive, ApplyDelta
  PROVE  KeepsLifetimes
<1>1. PICK seen : /\ Writing(seen) /\ resume' = delta.at + 1
                  /\ past' = past \cup {[at |-> delta.at, commit |-> delta.commit, build |-> build]}
  BY DEF ApplyDelta, Writing, Ready, AtStage
<1>2. /\ delta.at \in Nat /\ delta.at >= resume /\ resume \in Nat
  BY <1>1, ReadyDelta DEF Writing
<1>3. facts' = (facts \ CloseCandidates) \cup Refreshed(seen) \cup Closed(seen) \cup Opened(seen)
  BY <1>1 DEF Writing, ApplyFacts
<1> SUFFICES ASSUME NEW r \in facts
             PROVE  IF r.to # NULL
                      THEN r \in facts'
                      ELSE \E q \in facts' :
                             /\ q.fact = r.fact /\ q.from = r.from
                             /\ q.to # NULL =>
                                  \E h \in past' :
                                    h.at = q.to /\ r.fact \notin FactsOf(Tree[h.commit], h.build)
  BY DEF KeepsLifetimes
<1>4. CASE r \notin CloseCandidates
  BY <1>3, <1>4
<1>5. CASE r \in CloseCandidates /\ \E d \in seen : d.fact = r.fact
  <2>1. PICK d \in seen : d.fact = r.fact
    BY <1>5
  <2> DEFINE q == [r EXCEPT !.inputs = RecordDerivations(r.inputs, d.inputs)]
  <2>2. q \in Refreshed(seen)
    BY <1>5, <2>1 DEF Refreshed
  <2>3. /\ r.to = NULL
        /\ r \in [fact : Fact, inputs : Inputs, from : Nat, to : Nat \cup {NULL}]
    BY <1>5 DEF CloseCandidates, Live, Inductive, TypeOK
  <2>4. q.fact = r.fact /\ q.from = r.from /\ q.to = NULL
    BY <2>3
  <2> HIDE DEF q
  <2> QED BY <1>3, <2>2, <2>3, <2>4
<1>6. CASE r \in CloseCandidates /\ \A d \in seen : d.fact # r.fact
  <2>1. CloseFact(r) \in Closed(seen)
    BY <1>6 DEF Closed
  <2>2. CloseFact(r).fact = r.fact /\ CloseFact(r).from = r.from /\ CloseFact(r).to = delta.at
    BY <1>6 DEF CloseCandidates, Live, Inductive, TypeOK, CloseFact
  <2> DEFINE h == [at |-> delta.at, commit |-> delta.commit, build |-> build]
  <2>3. /\ h \in past' /\ h.at = delta.at
        /\ r.fact \notin FactsOf(Tree[h.commit], h.build)
    BY <1>1, <1>6, ClosedNotDerived
  <2>4. r.to = NULL
    BY <1>6 DEF CloseCandidates, Live
  <2> HIDE DEF h
  <2> QED BY <1>3, <2>1, <2>2, <2>3, <2>4
<1> QED BY <1>4, <1>5, <1>6

(***************************************************************************)
(* However selective a delta is, a row lives as long as its fact is        *)
(* derived, and what is closed stays as it is.                             *)
(***************************************************************************)
THEOREM RowsAreLifetimes == Assumed => (Spec => LifetimesKept)
<1> SUFFICES ASSUME Assumed PROVE Spec => LifetimesKept
  OBVIOUS
<1>1. Inductive /\ [Next]_vars => [KeepsLifetimes]_vars
  <2> SUFFICES ASSUME Inductive, Next PROVE KeepsLifetimes \/ UNCHANGED vars
    OBVIOUS
  <2>1. CASE ApplyDelta
    BY <2>1, ApplyKeepsLifetimes
  <2>2. CASE UNCHANGED facts
    <3>1. ASSUME NEW r \in facts, r.to = NULL
          PROVE  \E q \in facts' : q.fact = r.fact /\ q.from = r.from /\ q.to = NULL
      BY <2>2, <3>1
    <3> QED BY <2>2, <3>1 DEF KeepsLifetimes
  <2>3. ApplyDelta \/ UNCHANGED facts
    BY DEF Next, Finish, Load, SetAnalyzerVersion, Rollback, Crash, Install, store
  <2> QED BY <2>1, <2>2, <2>3
<1> QED BY <1>1, AlwaysInductive, PTL DEF Spec, LifetimesKept

-----------------------------------------------------------------------------
(***************************************************************************)
(* Refinement.  FullRebuild has its own copy of Program.                   *)
(***************************************************************************)
LEMMA SameFacts ==
  ASSUME NEW p, NEW b
  PROVE  Rebuild!FactsOf(p, b) = FactsOf(p, b)
BY DEF FactsOf, ComputeFacts, Classified, Calls, Files, DirectFacts, DispatchFacts, FactAt,
       NoInterface, DispatchTargets, ExpandInterfaceCall, Implementers, MethodSet, Owners,
       StaticType, VarsOf, TypesOf, InterfacesOf, Methods, Embeds, Demands,
       Rebuild!FactsOf, Rebuild!ComputeFacts, Rebuild!Classified, Rebuild!Calls, Rebuild!Files,
       Rebuild!DirectFacts, Rebuild!DispatchFacts, Rebuild!FactAt, Rebuild!NoInterface,
       Rebuild!DispatchTargets, Rebuild!ExpandInterfaceCall, Rebuild!Implementers,
       Rebuild!MethodSet, Rebuild!Owners, Rebuild!StaticType, Rebuild!VarsOf, Rebuild!TypesOf,
       Rebuild!InterfacesOf, Rebuild!Methods, Rebuild!Embeds, Rebuild!Demands

LEMMA SameGate ==
  ASSUME NEW p
  PROVE  Rebuild!CheckPoison(p) <=> CheckPoison(p)
BY DEF CheckPoison, Declared, Typed, One, Calls, Files, Owners, StaticType, VarsOf, TypesOf,
       InterfacesOf, Methods, Embeds, Demands,
       Rebuild!CheckPoison, Rebuild!Declared, Rebuild!Typed, Rebuild!One, Rebuild!Calls,
       Rebuild!Files, Rebuild!Owners, Rebuild!StaticType, Rebuild!VarsOf, Rebuild!TypesOf,
       Rebuild!InterfacesOf, Rebuild!Methods, Rebuild!Embeds, Rebuild!Demands

LEMMA ApplyIndexes ==
  ASSUME Assumed, Inductive, ApplyDelta
  PROVE  Rebuild!Next
<1>1. PICK seen : Writing(seen) /\ resume' = delta.at + 1 /\ build' = build
  BY DEF ApplyDelta, Writing, Ready, AtStage
<1>2. /\ delta.commit \in Commits /\ CheckPoison(Tree[delta.commit])
      /\ delta.at \in Nat /\ delta.at \in 0 .. MaxSeq - 1 /\ delta.at >= resume
  BY <1>1, ReadyDelta DEF Writing, CleanCommits
<1>3. LiveFacts' = FactsOf(Tree[delta.commit], build)
  BY <1>1, <1>2, NowRebuilt
<1>4. delta.at \in resume .. MaxSeq - 1
  BY <1>2, SeqBound DEF Inductive, TypeOK
<1>5. Rebuild!Index(delta.commit, delta.at)
  BY <1>1, <1>2, <1>3, <1>4, SameFacts, SameGate DEF Rebuild!Index
<1> QED BY <1>2, <1>5 DEF Rebuild!Next, Commits

(***************************************************************************)
(* The store implements the rebuild: each delta takes the live facts to    *)
(* those of the next commit at once, and no other step changes them.       *)
(***************************************************************************)
THEOREM StoreImplementsRebuild == Assumed => (Spec => ImplementsRebuild)
<1> SUFFICES ASSUME Assumed PROVE Spec => ImplementsRebuild
  OBVIOUS
<1>1. Init => Rebuild!Init
  BY DEF Init, Rebuild!Init, LiveFacts, Live
<1>2. Inductive /\ [Next]_vars => [Rebuild!Next]_<<LiveFacts, resume, build>>
  <2> SUFFICES ASSUME Inductive, [Next]_vars
               PROVE  Rebuild!Next \/ UNCHANGED <<LiveFacts, resume, build>>
    OBVIOUS
  <2>1. CASE ApplyDelta
    BY <2>1, ApplyIndexes
  <2>2. ASSUME NEW b \in Build, Install(b) PROVE Rebuild!Next
    <3>1. UNCHANGED <<LiveFacts, resume>>
      BY <2>2 DEF Install, store, LiveFacts, Live
    <3> QED BY <2>2, <3>1 DEF Install, Rebuild!Install, Rebuild!Next
  <2>3. CASE UNCHANGED <<facts, resume, build>>
    BY <2>3 DEF LiveFacts, Live
  <2>4. \/ ApplyDelta \/ UNCHANGED <<facts, resume, build>>
        \/ \E b \in Build : Install(b)
    BY DEF Next, Finish, Load, SetAnalyzerVersion, Rollback, Crash, store, vars
  <2> QED BY <2>1, <2>2, <2>3, <2>4
<1> QED BY <1>1, <1>2, AlwaysInductive, PTL DEF Spec, ImplementsRebuild, Rebuild!Spec

-----------------------------------------------------------------------------
(***************************************************************************)
(* The seqs of the deltas: each is above those before it, intervals begin  *)
(* and end at them only, and below every seq there is a last one.          *)
(***************************************************************************)
SeqsGrow ==
  /\ \A h \in past : h.at < resume
  /\ AtStage("loaded") => delta.at >= resume

LastKnown == \A s \in Nat : (\E h \in past : h.at <= s) => LastIndexed(s) # {}

SeqsInOrder == TypeOK /\ SeqsGrow /\ EndpointsIndexed /\ LastKnown

LEMMA ApplySeqs ==
  ASSUME SeqsInOrder, ApplyDelta
  PROVE  SeqsGrow' /\ EndpointsIndexed' /\ LastKnown'
<1>1. PICK n \in Nat : n = delta.at
  BY DEF SeqsInOrder, TypeOK, Deltas, ApplyDelta
<1>2. resume \in Nat /\ n >= resume /\ resume' = n + 1
  BY <1>1 DEF SeqsInOrder, SeqsGrow, TypeOK, AtStage, ApplyDelta
<1>3. \E new \in past' : past' = past \cup {new} /\ new.at = n
  <2>. DEFINE new == [at |-> delta.at, commit |-> delta.commit, build |-> build]
  <2>1. past' = past \cup {new} /\ new.at = n
    BY <1>1 DEF ApplyDelta
  <2>. HIDE DEF new
  <2> QED BY <2>1
<1>4. PICK new \in past' : past' = past \cup {new} /\ new.at = n
  BY <1>3
<1>5. \A h \in past : h.at \in Nat /\ h.at < n
  <2>1. \A h \in past : h.at \in Nat /\ h.at < resume
    BY DEF SeqsInOrder, SeqsGrow, TypeOK
  <2> QED BY <1>2, <2>1
<1>6. SeqsGrow'
  <2>1. \A h \in past' : h.at < resume'
    BY <1>2, <1>4, <1>5
  <2>2. ~ AtStage("loaded")'
    BY DEF ApplyDelta, AtStage, SeqsInOrder, TypeOK, Deltas
  <2> QED BY <2>1, <2>2 DEF SeqsGrow
<1>7. Indexed' = Indexed \cup {n}
  BY <1>4 DEF Indexed
<1>8. EndpointsIndexed'
  <2>1. PICK seen \in SeenChoices : ApplyFacts(seen)
    BY DEF ApplyDelta
  <2>2. /\ \A r \in facts : r \in [fact : Fact, inputs : Inputs, from : Nat, to : Nat \cup {NULL}]
        /\ \A r \in facts : r.from \in Indexed /\ (r.to # NULL => r.to \in Indexed)
    BY DEF SeqsInOrder, TypeOK, EndpointsIndexed
  <2>3. CloseCandidates \subseteq facts
    BY DEF CloseCandidates, Live
  <2>4. ASSUME NEW x \in Refreshed(seen) PROVE x.from \in Indexed' /\ (x.to # NULL => x.to \in Indexed')
    <3>1. PICK o \in CloseCandidates :
            \E d \in seen : x = [o EXCEPT !.inputs = RecordDerivations(o.inputs, d.inputs)]
      BY DEF Refreshed
    <3>2. o \in facts /\ x.from = o.from /\ x.to = o.to
      BY <2>2, <2>3, <3>1
    <3> QED BY <1>7, <2>2, <3>2
  <2>5. ASSUME NEW x \in Closed(seen) PROVE x.from \in Indexed' /\ (x.to # NULL => x.to \in Indexed')
    <3>1. PICK o \in CloseCandidates : x = CloseFact(o)
      BY DEF Closed
    <3>2. o \in facts /\ x.from = o.from /\ x.to = n
      BY <1>1, <2>2, <2>3, <3>1 DEF CloseFact
    <3> QED BY <1>7, <2>2, <3>2
  <2>6. ASSUME NEW x \in Opened(seen) PROVE x.from \in Indexed' /\ x.to = NULL
    <3>1. x.from = n /\ x.to = NULL
      BY <1>1 DEF Opened, OpenFact
    <3> QED BY <1>7, <3>1
  <2>7. \A x \in facts' : x \in facts \/ x \in Refreshed(seen) \/ x \in Closed(seen) \/ x \in Opened(seen)
    BY <2>1 DEF ApplyFacts
  <2>8. \A x \in facts : x.from \in Indexed' /\ (x.to # NULL => x.to \in Indexed')
    BY <1>7, <2>2
  <2> QED BY <2>4, <2>5, <2>6, <2>7, <2>8 DEF EndpointsIndexed
<1>9. LastKnown'
  <2> SUFFICES ASSUME NEW s \in Nat, NEW h \in past', h.at <= s
               PROVE  \E g \in past' : g.at <= s /\ \A k \in past' : k.at <= s => k.at <= g.at
    BY DEF LastKnown, LastIndexed
  <2>1. CASE n <= s
    BY <1>4, <1>5, <2>1
  <2>2. CASE ~(n <= s)
    <3>1. h \in past
      BY <1>4, <2>2
    <3>2. LastIndexed(s) # {}
      BY <3>1 DEF SeqsInOrder, LastKnown
    <3>3. PICK g \in past : g.at <= s /\ \A k \in past : k.at <= s => k.at <= g.at
      BY <3>2 DEF LastIndexed
    <3> QED BY <1>4, <2>2, <3>3
  <2> QED BY <2>1, <2>2
<1> QED BY <1>6, <1>8, <1>9

LEMMA SeqsStayInOrder == Spec => []SeqsInOrder
<1>1. Init => SeqsInOrder
  <2> SUFFICES ASSUME Init PROVE SeqsInOrder
    OBVIOUS
  <2>1. past = {} /\ facts = {} /\ ~ AtStage("loaded")
    BY DEF Init, AtStage
  <2> QED BY <2>1, InitType DEF SeqsInOrder, SeqsGrow, EndpointsIndexed, LastKnown
<1>2. SeqsInOrder /\ [Next]_vars => SeqsInOrder'
  <2> SUFFICES ASSUME SeqsInOrder, [Next]_vars PROVE SeqsInOrder'
    OBVIOUS
  <2>1. TypeOK'
    BY NextType DEF SeqsInOrder
  <2>2. CASE ApplyDelta
    BY <2>1, <2>2, ApplySeqs DEF SeqsInOrder
  <2>3. CASE ~ ApplyDelta
    <3>1. UNCHANGED <<facts, resume, past>>
      BY <2>3 DEF Next, Finish, Load, SetAnalyzerVersion, Rollback, Crash, Install, store, vars
    <3>2. EndpointsIndexed' /\ LastKnown'
      BY <3>1 DEF SeqsInOrder, EndpointsIndexed, LastKnown, LastIndexed, Indexed
    <3>3. AtStage("loaded")' => delta'.at >= resume
      <4>1. CASE \E c \in Commits, at \in 0 .. MaxSeq - 1 : Load(c, at)
        <5>1. PICK c \in Commits, at \in 0 .. MaxSeq - 1 : Load(c, at)
          BY <4>1
        <5>2. delta'.at = at /\ at \in resume .. MaxSeq - 1
          BY <5>1 DEF Load
        <5> QED BY <5>2, SeqBound DEF SeqsInOrder, TypeOK
      <4>2. CASE UNCHANGED delta \/ delta' = NULL
        BY <4>2 DEF AtStage, SeqsInOrder, SeqsGrow
      <4> QED BY <2>3, <4>1, <4>2
              DEF Next, Finish, SetAnalyzerVersion, Rollback, Crash, Install, vars
    <3> QED BY <2>1, <3>1, <3>2, <3>3 DEF SeqsInOrder, SeqsGrow
  <2> QED BY <2>2, <2>3
<1> QED BY <1>1, <1>2, PTL DEF Spec

(***************************************************************************)
(* I4, for any branch and any analyzers: an interval begins and ends where *)
(* a commit was indexed.                                                   *)
(***************************************************************************)
THEOREM EndpointsAreIndexed == Spec => []EndpointsIndexed
<1>1. SeqsInOrder => EndpointsIndexed
  BY DEF SeqsInOrder
<1> QED BY <1>1, SeqsStayInOrder, PTL

\* A seq that no delta has shows what the last delta before it shows.
LEMMA BetweenDeltas ==
  ASSUME SeqsInOrder, NEW s \in Nat, NEW h \in LastIndexed(s)
  PROVE  FactsAt(s) = FactsAt(h.at)
<1>1. PICK n \in Nat : n = h.at
  BY DEF LastIndexed, SeqsInOrder, TypeOK
<1>2. n <= s /\ \A e \in Indexed : e \in Nat /\ (e <= s => e <= n)
  BY <1>1 DEF LastIndexed, Indexed, SeqsInOrder, TypeOK
<1>3. ASSUME NEW r \in facts
      PROVE  (r.from <= s /\ (r.to = NULL \/ s < r.to)) <=> (r.from <= n /\ (r.to = NULL \/ n < r.to))
  <2>1. r.from \in Indexed /\ r.from \in Nat /\ (r.to = NULL \/ (r.to \in Nat /\ r.to \in Indexed))
    BY DEF SeqsInOrder, EndpointsIndexed, TypeOK
  <2> QED BY <1>2, <2>1
<1> QED BY <1>1, <1>3 DEF FactsAt

\* Before the first one nothing is live.
LEMMA BeforeDeltas ==
  ASSUME SeqsInOrder, NEW s \in Nat, LastIndexed(s) = {}
  PROVE  FactsAt(s) = {}
<1>1. \A h \in past : ~(h.at <= s)
  BY DEF SeqsInOrder, LastKnown
<1>2. \A r \in facts : ~(r.from <= s)
  BY <1>1 DEF SeqsInOrder, EndpointsIndexed, Indexed
<1> QED BY <1>2 DEF FactsAt
=============================================================================
