--------------------------- MODULE ProgramProofs ---------------------------
(***************************************************************************)
(* Derivations of one commit, and of two that share a file: what the store *)
(* and the older engine both rest on.                                      *)
(***************************************************************************)
EXTENDS Program, TLAPS

LEMMA ImplementersType ==
  ASSUME NEW p \in Commit, NEW i
  PROVE  Implementers(p, i) \subseteq Type
<1>1. TypesOf(p) \subseteq Type
  BY SourceType DEF TypesOf, Files, Commit, Content
<1>. QED
  BY <1>1 DEF Implementers

\* What a file says is over the constants.
LEMMA CallType ==
  ASSUME NEW p \in Commit, NEW f \in Files(p)
  PROVE  /\ f \in File /\ p[f] \in Text /\ Source[p[f]] \in Content
         /\ Calls(p, f) = Source[p[f]].calls /\ Calls(p, f) \subseteq Call
<1>1. f \in File /\ p[f] \in Text
  BY DEF Files, Commit
<1>2. Source[p[f]] \in Content
  BY <1>1, SourceType
<1>. QED
  BY <1>1, <1>2 DEF Calls, Content, Files

\* A derivation records the text of its file and the implementer sets of
\* the interfaces it goes through, as the commit has them.
LEMMA DerivationInputs ==
  ASSUME NEW p \in Commit, NEW b \in Build, NEW d \in ComputeFacts(p, b)
  PROVE  /\ d.fact.file \in Files(p)
         /\ d.inputs.file = p[d.fact.file]
         /\ DOMAIN d.inputs.interfaces \subseteq Interface
         /\ \A i \in DOMAIN d.inputs.interfaces :
              d.inputs.interfaces[i] = Implementers(p, i)
         /\ d = [fact |-> d.fact, inputs |-> d.inputs]
         /\ d.inputs = [file |-> d.inputs.file, interfaces |-> d.inputs.interfaces]
         /\ d.inputs.interfaces = [i \in DOMAIN d.inputs.interfaces |-> d.inputs.interfaces[i]]
<1>1. PICK f \in Files(p) : \E call \in Calls(p, f) :
        d \in DirectFacts(p, f, call) \cup DispatchFacts(p, f, call)
  BY DEF ComputeFacts, Classified
<1>. PICK call \in Calls(p, f) : d \in DirectFacts(p, f, call) \cup DispatchFacts(p, f, call)
  BY <1>1
<1>2. CASE d \in DirectFacts(p, f, call)
  BY <1>2 DEF DirectFacts, FactAt, NoInterface
<1>3. CASE d \in DispatchFacts(p, f, call)
  <2>. PICK i \in StaticType(p, call.on) \cap Interface :
         \E t \in DispatchTargets(p, i, call.method) :
           d = [fact |-> FactAt(f, call, t, "interface_resolved"),
                inputs |-> [file |-> p[f], interfaces |-> [j \in {i} |-> Implementers(p, i)]]]
    BY <1>3 DEF DispatchFacts
  <2>1. PICK t \in DispatchTargets(p, i, call.method) :
          d = [fact |-> FactAt(f, call, t, "interface_resolved"),
               inputs |-> [file |-> p[f], interfaces |-> [j \in {i} |-> Implementers(p, i)]]]
    OBVIOUS
  <2> QED BY <2>1 DEF FactAt
<1> QED BY <1>1, <1>2, <1>3

\* They are typed.
LEMMA DerivationType ==
  ASSUME NEW p \in Commit, NEW b \in Build, NEW d \in ComputeFacts(p, b)
  PROVE  d \in Derivation
<1>1. PICK f \in Files(p) : \E call \in Calls(p, f) :
        d \in DirectFacts(p, f, call) \cup DispatchFacts(p, f, call)
  BY DEF ComputeFacts, Classified
<1>. PICK call \in Calls(p, f) : d \in DirectFacts(p, f, call) \cup DispatchFacts(p, f, call)
  BY <1>1
<1>2. call \in Call
  <2>1. p[f] \in Text
    BY DEF Files, Commit
  <2>2. Source[p[f]] \in Content
    BY <2>1, SourceType
  <2> QED BY <2>2 DEF Calls, Content, Files
<1>3. call.line \in Nat /\ call.caller \in Function /\ call.method \in Method
  BY <1>2 DEF Call
<1>4. f \in File /\ p[f] \in Text
  BY DEF Files, Commit
<1>5. CASE d \in DirectFacts(p, f, call)
  <2>1. PICK u : /\ u \in UNION {Owners(p, t, call.method) :
                                   t \in StaticType(p, call.on) \cap Type}
                 /\ d = [fact |-> FactAt(f, call, u, "direct_call"),
                         inputs |-> [file |-> p[f], interfaces |-> NoInterface]]
    BY <1>5 DEF DirectFacts
  <2>2. u \in Type
    BY <2>1 DEF Owners
  <2>3. FactAt(f, call, u, "direct_call") \in Fact
    BY <1>3, <1>4, <2>2 DEF FactAt, Fact
  <2>4. NoInterface \in Hashes
    <3>1. NoInterface \in [{} -> SUBSET Type]
      BY DEF NoInterface
    <3> QED BY <3>1 DEF Hashes
  <2> QED BY <1>4, <2>1, <2>3, <2>4 DEF Derivation, Inputs
<1>6. CASE d \in DispatchFacts(p, f, call)
  <2>. PICK i \in StaticType(p, call.on) \cap Interface :
         \E t \in DispatchTargets(p, i, call.method) :
           d = [fact |-> FactAt(f, call, t, "interface_resolved"),
                inputs |-> [file |-> p[f], interfaces |-> [j \in {i} |-> Implementers(p, i)]]]
    BY <1>6 DEF DispatchFacts
  <2>1. PICK t \in DispatchTargets(p, i, call.method) :
          d = [fact |-> FactAt(f, call, t, "interface_resolved"),
               inputs |-> [file |-> p[f], interfaces |-> [j \in {i} |-> Implementers(p, i)]]]
    OBVIOUS
  <2>2. Implementers(p, i) \subseteq Type
    <3>1. TypesOf(p) \subseteq Type
      BY SourceType DEF TypesOf, Files, Commit, Content
    <3> QED BY <3>1 DEF Implementers
  <2>3. t \in Type \cup Interface
    BY <2>2 DEF DispatchTargets, ExpandInterfaceCall
  <2>4. FactAt(f, call, t, "interface_resolved") \in Fact
    BY <1>3, <1>4, <2>3 DEF FactAt, Fact
  <2>5. [j \in {i} |-> Implementers(p, i)] \in Hashes
    <3>1. [j \in {i} |-> Implementers(p, i)] \in [{i} -> SUBSET Type]
      BY <2>2
    <3>2. {i} \in SUBSET Interface
      OBVIOUS
    <3> QED BY <3>1, <3>2 DEF Hashes
  <2> QED BY <1>4, <2>1, <2>4, <2>5 DEF Derivation, Inputs
<1> QED BY <1>1, <1>5, <1>6

-----------------------------------------------------------------------------
\* A declaration in a file the two commits share is one of both.
LEMMA SharedDeclaration ==
  ASSUME NEW p \in Commit, NEW f \in Files(p), NEW v, NEW t \in Type \cup Interface,
         <<v, t>> \in Source[p[f]].vars
  PROVE  t \in StaticType(p, v)
BY DEF StaticType, VarsOf

\* A call that types itself has one type, the same in every commit that passes
\* the gate and shares its file.
LEMMA SelfTypedIsKept ==
  ASSUME NEW p \in Commit, NEW q \in Commit, CheckPoison(p), CheckPoison(q), SelfTyped(p)
  PROVE  TypesKept(p, q)
<1>. SUFFICES ASSUME NEW f \in Files(p), p[f] = q[f], NEW call \in Calls(p, f)
              PROVE  StaticType(p, call.on) = StaticType(q, call.on)
  BY DEF TypesKept
<1>1. f \in File /\ f \in Files(q) /\ call \in Calls(q, f)
  BY DEF Files, Calls
<1>2. PICK t \in Type \cup Interface : <<call.on, t>> \in Source[p[f]].vars
  BY DEF SelfTyped
<1>3. t \in StaticType(p, call.on) /\ t \in StaticType(q, call.on)
  BY <1>1, <1>2, SharedDeclaration
<1>4. Typed(p, call) /\ Typed(q, call)
  BY <1>1 DEF CheckPoison
<1>5. One(StaticType(p, call.on)) /\ One(StaticType(q, call.on))
  BY <1>4 DEF Typed
<1>. QED
  BY <1>1, <1>3, <1>5 DEF One

LEMMA SameStaticType ==
  ASSUME NEW p \in Commit, NEW q \in Commit, TypesKept(p, q),
         NEW f \in Files(p), p[f] = q[f], NEW call \in Calls(p, f)
  PROVE  /\ f \in Files(q) /\ call \in Calls(q, f)
         /\ StaticType(p, call.on) = StaticType(q, call.on)
BY DEF TypesKept, Files, Calls

\* Without promotion a selector finds the type's own method.
LEMMA OwnMethod ==
  ASSUME NEW p \in Commit, CheckPoison(p), NothingPromoted(p),
         NEW f \in Files(p), NEW call \in Calls(p, f),
         NEW t \in StaticType(p, call.on) \cap Type
  PROVE  Owners(p, t, call.method) = {t}
<1>1. call.method \in Method
  BY CallType DEF Call
<1>2. Typed(p, call)
  BY DEF CheckPoison
<1>3. One(Owners(p, t, call.method))
  BY <1>2 DEF Typed
<1>4. <<t, call.method>> \in Methods(p)
  <2>. SUFFICES ASSUME <<t, call.method>> \notin Methods(p) PROVE FALSE
    OBVIOUS
  <2>1. PICK u \in Type : <<t, u>> \in Embeds(p) /\ <<u, call.method>> \in Methods(p)
    BY <1>3 DEF Owners, One
  <2>. DEFINE d == <<t, u>>
  <2>2. d \in Embeds(p) /\ <<d[2], call.method>> \in Methods(p) /\ d[1] = t
    BY <2>1
  <2>3. <<d[1], call.method>> \in Methods(p)
    BY <1>1, <2>2 DEF NothingPromoted
  <2>. QED
    BY <2>2, <2>3
<1>. QED
  BY <1>4 DEF Owners

\* And a call through an interface goes to all of its implementers.
LEMMA TargetsAreImplementers ==
  ASSUME NEW p \in Commit, CheckPoison(p), NothingPromoted(p),
         NEW f \in Files(p), NEW call \in Calls(p, f),
         NEW i \in StaticType(p, call.on) \cap Interface
  PROVE  DispatchTargets(p, i, call.method) = IF Implementers(p, i) = {} THEN {i} ELSE Implementers(p, i)
<1>1. call.method \in Method
  BY CallType DEF Call
<1>2. Typed(p, call) /\ i \notin Type
  BY TypesAndInterfaces DEF CheckPoison
<1>3. call.method \in Demands(p, i)
  BY <1>2 DEF Typed
<1>4. ASSUME NEW t \in Implementers(p, i)
      PROVE  <<t, call.method>> \in Methods(p)
  <2>1. call.method \in MethodSet(p, t)
    BY <1>3, <1>4 DEF Implementers
  <2>. SUFFICES ASSUME <<t, call.method>> \notin Methods(p) PROVE FALSE
    OBVIOUS
  <2>2. PICK u \in Type : <<t, u>> \in Embeds(p) /\ <<u, call.method>> \in Methods(p)
    BY <2>1 DEF MethodSet, Owners
  <2>. DEFINE d == <<t, u>>
  <2>3. d \in Embeds(p) /\ <<d[2], call.method>> \in Methods(p) /\ d[1] = t
    BY <2>2
  <2>4. <<d[1], call.method>> \in Methods(p)
    BY <1>1, <2>3 DEF NothingPromoted
  <2>. QED
    BY <2>3, <2>4
<1>5. ExpandInterfaceCall(p, i, call.method) = Implementers(p, i)
  BY <1>4 DEF ExpandInterfaceCall
<1>. QED
  BY <1>5 DEF DispatchTargets

(***************************************************************************)
(* A direct call of a shared file has the same facts in both commits, and  *)
(* a call through an interface with the same implementers has, too.        *)
(***************************************************************************)
LEMMA SameDirectFacts ==
  ASSUME NEW p \in Commit, NEW q \in Commit, CheckPoison(p), CheckPoison(q),
         TypesKept(p, q), NothingPromoted(p), NothingPromoted(q),
         NEW f \in Files(p), p[f] = q[f], NEW call \in Calls(p, f)
  PROVE  DirectFacts(p, f, call) = DirectFacts(q, f, call)
<1>1. /\ f \in Files(q) /\ call \in Calls(q, f)
      /\ StaticType(p, call.on) = StaticType(q, call.on)
  BY SameStaticType
<1>2. \A t \in StaticType(p, call.on) \cap Type :
        Owners(p, t, call.method) = {t} /\ Owners(q, t, call.method) = {t}
  BY <1>1, OwnMethod
<1>3. UNION {Owners(p, t, call.method) : t \in StaticType(p, call.on) \cap Type}
      = UNION {Owners(q, t, call.method) : t \in StaticType(q, call.on) \cap Type}
  BY <1>1, <1>2
<1>. QED
  BY <1>3 DEF DirectFacts

LEMMA SameTargets ==
  ASSUME NEW p \in Commit, NEW q \in Commit, CheckPoison(p), CheckPoison(q),
         TypesKept(p, q), NothingPromoted(p), NothingPromoted(q),
         NEW f \in Files(p), p[f] = q[f], NEW call \in Calls(p, f),
         NEW i \in StaticType(p, call.on) \cap Interface,
         Implementers(p, i) = Implementers(q, i)
  PROVE  DispatchTargets(p, i, call.method) = DispatchTargets(q, i, call.method)
<1>1. f \in Files(q) /\ call \in Calls(q, f) /\ i \in StaticType(q, call.on) \cap Interface
  BY SameStaticType
<1>. QED
  BY <1>1, TargetsAreImplementers

-----------------------------------------------------------------------------
\* The derivation of a call through an interface, to one target.
Dispatch(p, f, call, i, t) ==
  [fact |-> FactAt(f, call, t, "interface_resolved"),
   inputs |-> [file |-> p[f], interfaces |-> [j \in {i} |-> Implementers(p, i)]]]

Through(d, p, f, call, i) ==
  /\ i \in StaticType(p, call.on) \cap Interface
  /\ \E t \in DispatchTargets(p, i, call.method) : d = Dispatch(p, f, call, i, t)

LEMMA DispatchedThrough ==
  ASSUME NEW p, NEW f, NEW call, NEW d
  PROVE  d \in DispatchFacts(p, f, call) <=> \E i \in Interface : Through(d, p, f, call, i)
<1>. DEFINE Rows(i) == {Dispatch(p, f, call, i, t) : t \in DispatchTargets(p, i, call.method)}
<1>1. DispatchFacts(p, f, call) = UNION {Rows(i) : i \in StaticType(p, call.on) \cap Interface}
  BY Zenon DEF DispatchFacts, Dispatch
<1>2. \A i : d \in Rows(i) <=> \E t \in DispatchTargets(p, i, call.method) : d = Dispatch(p, f, call, i, t)
  OBVIOUS
<1>. HIDE DEF Rows
<1>3. d \in DispatchFacts(p, f, call) <=> \E i \in StaticType(p, call.on) \cap Interface : d \in Rows(i)
  BY <1>1
<1>. QED
  BY <1>2, <1>3 DEF Through

\* What a derivation shows of the call it comes from.
LEMMA ThroughShows ==
  ASSUME NEW p, NEW f, NEW call, NEW d, NEW i, Through(d, p, f, call, i)
  PROVE  /\ i \in StaticType(p, call.on) /\ i \in Interface
         /\ d.fact.provenance = "interface_resolved" /\ DOMAIN d.inputs.interfaces = {i}
         /\ d.fact.file = f /\ d.fact.line = call.line /\ d.fact.caller = call.caller
         /\ d.fact.target[2] = call.method
BY DEF Through, Dispatch, FactAt

LEMMA DirectShows ==
  ASSUME NEW p, NEW f, NEW call, NEW d \in DirectFacts(p, f, call)
  PROVE  /\ d.fact.provenance = "direct_call" /\ DOMAIN d.inputs.interfaces = {}
         /\ d.fact.file = f /\ d.fact.caller = call.caller
BY DEF DirectFacts, FactAt, NoInterface

\* Every derivation is one of a call that the build classifies.
LEMMA DerivedFrom ==
  ASSUME NEW p, NEW b, NEW d
  PROVE  d \in ComputeFacts(p, b) <=>
           \E f \in Files(p) : \E call \in Classified(p, f, b) :
             d \in DirectFacts(p, f, call) \/ \E i \in Interface : Through(d, p, f, call, i)
<1>1. d \in ComputeFacts(p, b) <=>
        \E f \in Files(p) : \E call \in Classified(p, f, b) :
          d \in DirectFacts(p, f, call) \cup DispatchFacts(p, f, call)
  BY DEF ComputeFacts
<1>. QED
  BY <1>1, DispatchedThrough

\* Every dispatch goes somewhere.
LEMMA SomeTarget ==
  ASSUME NEW p, NEW f, NEW call, NEW i \in StaticType(p, call.on) \cap Interface
  PROVE  \E d : Through(d, p, f, call, i)
<1>1. PICK t : t \in DispatchTargets(p, i, call.method)
  BY DEF DispatchTargets
<1>2. Through(Dispatch(p, f, call, i, t), p, f, call, i)
  BY <1>1 DEF Through
<1>. QED
  BY <1>2

(***************************************************************************)
(* A derivation of a file that two commits share goes through the same     *)
(* interfaces in both and, where these have the same implementers, is one  *)
(* of both.                                                                *)
(***************************************************************************)
LEMMA SharedDerivation ==
  ASSUME NEW p \in Commit, NEW q \in Commit, CheckPoison(p), CheckPoison(q),
         TypesKept(p, q), NothingPromoted(p), NothingPromoted(q), NEW b \in Build,
         NEW d \in ComputeFacts(p, b), p[d.fact.file] = q[d.fact.file]
  PROVE  /\ \A i \in DOMAIN d.inputs.interfaces :
              \E g \in ComputeFacts(q, b) : i \in DOMAIN g.inputs.interfaces
         /\ (\A i \in DOMAIN d.inputs.interfaces : Implementers(p, i) = Implementers(q, i))
            => d \in ComputeFacts(q, b)
<1>1. PICK f \in Files(p) : \E call \in Classified(p, f, b) :
        d \in DirectFacts(p, f, call) \/ \E i \in Interface : Through(d, p, f, call, i)
  BY DerivedFrom
<1>2. PICK call \in Classified(p, f, b) :
        d \in DirectFacts(p, f, call) \/ \E i \in Interface : Through(d, p, f, call, i)
  BY <1>1
<1>3. d.fact.file = f
  BY <1>2, DirectShows, ThroughShows
<1>4. p[f] = q[f] /\ call \in Calls(p, f)
  BY <1>2, <1>3 DEF Classified
<1>5. /\ f \in Files(q) /\ call \in Calls(q, f)
      /\ StaticType(p, call.on) = StaticType(q, call.on)
  BY <1>4, SameStaticType
<1>6. call \in Classified(q, f, b)
  BY <1>2, <1>5 DEF Classified
<1>7. \A g : g \in DirectFacts(q, f, call) \/ (\E i \in Interface : Through(g, q, f, call, i)) =>
        g \in ComputeFacts(q, b)
  BY <1>5, <1>6, DerivedFrom
<1>8. CASE d \in DirectFacts(p, f, call)
  <2>1. d \in DirectFacts(q, f, call)
    BY <1>4, <1>8, SameDirectFacts
  <2>. QED
    BY <1>7, <1>8, <2>1, DirectShows
<1>9. CASE \E i \in Interface : Through(d, p, f, call, i)
  <2>1. PICK i \in Interface : Through(d, p, f, call, i)
    BY <1>9
  <2>2. DOMAIN d.inputs.interfaces = {i} /\ i \in StaticType(p, call.on) \cap Interface
    BY <2>1, ThroughShows
  <2>3. i \in StaticType(q, call.on) \cap Interface
    BY <1>5, <2>2
  <2>4. \E g \in ComputeFacts(q, b) : i \in DOMAIN g.inputs.interfaces
    <3>1. PICK g : Through(g, q, f, call, i)
      BY <2>3, SomeTarget
    <3>2. i \in DOMAIN g.inputs.interfaces
      BY <3>1, ThroughShows
    <3>. QED
      BY <1>7, <3>1, <3>2
  <2>5. ASSUME Implementers(p, i) = Implementers(q, i)
        PROVE  d \in ComputeFacts(q, b)
    <3>1. DispatchTargets(p, i, call.method) = DispatchTargets(q, i, call.method)
      BY <1>4, <2>2, <2>5, SameTargets
    <3>2. \A t : Dispatch(p, f, call, i, t) = Dispatch(q, f, call, i, t)
      BY <1>4, <2>5 DEF Dispatch
    <3>3. Through(d, q, f, call, i)
      BY <2>1, <2>3, <3>1, <3>2 DEF Through
    <3>. QED
      BY <1>7, <3>3
  <2>. QED
    BY <2>2, <2>4, <2>5
<1>. QED
  BY <1>2, <1>8, <1>9
=============================================================================
