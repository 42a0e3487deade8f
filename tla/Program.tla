------------------------------ MODULE Program ------------------------------
(***************************************************************************)
(* The commits the indexer reads, and the CALL facts it derives from one.  *)
(*                                                                         *)
(* A commit maps each file to the text it has there, or to NULL.  A text   *)
(* stands for its own hash (SHA-256 is taken to be injective).  What the   *)
(* parser gets from a text is Source[text]: the calls of its functions,    *)
(* each on a variable, and the declarations that give a call its meaning,  *)
(* wherever they are: the static type of a variable, the methods of a      *)
(* type, the types it embeds, the methods an interface demands.            *)
(***************************************************************************)
EXTENDS Naturals

CONSTANTS
  File, Text, Function, Variable, Type, Interface, Method,
  NULL,
  Source,          \* what a text says
  Build,           \* analyzers the indexer was built with
  Classifies       \* the variables whose calls a build's parser classifies

ASSUME NullIsNoText == NULL \notin Text

\* A declared type is an interface or has methods of its own.
ASSUME TypesAndInterfaces == Type \cap Interface = {}

Call == [line : Nat, caller : Function, on : Variable, method : Method]

Content ==
  [calls : SUBSET Call,
   vars : SUBSET (Variable \X (Type \cup Interface)),
   types : SUBSET Type,
   methods : SUBSET (Type \X Method),
   embeds : SUBSET (Type \X Type),
   interfaces : SUBSET Interface,
   demands : SUBSET (Interface \X Method)]

ASSUME SourceType == Source \in [Text -> Content]

Commit == [File -> Text \cup {NULL}]

Files(p) == {f \in File : p[f] # NULL}

Calls(p, f) == IF p[f] = NULL THEN {} ELSE Source[p[f]].calls

\* What the files of p declare, together: one package for all of them.
VarsOf(p) == UNION {Source[p[f]].vars : f \in Files(p)}
TypesOf(p) == UNION {Source[p[f]].types : f \in Files(p)}
InterfacesOf(p) == UNION {Source[p[f]].interfaces : f \in Files(p)}
Methods(p) == UNION {Source[p[f]].methods : f \in Files(p)}
Embeds(p) == UNION {Source[p[f]].embeds : f \in Files(p)}
Demands(p, i) == {m \in Method : \E f \in Files(p) : <<i, m>> \in Source[p[f]].demands}

StaticType(p, v) == {t \in Type \cup Interface : <<v, t>> \in VarsOf(p)}

\* The type whose method a selector finds: t itself, or a type it embeds.
Owners(p, t, m) ==
  IF <<t, m>> \in Methods(p)
    THEN {t}
    ELSE {u \in Type : <<t, u>> \in Embeds(p) /\ <<u, m>> \in Methods(p)}

MethodSet(p, t) == {m \in Method : Owners(p, t, m) # {}}

\* types.Implements, for T and *T: promoted methods count.
Implementers(p, i) ==
  IF i \in InterfacesOf(p)
    THEN {t \in TypesOf(p) : Demands(p, i) \subseteq MethodSet(p, t)}
    ELSE {}

\* methodIndex: methods declared on the type itself, promoted ones are not in it.
ExpandInterfaceCall(p, i, m) == {t \in Implementers(p, i) : <<t, m>> \in Methods(p)}

(***************************************************************************)
(* The gate of poison.go: a package with errors is refused.  An error here *)
(* is a call on a variable without a type, or whose type has no such       *)
(* method, or a declaration made twice, or about a type nobody declares.   *)
(***************************************************************************)
Declared(p, field) ==
  \A f, g \in Files(p) : f # g => Source[p[f]][field] \cap Source[p[g]][field] = {}

One(S) == \E x \in S : S = {x}

Typed(p, call) ==
  /\ One(StaticType(p, call.on))
  /\ \A t \in StaticType(p, call.on) :
       IF t \in Type
         THEN t \in TypesOf(p) /\ One(Owners(p, t, call.method))
         ELSE t \in InterfacesOf(p) /\ call.method \in Demands(p, t)

\* The part of the gate that the sources decide.  A module that cannot be loaded
\* is the machine's doing: see Indexer.
CheckPoison(p) ==
  /\ \A field \in {"vars", "types", "methods", "embeds", "interfaces"} : Declared(p, field)
  /\ \A d \in Methods(p) : d[1] \in TypesOf(p)
  /\ \A d \in Embeds(p) : d[1] \in TypesOf(p) /\ d[2] \in TypesOf(p)
  /\ \A f \in Files(p) : \A call \in Calls(p, f) : Typed(p, call)

-----------------------------------------------------------------------------
(***************************************************************************)
(* A fact is its natural key (facts_live_uniq): the edge, how it was       *)
(* found, and the call site, which is file and line.  The target is a      *)
(* method of a type, or of the interface when no implementer declares it.  *)
(* With it go the inputs it is derived from: the text of its file and, for *)
(* an interface call, the implementer set of the interface.                *)
(***************************************************************************)
Fact ==
  [caller : Function, target : (Type \cup Interface) \X Method,
   provenance : {"direct_call", "interface_resolved"}, file : File, line : Nat]

Hashes == UNION {[S -> SUBSET Type] : S \in SUBSET Interface}

Inputs == [file : Text, interfaces : Hashes]

Derivation == [fact : Fact, inputs : Inputs]

FactAt(f, call, target, provenance) ==
  [caller |-> call.caller, target |-> <<target, call.method>>,
   provenance |-> provenance, file |-> f, line |-> call.line]

NoInterface == [i \in {} |-> {}]

\* CallDirect: the method the selector finds.
DirectFacts(p, f, call) ==
  {[fact |-> FactAt(f, call, u, "direct_call"),
    inputs |-> [file |-> p[f], interfaces |-> NoInterface]] :
       u \in UNION {Owners(p, t, call.method) : t \in StaticType(p, call.on) \cap Type}}

\* CallInterfaceResolved: an edge to each implementer, or the raw edge.
DispatchTargets(p, i, m) ==
  IF ExpandInterfaceCall(p, i, m) = {} THEN {i} ELSE ExpandInterfaceCall(p, i, m)

DispatchFacts(p, f, call) ==
  UNION {{[fact |-> FactAt(f, call, t, "interface_resolved"),
           inputs |-> [file |-> p[f], interfaces |-> [j \in {i} |-> Implementers(p, i)]]] :
             t \in DispatchTargets(p, i, call.method)} :
           i \in StaticType(p, call.on) \cap Interface}

\* Calls through a variable, which are those that a build may not see through; a
\* plain call, or one of another package's function, has no row of its own.
Classified(p, f, build) == {call \in Calls(p, f) : call.on \in Classifies[build]}

ComputeFacts(p, build) ==
  UNION {UNION {DirectFacts(p, f, call) \cup DispatchFacts(p, f, call) :
                  call \in Classified(p, f, build)} : f \in Files(p)}

FactsOf(p, build) == {d.fact : d \in ComputeFacts(p, build)}

-----------------------------------------------------------------------------
(* Sources whose facts move with their own file and with implementer sets   *)
(* alone: conditions on what commits say, not on what is derived.           *)

\* A call is on a variable whose type its own file declares.
SelfTyped(p) ==
  \A f \in Files(p) : \A call \in Calls(p, f) :
    \E t \in Type \cup Interface : <<call.on, t>> \in Source[p[f]].vars

\* What a file that stays calls on keeps its type, wherever it is declared.
TypesKept(p, q) ==
  \A f \in Files(p) : p[f] = q[f] =>
    \A call \in Calls(p, f) : StaticType(p, call.on) = StaticType(q, call.on)

\* What an embedded type could lend, the embedding type declares itself.
NothingPromoted(p) ==
  \A d \in Embeds(p), m \in Method : <<d[2], m>> \in Methods(p) => <<d[1], m>> \in Methods(p)
=============================================================================
