----------------------------- MODULE Classifier -----------------------------
(***************************************************************************)
(* How the classifier compares two versions of a function.  A version is   *)
(* its receiver, its parameters and results and the tokens of its body;    *)
(* the canonical hash is what is hashed (SHA-256 is taken to be            *)
(* injective).  What an identifier refers to is recorded beside it: the    *)
(* code never looks at it, and the properties do.                          *)
(***************************************************************************)
EXTENDS Naturals, Sequences, FiniteSets, SequencesExt

CONSTANTS Name, TypeName

\* No identifier of the sources is spelled like a placeholder.
ASSUME PlaceholdersApart == "_v" \notin Name

\* The blank name, and the name of what has none.
Blank == "_"

\* A parameter or result.  Those of one field, (a, b int), share its type.
Param == [role : {"param", "result"}, name : Name, type : TypeName, field : Nat]

\* Where the declaration stands that an identifier refers to.
Place == {"outside", "receiver", "param", "body"} \X Nat

Outside == <<"outside", 0>>

\* An identifier that stands where :=, var, const or range declares; one that is
\* declared in another way (a parameter of a closure, a local type, a label);
\* one that is used, or selected by a dot or as the key of a struct literal; or
\* anything that is no identifier.
Token == [kind : {"declare", "bind", "use", "select", "word"}, text : Name, refers : Place]

Declared(d) ==
  {<<"receiver", 0>>} \cup {<<"param", j>> : j \in DOMAIN d.params}
  \cup {<<"body", i>> : i \in {k \in DOMAIN d.body : d.body[k].kind \in {"declare", "bind"}}}

NameAt(d, place) ==
  CASE place[1] = "receiver" -> d.receiver.name
    [] place[1] = "param" -> d.params[place[2]].name
    [] OTHER -> d.body[place[2]].text

\* What the Go compiler grants.
Compiles(d) ==
  /\ \A i, j \in DOMAIN d.params :
       /\ d.params[i].field = d.params[j].field =>
            d.params[i].role = d.params[j].role /\ d.params[i].type = d.params[j].type
       /\ d.params[i].name = d.params[j].name => i = j \/ d.params[i].name = Blank
  /\ \A i \in DOMAIN d.body :
       /\ d.body[i].kind # "word" => d.body[i].text # Blank
       /\ d.body[i].kind \in {"select", "word"} => d.body[i].refers = Outside
       /\ d.body[i].refers # Outside =>
            d.body[i].refers \in Declared(d) /\ NameAt(d, d.body[i].refers) = d.body[i].text

Decl ==
  {d \in [receiver : [name : Name, type : TypeName], params : Seq(Param), body : Seq(Token)] : Compiles(d)}

\* Mutant: parameters are not local names.
OfferedByBody(d, a) ==
  IF a > Len(d.params) /\ d.body[a - Len(d.params)].kind = "declare"
    THEN d.body[a - Len(d.params)].text ELSE Blank

\* The calls of canonical that FuncHash makes, in order, and the name each is
\* given: parameters and results, then the body's.
Turns(d) == 1 .. Len(d.params) + Len(d.body)

Offered(d, a) ==
  IF a <= Len(d.params) THEN d.params[a].name
  ELSE IF d.body[a - Len(d.params)].kind = "declare" THEN d.body[a - Len(d.params)].text
  ELSE Blank

LocalNames(d) == {Offered(d, a) : a \in Turns(d)} \ {Blank}

\* The turns that meet a name for the first time.
NewNames(d) == {a \in Turns(d) : Offered(d, a) # Blank /\ \A b \in 1 .. a - 1 : Offered(d, b) # Offered(d, a)}

\* canonical: names are numbered as they are met.
Placeholder(d, n) == Cardinality({a \in NewNames(d) : \A b \in 1 .. a : Offered(d, b) # n})

\* FuncHash: the printed body, every identifier spelled like a local replaced,
\* whatever it refers to.  What prints alike parses alike: the kinds tell.
FuncHash(d) ==
  [i \in DOMAIN d.body |->
     IF d.body[i].kind # "word" /\ d.body[i].text \in LocalNames(d)
       THEN [kind |-> d.body[i].kind, text |-> "_v", index |-> Placeholder(d, d.body[i].text)]
       ELSE [kind |-> d.body[i].kind, text |-> d.body[i].text, index |-> 0]]

\* printSignature: one type for each field, and no receiver.
PrintSignature(d) ==
  {<<d.params[i].role, d.params[i].field, d.params[i].type>> : i \in DOMAIN d.params}

\* findFuncDecl: the first declaration of that name.
FindFuncDecl(version, symbol) ==
  LET found == {r \in version.rows : r.symbol = symbol /\ r.kind \in {"function", "method"}}
  IN {r.decl : r \in {q \in found : \A o \in found : q.start <= o.start}}

\* Two versions that both exist; the signature goes first.
Compare(before, after) ==
  IF PrintSignature(before) # PrintSignature(after) THEN "signature_change"
  ELSE IF FuncHash(before) = FuncHash(after) THEN "trivial"
  ELSE "logic_change"

\* Mutant: a kind of its own.
Unknown == "unknown"

Missing == "logic_change"

\* ClassifySymbol, for files that git has at both commits or not: what is new,
\* deleted or nowhere to be found is a change.
ClassifySymbol(base, head, symbol) ==
  IF base.lines = <<>> \/ head.lines = <<>> THEN {Missing}
  ELSE LET before == FindFuncDecl(base, symbol)
           after == FindFuncDecl(head, symbol)
       IN IF before = {} \/ after = {} THEN {Missing}
          ELSE {Compare(b, a) : b \in before, a \in after}

-----------------------------------------------------------------------------
(* The reference: what a function says to its callers and does, whatever    *)
(* its local names are.                                                     *)

Behaviour(d) ==
  [receiver |-> d.receiver.type,
   params |-> [i \in DOMAIN d.params |-> <<d.params[i].role, d.params[i].type>>],
   body |-> [i \in DOMAIN d.body |->
               [kind |-> d.body[i].kind, refers |-> d.body[i].refers,
                text |-> IF d.body[i].refers = Outside THEN d.body[i].text ELSE Blank]]]

(* What the classifier does not see, between two versions.                  *)

ReceiverChanged(q, r) == q.receiver # r.receiver

\* A local is spelled like the receiver, which := and range may then assign to.
ReceiverHidden(d) == d.receiver.name \in LocalNames(d)

\* Parameters were put into one field or taken out of it: (a, b int) prints int.
Regrouped(q, r) ==
  [i \in DOMAIN q.params |-> q.params[i].field] # [i \in DOMAIN r.params |-> r.params[i].field]

\* A parameter got its name or lost it, and those after it their numbers.
BlanksMoved(q, r) ==
  {i \in DOMAIN q.params : q.params[i].name = Blank} # {i \in DOMAIN r.params : r.params[i].name = Blank}

\* What comes from outside and is spelled like a local is numbered like it.
OutsideReplaced(q, r) ==
  \E i \in DOMAIN q.body \cap DOMAIN r.body :
    /\ q.body[i].refers = Outside /\ q.body[i].text \in LocalNames(q)
    /\ r.body[i].text # q.body[i].text

\* A parameter of a closure is no local name.
BindRenamed(q, r) ==
  \E i \in DOMAIN q.body \cap DOMAIN r.body :
    q.body[i].kind = "bind" /\ q.body[i].text # r.body[i].text

\* The name of an identifier, and a blank for words.
NameOf(d, a) ==
  IF a <= Len(d.params) THEN d.params[a].name
  ELSE IF d.body[a - Len(d.params)].kind = "word" THEN Blank
  ELSE d.body[a - Len(d.params)].text

Identifiers(d) == {a \in Turns(d) : NameOf(d, a) # Blank}

\* Two identifiers are spelled alike in one version and not in the other.
NamesParted(q, r) ==
  \E a, b \in Identifiers(q) \cap Identifiers(r) :
    (NameOf(q, a) = NameOf(q, b)) # (NameOf(r, a) = NameOf(r, b))

\* A change may look trivial.
MayHide(q, r) ==
  \/ ReceiverChanged(q, r) \/ ReceiverHidden(q) \/ ReceiverHidden(r)
  \/ Regrouped(q, r) \/ BlanksMoved(q, r) \/ OutsideReplaced(q, r)

\* A renaming may look like a change.
MayMislead(q, r) ==
  \/ ReceiverChanged(q, r) \/ Regrouped(q, r) \/ BlanksMoved(q, r)
  \/ BindRenamed(q, r) \/ NamesParted(q, r)

\* Go resolves a name by the declarations that are spelled like it: where they
\* stand at the same places of the same syntax tree, it finds the same one.
SpelledAlike(q, n, r, m) ==
  /\ q.receiver.name = n <=> r.receiver.name = m
  /\ \A a \in Turns(q) : NameOf(q, a) = n <=> NameOf(r, a) = m

Scoped(q, r) ==
  /\ Len(q.params) = Len(r.params) /\ Len(q.body) = Len(r.body)
  /\ \A i \in DOMAIN q.body :
       /\ q.body[i].kind = r.body[i].kind
       /\ q.body[i].kind = "word" => q.body[i].text = r.body[i].text
  => \A i \in DOMAIN q.body :
       q.body[i].kind # "word" /\ SpelledAlike(q, q.body[i].text, r, r.body[i].text) =>
         q.body[i].refers = r.body[i].refers
=============================================================================
