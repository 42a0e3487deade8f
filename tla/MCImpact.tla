------------------------------ MODULE MCImpact ------------------------------
(***************************************************************************)
(* An instance of Impact.  A file is a sequence of pieces; a piece has its *)
(* lines, which may look like those of another one, and a declaration.     *)
(***************************************************************************)
EXTENDS Impact, TLC

CONSTANTS a, b, f, g, p, q, r, T

MCFile == {a, b}
MCSymbol == {f, g, p, q, r, T}

\* Parameter j, in a field of its own; the tokens of a body, with what they
\* refer to.
param(j, name, type) == [role |-> "param", name |-> name, type |-> type, field |-> j]
declare(n, i) == [kind |-> "declare", text |-> n, refers |-> <<"body", i>>]
local(n, i) == [kind |-> "use", text |-> n, refers |-> <<"body", i>>]
given(n, j) == [kind |-> "use", text |-> n, refers |-> <<"param", j>>]
self(n) == [kind |-> "use", text |-> n, refers |-> <<"receiver", 0>>]
use(n) == [kind |-> "use", text |-> n, refers |-> Outside]
select(n) == [kind |-> "select", text |-> n, refers |-> Outside]
word(n) == [kind |-> "word", text |-> n, refers |-> Outside]

NoReceiver == [name |-> Blank, type |-> ""]

Fn(symbol, lines, params, body, calls) ==
  [symbol |-> symbol, kind |-> "function", lines |-> lines, calls |-> calls,
   decl |-> [receiver |-> NoReceiver, params |-> params, body |-> body]]

Method(lines, name, type, body) ==
  [symbol |-> f, kind |-> "method", lines |-> lines, calls |-> {},
   decl |-> [receiver |-> [name |-> name, type |-> type], params |-> <<param(1, "a", "int")>>, body |-> body]]

ToP == [source |-> f, target |-> p, provenance |-> "direct_call"]
ToQ == [source |-> g, target |-> q, provenance |-> "interface_resolved"]
ToF == [source |-> g, target |-> f, provenance |-> "direct_call"]

\* x := a + k; p(x)
Sum(of, name, op) ==
  <<declare(name, 1), word(":="), given(of, 1), word(op), use("k"), word(";"),
    use("p"), word("("), local(name, 1), word(")")>>

\* x := a + k; y := x + a; p(y), with the names of the two and which p is given.
Chain(first, second, passed, lines) ==
  Fn(f, <<"func f(a int)">> \o lines \o <<"}">>, <<param(1, "a", "int")>>,
     <<declare(first, 1), word(":="), given("a", 1), word("+"), use("k"), word(";"),
       declare(second, 7), word(":="), local(first, 1), word("+"), given("a", 1), word(";"),
       use("p"), word("("), passed, word(")")>>, {ToP})

\* Of a function with the fields of its parameters as given: p of the j-th.
Fields(line, names, fields, j) ==
  Fn(f, <<line, "p(b)", "}">>,
     [i \in DOMAIN names |-> [role |-> "param", name |-> names[i], type |-> "int", field |-> fields[i]]],
     <<use("p"), word("("), given("b", j), word(")")>>, {ToP})

\* x := a; v.x(); p(x)
Selecting(name, member, lines) ==
  Fn(f, <<"func f(a int)">> \o lines \o <<"}">>, <<param(1, "a", "int")>>,
     <<declare(name, 1), word(":="), given("a", 1), word(";"), use("v"), word("."), select(member), word(";"),
       use("p"), word("("), local(name, 1), word(")")>>, {ToP})

\* p(func(n int) { n })
Closing(name, lines) ==
  Fn(f, <<"func f()">> \o lines \o <<"}">>, <<>>,
     <<use("p"), word("func"), [kind |-> "bind", text |-> name, refers |-> <<"body", 3>>], local(name, 3)>>, {ToP})

Piece ==
  [f |-> Fn(f, <<"func f(a int)", "x := a + k", "p(x)", "}">>, <<param(1, "a", "int")>>, Sum("a", "x", "+"), {ToP}),
   local |-> Fn(f, <<"func f(a int)", "y := a + k", "p(y)", "}">>, <<param(1, "a", "int")>>, Sum("a", "y", "+"), {ToP}),
   param |-> Fn(f, <<"func f(b int)", "x := b + k", "p(x)", "}">>, <<param(1, "b", "int")>>, Sum("b", "x", "+"), {ToP}),
   disguised |-> Fn(f, <<"func f(a int)", "y := a * k", "p(y)", "}">>, <<param(1, "a", "int")>>, Sum("a", "y", "*"), {ToP}),
   typed |-> Fn(f, <<"func f(a long)", "x := a + k", "p(x)", "}">>, <<param(1, "a", "long")>>, Sum("a", "x", "+"), {ToP}),
   comment |-> Fn(f, <<"func f(a int)", "x := a + k", "// c", "p(x)", "}">>, <<param(1, "a", "int")>>, Sum("a", "x", "+"), {ToP}),
   shorter |-> Fn(f, <<"func f(a int)", "x := a + k", "}">>, <<param(1, "a", "int")>>, SubSeq(Sum("a", "x", "+"), 1, 5), {}),
   chain |-> Chain("x", "y", local("y", 7), <<"x := a + k", "y := x + a", "p(y)">>),
   swapped |-> Chain("y", "x", local("x", 7), <<"y := a + k", "x := y + a", "p(x)">>),
   crossed |-> Chain("y", "x", local("y", 1), <<"y := a + k", "x := y + a", "p(y)">>),
   g |-> Fn(g, <<"func g()", "v.q()", "}">>, <<>>, <<use("v"), word("."), select("q")>>, {ToQ}),
   both |-> Fn(g, <<"func g()", "v.q()", "f(k)", "}">>, <<>>,
               <<use("v"), word("."), select("q"), word(";"), use("f"), use("k")>>, {ToQ, ToF}),
   T |-> [symbol |-> T, kind |-> "type", lines |-> <<"type T int", "// T">>, calls |-> {},
          decl |-> [receiver |-> NoReceiver, params |-> <<>>, body |-> <<>>]],
   \* A method, its receiver by value or of another name, or assigned to.
   pointer |-> Method(<<"func (v *T) f(a int)", "v.q(a)", "}">>, "v", "*T", <<self("v"), word("."), select("q"), given("a", 1)>>),
   value |-> Method(<<"func (v T) f(a int)", "v.q(a)", "}">>, "v", "T", <<self("v"), word("."), select("q"), given("a", 1)>>),
   renamed |-> Method(<<"func (x *T) f(a int)", "x.q(a)", "}">>, "x", "*T", <<self("x"), word("."), select("q"), given("a", 1)>>),
   assigned |-> Method(<<"func (v *T) f(a int)", "v, x := a, a", "}">>, "v", "*T",
                       <<[declare("v", 1) EXCEPT !.refers = <<"receiver", 0>>], declare("x", 2), word(":="), given("a", 1), given("a", 1)>>),
   shadow |-> Method(<<"func (v *T) f(a int)", "y, x := a, a", "}">>, "v", "*T",
                     <<declare("y", 1), declare("x", 2), word(":="), given("a", 1), given("a", 1)>>),
   apart |-> Fields("func f(a int, b int)", <<"a", "b">>, <<1, 2>>, 2),
   grouped |-> Fields("func f(a, b int)", <<"a", "b">>, <<1, 1>>, 2),
   three |-> Fields("func f(a, b, k int)", <<"a", "b", "k">>, <<1, 1, 1>>, 2),
   first |-> Fields("func f(b, _ int)", <<"b", Blank>>, <<1, 1>>, 1),
   second |-> Fields("func f(_, b int)", <<Blank, "b">>, <<1, 1>>, 2),
   unused |-> Fn(f, <<"func f(a int)", "x := k", "}">>, <<param(1, "a", "int")>>, <<declare("x", 1), word(":="), use("k")>>, {}),
   blank |-> Fn(f, <<"func f(_ int)", "x := k", "}">>, <<param(1, Blank, "int")>>, <<declare("x", 1), word(":="), use("k")>>, {}),
   selects |-> Selecting("x", "x", <<"x := a", "v.x()", "p(x)">>),
   follows |-> Selecting("y", "y", <<"y := a", "v.y()", "p(y)">>),
   parts |-> Selecting("y", "x", <<"y := a", "v.x()", "p(y)">>),
   closure |-> Closing("x", <<"p(func(x int) { x })">>),
   closes |-> Closing("y", <<"p(func(y int) { y })">>)]

\* The first line of each piece of a file.
StartOf(pieces, i) == 1 + Len(FlattenSeq([j \in 1 .. i - 1 |-> Piece[pieces[j]].lines]))

VersionOf(pieces) ==
  [lines |-> FlattenSeq([i \in DOMAIN pieces |-> Piece[pieces[i]].lines]),
   rows |-> {[symbol |-> Piece[pieces[i]].symbol, kind |-> Piece[pieces[i]].kind,
              start |-> StartOf(pieces, i), end |-> StartOf(pieces, i + 1) - 1,
              decl |-> Piece[pieces[i]].decl] : i \in DOMAIN pieces}]

\* What the unchanged part of the program calls: a cycle, a self-loop, a short
\* way through an interface and a longer one without.
Library ==
  {[source |-> p, target |-> q, provenance |-> "direct_call"],
   [source |-> q, target |-> p, provenance |-> "direct_call"],
   [source |-> q, target |-> r, provenance |-> "direct_call"],
   [source |-> p, target |-> r, provenance |-> "interface_resolved"],
   [source |-> r, target |-> r, provenance |-> "direct_call"]}

CaseOf(base, head) ==
  [base |-> [file \in MCFile |-> VersionOf(base[file])],
   head |-> [file \in MCFile |-> VersionOf(head[file])],
   graph |-> Library \cup UNION {UNION {Piece[head[file][i]].calls : i \in DOMAIN head[file]} : file \in MCFile}]

Tree(inA, inB) == (a :> inA) @@ (b :> inB)

\* Edits of f, alone and with g, which comes, goes, changes and moves.
Trees ==
  {Tree(<<k>>, <<"g">>) : k \in {"f", "local", "param", "disguised", "typed", "comment", "shorter", "chain", "swapped", "crossed"}} \cup
  {Tree(<<"g", k>>, <<>>) : k \in {"f", "local", "shorter"}} \cup
  {Tree(<<"T", "f", "g">>, <<>>), Tree(<<"f", "T">>, <<"both">>), Tree(<<>>, <<"g", "f">>), Tree(<<"local">>, <<>>)}

\* Edits that the classifier may take for what they are not.
Blurred ==
  {{"pointer", "value", "renamed", "assigned", "shadow"}, {"unused", "blank"}, {"apart", "grouped", "three", "first", "second"},
   {"selects", "follows", "parts"}, {"closure", "closes"}}

MCCases ==
  {CaseOf(base, head) : base \in Trees, head \in Trees} \cup
  UNION {{CaseOf(Tree(<<k>>, <<"g">>), Tree(<<l>>, <<"g">>)) : k \in edits, l \in edits} : edits \in Blurred}

MCName == {Blank, "a", "b", "x", "y", "k", "p", "q", "f", "v", ":=", "+", "*", ";", "(", ")", ".", "func"}
MCType == {"", "int", "long", "T", "*T"}
MCLine == UNION {Range(Piece[k].lines) : k \in DOMAIN Piece}

\* These files are of the kind the theorems about the frontier speak of.
ASSUME SourcesHold == SourcesTell
=============================================================================
