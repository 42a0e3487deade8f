---------------------------- MODULE MCFactStore ----------------------------
(***************************************************************************)
(* Instances of FactStore.  app.go holds the calls, svc.go the types; a    *)
(* branch may put any text of a set in each, so that a change of a caller, *)
(* of an implementer, of both or of neither follows any other.             *)
(***************************************************************************)
EXTENDS FactStore, TLC

CONSTANTS app, svc, main, x, y, z, I, J, T, U, Do, Undo, b1, b2

MCFile == {app, svc}
MCFunction == {main}
MCVariable == {x, y, z}
MCType == {T, U}
MCInterface == {I, J}
MCMethod == {Do, Undo}

on(line, v, m) == [line |-> line, caller |-> main, on |-> v, method |-> m]

\* Every caller declares its interfaces and the types of its variables.
Caller(calls, typed) ==
  [calls |-> calls, vars |-> typed, types |-> {}, methods |-> {}, embeds |-> {},
   interfaces |-> {I, J}, demands |-> {<<I, Do>>, <<J, Do>>, <<J, Undo>>}]

Service(types, methods, embeds) ==
  [calls |-> {}, vars |-> {}, types |-> types, methods |-> methods, embeds |-> embeds,
   interfaces |-> {}, demands |-> {}]

viaI == <<x, I>>
viaJ == <<z, J>>
asT == <<y, T>>

AppText ==
  [quiet |-> Caller({}, {viaI}),
   dispatch |-> Caller({on(1, x, Do)}, {viaI}),
   direct |-> Caller({on(3, y, Do)}, {asT}),
   both |-> Caller({on(1, x, Do), on(2, z, Undo), on(3, y, Do)}, {viaI, viaJ, asT}),
   oneLine |-> Caller({on(1, x, Do), on(1, z, Do)}, {viaI, viaJ})]

SvcText ==
  [bare |-> Service({T}, {}, {}),
   one |-> Service({T}, {<<T, Do>>}, {}),
   wide |-> Service({T}, {<<T, Do>>, <<T, Undo>>}, {}),
   two |-> Service({T, U}, {<<T, Do>>, <<U, Do>>, <<U, Undo>>}, {}),
   promoted |-> Service({T, U}, {<<U, Do>>}, {<<T, U>>}),
   overridden |-> Service({T, U}, {<<U, Do>>, <<T, Do>>}, {<<T, U>>})]

MCText == DOMAIN AppText \cup DOMAIN SvcText
MCSource == AppText @@ SvcText

Branches(apps, svcs) ==
  LET trees == {p \in [MCFile -> apps \cup svcs] : p[app] \in apps /\ p[svc] \in svcs}
  IN [p \in trees |-> p]

\* Facts depend on the text of their file and on implementer sets only.  Two
\* of the trees call methods nobody declares: the gate refuses them.
MCTree == Branches({NULL, "dispatch", "both"}, {NULL, "bare", "one", "wide", "two"})

\* Fewer texts, with calls the two builds differ on.
MCBuildTree == Branches({NULL, "dispatch", "both"}, {"one", "two"})

\* A type that implements with a promoted method gets its own.
MCPromotedTree == Branches({"dispatch"}, {"promoted", "overridden"})

\* One line calls through two interfaces.
MCOneLineTree == Branches({"oneLine"}, {"one", "wide"})

\* The branches of the passing run are such that selection is sound.
ASSUME SourcesHold == Tree \in {MCTree, MCBuildTree} => SourcesKeep

\* An older parser knows no calls on z.
MCClassifies == (b1 :> {x, y}) @@ (b2 :> {x, y, z})
MCVersionOf == (b1 :> "v1") @@ (b2 :> "v2")
=============================================================================
