----------------------------- MODULE MCEngineV2 -----------------------------
(***************************************************************************)
(* Instances of EngineV2.  api.go declares the interfaces, bank.go and     *)
(* store.go hold a type each, cli.go the callers; the paths sort in the    *)
(* order api, bank, cli, store.                                            *)
(***************************************************************************)
EXTENDS EngineV2, TLC

CONSTANTS api, bank, cli, store, main, run, audit, x, y, z, I, J, T, U, Do, Undo, b

MCFile == {api, bank, cli, store}
MCFunction == {main, run, audit}
MCVariable == {x, y, z}
MCType == {T, U}
MCInterface == {I, J}
MCMethod == {Do, Undo}
MCRank == (api :> 1) @@ (bank :> 2) @@ (cli :> 3) @@ (store :> 4)
MCClassifies == b :> MCVariable

on(line, f, v, m) == [line |-> line, caller |-> f, on |-> v, method |-> m]

Empty ==
  [calls |-> {}, vars |-> {}, types |-> {}, methods |-> {}, embeds |-> {}, interfaces |-> {}, demands |-> {}]

Caller(calls) == [Empty EXCEPT !.calls = calls]

Service(t, methods, calls) ==
  [Empty EXCEPT !.types = {t}, !.methods = {t} \X methods, !.calls = calls]

\* x is an I, z a J and y a T; J asks for more than I.
ApiText ==
  [api |-> [Empty EXCEPT !.interfaces = {I, J},
                         !.demands = {<<I, Do>>, <<J, Do>>, <<J, Undo>>},
                         !.vars = {<<x, I>>, <<z, J>>, <<y, T>>}]]

BankText ==
  [narrow |-> Service(T, {Do}, {}),
   wide |-> Service(T, {Do, Undo}, {}),
   audited |-> Service(T, {Do}, {on(1, audit, z, Undo), on(2, audit, x, Do)})]

StoreText ==
  [full |-> Service(U, {Do, Undo}, {}),
   other |-> Service(U, {Undo}, {})]

CliText ==
  [both |-> Caller({on(1, main, x, Do), on(2, main, z, Undo)}),
   edited |-> Caller({on(1, main, x, Do), on(2, main, z, Undo)}),
   direct |-> Caller({on(1, main, z, Undo), on(2, run, y, Do), on(3, run, y, Do)})]

\* A function that moves between the files of the two types.
MovedText ==
  [bankRun |-> Service(T, {Do}, {on(1, run, y, Do)}),
   storeRun |-> Service(U, {Do}, {on(1, run, y, Do)}),
   storeOnly |-> Service(U, {Do}, {})]

MCSource == ApiText @@ BankText @@ StoreText @@ CliText @@ MovedText
MCText == DOMAIN MCSource

Tree(banks, clis, stores) ==
  {(api :> "api") @@ (bank :> k) @@ (cli :> c) @@ (store :> s) : k \in banks, c \in clis, s \in stores}

\* Types, callers and both come, change and go.
MCBranches ==
  Tree({"narrow", "wide", "audited"}, {"both"}, {NULL, "full"}) \cup
  Tree({"wide"}, {NULL, "direct", "edited"}, {"full", "other"}) \cup
  Tree({"narrow"}, {"direct"}, {NULL, "other"})

MCMoving == Tree({"bankRun"}, {NULL, "both"}, {"storeOnly"}) \cup Tree({"narrow"}, {NULL, "both"}, {"storeRun"})

\* The run of MCEngineV2 is about histories the engine is made for.
ASSUME HistoriesHold == Branches = MCBranches => V2Assumed /\ DeclarationsStay
=============================================================================
