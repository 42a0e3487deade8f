------------------------------- MODULE Impact -------------------------------
(***************************************************************************)
(* symex-graph analyze: diff, changed symbols, classification, search of   *)
(* the call graph from what is not trivial.  The graph was built from the  *)
(* head commit.  A step that fails ends the program; git show that fails   *)
(* makes a symbol count as changed.                                        *)
(***************************************************************************)
EXTENDS Differ, Classifier

CONSTANTS
  Symbol, File, Line,
  Cases,         \* two commits and the call graph of the second
  MaxFailures    \* bound on errors during a run

Provenance == {"direct_call", "interface_resolved"}

Row == [symbol : Symbol, kind : {"function", "method", "type"}, start : Nat, end : Nat, decl : Decl]

\* A file that is missing has no lines.
Version == [lines : Seq(Line), rows : SUBSET Row]

CallEdge == [source : Symbol, target : Symbol, provenance : Provenance]

Case == [base : [File -> Version], head : [File -> Version], graph : SUBSET CallEdge]

VARIABLES
  input,      \* the commits that are analyzed
  at,         \* the step of runAnalysisCore that comes next
  changed,    \* the changed symbol set: symbol to file
  kinds,      \* the classifications so far: symbol to kind
  queue,      \* symbols to expand
  visited,    \* symbol to the path and the confidence it was reached with
  failures    \* how many errors the run has met

vars == <<input, at, changed, kinds, queue, visited, failures>>

ASSUME ImpactAssumption ==
  /\ Cases \subseteq Case
  /\ \A case \in Cases : \A e, d \in case.graph : e.source = d.source /\ e.target = d.target => e = d
  /\ IsFiniteSet(Symbol)
  /\ MaxFailures \in Nat

Empty == [s \in {} |-> s]

Init ==
  /\ input \in Cases
  /\ at = "diff" /\ changed = Empty /\ kinds = Empty
  /\ queue = <<>> /\ visited = Empty /\ failures = 0

-----------------------------------------------------------------------------
\* The rows of a file that its diff may touch, one set for each alignment.
Touched(f) ==
  LET base == input.base[f].lines
      head == input.head[f].lines
  IN {MapToSymbols(HunkRanges(Hunks(base, head, M)), input.head[f].rows) : M \in Alignments(base, head)}

\* Of two rows with one name the later file counts, and any may be the later.
ChangedSets(touched) ==
  LET symbols == {r.symbol : r \in UNION {touched[f] : f \in File}}
  IN {c \in [symbols -> File] : \A s \in symbols : \E r \in touched[c[s]] : r.symbol = s}

\* Steps 1 to 3: the diff of each file, the rows of the head commit, the changed
\* symbol set.
MapDiff ==
  /\ at = "diff"
  /\ \E touched \in [File -> UNION {Touched(f) : f \in File}] :
       /\ \A f \in File : touched[f] \in Touched(f)
       /\ changed' \in ChangedSets(touched)
  /\ at' = IF DOMAIN changed' = {} THEN "done" ELSE "classify"
  /\ UNCHANGED <<input, kinds, queue, visited, failures>>

Unclassified == DOMAIN changed \ DOMAIN kinds

Record(s, kind) == kinds' = [t \in DOMAIN kinds \cup {s} |-> IF t = s THEN kind ELSE kinds[t]]

\* Step 4, a symbol at a time.
Classify ==
  /\ at = "classify"
  /\ \E s \in Unclassified :
       \E kind \in ClassifySymbol(input.base[changed[s]], input.head[changed[s]], s) : Record(s, kind)
  /\ UNCHANGED <<input, at, changed, queue, visited, failures>>

\* git show fails, or the file cannot be parsed.
ClassifyBlindly ==
  /\ at = "classify" /\ failures < MaxFailures
  /\ \E s \in Unclassified : Record(s, Missing)
  /\ failures' = failures + 1
  /\ UNCHANGED <<input, at, changed, queue, visited>>

Frontier == {s \in DOMAIN kinds : kinds[s] # "trivial"}

Orders(S) == {q \in [1 .. Cardinality(S) -> S] : \A i, j \in DOMAIN q : q[i] = q[j] => i = j}

\* Step 5 and the beginning of step 6: the graph, and the frontier, in any order.
BeginSearch ==
  /\ at = "classify" /\ Unclassified = {}
  /\ IF Frontier = {}
       THEN at' = "done" /\ UNCHANGED <<queue, visited>>
       ELSE /\ at' = "search"
            /\ queue' \in Orders(Frontier)
            /\ visited' = [s \in Frontier |-> [path |-> <<s>>, provenance |-> "direct_call"]]
  /\ UNCHANGED <<input, changed, kinds, failures>>

\* Mutant: the confidence of the last call.
LastOf(a, b) == b

WeakerOf(a, b) == IF a = "interface_resolved" THEN a ELSE b

\* Mutant: calls through interfaces are not followed.
NewDirectEdges(s) ==
  {e \in input.graph : e.source = s /\ e.target \notin DOMAIN visited /\ e.provenance = "direct_call"}

\* Mutant: a symbol is queued again whenever a call leads to it.
EdgesAgain(s) == {e \in input.graph : e.source = s}

\* The edges to symbols that were not seen; the source itself was.
NewEdges(s) == {e \in input.graph : e.source = s /\ e.target \notin DOMAIN visited}

Reached(e) ==
  [path |-> Append(visited[e.source].path, e.target),
   provenance |-> WeakerOf(visited[e.source].provenance, e.provenance)]

\* Mutant: the search goes deep first.
Push(symbols, new) == new \o Tail(symbols)

\* Mutant: the symbol stays in the queue.
EnqueueKeeping(symbols, new) == symbols \o new

Enqueue(symbols, new) == Tail(symbols) \o new

\* Step 6: one turn of the search; edges come in any order.
Visit ==
  /\ at = "search" /\ queue # <<>>
  /\ LET new == NewEdges(Head(queue))
         targets == {e.target : e \in new}
     IN /\ visited' = [s \in DOMAIN visited \cup targets |->
                         IF s \in DOMAIN visited THEN visited[s]
                                                 ELSE Reached(CHOOSE e \in new : e.target = s)]
        /\ \E order \in Orders(targets) : queue' = Enqueue(queue, order)
  /\ UNCHANGED <<input, at, changed, kinds, failures>>

Report ==
  /\ at = "search" /\ queue = <<>>
  /\ at' = "done"
  /\ UNCHANGED <<input, changed, kinds, queue, visited, failures>>

\* git diff, a query for the symbols or the load of the graph fails.
Exit ==
  /\ \/ at = "diff"
     \/ at = "classify" /\ Unclassified = {} /\ Frontier # {}
  /\ failures < MaxFailures /\ failures' = failures + 1
  /\ at' = "failed"
  /\ UNCHANGED <<input, changed, kinds, queue, visited>>

Step == MapDiff \/ Classify \/ BeginSearch \/ Visit \/ Report

Next == Step \/ ClassifyBlindly \/ Exit

\* One goroutine, which waits for nobody.
Spec == Init /\ [][Next]_vars /\ WF_vars(Step)

-----------------------------------------------------------------------------
ImpactTypeOK ==
  /\ input \in Cases
  /\ at \in {"diff", "classify", "search", "done", "failed"}
  /\ changed \in [DOMAIN changed -> File] /\ DOMAIN changed \subseteq Symbol
  /\ kinds \in [DOMAIN kinds -> {"trivial", "signature_change", "logic_change"}]
  /\ DOMAIN kinds \subseteq DOMAIN changed
  /\ queue \in Seq(DOMAIN visited)
  /\ DOMAIN visited \subseteq Symbol
  /\ visited \in [DOMAIN visited -> [path : Seq(DOMAIN visited), provenance : Provenance]]
  /\ failures \in 0 .. MaxFailures

\* A function of the head commit that is new in its file, or means something
\* else than before.
Functions(version) == {r \in version.rows : r.kind \in {"function", "method"}}

Differs(f, r) ==
  \A q \in Functions(input.base[f]) : q.symbol = r.symbol => Behaviour(q.decl) # Behaviour(r.decl)

ReallyChanged == {r.symbol : r \in UNION {{q \in Functions(input.head[f]) : Differs(f, q)} : f \in File}}

Analyzed == at = "search" \/ at = "done"

\* The two versions of a function, in one file.
Versions(s) ==
  UNION {{<<q.decl, r.decl>> : q \in {x \in Functions(input.base[f]) : x.symbol = s},
                               r \in {x \in Functions(input.head[f]) : x.symbol = s}} : f \in File}

(***************************************************************************)
(* classifier.go, "zero blast radius": whichever way git aligns the files, *)
(* a function that changed is in the frontier, one that only lost lines or *)
(* moved past another included.  It is left out only if its receiver       *)
(* changed, if a local is spelled like the receiver, if parameters were    *)
(* grouped otherwise, lost or got a name, or if what replaced an           *)
(* identifier from outside is spelled like a local, as that was.           *)
(***************************************************************************)
FrontierComplete ==
  Analyzed => \A s \in ReallyChanged \ Frontier : \E v \in Versions(s) : MayHide(v[1], v[2])

(***************************************************************************)
(* And nothing else: comments, moves and renamed locals are left out,      *)
(* unless git fails to show a file.  A renaming is taken for a change only *)
(* if it is of the receiver or of a closure's parameter, groups parameters *)
(* or takes or gives them a name, or if two identifiers that were spelled  *)
(* alike are so no more, or the reverse.                                   *)
(***************************************************************************)
FrontierPrecise ==
  Analyzed /\ failures = 0 =>
    \A s \in Frontier \ ReallyChanged : \E v \in Versions(s) : MayMislead(v[1], v[2])

(***************************************************************************)
(* classifier.go:59, "SignatureChange: parameter types, return types, or   *)
(* receiver type differ": a changed function whose receiver has another    *)
(* type is classified so.                                                  *)
(***************************************************************************)
ReceiverIsSignature ==
  Analyzed /\ failures = 0 =>
    \A s \in DOMAIN kinds : \A v \in Versions(s) :
      v[1].receiver.type # v[2].receiver.type => kinds[s] = "signature_change"

(* What the two rest on: facts about Go files and about git show.           *)

\* Every row lies in its file, and nothing is declared twice.
RowsPlaced ==
  \A case \in Cases : \A f \in File : \A version \in {case.base[f], case.head[f]} :
    /\ \A r \in version.rows : r.start \in 1 .. Len(version.lines) /\ r.end \in r.start .. Len(version.lines)
    /\ \A q, r \in Functions(version) : q.symbol = r.symbol => q = r

OneHome ==
  \A case \in Cases : \A f, g \in File :
    \A q \in Functions(case.head[f]), r \in Functions(case.head[g]) : q.symbol = r.symbol => f = g

\* The lines of a function say what it does.
TextTells ==
  \A case \in Cases : \A f \in File : \A M \in Alignments(case.base[f].lines, case.head[f].lines) :
    \A r \in Functions(case.head[f]) :
      Untouched(case.base[f].lines, case.head[f].lines, M, r) =>
        \E q \in Functions(case.base[f]) : q.symbol = r.symbol /\ Behaviour(q.decl) = Behaviour(r.decl)

\* Names are resolved by Go's rules of scope.
ScopesTell ==
  \A case \in Cases : \A f \in File :
    \A q \in Functions(case.base[f]), r \in Functions(case.head[f]) :
      q.symbol = r.symbol => Scoped(q.decl, r.decl)

SourcesTell == RowsPlaced /\ OneHome /\ TextTells /\ ScopesTell

R == INSTANCE Reach

Reaches(calls, symbols) == R!LeastFixpoint({<<e.source, e.target>> : e \in calls}, symbols)

(***************************************************************************)
(* reach.go: the search ends with all that the frontier reaches in the     *)
(* graph, cycles and self-loops or not, and with nothing else.             *)
(***************************************************************************)
ReachedExactly == at = "done" => DOMAIN visited = Reaches(input.graph, Frontier)

DirectCalls == {e \in input.graph : e.provenance = "direct_call"}

(***************************************************************************)
(* README.md:378, the "must run" tier: what is reported with full          *)
(* confidence is reached from the frontier without any call through an     *)
(* interface, whatever other paths there are.                              *)
(***************************************************************************)
MustRunCertain ==
  at = "done" =>
    \A s \in DOMAIN visited :
      visited[s].provenance = "direct_call" => s \in Reaches(DirectCalls, Frontier)

(***************************************************************************)
(* A recorded path leads from the frontier to its symbol, call by call,    *)
(* and its confidence is that of its weakest call.                         *)
(***************************************************************************)
CallsOf(path) ==
  {e \in input.graph : \E i \in 1 .. Len(path) - 1 : e.source = path[i] /\ e.target = path[i + 1]}

PathsReal ==
  \A s \in DOMAIN visited :
    LET path == visited[s].path
    IN /\ path[1] \in Frontier /\ path[Len(path)] = s
       /\ \A i \in 1 .. Len(path) - 1 :
            \E e \in input.graph : e.source = path[i] /\ e.target = path[i + 1]
       /\ visited[s].provenance = "direct_call" <=>
            \A e \in CallsOf(path) : e.provenance = "direct_call"

\* A path of calls from the frontier to s, of k symbols.
Walks(k, s) ==
  {w \in [1 .. k -> Symbol] :
     /\ w[1] \in Frontier /\ w[k] = s
     /\ \A i \in 1 .. k - 1 : \E e \in input.graph : e.source = w[i] /\ e.target = w[i + 1]}

(***************************************************************************)
(* And no path of calls is shorter: when the search is over, nothing leads *)
(* from the frontier to a symbol in fewer steps than its depth says.       *)
(***************************************************************************)
DepthsShortest ==
  at = "done" =>
    \A s \in DOMAIN visited : \A k \in 1 .. Len(visited[s].path) - 1 : Walks(k, s) = {}

\* main.go: the program comes to an end.
AnalysisEnds == <>(at \in {"done", "failed"})

TurnAdvances ==
  /\ DOMAIN visited \subseteq DOMAIN visited'
  /\ \A s \in DOMAIN visited : visited'[s] = visited[s]
  /\ DOMAIN visited' = DOMAIN visited => Len(queue') < Len(queue)

(***************************************************************************)
(* And why, on graphs of any size and shape: a turn of the search finds    *)
(* symbols it had not seen, or leaves the queue shorter and finds none.    *)
(***************************************************************************)
SearchProgress == [][Visit => TurnAdvances]_vars
=============================================================================
