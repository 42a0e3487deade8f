---------------------------- MODULE ImpactProofs ----------------------------
(***************************************************************************)
(* The analysis of two commits, for all commits and call graphs: its       *)
(* types, and what the search reports.                                     *)
(***************************************************************************)
EXTENDS Impact, DifferProofs, FiniteSetTheorems, TLAPS

Depth(s) == Len(visited[s].path)

Queued(s) == \E i \in DOMAIN queue : queue[i] = s

\* Nothing is classified before there is a changed set, and nothing visited
\* before all of it is classified.
StepsInOrder ==
  /\ at = "diff" => DOMAIN kinds = {}
  /\ at \in {"diff", "classify"} => queue = <<>> /\ DOMAIN visited = {}
  /\ at = "done" => queue = <<>>

\* The queue goes from the nearest symbols to the farthest, which are one call
\* apart at most.
QueueOrdered ==
  /\ \A i, j \in DOMAIN queue : i <= j => Depth(queue[i]) <= Depth(queue[j])
  /\ queue # <<>> => \A s \in DOMAIN visited : Depth(s) <= Depth(queue[1]) + 1

\* A symbol that is not queued any more has been expanded.
OnlyQueuedToExpand ==
  \A e \in input.graph : e.source \in DOMAIN visited =>
    \/ Queued(e.source)
    \/ e.target \in DOMAIN visited /\ Depth(e.target) <= Depth(e.source) + 1

Graph == {<<e.source, e.target>> : e \in input.graph}

SearchSound ==
  Analyzed =>
    /\ Frontier \subseteq DOMAIN visited
    /\ DOMAIN visited \subseteq R!LeastFixpoint(Graph, Frontier)
    /\ QueueOrdered
    /\ OnlyQueuedToExpand

PathsStart == \A s \in DOMAIN visited : visited[s].path # <<>>

TypeInv == ImpactTypeOK /\ StepsInOrder

\* A symbol of the frontier is its own path.
StartsAtFrontier == Analyzed => \A s \in Frontier : Depth(s) <= 1

Inductive == TypeInv /\ PathsStart /\ PathsReal /\ SearchSound /\ StartsAtFrontier

-----------------------------------------------------------------------------
\* Every symbol of a set is somewhere in each of its orders.
LEMMA OrderHoldsAll ==
  ASSUME NEW S, IsFiniteSet(S), NEW q \in Orders(S)
  PROVE  /\ Cardinality(S) \in Nat
         /\ q \in [1 .. Cardinality(S) -> S]
         /\ \A s \in S : \E i \in DOMAIN q : q[i] = s
<1>. DEFINE n == Cardinality(S)
<1>1. n \in Nat
  BY FS_CardinalityType
<1>2. IsFiniteSet(1 .. n) /\ Cardinality(1 .. n) = n
  BY <1>1, FS_Interval
<1>3. q \in Injection(1 .. n, S)
  BY DEF Orders, Injection, IsInjective
<1>4. q \in Surjection(1 .. n, S)
  BY <1>2, <1>3, FS_Injection
<1>. QED
  BY <1>1, <1>4 DEF Surjection, Orders

\* The rows and calls of a case are over the constants.
LEMMA CaseType ==
  ASSUME TypeInv
  PROVE  /\ input \in Case
         /\ \A f \in File : input.head[f].rows \subseteq Row
         /\ \A e \in input.graph : e \in CallEdge /\ e.source \in Symbol /\ e.target \in Symbol /\ e.provenance \in Provenance
         /\ \A e, d \in input.graph : e.source = d.source /\ e.target = d.target => e = d
<1>1. input \in Case
  BY ImpactAssumption DEF TypeInv, ImpactTypeOK
<1>2. /\ input.head \in [File -> Version]
      /\ input.graph \subseteq CallEdge
  BY <1>1 DEF Case
<1>3. \A f \in File : input.head[f].rows \subseteq Row
  BY <1>2 DEF Version
<1>. QED
  BY <1>1, <1>2, <1>3, ImpactAssumption DEF CallEdge, TypeInv, ImpactTypeOK

LEMMA ClassifyType ==
  ASSUME NEW base, NEW head, NEW s
  PROVE  ClassifySymbol(base, head, s) \subseteq {"trivial", "signature_change", "logic_change"}
BY DEF ClassifySymbol, Compare, Missing

\* What one turn of the search changes.
LEMMA VisitStep ==
  ASSUME TypeInv, Visit
  PROVE  /\ queue # <<>> /\ queue[1] \in DOMAIN visited
         /\ \E targets : 
              /\ targets = {e.target : e \in NewEdges(queue[1])}
              /\ targets \subseteq Symbol \ DOMAIN visited /\ IsFiniteSet(targets)
              /\ DOMAIN visited' = DOMAIN visited \cup targets
              /\ \E order \in Orders(targets) : queue' = Tail(queue) \o order
         /\ visited' = [s \in DOMAIN visited' |-> visited'[s]]
         /\ \A s \in DOMAIN visited : visited'[s] = visited[s]
         /\ \A s \in DOMAIN visited' \ DOMAIN visited :
              \E e \in input.graph : e.source = queue[1] /\ e.target = s /\ visited'[s] = Reached(e)
<1>. DEFINE h == queue[1]
            new == NewEdges(h)
            targets == {e.target : e \in new}
<1>1. queue # <<>> /\ h \in DOMAIN visited /\ Head(queue) = h
  BY DEF Visit, TypeInv, ImpactTypeOK
<1>2. targets \subseteq Symbol \ DOMAIN visited
  BY CaseType DEF NewEdges
<1>3. IsFiniteSet(targets)
  BY <1>2, ImpactAssumption, FS_Subset
<1>4. visited' = [s \in DOMAIN visited \cup targets |->
                    IF s \in DOMAIN visited THEN visited[s]
                                            ELSE Reached(CHOOSE e \in new : e.target = s)]
  BY <1>1 DEF Visit
<1>5. \E order \in Orders(targets) : queue' = Tail(queue) \o order
  BY <1>1 DEF Visit, Enqueue
<1>6. ASSUME NEW s \in targets
      PROVE  \E e \in input.graph : e.source = h /\ e.target = s /\ visited'[s] = Reached(e)
  <2>. DEFINE e == CHOOSE x \in new : x.target = s
  <2>1. e \in new /\ e.target = s
    OBVIOUS
  <2>2. s \notin DOMAIN visited
    BY <1>2
  <2>3. visited'[s] = Reached(e)
    BY <1>4, <2>2
  <2>4. e \in input.graph /\ e.source = h
    BY <2>1 DEF NewEdges
  <2>. QED
    BY <2>1, <2>3, <2>4
<1>. HIDE DEF targets, new
<1>7. DOMAIN visited' = DOMAIN visited \cup targets /\ visited' = [s \in DOMAIN visited' |-> visited'[s]]
  BY <1>4
<1>8. \A s \in DOMAIN visited : visited'[s] = visited[s]
  BY <1>4
<1>. QED
  BY <1>1, <1>2, <1>3, <1>5, <1>6, <1>7, <1>8 DEF targets, new

-----------------------------------------------------------------------------
LEMMA TypeInit == Init => TypeInv
<1>. SUFFICES ASSUME Init PROVE TypeInv
  OBVIOUS
<1>1. DOMAIN Empty = {} /\ Empty = [s \in {} |-> s]
  BY DEF Empty
<1>. QED
  BY <1>1, ImpactAssumption DEF Init, TypeInv, ImpactTypeOK, StepsInOrder

LEMMA TypeMapDiff ==
  ASSUME TypeInv, MapDiff
  PROVE  TypeInv'
<1>1. PICK touched \in [File -> UNION {Touched(f) : f \in File}] :
         (\A f \in File : touched[f] \in Touched(f)) /\ changed' \in ChangedSets(touched)
  BY DEF MapDiff
<1>2. \A f \in File : touched[f] \subseteq Row
  BY <1>1, CaseType DEF Touched, MapToSymbols
<1>3. changed' \in [DOMAIN changed' -> File] /\ DOMAIN changed' \subseteq Symbol
  BY <1>1, <1>2 DEF ChangedSets, Row
<1>4. at' \in {"done", "classify"} /\ DOMAIN kinds = {} /\ queue = <<>> /\ DOMAIN visited = {}
  BY DEF MapDiff, TypeInv, StepsInOrder
<1>. QED
  BY <1>3, <1>4 DEF MapDiff, TypeInv, ImpactTypeOK, StepsInOrder

LEMMA TypeRecord ==
  ASSUME TypeInv, NEW s \in Unclassified,
         NEW kind \in {"trivial", "signature_change", "logic_change"}, Record(s, kind),
         UNCHANGED <<input, at, changed, queue, visited>>, at = "classify",
         failures' \in 0 .. MaxFailures
  PROVE  TypeInv'
<1>1. DOMAIN kinds' = DOMAIN kinds \cup {s}
  BY DEF Record
<1>2. kinds' \in [DOMAIN kinds' -> {"trivial", "signature_change", "logic_change"}]
  BY <1>1 DEF Record, TypeInv, ImpactTypeOK
<1>3. DOMAIN kinds' \subseteq DOMAIN changed'
  BY <1>1 DEF Unclassified, TypeInv, ImpactTypeOK
<1>. QED
  BY <1>2, <1>3 DEF TypeInv, ImpactTypeOK, StepsInOrder

LEMMA TypeBeginSearch ==
  ASSUME TypeInv, BeginSearch
  PROVE  TypeInv'
<1>1. CASE Frontier = {}
  BY <1>1 DEF BeginSearch, TypeInv, ImpactTypeOK, StepsInOrder
<1>2. CASE Frontier # {}
  <2>1. Frontier \subseteq Symbol
    BY DEF Frontier, TypeInv, ImpactTypeOK
  <2>2. IsFiniteSet(Frontier)
    BY <2>1, ImpactAssumption, FS_Subset
  <2>3. queue' \in [1 .. Cardinality(Frontier) -> Frontier] /\ Cardinality(Frontier) \in Nat
    BY <1>2, <2>2, OrderHoldsAll DEF BeginSearch
  <2>4. visited' = [s \in Frontier |-> [path |-> <<s>>, provenance |-> "direct_call"]] /\ at' = "search"
    BY <1>2 DEF BeginSearch
  <2>5. DOMAIN visited' = Frontier
    BY <2>4
  <2>6. queue' \in Seq(Frontier)
    BY <2>3
  <2>7. visited' \in [Frontier -> [path : Seq(Frontier), provenance : Provenance]]
    BY <2>4 DEF Provenance
  <2>. QED
    BY <2>1, <2>4, <2>5, <2>6, <2>7 DEF BeginSearch, TypeInv, ImpactTypeOK, StepsInOrder
<1>. QED
  BY <1>1, <1>2

LEMMA TypeVisit ==
  ASSUME TypeInv, Visit
  PROVE  TypeInv'
<1>1. PICK targets :
        /\ targets \subseteq Symbol \ DOMAIN visited /\ IsFiniteSet(targets)
        /\ DOMAIN visited' = DOMAIN visited \cup targets
        /\ \E order \in Orders(targets) : queue' = Tail(queue) \o order
  BY VisitStep
<1>2. PICK order \in Orders(targets) : queue' = Tail(queue) \o order
  BY <1>1
<1>3. DOMAIN visited' \subseteq Symbol
  BY <1>1 DEF TypeInv, ImpactTypeOK
<1>4. queue' \in Seq(DOMAIN visited')
  <2>1. order \in [1 .. Cardinality(targets) -> targets] /\ Cardinality(targets) \in Nat
    BY <1>1, OrderHoldsAll
  <2>2. order \in Seq(DOMAIN visited')
    BY <1>1, <2>1
  <2>3. queue \in Seq(DOMAIN visited') /\ queue # <<>>
    BY <1>1, VisitStep DEF TypeInv, ImpactTypeOK
  <2>. QED
    BY <1>2, <2>2, <2>3
<1>5. ASSUME NEW s \in DOMAIN visited'
      PROVE  visited'[s] \in [path : Seq(DOMAIN visited'), provenance : Provenance]
  <2>1. CASE s \in DOMAIN visited
    <3>1. visited[s] \in [path : Seq(DOMAIN visited), provenance : Provenance]
      BY <2>1 DEF TypeInv, ImpactTypeOK
    <3>2. visited'[s] = visited[s]
      BY <2>1, VisitStep
    <3>. QED
      BY <1>1, <3>1, <3>2
  <2>2. CASE s \notin DOMAIN visited
    <3>1. PICK e \in input.graph : e.source = queue[1] /\ e.target = s /\ visited'[s] = Reached(e)
      BY <2>2, VisitStep
    <3>2. visited[e.source] \in [path : Seq(DOMAIN visited), provenance : Provenance]
      BY <3>1, VisitStep DEF TypeInv, ImpactTypeOK
    <3>3. visited[e.source].path \in Seq(DOMAIN visited')
      BY <1>1, <3>2
    <3>4. WeakerOf(visited[e.source].provenance, e.provenance) \in Provenance
      BY <3>2, CaseType DEF WeakerOf
    <3>. QED
      BY <3>1, <3>3, <3>4 DEF Reached
  <2>. QED
    BY <2>1, <2>2
<1>6. visited' \in [DOMAIN visited' -> [path : Seq(DOMAIN visited'), provenance : Provenance]]
  BY <1>5, VisitStep
<1>. QED
  BY <1>3, <1>4, <1>6 DEF Visit, TypeInv, ImpactTypeOK, StepsInOrder

LEMMA TypeStep == TypeInv /\ [Next]_vars => TypeInv'
<1>. SUFFICES ASSUME TypeInv, [Next]_vars PROVE TypeInv'
  OBVIOUS
<1>1. CASE Classify
  <2>1. PICK s \in Unclassified : \E kind \in ClassifySymbol(input.base[changed[s]], input.head[changed[s]], s) : Record(s, kind)
    BY <1>1 DEF Classify
  <2>2. PICK kind \in ClassifySymbol(input.base[changed[s]], input.head[changed[s]], s) : Record(s, kind)
    BY <2>1
  <2>3. kind \in {"trivial", "signature_change", "logic_change"}
    BY <2>2, ClassifyType
  <2>. QED
    BY <1>1, <2>2, <2>3, TypeRecord DEF Classify, TypeInv, ImpactTypeOK
<1>2. CASE ClassifyBlindly
  <2>1. PICK s \in Unclassified : Record(s, Missing)
    BY <1>2 DEF ClassifyBlindly
  <2>2. failures' \in 0 .. MaxFailures
    BY <1>2, ImpactAssumption DEF ClassifyBlindly, TypeInv, ImpactTypeOK
  <2>. QED
    BY <1>2, <2>1, <2>2, TypeRecord DEF ClassifyBlindly, Missing
<1>3. CASE Report
  BY <1>3 DEF Report, TypeInv, ImpactTypeOK, StepsInOrder
<1>4. CASE Exit
  <2>1. failures' \in 0 .. MaxFailures
    BY <1>4, ImpactAssumption DEF Exit, TypeInv, ImpactTypeOK
  <2>. QED
    BY <1>4, <2>1 DEF Exit, TypeInv, ImpactTypeOK, StepsInOrder
<1>5. CASE UNCHANGED vars
  BY <1>5 DEF vars, TypeInv, ImpactTypeOK, StepsInOrder
<1>. QED
  BY <1>1, <1>2, <1>3, <1>4, <1>5, TypeMapDiff, TypeBeginSearch, TypeVisit DEF Next, Step

(***************************************************************************)
(* The variables keep their types: every changed symbol has its file, no   *)
(* symbol is classified that is not changed, and only visited symbols are  *)
(* queued or on a path.                                                    *)
(***************************************************************************)
THEOREM TypeCorrect == Spec => []ImpactTypeOK
<1>1. TypeInv => ImpactTypeOK
  BY DEF TypeInv
<1>. QED
  BY TypeInit, TypeStep, <1>1, PTL DEF Spec

-----------------------------------------------------------------------------
\* Facts about what a graph reaches.
LEMMA EntriesReached ==
  ASSUME NEW G, NEW E \in SUBSET Symbol
  PROVE  E \subseteq R!LeastFixpoint(G, E)
BY DEF R!LeastFixpoint

LEMMA CalleesReached ==
  ASSUME NEW G, NEW E, NEW s \in R!LeastFixpoint(G, E), NEW t \in Symbol, <<s, t>> \in G
  PROVE  t \in R!LeastFixpoint(G, E)
<1>1. ASSUME NEW S \in SUBSET Symbol, E \subseteq S, R!Closed(S, G)
      PROVE  t \in S
  <2>. DEFINE e == <<s, t>>
  <2>1. e[1] \in S
    BY <1>1 DEF R!LeastFixpoint
  <2>2. e[2] \in S
    BY <1>1, <2>1 DEF R!Closed
  <2>. QED
    BY <2>2
<1>. QED
  BY <1>1 DEF R!LeastFixpoint

LEMMA ReachedLeast ==
  ASSUME NEW G, NEW E, NEW S \in SUBSET Symbol, E \subseteq S, R!Closed(S, G)
  PROVE  R!LeastFixpoint(G, E) \subseteq S
BY DEF R!LeastFixpoint

-----------------------------------------------------------------------------
\* The first path of a symbol of the frontier.
LEMMA SearchBegins ==
  ASSUME TypeInv, BeginSearch, Frontier # {}
  PROVE  /\ DOMAIN visited' = Frontier /\ Frontier \subseteq Symbol
         /\ \A s \in Frontier : visited'[s] = [path |-> <<s>>, provenance |-> "direct_call"]
         /\ \A i \in DOMAIN queue' : queue'[i] \in Frontier
         /\ \A s \in Frontier : \E i \in DOMAIN queue' : queue'[i] = s
         /\ queue' # <<>> => queue'[1] \in Frontier
<1>1. Frontier \subseteq Symbol
  BY DEF Frontier, TypeInv, ImpactTypeOK
<1>2. IsFiniteSet(Frontier)
  BY <1>1, ImpactAssumption, FS_Subset
<1>3. /\ queue' \in [1 .. Cardinality(Frontier) -> Frontier] /\ Cardinality(Frontier) \in Nat
      /\ \A s \in Frontier : \E i \in DOMAIN queue' : queue'[i] = s
  BY <1>2, OrderHoldsAll DEF BeginSearch
<1>4. queue' \in Seq(Frontier)
  BY <1>3
<1>5. visited' = [s \in Frontier |-> [path |-> <<s>>, provenance |-> "direct_call"]]
  BY DEF BeginSearch
<1>. QED
  BY <1>1, <1>3, <1>4, <1>5

\* What is in the queue after a turn.
LEMMA QueueStep ==
  ASSUME TypeInv, Visit
  PROVE  /\ \A i \in DOMAIN queue' :
              \/ i + 1 \in DOMAIN queue /\ queue'[i] = queue[i + 1]
              \/ i >= Len(queue) /\ queue'[i] \in DOMAIN visited' \ DOMAIN visited
         /\ \A i \in DOMAIN queue : i # 1 => \E j \in DOMAIN queue' : queue'[j] = queue[i]
         /\ \A s \in DOMAIN visited' \ DOMAIN visited : \E j \in DOMAIN queue' : queue'[j] = s
<1>1. PICK targets :
        /\ targets \subseteq Symbol \ DOMAIN visited /\ IsFiniteSet(targets)
        /\ DOMAIN visited' = DOMAIN visited \cup targets
        /\ \E order \in Orders(targets) : queue' = Tail(queue) \o order
  BY VisitStep
<1>2. PICK order \in Orders(targets) : queue' = Tail(queue) \o order
  BY <1>1
<1>3. /\ Cardinality(targets) \in Nat /\ order \in [1 .. Cardinality(targets) -> targets]
      /\ \A s \in targets : \E i \in DOMAIN order : order[i] = s
  BY <1>1, OrderHoldsAll
<1>. DEFINE n == Len(queue) - 1
            k == Cardinality(targets)
<1>4. queue \in Seq(DOMAIN visited) /\ queue # <<>>
  BY VisitStep DEF TypeInv, ImpactTypeOK
<1>5. /\ n \in Nat /\ DOMAIN queue = 1 .. n + 1
      /\ Tail(queue) \in Seq(DOMAIN visited) /\ Len(Tail(queue)) = n
      /\ \A i \in 1 .. n : Tail(queue)[i] = queue[i + 1]
  BY <1>4
<1>6. order \in Seq(targets) /\ Len(order) = k /\ DOMAIN order = 1 .. k
  BY <1>3
<1>7. /\ DOMAIN queue' = 1 .. n + k
      /\ \A i \in 1 .. n : queue'[i] = queue[i + 1]
      /\ \A i \in 1 .. k : queue'[n + i] = order[i]
  <2>. DEFINE rest == Tail(queue)
  <2>1. rest \in Seq(Symbol) /\ order \in Seq(Symbol) /\ Len(rest) = n
    BY <1>1, <1>5, <1>6 DEF TypeInv, ImpactTypeOK
  <2>2. queue' = rest \o order
    BY <1>2
  <2>. HIDE DEF rest
  <2>3. /\ DOMAIN queue' = 1 .. n + k
        /\ \A i \in 1 .. n : queue'[i] = rest[i]
        /\ \A i \in 1 .. k : queue'[n + i] = order[i]
    BY <1>6, <2>1, <2>2
  <2>. QED
    BY <1>5, <2>3 DEF rest
<1>. HIDE DEF n, k
<1>8. k \in Nat /\ n = Len(queue) - 1 /\ Len(queue) \in Nat
  BY <1>3, <1>4 DEF n, k
<1>9. \A i \in 1 .. k : order[i] \in DOMAIN visited' \ DOMAIN visited
  BY <1>1, <1>3, <1>6
<1>10. ASSUME NEW i \in DOMAIN queue'
       PROVE  \/ i + 1 \in DOMAIN queue /\ queue'[i] = queue[i + 1]
              \/ i >= Len(queue) /\ queue'[i] \in DOMAIN visited' \ DOMAIN visited
  <2>1. CASE i \in 1 .. n
    BY <1>5, <1>7, <2>1
  <2>2. CASE i \notin 1 .. n
    <3>1. i - n \in 1 .. k /\ n + (i - n) = i /\ i >= Len(queue)
      BY <1>5, <1>7, <1>8, <2>2
    <3>. QED
      BY <1>7, <1>9, <3>1
  <2>. QED
    BY <2>1, <2>2
<1>11. ASSUME NEW i \in DOMAIN queue, i # 1
       PROVE  \E j \in DOMAIN queue' : queue'[j] = queue[i]
  <2>1. i - 1 \in 1 .. n /\ (i - 1) + 1 = i /\ i - 1 \in DOMAIN queue'
    BY <1>5, <1>7, <1>8, <1>11
  <2>. QED
    BY <1>7, <2>1
<1>12. ASSUME NEW s \in DOMAIN visited' \ DOMAIN visited
       PROVE  \E j \in DOMAIN queue' : queue'[j] = s
  <2>1. PICK i \in 1 .. k : order[i] = s
    BY <1>1, <1>3, <1>6
  <2>2. n + i \in DOMAIN queue'
    BY <1>5, <1>7, <1>8
  <2>. QED
    BY <1>7, <2>1, <2>2
<1>. QED
  BY <1>10, <1>11, <1>12

LEMMA SearchVisit ==
  ASSUME TypeInv, PathsStart, SearchSound, Visit
  PROVE  SearchSound'
<1>. DEFINE h == queue[1]
            D == DOMAIN visited
            D2 == DOMAIN visited'
            After(s) == Len(visited'[s].path)
<1>1. /\ UNCHANGED <<input, kinds>> /\ at' = at /\ at = "search"
      /\ Frontier' = Frontier /\ Graph' = Graph /\ input.graph' = input.graph
  BY DEF Visit, Frontier, Graph
<1>2. /\ Frontier \subseteq D
      /\ D \subseteq R!LeastFixpoint(Graph, Frontier)
      /\ QueueOrdered /\ OnlyQueuedToExpand
  BY <1>1 DEF SearchSound, Analyzed
<1>3. queue # <<>> /\ h \in D /\ D \subseteq D2
  BY VisitStep
<1>4. \A s \in D : Depth(s) \in Nat /\ After(s) = Depth(s)
  <2>1. \A s \in D : visited'[s] = visited[s]
    BY VisitStep
  <2>2. \A s \in D : visited[s].path \in Seq(D)
    BY DEF TypeInv, ImpactTypeOK
  <2>. QED
    BY <2>1, <2>2 DEF Depth
<1>5. \A s \in D2 \ D : After(s) = Depth(h) + 1
  <2>. SUFFICES ASSUME NEW s \in D2 \ D PROVE After(s) = Depth(h) + 1
    OBVIOUS
  <2>1. PICK e \in input.graph : e.source = h /\ e.target = s /\ visited'[s] = Reached(e)
    BY VisitStep
  <2>2. visited[h].path \in Seq(D)
    BY <1>3 DEF TypeInv, ImpactTypeOK
  <2>3. visited'[s].path = Append(visited[h].path, s)
    BY <2>1 DEF Reached
  <2>. QED
    BY <2>2, <2>3 DEF Depth
<1>6. \A s \in D2 : After(s) \in Nat /\ After(s) <= Depth(h) + 1
  <2>1. \A s \in D : Depth(s) <= Depth(h) + 1
    BY <1>2, <1>3 DEF QueueOrdered
  <2>. QED
    BY <1>3, <1>4, <1>5, <2>1
<1>7. Frontier \subseteq D2
  BY <1>2, <1>3
<1>8. D2 \subseteq R!LeastFixpoint(Graph, Frontier)
  <2>. SUFFICES ASSUME NEW s \in D2 \ D PROVE s \in R!LeastFixpoint(Graph, Frontier)
    BY <1>2
  <2>1. PICK e \in input.graph : e.source = h /\ e.target = s
    BY VisitStep
  <2>2. <<h, s>> \in Graph /\ s \in Symbol
    BY <2>1, CaseType DEF Graph
  <2>3. h \in R!LeastFixpoint(Graph, Frontier)
    BY <1>2, <1>3
  <2>. QED
    BY <2>2, <2>3, CalleesReached
<1>9. \A i \in DOMAIN queue : queue[i] \in D /\ i \in Nat /\ i >= 1 /\ i <= Len(queue)
  BY DEF TypeInv, ImpactTypeOK
<1>10. \A i \in DOMAIN queue' : queue'[i] \in D2 /\ i \in Nat /\ i >= 1
  BY TypeVisit DEF TypeInv, ImpactTypeOK
<1>11. \A i \in DOMAIN queue' : Depth(h) <= After(queue'[i])
  <2>. SUFFICES ASSUME NEW i \in DOMAIN queue' PROVE Depth(h) <= After(queue'[i])
    OBVIOUS
  <2>1. CASE i + 1 \in DOMAIN queue /\ queue'[i] = queue[i + 1]
    <3>1. 1 \in DOMAIN queue
      BY <1>3 DEF TypeInv, ImpactTypeOK
    <3>2. Depth(queue[1]) <= Depth(queue[i + 1])
      BY <1>2, <1>9, <2>1, <3>1 DEF QueueOrdered
    <3>. QED
      BY <1>4, <1>9, <2>1, <3>2
  <2>2. CASE queue'[i] \in D2 \ D
    BY <1>3, <1>4, <1>5, <2>2
  <2>. QED
    BY <2>1, <2>2, QueueStep
<1>12. ASSUME NEW i \in DOMAIN queue', NEW j \in DOMAIN queue', i <= j
       PROVE  After(queue'[i]) <= After(queue'[j])
  <2>1. CASE i + 1 \in DOMAIN queue /\ queue'[i] = queue[i + 1] /\ j + 1 \in DOMAIN queue /\ queue'[j] = queue[j + 1]
    <3>1. i + 1 <= j + 1
      BY <1>10, <1>12
    <3>2. Depth(queue[i + 1]) <= Depth(queue[j + 1])
      BY <1>2, <2>1, <3>1 DEF QueueOrdered
    <3>. QED
      BY <1>4, <1>9, <2>1, <3>2
  <2>2. CASE queue'[j] \in D2 \ D
    <3>1. After(queue'[j]) = Depth(h) + 1
      BY <1>5, <2>2
    <3>. QED
      BY <1>6, <1>10, <3>1
  <2>3. CASE i >= Len(queue) /\ j + 1 \in DOMAIN queue
    <3>1. Len(queue) \in Nat
      BY DEF TypeInv, ImpactTypeOK
    <3>. QED
      BY <1>9, <1>10, <1>12, <2>3, <3>1
  <2>. QED
    BY <2>1, <2>2, <2>3, QueueStep
<1>13. QueueOrdered'
  <2>1. ASSUME queue' # <<>>, NEW s \in D2
        PROVE  After(s) <= After(queue'[1]) + 1
    <3>1. 1 \in DOMAIN queue'
      BY <2>1, TypeVisit DEF TypeInv, ImpactTypeOK
    <3>2. Depth(h) <= After(queue'[1]) /\ queue'[1] \in D2
      BY <1>10, <1>11, <3>1
    <3>. QED
      BY <1>3, <1>4, <1>6, <3>2
  <2>. QED
    BY <1>12, <2>1 DEF QueueOrdered, Depth
<1>14. OnlyQueuedToExpand'
  <2>. SUFFICES ASSUME NEW e \in input.graph, e.source \in D2
                PROVE  \/ \E i \in DOMAIN queue' : queue'[i] = e.source
                       \/ e.target \in D2 /\ After(e.target) <= After(e.source) + 1
    BY <1>1 DEF OnlyQueuedToExpand, Queued, Depth
  <2>1. CASE e.source \notin D
    BY <2>1, QueueStep
  <2>2. CASE e.source = h
    <3>1. e.target \in D2
      <4>1. CASE e.target \in D
        BY <1>3, <4>1
      <4>2. CASE e.target \notin D
        <5>1. e \in NewEdges(h)
          BY <2>2, <4>2 DEF NewEdges
        <5>2. e.target \in {x.target : x \in NewEdges(h)}
          BY <5>1
        <5>. QED
          BY <5>2, VisitStep
      <4>. QED
        BY <4>1, <4>2
    <3>. QED
      BY <1>3, <1>4, <1>6, <2>2, <3>1
  <2>3. CASE e.source \in D /\ Queued(e.source) /\ e.source # h
    <3>1. PICK i \in DOMAIN queue : queue[i] = e.source
      BY <2>3 DEF Queued
    <3>. QED
      BY <2>3, <3>1, QueueStep
  <2>4. CASE e.source \in D /\ ~Queued(e.source)
    <3>1. e.target \in D /\ Depth(e.target) <= Depth(e.source) + 1
      BY <1>2, <2>4 DEF OnlyQueuedToExpand
    <3>. QED
      BY <1>3, <1>4, <2>4, <3>1
  <2>. QED
    BY <2>1, <2>2, <2>3, <2>4
<1>. QED
  BY <1>1, <1>7, <1>8, <1>13, <1>14 DEF SearchSound

LEMMA SearchBegin ==
  ASSUME TypeInv, BeginSearch
  PROVE  SearchSound'
<1>1. /\ UNCHANGED <<input, kinds>> /\ Frontier' = Frontier /\ Graph' = Graph
      /\ queue = <<>> /\ DOMAIN visited = {}
  BY DEF BeginSearch, Frontier, Graph, TypeInv, StepsInOrder
<1>2. CASE Frontier = {}
  <2>1. queue' = <<>> /\ DOMAIN visited' = {}
    BY <1>1, <1>2 DEF BeginSearch
  <2>2. QueueOrdered'
    BY <2>1 DEF QueueOrdered
  <2>3. OnlyQueuedToExpand'
    BY <2>1 DEF OnlyQueuedToExpand
  <2>. QED
    BY <1>1, <1>2, <2>1, <2>2, <2>3 DEF SearchSound
<1>3. CASE Frontier # {}
  <2>1. /\ DOMAIN visited' = Frontier /\ Frontier \subseteq Symbol
        /\ \A s \in Frontier : visited'[s] = [path |-> <<s>>, provenance |-> "direct_call"]
        /\ \A i \in DOMAIN queue' : queue'[i] \in Frontier
        /\ \A s \in Frontier : \E i \in DOMAIN queue' : queue'[i] = s
        /\ queue' # <<>> => queue'[1] \in Frontier
    BY <1>3, SearchBegins
  <2>2. \A s \in Frontier : Len(visited'[s].path) = 1
    BY <2>1
  <2>3. Frontier \subseteq R!LeastFixpoint(Graph, Frontier)
    BY <2>1, EntriesReached
  <2>4. QueueOrdered'
    BY <2>1, <2>2 DEF QueueOrdered, Depth
  <2>5. OnlyQueuedToExpand'
    BY <2>1 DEF OnlyQueuedToExpand, Queued
  <2>. QED
    BY <1>1, <2>1, <2>3, <2>4, <2>5 DEF SearchSound
<1>. QED
  BY <1>2, <1>3

LEMMA SearchStep ==
  ASSUME Inductive, [Next]_vars
  PROVE  SearchSound'
<1>1. CASE MapDiff
  <2>1. DOMAIN kinds' = {} /\ DOMAIN visited' = {} /\ queue' = <<>>
    BY <1>1 DEF MapDiff, Inductive, TypeInv, StepsInOrder
  <2>2. Frontier' = {}
    BY <2>1 DEF Frontier
  <2>3. QueueOrdered' /\ OnlyQueuedToExpand'
    BY <2>1 DEF QueueOrdered, OnlyQueuedToExpand
  <2>. QED
    BY <2>1, <2>2, <2>3 DEF SearchSound
<1>2. CASE Classify \/ ClassifyBlindly \/ Exit
  BY <1>2 DEF Classify, ClassifyBlindly, Exit, SearchSound, Analyzed
<1>3. CASE Report
  <2>1. UNCHANGED <<input, kinds, queue, visited>> /\ at = "search"
    BY <1>3 DEF Report
  <2>2. QueueOrdered' /\ OnlyQueuedToExpand' /\ Frontier' = Frontier /\ Graph' = Graph
    BY <2>1 DEF QueueOrdered, OnlyQueuedToExpand, Frontier, Graph, Depth, Queued, Inductive, SearchSound, Analyzed
  <2>. QED
    BY <2>1, <2>2 DEF SearchSound, Inductive, Analyzed
<1>4. CASE UNCHANGED vars
  <2>1. UNCHANGED <<input, at, kinds, queue, visited>>
    BY <1>4 DEF vars
  <2>2. SearchSound' <=> SearchSound
    BY <2>1 DEF SearchSound, QueueOrdered, OnlyQueuedToExpand, Frontier, Graph, Depth, Queued, Analyzed
  <2>. QED
    BY <2>2 DEF Inductive
<1>. QED
  BY <1>1, <1>2, <1>3, <1>4, SearchBegin, SearchVisit DEF Next, Step, Inductive

-----------------------------------------------------------------------------
\* A path that goes on by one call.
LEMMA CallsOfAppend ==
  ASSUME TypeInv, NEW p \in Seq(Symbol), p # <<>>,
         NEW e \in input.graph, e.source = p[Len(p)]
  PROVE  CallsOf(Append(p, e.target)) = CallsOf(p) \cup {e}
<1>. DEFINE q == Append(p, e.target)
            n == Len(p)
<1>1. e.target \in Symbol /\ \A d \in input.graph : d.source = e.source /\ d.target = e.target => d = e
  BY CaseType
<1>2. /\ n \in Nat /\ n >= 1 /\ Len(q) = n + 1 /\ q[n + 1] = e.target
      /\ \A i \in 1 .. n : q[i] = p[i]
  BY <1>1
<1>. HIDE DEF q, n
<1>3. ASSUME NEW d \in CallsOf(q)
      PROVE  d \in CallsOf(p) \cup {e}
  <2>1. PICK i \in 1 .. Len(q) - 1 : d.source = q[i] /\ d.target = q[i + 1]
    BY DEF CallsOf
  <2>2. d \in input.graph
    BY DEF CallsOf
  <2>3. CASE i = n
    BY <1>1, <1>2, <2>1, <2>2, <2>3 DEF n
  <2>4. CASE i # n
    <3>1. i \in 1 .. Len(p) - 1 /\ i \in 1 .. n /\ i + 1 \in 1 .. n
      BY <1>2, <2>4 DEF n
    <3>2. d.source = p[i] /\ d.target = p[i + 1]
      BY <1>2, <2>1, <3>1
    <3>. QED
      BY <2>2, <3>1, <3>2 DEF CallsOf
  <2>. QED
    BY <2>3, <2>4
<1>4. ASSUME NEW d \in CallsOf(p)
      PROVE  d \in CallsOf(q)
  <2>1. PICK i \in 1 .. Len(p) - 1 : d.source = p[i] /\ d.target = p[i + 1]
    BY DEF CallsOf
  <2>2. i \in 1 .. Len(q) - 1 /\ i \in 1 .. n /\ i + 1 \in 1 .. n
    BY <1>2 DEF n
  <2>3. d.source = q[i] /\ d.target = q[i + 1]
    BY <1>2, <2>1, <2>2
  <2>. QED
    BY <2>2, <2>3 DEF CallsOf
<1>5. e \in CallsOf(q)
  <2>1. n \in 1 .. Len(q) - 1 /\ e.source = q[n] /\ e.target = q[n + 1]
    BY <1>2 DEF n
  <2>. QED
    BY <2>1 DEF CallsOf
<1>. QED
  BY <1>3, <1>4, <1>5 DEF q

LEMMA PathsVisit ==
  ASSUME TypeInv, PathsStart, PathsReal, Visit
  PROVE  (PathsStart /\ PathsReal)'
<1>. DEFINE h == queue[1]
            Real(path, provenance) ==
              /\ path[1] \in Frontier
              /\ \A i \in 1 .. Len(path) - 1 :
                   \E e \in input.graph : e.source = path[i] /\ e.target = path[i + 1]
              /\ provenance = "direct_call" <=> \A e \in CallsOf(path) : e.provenance = "direct_call"
<1>1. /\ input' = input /\ Frontier' = Frontier
      /\ \A path : CallsOf(path)' = CallsOf(path)
  BY DEF Visit, Frontier, CallsOf
<1>2. \A s \in DOMAIN visited : visited[s].path # <<>> /\ visited[s].path \in Seq(Symbol)
  BY DEF PathsStart, TypeInv, ImpactTypeOK
<1>3. \A s \in DOMAIN visited :
        Real(visited[s].path, visited[s].provenance) /\ visited[s].path[Len(visited[s].path)] = s
  BY DEF PathsReal
<1>4. ASSUME NEW s \in DOMAIN visited'
      PROVE  /\ visited'[s].path # <<>>
             /\ Real(visited'[s].path, visited'[s].provenance)
             /\ visited'[s].path[Len(visited'[s].path)] = s
  <2>1. CASE s \in DOMAIN visited
    <3>1. visited'[s] = visited[s]
      BY <2>1, VisitStep
    <3>. QED
      BY <1>2, <1>3, <2>1, <3>1
  <2>2. CASE s \notin DOMAIN visited
    <3>1. PICK e \in input.graph : e.source = h /\ e.target = s /\ visited'[s] = Reached(e)
      BY <2>2, VisitStep
    <3>. DEFINE p == visited[h].path
                q == Append(p, s)
    <3>2. h \in DOMAIN visited
      BY VisitStep
    <3>3. /\ p \in Seq(Symbol) /\ p # <<>> /\ p[Len(p)] = h
          /\ Real(p, visited[h].provenance) /\ visited[h].provenance \in Provenance
      BY <1>2, <1>3, <3>2 DEF TypeInv, ImpactTypeOK
    <3>4. s \in Symbol /\ e.provenance \in Provenance
      BY <3>1, CaseType
    <3>5. visited'[s].path = q /\ visited'[s].provenance = WeakerOf(visited[h].provenance, e.provenance)
      BY <3>1 DEF Reached
    <3>6. CallsOf(q) = CallsOf(p) \cup {e}
      <4>. HIDE DEF p
      <4>. QED
        BY <3>1, <3>3, CallsOfAppend
    <3>. HIDE DEF p
    <3>7. /\ q # <<>> /\ Len(q) = Len(p) + 1 /\ q[Len(q)] = s /\ Len(p) \in Nat /\ Len(p) >= 1
          /\ \A i \in 1 .. Len(p) : q[i] = p[i]
      BY <3>3, <3>4
    <3>. HIDE DEF q
    <3>8. q[1] \in Frontier
      BY <3>3, <3>7
    <3>9. ASSUME NEW i \in 1 .. Len(q) - 1
          PROVE  \E d \in input.graph : d.source = q[i] /\ d.target = q[i + 1]
      <4>1. CASE i = Len(p)
        <5>1. e.source = q[i] /\ e.target = q[i + 1]
          BY <3>1, <3>3, <3>7, <4>1
        <5>. QED
          BY <5>1
      <4>2. CASE i # Len(p)
        <5>1. i \in 1 .. Len(p) - 1 /\ q[i] = p[i] /\ q[i + 1] = p[i + 1]
          BY <3>7, <4>2
        <5>. QED
          BY <3>3, <5>1
      <4>. QED
        BY <4>1, <4>2
    <3>10. WeakerOf(visited[h].provenance, e.provenance) = "direct_call" <=>
             \A d \in CallsOf(q) : d.provenance = "direct_call"
      <4>1. visited[h].provenance = "direct_call" <=> \A d \in CallsOf(p) : d.provenance = "direct_call"
        BY <3>3
      <4>2. WeakerOf(visited[h].provenance, e.provenance) = "direct_call" <=>
              visited[h].provenance = "direct_call" /\ e.provenance = "direct_call"
        BY <3>3, <3>4 DEF WeakerOf, Provenance
      <4>. QED
        BY <3>6, <4>1, <4>2
    <3>. QED
      BY <3>5, <3>7, <3>8, <3>9, <3>10
  <2>. QED
    BY <2>1, <2>2
<1>5. PathsStart'
  BY <1>4 DEF PathsStart
<1>6. PathsReal'
  BY <1>1, <1>4 DEF PathsReal
<1>. QED
  BY <1>5, <1>6

LEMMA PathsBegin ==
  ASSUME TypeInv, BeginSearch, Frontier # {}
  PROVE  (PathsStart /\ PathsReal)'
<1>1. /\ input' = input /\ Frontier' = Frontier
      /\ DOMAIN visited' = Frontier
      /\ \A s \in Frontier : visited'[s] = [path |-> <<s>>, provenance |-> "direct_call"]
  BY SearchBegins DEF BeginSearch, Frontier
<1>2. \A s : CallsOf(<<s>>)' = {}
  BY DEF CallsOf
<1>3. \A s \in DOMAIN visited' : visited'[s].path = <<s>> /\ visited'[s].provenance = "direct_call"
  BY <1>1
<1>. QED
  BY <1>1, <1>2, <1>3 DEF PathsStart, PathsReal

LEMMA PathsStep ==
  ASSUME Inductive, [Next]_vars
  PROVE  (PathsStart /\ PathsReal)'
<1>1. CASE DOMAIN visited' = {}
  BY <1>1 DEF PathsStart, PathsReal
<1>2. CASE UNCHANGED <<input, kinds, visited>>
  BY <1>2 DEF PathsStart, PathsReal, CallsOf, Frontier, Inductive
<1>3. MapDiff \/ Classify \/ ClassifyBlindly => DOMAIN visited' = {}
  BY DEF MapDiff, Classify, ClassifyBlindly, Inductive, TypeInv, StepsInOrder
<1>4. Report \/ Exit \/ UNCHANGED vars \/ (BeginSearch /\ Frontier = {}) => UNCHANGED <<input, kinds, visited>>
  BY DEF Report, Exit, vars, BeginSearch
<1>. QED
  BY <1>1, <1>2, <1>3, <1>4, PathsBegin, PathsVisit DEF Next, Step, Inductive

-----------------------------------------------------------------------------
\* The frontier is visited first, each symbol with itself as its path.
LEMMA StartsStep ==
  ASSUME Inductive, [Next]_vars
  PROVE  StartsAtFrontier'
<1>1. CASE MapDiff
  <2>1. DOMAIN kinds' = {}
    BY <1>1 DEF MapDiff, Inductive, TypeInv, StepsInOrder
  <2>. QED
    BY <2>1 DEF StartsAtFrontier, Frontier
<1>2. CASE Classify \/ ClassifyBlindly \/ Exit
  BY <1>2 DEF Classify, ClassifyBlindly, Exit, StartsAtFrontier, Analyzed
<1>3. CASE BeginSearch
  <2>1. Frontier' = Frontier
    BY <1>3 DEF BeginSearch, Frontier
  <2>3. \A s \in Frontier : Len(visited'[s].path) <= 1
    <3>. SUFFICES ASSUME NEW s \in Frontier PROVE Len(visited'[s].path) <= 1
      OBVIOUS
    <3>1. TypeInv /\ Frontier # {}
      BY DEF Inductive
    <3>2. \A t \in Frontier : visited'[t] = [path |-> <<t>>, provenance |-> "direct_call"]
      BY <1>3, <3>1, SearchBegins
    <3>3. visited'[s] = [path |-> <<s>>, provenance |-> "direct_call"]
      BY <3>2
    <3>4. visited'[s].path = <<s>>
      BY <3>3
    <3>. QED
      BY <3>4
  <2>4. \A s \in Frontier' : Len(visited'[s].path) <= 1
    BY <2>1, <2>3
  <2>. QED
    BY <2>4 DEF StartsAtFrontier, Depth
<1>4. CASE Visit
  <2>1. Frontier' = Frontier /\ Analyzed
    BY <1>4 DEF Visit, Frontier, Analyzed
  <2>2. Frontier \subseteq DOMAIN visited /\ \A s \in DOMAIN visited : visited'[s] = visited[s]
    BY <1>4, <2>1, VisitStep DEF Inductive, SearchSound
  <2>. QED
    BY <2>1, <2>2 DEF StartsAtFrontier, Depth, Inductive
<1>5. CASE Report \/ UNCHANGED vars
  BY <1>5 DEF Report, vars, StartsAtFrontier, Frontier, Analyzed, Depth, Inductive
<1>. QED
  BY <1>1, <1>2, <1>3, <1>4, <1>5 DEF Next, Step

LEMMA InductiveHolds == Spec => []Inductive
<1>1. Init => Inductive
  <2>. SUFFICES ASSUME Init PROVE Inductive
    OBVIOUS
  <2>1. DOMAIN visited = {} /\ at = "diff"
    BY DEF Init, Empty
  <2>. QED
    BY <2>1, TypeInit DEF Inductive, PathsStart, PathsReal, SearchSound, StartsAtFrontier, Analyzed
<1>2. Inductive /\ [Next]_vars => Inductive'
  BY TypeStep, SearchStep, PathsStep, StartsStep DEF Inductive
<1>. QED
  BY <1>1, <1>2, PTL DEF Spec

(***************************************************************************)
(* reach.go: whatever the call graph and the order of edges and of the     *)
(* frontier, the search ends with exactly what the frontier reaches.       *)
(***************************************************************************)
THEOREM SearchIsExact == Spec => []ReachedExactly
<1>1. Inductive => ReachedExactly
  <2>. SUFFICES ASSUME Inductive, at = "done"
                PROVE  DOMAIN visited = R!LeastFixpoint(Graph, Frontier)
    BY DEF ReachedExactly, Reaches, Graph
  <2>1. queue = <<>> /\ Analyzed
    BY DEF Inductive, TypeInv, StepsInOrder, Analyzed
  <2>2. Frontier \subseteq DOMAIN visited /\ OnlyQueuedToExpand /\ DOMAIN visited \subseteq R!LeastFixpoint(Graph, Frontier)
    BY <2>1 DEF Inductive, SearchSound
  <2>3. \A e \in input.graph : e.source \in DOMAIN visited => e.target \in DOMAIN visited
    BY <2>1, <2>2 DEF OnlyQueuedToExpand, Queued
  <2>4. R!Closed(DOMAIN visited, Graph)
    BY <2>3 DEF R!Closed, Graph
  <2>5. DOMAIN visited \in SUBSET Symbol
    BY DEF Inductive, TypeInv, ImpactTypeOK
  <2>. QED
    BY <2>2, <2>4, <2>5, ReachedLeast
<1>. QED
  BY InductiveHolds, <1>1, PTL

(***************************************************************************)
(* Every path that is reported exists in the graph, starts at a changed    *)
(* function, and has the confidence of its weakest call.                   *)
(***************************************************************************)
THEOREM PathsAreReal == Spec => []PathsReal
<1>1. Inductive => PathsReal
  BY DEF Inductive
<1>. QED
  BY InductiveHolds, <1>1, PTL

(***************************************************************************)
(* And it is a shortest one: the search is breadth-first because the queue *)
(* stays ordered by depth.                                                 *)
(***************************************************************************)
THEOREM PathsAreShortest == Spec => []DepthsShortest
<1>1. Inductive => DepthsShortest
  <2>. SUFFICES ASSUME Inductive, at = "done",
                       NEW s \in DOMAIN visited, NEW k \in 1 .. Depth(s) - 1, NEW w \in Walks(k, s)
                PROVE  FALSE
    BY DEF DepthsShortest, Depth
  <2>1. /\ queue = <<>> /\ OnlyQueuedToExpand /\ Frontier \subseteq DOMAIN visited
        /\ \A t \in DOMAIN visited : Depth(t) \in Nat
    BY DEF Inductive, TypeInv, ImpactTypeOK, StepsInOrder, SearchSound, Analyzed, Depth
  <2>2. \A e \in input.graph : e.source \in DOMAIN visited =>
          e.target \in DOMAIN visited /\ Depth(e.target) <= Depth(e.source) + 1
    BY <2>1 DEF OnlyQueuedToExpand, Queued
  <2>3. /\ k \in Nat /\ 1 \in 1 .. k /\ k \in 1 .. k /\ k < Depth(s)
        /\ w[1] \in Frontier /\ w[k] = s
        /\ \A i \in 1 .. k - 1 : \E e \in input.graph : e.source = w[i] /\ e.target = w[i + 1]
    BY <2>1 DEF Walks
  <2>4. \A t \in Frontier : Depth(t) <= 1
    BY DEF Inductive, StartsAtFrontier, Analyzed
  <2>. DEFINE Late == {i \in 1 .. k : w[i] \notin DOMAIN visited \/ ~(Depth(w[i]) <= i)}
  <2>5. k \in Late
    BY <2>1, <2>3
  <2>6. PICK i \in Late : \A j \in Late : i <= j
    <3>1. Late \subseteq Nat /\ Late # {}
      BY <2>5
    <3>. HIDE DEF Late
    <3>. QED
      BY <3>1, Least
  <2>7. i # 1
    BY <2>1, <2>3, <2>4
  <2>8. i - 1 \in 1 .. k - 1 /\ i - 1 \notin Late /\ i \in Nat /\ (i - 1) + 1 = i
    BY <2>3, <2>6, <2>7
  <2>9. w[i - 1] \in DOMAIN visited /\ Depth(w[i - 1]) <= i - 1
    BY <2>3, <2>8
  <2>10. PICK e \in input.graph : e.source = w[i - 1] /\ e.target = w[(i - 1) + 1]
    BY <2>3, <2>8
  <2>11. e.target = w[i]
    BY <2>8, <2>10
  <2>12. w[i] \in DOMAIN visited /\ Depth(w[i]) <= Depth(w[i - 1]) + 1
    BY <2>2, <2>9, <2>10, <2>11
  <2>13. Depth(w[i]) \in Nat /\ Depth(w[i - 1]) \in Nat
    BY <2>1, <2>9, <2>12
  <2>14. Depth(w[i]) <= i
    BY <2>8, <2>9, <2>12, <2>13
  <2>. QED
    BY <2>6, <2>12, <2>14
<1>. QED
  BY InductiveHolds, <1>1, PTL

-----------------------------------------------------------------------------
(* What the classifier tells apart.                                         *)

\* The parts of a declaration, and what the compiler grants.
LEMMA DeclParts ==
  ASSUME NEW d \in Decl
  PROVE  /\ d.params \in Seq(Param) /\ d.body \in Seq(Token) /\ Compiles(d)
         /\ Len(d.params) \in Nat /\ Len(d.body) \in Nat
         /\ DOMAIN d.params = 1 .. Len(d.params) /\ DOMAIN d.body = 1 .. Len(d.body)
         /\ \A j \in 1 .. Len(d.params) : d.params[j] \in Param
         /\ \A i \in 1 .. Len(d.body) : d.body[i] \in Token
<1>1. d.params \in Seq(Param) /\ d.body \in Seq(Token) /\ Compiles(d)
  BY DEF Decl
<1>. QED
  BY <1>1

\* Turns are positive, and there are only so many.
LEMMA NamesFinite ==
  ASSUME NEW d \in Decl
  PROVE  /\ Turns(d) \subseteq Nat \ {0} /\ IsFiniteSet(Turns(d))
         /\ \A a \in Turns(d) : \A b \in 1 .. a : b \in Turns(d)
         /\ NewNames(d) \subseteq Turns(d) /\ IsFiniteSet(NewNames(d))
<1>1. Len(d.params) + Len(d.body) \in Nat
  <2>. DEFINE j == Len(d.params)
              k == Len(d.body)
  <2>1. j \in Nat /\ k \in Nat
    BY DeclParts
  <2>. HIDE DEF j, k
  <2>2. j + k \in Nat
    BY <2>1
  <2>. QED
    BY <2>2 DEF j, k
<1>. DEFINE n == Len(d.params) + Len(d.body)
<1>. HIDE DEF n
<1>2. Turns(d) = 1 .. n /\ n \in Nat
  BY <1>1 DEF Turns, n
<1>3. IsFiniteSet(1 .. n)
  BY <1>2, FS_Interval
<1>4. NewNames(d) \subseteq Turns(d)
  BY DEF NewNames
<1>. QED
  BY <1>2, <1>3, <1>4, FS_Subset

\* Of two names, the one that is met later has the greater number.
LEMMA LaterGreater ==
  ASSUME NEW d \in Decl, NEW n, NEW m,
         NEW a \in Turns(d), Offered(d, a) = n, n # Blank, \A b \in 1 .. a - 1 : Offered(d, b) # n,
         NEW c \in Turns(d), \A b \in 1 .. c - 1 : Offered(d, b) # m,
         a < c
  PROVE  Placeholder(d, n) # Placeholder(d, m)
<1>. DEFINE Before(x) == {y \in NewNames(d) : \A b \in 1 .. y : Offered(d, b) # x}
<1>1. a \in Nat \ {0} /\ c \in Nat \ {0} /\ NewNames(d) \subseteq Nat \ {0} /\ IsFiniteSet(NewNames(d))
  BY NamesFinite
<1>2. a \in NewNames(d)
  BY DEF NewNames
<1>3. ASSUME NEW y \in Before(n) PROVE y \in Before(m)
  <2>1. y \in Nat \ {0} /\ y \in NewNames(d) /\ \A b \in 1 .. y : Offered(d, b) # n
    BY <1>1
  <2>2. y < a
    BY <1>1, <2>1
  <2>3. \A b \in 1 .. y : b \in 1 .. c - 1
    BY <1>1, <2>1, <2>2
  <2>. QED
    BY <2>1, <2>3
<1>4. a \in Before(m) /\ a \notin Before(n)
  BY <1>1, <1>2
<1>5. Before(m) \subseteq NewNames(d)
  OBVIOUS
<1>. HIDE DEF Before
<1>6. IsFiniteSet(Before(m))
  BY <1>1, <1>5, FS_Subset
<1>7. Before(n) \in SUBSET Before(m) /\ Before(m) # Before(n)
  BY <1>3, <1>4
<1>8. Cardinality(Before(m)) # Cardinality(Before(n))
  BY <1>6, <1>7, FS_Subset
<1>. QED
  BY <1>8 DEF Placeholder, Before

\* A number stands for one name.
LEMMA PlaceholderTells ==
  ASSUME NEW d \in Decl, NEW n \in LocalNames(d), NEW m \in LocalNames(d),
         Placeholder(d, n) = Placeholder(d, m)
  PROVE  n = m
<1>. SUFFICES ASSUME n # m PROVE FALSE
  OBVIOUS
<1>1. ASSUME NEW x \in LocalNames(d)
      PROVE  \E a \in Turns(d) : Offered(d, a) = x /\ x # Blank /\ \A b \in 1 .. a - 1 : Offered(d, b) # x
  <2>. DEFINE Named == {a \in Turns(d) : Offered(d, a) = x}
  <2>1. Named # {} /\ x # Blank
    BY DEF LocalNames
  <2>2. Named \in SUBSET Nat
    BY NamesFinite
  <2>3. PICK a \in Named : \A b \in Named : a <= b
    <3>. HIDE DEF Named
    <3>. QED
      BY <2>1, <2>2, Least
  <2>4. \A b \in 1 .. a - 1 : b \in Turns(d) /\ b < a
    BY NamesFinite
  <2>5. \A b \in 1 .. a - 1 : Offered(d, b) # x
    <3>. SUFFICES ASSUME NEW b \in 1 .. a - 1, Offered(d, b) = x PROVE FALSE
      OBVIOUS
    <3>1. b \in Named /\ b < a
      BY <2>4
    <3>. QED
      BY <2>2, <2>3, <3>1
  <2>. QED
    BY <2>1, <2>3, <2>5
<1>2. PICK a \in Turns(d) : Offered(d, a) = n /\ n # Blank /\ \A b \in 1 .. a - 1 : Offered(d, b) # n
  BY <1>1
<1>3. PICK c \in Turns(d) : Offered(d, c) = m /\ m # Blank /\ \A b \in 1 .. c - 1 : Offered(d, b) # m
  BY <1>1
<1>4. a # c /\ a \in Nat /\ c \in Nat
  BY <1>2, <1>3, NamesFinite
<1>5. CASE a < c
  BY <1>2, <1>3, <1>5, LaterGreater
<1>6. CASE c < a
  BY <1>2, <1>3, <1>6, LaterGreater
<1>. QED
  BY <1>4, <1>5, <1>6

\* A parameter's number is the number of named parameters before it.
LEMMA ParamNumber ==
  ASSUME NEW d \in Decl, NEW j \in DOMAIN d.params, d.params[j].name # Blank
  PROVE  /\ d.params[j].name \in LocalNames(d)
         /\ Placeholder(d, d.params[j].name) = Cardinality({a \in 1 .. j - 1 : d.params[a].name # Blank})
<1>. DEFINE n == d.params[j].name
            before == {a \in NewNames(d) : \A b \in 1 .. a : Offered(d, b) # n}
            named == {a \in 1 .. j - 1 : d.params[a].name # Blank}
<1>1. /\ Len(d.params) \in Nat /\ Len(d.body) \in Nat /\ j \in 1 .. Len(d.params)
      /\ \A i, k \in 1 .. Len(d.params) :
           d.params[i].name = d.params[k].name => i = k \/ d.params[i].name = Blank
  BY DeclParts DEF Compiles
<1>2. \A a \in 1 .. Len(d.params) : Offered(d, a) = d.params[a].name /\ a \in Turns(d)
  <2>. SUFFICES ASSUME NEW a \in 1 .. Len(d.params)
                PROVE  Offered(d, a) = d.params[a].name /\ a \in Turns(d)
    OBVIOUS
  <2>. DEFINE h == Len(d.params)
              k == Len(d.body)
  <2>1. h \in Nat /\ k \in Nat /\ a \in 1 .. h
    BY <1>1
  <2>. HIDE DEF h, k
  <2>2. a <= h /\ a \in 1 .. h + k
    BY <2>1
  <2>. QED
    BY <2>2 DEF Offered, Turns, h, k
<1>3. n \in LocalNames(d)
  BY <1>1, <1>2 DEF LocalNames
<1>4. ASSUME NEW a \in before PROVE a \in named
  <2>1. a \in Nat \ {0} /\ a \in NewNames(d) /\ Offered(d, a) # Blank
    BY NamesFinite DEF NewNames
  <2>2. a < j
    BY <1>1, <1>2, <2>1
  <2>. QED
    BY <1>1, <1>2, <2>1, <2>2
<1>5. ASSUME NEW a \in named PROVE a \in before
  <2>1. a \in 1 .. Len(d.params) /\ a < j /\ d.params[a].name # Blank /\ \A b \in 1 .. a : b \in 1 .. Len(d.params)
    BY <1>1
  <2>2. a \in NewNames(d)
    BY <1>1, <1>2, <2>1 DEF NewNames
  <2>3. \A b \in 1 .. a : Offered(d, b) # n
    BY <1>1, <1>2, <2>1
  <2>. QED
    BY <2>2, <2>3
<1>6. before = named
  BY <1>4, <1>5
<1>. QED
  BY <1>3, <1>6 DEF Placeholder

\* Parameters with the same blanks have the same numbers.
LEMMA SameNumbers ==
  ASSUME NEW q \in Decl, NEW r \in Decl, Len(q.params) = Len(r.params), ~BlanksMoved(q, r),
         NEW j \in DOMAIN q.params, q.params[j].name # Blank
  PROVE  /\ j \in DOMAIN r.params /\ r.params[j].name # Blank
         /\ Placeholder(q, q.params[j].name) = Placeholder(r, r.params[j].name)
<1>1. /\ DOMAIN q.params = DOMAIN r.params /\ DOMAIN q.params = 1 .. Len(q.params) /\ Len(q.params) \in Nat
  BY DeclParts
<1>2. \A a \in DOMAIN q.params : q.params[a].name = Blank <=> r.params[a].name = Blank
  BY <1>1 DEF BlanksMoved
<1>3. {a \in 1 .. j - 1 : q.params[a].name # Blank} = {a \in 1 .. j - 1 : r.params[a].name # Blank}
  BY <1>1, <1>2
<1>4. r.params[j].name # Blank /\ j \in DOMAIN r.params
  BY <1>1, <1>2
<1>5. Placeholder(q, q.params[j].name) = Cardinality({a \in 1 .. j - 1 : q.params[a].name # Blank})
  BY ParamNumber
<1>6. Placeholder(r, r.params[j].name) = Cardinality({a \in 1 .. j - 1 : r.params[a].name # Blank})
  BY <1>4, ParamNumber
<1>. QED
  BY <1>3, <1>4, <1>5, <1>6

\* Two bodies of one hash: the same words, and identifiers that are local names
\* in both, with one number, or in neither, with one text.
LEMMA HashAlike ==
  ASSUME NEW q \in Decl, NEW r \in Decl, FuncHash(q) = FuncHash(r)
  PROVE  /\ DOMAIN q.body = DOMAIN r.body /\ Len(q.body) = Len(r.body)
         /\ \A i \in DOMAIN q.body :
              LET t == q.body[i]
                  u == r.body[i]
              IN /\ t.kind = u.kind
                 /\ t.kind = "word" => t.text = u.text
                 /\ t.kind # "word" =>
                      \/ t.text \in LocalNames(q) /\ u.text \in LocalNames(r)
                         /\ Placeholder(q, t.text) = Placeholder(r, u.text)
                      \/ t.text \notin LocalNames(q) /\ u.text \notin LocalNames(r) /\ t.text = u.text
<1>. DEFINE Mask(d, i) ==
       IF d.body[i].kind # "word" /\ d.body[i].text \in LocalNames(d)
         THEN [kind |-> d.body[i].kind, text |-> "_v", index |-> Placeholder(d, d.body[i].text)]
         ELSE [kind |-> d.body[i].kind, text |-> d.body[i].text, index |-> 0]
<1>1. DOMAIN FuncHash(q) = DOMAIN q.body /\ DOMAIN FuncHash(r) = DOMAIN r.body
  BY DEF FuncHash
<1>2. \A i \in DOMAIN q.body : FuncHash(q)[i] = Mask(q, i)
  BY DEF FuncHash
<1>3. \A i \in DOMAIN r.body : FuncHash(r)[i] = Mask(r, i)
  BY DEF FuncHash
<1>4. DOMAIN q.body = DOMAIN r.body
  BY <1>1
<1>5. Len(q.body) = Len(r.body)
  BY <1>4, DeclParts
<1>6. \A i \in DOMAIN q.body : q.body[i].text # "_v" /\ r.body[i].text # "_v"
  <2>1. \A i \in DOMAIN q.body : q.body[i] \in Token /\ r.body[i] \in Token
    BY <1>4, DeclParts
  <2>. QED
    BY <2>1, PlaceholdersApart DEF Token
<1>7. ASSUME NEW i \in DOMAIN q.body
      PROVE  /\ q.body[i].kind = r.body[i].kind
             /\ q.body[i].kind = "word" => q.body[i].text = r.body[i].text
             /\ q.body[i].kind # "word" =>
                  \/ q.body[i].text \in LocalNames(q) /\ r.body[i].text \in LocalNames(r)
                     /\ Placeholder(q, q.body[i].text) = Placeholder(r, r.body[i].text)
                  \/ q.body[i].text \notin LocalNames(q) /\ r.body[i].text \notin LocalNames(r)
                     /\ q.body[i].text = r.body[i].text
  <2>1. Mask(q, i) = Mask(r, i)
    BY <1>2, <1>3, <1>4
  <2>2. Mask(q, i).kind = q.body[i].kind /\ Mask(r, i).kind = r.body[i].kind
    OBVIOUS
  <2>3. Mask(q, i).text = "_v" <=> q.body[i].kind # "word" /\ q.body[i].text \in LocalNames(q)
    BY <1>6
  <2>4. Mask(r, i).text = "_v" <=> r.body[i].kind # "word" /\ r.body[i].text \in LocalNames(r)
    BY <1>6
  <2>5. Mask(q, i).text # "_v" => Mask(q, i).text = q.body[i].text
    OBVIOUS
  <2>6. Mask(r, i).text # "_v" => Mask(r, i).text = r.body[i].text
    OBVIOUS
  <2>7. Mask(q, i).text = "_v" => Mask(q, i).index = Placeholder(q, q.body[i].text)
    BY <1>6
  <2>8. Mask(r, i).text = "_v" => Mask(r, i).index = Placeholder(r, r.body[i].text)
    BY <1>6
  <2>. HIDE DEF Mask
  <2>. QED
    BY <2>1, <2>2, <2>3, <2>4, <2>5, <2>6, <2>7, <2>8
<1>. QED
  BY <1>4, <1>5, <1>7
\* Under one hash, what is spelled like an identifier in one version is spelled
\* like it in the other.
LEMMA SpelledOneWay ==
  ASSUME NEW q \in Decl, NEW r \in Decl, FuncHash(q) = FuncHash(r),
         Len(q.params) = Len(r.params), ~BlanksMoved(q, r),
         NEW i \in DOMAIN q.body, q.body[i].kind # "word",
         NEW a \in Turns(q), NameOf(q, a) = q.body[i].text
  PROVE  NameOf(r, a) = r.body[i].text
<1>. DEFINE n == q.body[i].text
            m == r.body[i].text
<1>1. /\ n # Blank /\ m # Blank /\ i \in DOMAIN r.body /\ r.body[i].kind # "word"
  <2>1. i \in DOMAIN r.body /\ r.body[i].kind = q.body[i].kind
    BY HashAlike
  <2>. QED
    BY <2>1, DeclParts DEF Compiles
<1>2. \/ n \in LocalNames(q) /\ m \in LocalNames(r) /\ Placeholder(q, n) = Placeholder(r, m)
      \/ n \notin LocalNames(q) /\ m \notin LocalNames(r) /\ n = m
  BY HashAlike
<1>3. CASE a <= Len(q.params)
  <2>1. a \in DOMAIN q.params
    <3>1. a \in Nat \ {0} /\ Len(q.params) \in Nat /\ DOMAIN q.params = 1 .. Len(q.params)
      BY NamesFinite, DeclParts
    <3>. QED
      BY <1>3, <3>1
  <2>2. q.params[a].name = n /\ NameOf(r, a) = r.params[a].name
    BY <1>3 DEF NameOf
  <2>3. n \in LocalNames(q)
    BY <1>1, <2>1, <2>2, ParamNumber
  <2>4. /\ a \in DOMAIN r.params /\ r.params[a].name # Blank
        /\ Placeholder(q, n) = Placeholder(r, r.params[a].name)
    BY <1>1, <2>1, <2>2, SameNumbers
  <2>5. r.params[a].name \in LocalNames(r)
    BY <2>4, ParamNumber
  <2>6. m \in LocalNames(r) /\ Placeholder(r, r.params[a].name) = Placeholder(r, m)
    BY <1>2, <2>3, <2>4
  <2>. HIDE DEF m
  <2>7. r.params[a].name = m
    BY <2>5, <2>6, PlaceholderTells
  <2>. QED
    BY <2>2, <2>7 DEF m
<1>4. CASE ~(a <= Len(q.params))
  <2>. DEFINE k == a - Len(q.params)
  <2>1. q.body[k].kind # "word" /\ q.body[k].text = n
    BY <1>1, <1>4 DEF NameOf
  <2>2. k \in DOMAIN q.body
    <3>. DEFINE h == Len(q.params)
                l == Len(q.body)
    <3>1. h \in Nat /\ l \in Nat /\ DOMAIN q.body = 1 .. l
      BY DeclParts
    <3>2. a \in 1 .. h + l
      BY DEF Turns
    <3>3. a > h
      BY <1>4, <3>1, <3>2
    <3>. HIDE DEF h, l
    <3>4. a - h \in 1 .. l
      BY <3>1, <3>2, <3>3
    <3>. QED
      BY <3>1, <3>4 DEF h
  <2>. HIDE DEF k
  <2>3. /\ r.body[k].kind = q.body[k].kind
        /\ \/ n \in LocalNames(q) /\ r.body[k].text \in LocalNames(r)
              /\ Placeholder(q, n) = Placeholder(r, r.body[k].text)
           \/ n \notin LocalNames(q) /\ r.body[k].text \notin LocalNames(r) /\ n = r.body[k].text
    BY <2>1, <2>2, HashAlike
  <2>4. r.body[k].text = m
    <3>1. CASE n \in LocalNames(q)
      <4>1. /\ m \in LocalNames(r) /\ r.body[k].text \in LocalNames(r)
            /\ Placeholder(r, m) = Placeholder(r, r.body[k].text)
        BY <1>2, <2>3, <3>1
      <4>. HIDE DEF m, n
      <4>. QED
        BY <4>1, PlaceholderTells
    <3>2. CASE n \notin LocalNames(q)
      BY <1>2, <2>3, <3>2
    <3>. QED
      BY <3>1, <3>2
  <2>5. NameOf(r, a) = r.body[k].text
    BY <1>4, <2>1, <2>3 DEF NameOf, k
  <2>. QED
    BY <2>4, <2>5
<1>. QED
  BY <1>3, <1>4

\* What looks trivial is, but for the causes named.
LEMMA TrivialRight ==
  ASSUME NEW q \in Decl, NEW r \in Decl, Scoped(q, r),
         Compare(q, r) = "trivial", ~MayHide(q, r)
  PROVE  Behaviour(q) = Behaviour(r)
<1>1. PrintSignature(q) = PrintSignature(r) /\ FuncHash(q) = FuncHash(r)
  BY DEF Compare
<1>2. /\ q.receiver = r.receiver /\ q.receiver.name \notin LocalNames(q) /\ r.receiver.name \notin LocalNames(r)
      /\ ~Regrouped(q, r) /\ ~BlanksMoved(q, r) /\ ~OutsideReplaced(q, r)
  BY DEF MayHide, ReceiverChanged, ReceiverHidden
<1>3. /\ DOMAIN q.params = DOMAIN r.params
      /\ \A j \in DOMAIN q.params : q.params[j].field = r.params[j].field
  <2>. DEFINE F == [i \in DOMAIN q.params |-> q.params[i].field]
              G == [i \in DOMAIN r.params |-> r.params[i].field]
  <2>1. F = G
    BY <1>2 DEF Regrouped
  <2>2. DOMAIN F = DOMAIN q.params /\ DOMAIN G = DOMAIN r.params
    OBVIOUS
  <2>3. \A j \in DOMAIN q.params : F[j] = q.params[j].field
    OBVIOUS
  <2>4. \A j \in DOMAIN r.params : G[j] = r.params[j].field
    OBVIOUS
  <2>. HIDE DEF F, G
  <2>. QED
    BY <2>1, <2>2, <2>3, <2>4
<1>4. Len(q.params) = Len(r.params) /\ ~BlanksMoved(r, q)
  BY <1>2, <1>3, DeclParts DEF BlanksMoved
<1>5. ASSUME NEW j \in DOMAIN q.params
      PROVE  q.params[j].role = r.params[j].role /\ q.params[j].type = r.params[j].type
  <2>1. <<q.params[j].role, q.params[j].field, q.params[j].type>> \in PrintSignature(r)
    BY <1>1 DEF PrintSignature
  <2>2. PICK i \in DOMAIN r.params :
          <<q.params[j].role, q.params[j].field, q.params[j].type>> = <<r.params[i].role, r.params[i].field, r.params[i].type>>
    BY <2>1 DEF PrintSignature
  <2>3. r.params[i].field = r.params[j].field /\ j \in DOMAIN r.params
    BY <1>3, <2>2
  <2>4. r.params[i].role = r.params[j].role /\ r.params[i].type = r.params[j].type
    BY <2>3, DeclParts DEF Compiles
  <2>. QED
    BY <2>2, <2>4
<1>6. /\ DOMAIN q.body = DOMAIN r.body /\ Len(q.body) = Len(r.body)
      /\ \A i \in DOMAIN q.body :
           /\ q.body[i].kind = r.body[i].kind
           /\ q.body[i].kind = "word" => q.body[i].text = r.body[i].text
  BY <1>1, HashAlike
<1>7. ASSUME NEW i \in DOMAIN q.body, q.body[i].kind # "word"
      PROVE  q.body[i].refers = r.body[i].refers
  <2>. DEFINE n == q.body[i].text
              m == r.body[i].text
  <2>1. i \in DOMAIN r.body /\ r.body[i].kind # "word"
    BY <1>6, <1>7
  <2>2. q.receiver.name = n <=> r.receiver.name = m
    <3>1. \/ n \in LocalNames(q) /\ m \in LocalNames(r)
          \/ n = m
      BY <1>1, <1>7, HashAlike
    <3>. QED
      BY <1>2, <3>1
  <2>3. \A a \in Turns(q) : NameOf(q, a) = n => NameOf(r, a) = m
    BY <1>1, <1>2, <1>4, <1>7, SpelledOneWay
  <2>4. Turns(r) = Turns(q)
    BY <1>4, <1>6 DEF Turns
  <2>5. \A a \in Turns(r) : NameOf(r, a) = m => NameOf(q, a) = n
    BY <1>1, <1>4, <2>1, SpelledOneWay
  <2>6. SpelledAlike(q, n, r, m)
    BY <2>2, <2>3, <2>4, <2>5 DEF SpelledAlike
  <2>. QED
    BY <1>4, <1>6, <1>7, <2>6 DEF Scoped
<1>8. ASSUME NEW i \in DOMAIN q.body
      PROVE  /\ q.body[i].refers = r.body[i].refers
             /\ q.body[i].refers = Outside => q.body[i].text = r.body[i].text
  <2>1. CASE q.body[i].kind = "word"
    BY <1>6, <2>1, DeclParts DEF Compiles
  <2>2. CASE q.body[i].kind # "word"
    <3>1. q.body[i].refers = r.body[i].refers
      BY <1>7, <2>2
    <3>2. q.body[i].text \in LocalNames(q) \/ q.body[i].text = r.body[i].text
      BY <1>1, <2>2, HashAlike
    <3>. QED
      BY <1>2, <1>6, <3>1, <3>2 DEF OutsideReplaced
  <2>. QED
    BY <2>1, <2>2
<1>9. [j \in DOMAIN q.params |-> <<q.params[j].role, q.params[j].type>>]
        = [j \in DOMAIN r.params |-> <<r.params[j].role, r.params[j].type>>]
  BY <1>3, <1>5
<1>10. [i \in DOMAIN q.body |->
          [kind |-> q.body[i].kind, refers |-> q.body[i].refers,
           text |-> IF q.body[i].refers = Outside THEN q.body[i].text ELSE Blank]]
        = [i \in DOMAIN r.body |->
          [kind |-> r.body[i].kind, refers |-> r.body[i].refers,
           text |-> IF r.body[i].refers = Outside THEN r.body[i].text ELSE Blank]]
  BY <1>6, <1>8
<1>. QED
  BY <1>2, <1>9, <1>10 DEF Behaviour
\* A token of the body is at its turn.
LEMMA TokenTurn ==
  ASSUME NEW d \in Decl, NEW i \in DOMAIN d.body
  PROVE  /\ Len(d.params) + i \in Turns(d)
         /\ Offered(d, Len(d.params) + i) = IF d.body[i].kind = "declare" THEN d.body[i].text ELSE Blank
         /\ NameOf(d, Len(d.params) + i) = IF d.body[i].kind = "word" THEN Blank ELSE d.body[i].text
<1>. DEFINE h == Len(d.params)
            l == Len(d.body)
<1>1. h \in Nat /\ l \in Nat /\ i \in 1 .. l
  BY DeclParts
<1>. HIDE DEF h, l
<1>2. h + i \in 1 .. h + l /\ ~(h + i <= h) /\ (h + i) - h = i
  BY <1>1
<1>. QED
  BY <1>2 DEF Turns, Offered, NameOf, h, l

\* A turn is a parameter's or a token's.
LEMMA TurnIsOneOf ==
  ASSUME NEW d \in Decl, NEW a \in Turns(d)
  PROVE  \/ /\ a \in DOMAIN d.params
            /\ Offered(d, a) = d.params[a].name /\ NameOf(d, a) = d.params[a].name
         \/ \E i \in DOMAIN d.body : a = Len(d.params) + i
<1>. DEFINE h == Len(d.params)
            l == Len(d.body)
<1>1. h \in Nat /\ l \in Nat /\ DOMAIN d.params = 1 .. h /\ DOMAIN d.body = 1 .. l
  BY DeclParts
<1>2. a \in 1 .. h + l
  BY DEF Turns
<1>3. CASE a <= h
  BY <1>1, <1>2, <1>3 DEF Offered, NameOf
<1>4. CASE ~(a <= h)
  <2>. HIDE DEF h, l
  <2>1. a - h \in 1 .. l /\ a = h + (a - h)
    BY <1>1, <1>2, <1>4
  <2>. QED
    BY <1>1, <2>1 DEF h
<1>. QED
  BY <1>3, <1>4

\* What two versions of one behaviour have in common.
LEMMA SameParts ==
  ASSUME NEW q \in Decl, NEW r \in Decl, Behaviour(q) = Behaviour(r)
  PROVE  /\ DOMAIN q.params = DOMAIN r.params /\ Len(q.params) = Len(r.params)
         /\ \A j \in DOMAIN q.params :
              q.params[j].role = r.params[j].role /\ q.params[j].type = r.params[j].type
         /\ DOMAIN q.body = DOMAIN r.body /\ Len(q.body) = Len(r.body)
         /\ \A i \in DOMAIN q.body :
              /\ q.body[i].kind = r.body[i].kind /\ q.body[i].refers = r.body[i].refers
              /\ q.body[i].refers = Outside => q.body[i].text = r.body[i].text
<1>. DEFINE P(d) == [j \in DOMAIN d.params |-> <<d.params[j].role, d.params[j].type>>]
            B(d) == [i \in DOMAIN d.body |->
                       [kind |-> d.body[i].kind, refers |-> d.body[i].refers,
                        text |-> IF d.body[i].refers = Outside THEN d.body[i].text ELSE Blank]]
<1>1. P(q) = P(r) /\ B(q) = B(r)
  <2>1. Behaviour(q).params = P(q) /\ Behaviour(q).body = B(q)
    BY DEF Behaviour
  <2>2. Behaviour(r).params = P(r) /\ Behaviour(r).body = B(r)
    BY DEF Behaviour
  <2>. HIDE DEF P, B
  <2>. QED
    BY <2>1, <2>2
<1>2. \A d \in {q, r} : DOMAIN P(d) = DOMAIN d.params /\ DOMAIN B(d) = DOMAIN d.body
  OBVIOUS
<1>3. \A d \in {q, r} : \A j \in DOMAIN d.params : P(d)[j] = <<d.params[j].role, d.params[j].type>>
  OBVIOUS
<1>4. \A d \in {q, r} : \A i \in DOMAIN d.body :
        /\ B(d)[i].kind = d.body[i].kind /\ B(d)[i].refers = d.body[i].refers
        /\ d.body[i].refers = Outside => B(d)[i].text = d.body[i].text
  OBVIOUS
<1>. HIDE DEF P, B
<1>5. DOMAIN q.params = DOMAIN r.params /\ DOMAIN q.body = DOMAIN r.body
  BY <1>1, <1>2
<1>6. Len(q.params) = Len(r.params) /\ Len(q.body) = Len(r.body)
  BY <1>5, DeclParts
<1>7. \A j \in DOMAIN q.params :
        q.params[j].role = r.params[j].role /\ q.params[j].type = r.params[j].type
  <2>. SUFFICES ASSUME NEW j \in DOMAIN q.params
                PROVE  q.params[j].role = r.params[j].role /\ q.params[j].type = r.params[j].type
    OBVIOUS
  <2>1. P(q)[j] = <<q.params[j].role, q.params[j].type>> /\ P(r)[j] = <<r.params[j].role, r.params[j].type>>
    BY <1>3, <1>5
  <2>. QED
    BY <1>1, <2>1
<1>8. \A i \in DOMAIN q.body :
        /\ q.body[i].kind = r.body[i].kind /\ q.body[i].refers = r.body[i].refers
        /\ q.body[i].refers = Outside => q.body[i].text = r.body[i].text
  BY <1>1, <1>4, <1>5
<1>. QED
  BY <1>5, <1>6, <1>7, <1>8

\* Names that are kept apart are kept apart where they are numbered.
LEMMA OfferedAlike ==
  ASSUME NEW q \in Decl, NEW r \in Decl, Behaviour(q) = Behaviour(r),
         ~BlanksMoved(q, r), ~NamesParted(q, r)
  PROVE  /\ Turns(q) = Turns(r)
         /\ \A b \in Turns(q) : Offered(q, b) = Blank <=> Offered(r, b) = Blank
         /\ \A a, b \in Turns(q) : a \in Identifiers(q) /\ Offered(q, b) # Blank =>
              (Offered(q, b) = NameOf(q, a) <=> Offered(r, b) = NameOf(r, a))
         /\ Identifiers(q) = Identifiers(r)
         /\ \A b \in Turns(q) : Offered(q, b) # Blank =>
              b \in Identifiers(q) /\ Offered(q, b) = NameOf(q, b) /\ Offered(r, b) = NameOf(r, b)
<1>1. Turns(q) = Turns(r)
  BY SameParts DEF Turns
<1>2. ASSUME NEW b \in Turns(q)
      PROVE  /\ Offered(q, b) = Blank <=> Offered(r, b) = Blank
             /\ NameOf(q, b) = Blank <=> NameOf(r, b) = Blank
             /\ Offered(q, b) # Blank => Offered(q, b) = NameOf(q, b) /\ Offered(r, b) = NameOf(r, b)
  <2>1. CASE b \in DOMAIN q.params /\ Offered(q, b) = q.params[b].name /\ NameOf(q, b) = q.params[b].name
    <3>1. b \in DOMAIN r.params /\ b <= Len(r.params)
      <4>1. b \in DOMAIN r.params /\ DOMAIN r.params = 1 .. Len(r.params)
        BY <2>1, SameParts, DeclParts
      <4>. QED
        BY <4>1
    <3>2. Offered(r, b) = r.params[b].name /\ NameOf(r, b) = r.params[b].name
      BY <3>1 DEF Offered, NameOf
    <3>3. q.params[b].name = Blank <=> r.params[b].name = Blank
      BY <2>1, <3>1 DEF BlanksMoved
    <3>. QED
      BY <2>1, <3>2, <3>3
  <2>2. ASSUME NEW i \in DOMAIN q.body, b = Len(q.params) + i
        PROVE  /\ Offered(q, b) = Blank <=> Offered(r, b) = Blank
               /\ NameOf(q, b) = Blank <=> NameOf(r, b) = Blank
               /\ Offered(q, b) # Blank => Offered(q, b) = NameOf(q, b) /\ Offered(r, b) = NameOf(r, b)
    <3>1. i \in DOMAIN r.body /\ r.body[i].kind = q.body[i].kind /\ Len(q.params) = Len(r.params)
      BY SameParts
    <3>2. /\ q.body[i].kind # "word" => q.body[i].text # Blank
          /\ r.body[i].kind # "word" => r.body[i].text # Blank
      BY <3>1, DeclParts DEF Compiles
    <3>3. /\ Offered(q, b) = IF q.body[i].kind = "declare" THEN q.body[i].text ELSE Blank
          /\ NameOf(q, b) = IF q.body[i].kind = "word" THEN Blank ELSE q.body[i].text
      BY <2>2, TokenTurn
    <3>4. /\ Offered(r, b) = IF r.body[i].kind = "declare" THEN r.body[i].text ELSE Blank
          /\ NameOf(r, b) = IF r.body[i].kind = "word" THEN Blank ELSE r.body[i].text
      BY <2>2, <3>1, TokenTurn
    <3>. QED
      BY <3>1, <3>2, <3>3, <3>4
  <2>. QED
    BY <2>1, <2>2, TurnIsOneOf
<1>3. Identifiers(q) = Identifiers(r)
  BY <1>1, <1>2 DEF Identifiers
<1>4. \A b \in Turns(q) : Offered(q, b) # Blank =>
        b \in Identifiers(q) /\ Offered(q, b) = NameOf(q, b) /\ Offered(r, b) = NameOf(r, b)
  BY <1>2 DEF Identifiers
<1>5. ASSUME NEW a \in Turns(q), NEW b \in Turns(q), a \in Identifiers(q), Offered(q, b) # Blank
      PROVE  Offered(q, b) = NameOf(q, a) <=> Offered(r, b) = NameOf(r, a)
  <2>1. b \in Identifiers(q) /\ Offered(q, b) = NameOf(q, b) /\ Offered(r, b) = NameOf(r, b)
    BY <1>4, <1>5
  <2>2. (NameOf(q, b) = NameOf(q, a)) = (NameOf(r, b) = NameOf(r, a))
    BY <1>3, <1>5, <2>1 DEF NamesParted
  <2>. QED
    BY <2>1, <2>2
<1>. QED
  BY <1>1, <1>2, <1>3, <1>4, <1>5

\* What looks changed is, but for the causes named.
LEMMA ChangeRight ==
  ASSUME NEW q \in Decl, NEW r \in Decl, Behaviour(q) = Behaviour(r), ~MayMislead(q, r)
  PROVE  Compare(q, r) = "trivial"
<1>1. /\ q.receiver = r.receiver /\ ~Regrouped(q, r) /\ ~BlanksMoved(q, r)
      /\ ~BindRenamed(q, r) /\ ~NamesParted(q, r)
  BY DEF MayMislead, ReceiverChanged
<1>2. PrintSignature(q) = PrintSignature(r)
  <2>. DEFINE F(d) == [i \in DOMAIN d.params |-> d.params[i].field]
  <2>1. F(q) = F(r)
    BY <1>1 DEF Regrouped
  <2>2. \A d \in {q, r} : \A j \in DOMAIN d.params : F(d)[j] = d.params[j].field
    OBVIOUS
  <2>. HIDE DEF F
  <2>3. \A j \in DOMAIN q.params : q.params[j].field = r.params[j].field
    BY <2>1, <2>2, SameParts
  <2>. QED
    BY <2>3, SameParts DEF PrintSignature
<1>3. NewNames(q) = NewNames(r)
  <2>1. \A a, b \in Turns(q) : Offered(q, a) # Blank /\ Offered(q, b) # Blank =>
          (Offered(q, b) = Offered(q, a) <=> Offered(r, b) = Offered(r, a))
    BY <1>1, OfferedAlike
  <2>2. \A b \in Turns(q) : Offered(q, b) = Blank <=> Offered(r, b) = Blank
    BY <1>1, OfferedAlike
  <2>3. \A a \in Turns(q) : \A b \in 1 .. a - 1 : b \in Turns(q)
    <3>. SUFFICES ASSUME NEW a \in Turns(q), NEW b \in 1 .. a - 1 PROVE b \in Turns(q)
      OBVIOUS
    <3>1. a \in Nat \ {0}
      BY NamesFinite
    <3>2. b \in 1 .. a
      BY <3>1
    <3>. QED
      BY <3>2, NamesFinite
  <2>4. Turns(q) = Turns(r)
    BY <1>1, OfferedAlike
  <2>5. ASSUME NEW a \in Turns(q)
        PROVE  a \in NewNames(q) <=> a \in NewNames(r)
    <3>1. ASSUME Offered(q, a) # Blank, NEW b \in 1 .. a - 1
          PROVE  Offered(q, b) = Offered(q, a) <=> Offered(r, b) = Offered(r, a)
      <4>1. b \in Turns(q)
        BY <2>3
      <4>. QED
        BY <2>1, <2>2, <3>1, <4>1
    <3>. QED
      BY <2>2, <2>4, <3>1 DEF NewNames
  <2>. QED
    BY <2>4, <2>5, NamesFinite
<1>4. ASSUME NEW i \in DOMAIN q.body, q.body[i].kind # "word"
      PROVE  /\ q.body[i].text \in LocalNames(q) <=> r.body[i].text \in LocalNames(r)
             /\ Placeholder(q, q.body[i].text) = Placeholder(r, r.body[i].text)
  <2>. DEFINE n == q.body[i].text
              m == r.body[i].text
              a == Len(q.params) + i
  <2>1. i \in DOMAIN r.body /\ r.body[i].kind # "word" /\ Len(q.params) = Len(r.params)
    BY <1>4, SameParts
  <2>2. n # Blank /\ m # Blank
    BY <1>4, <2>1, DeclParts DEF Compiles
  <2>3. a \in Turns(q) /\ NameOf(q, a) = n
    BY <1>4, TokenTurn
  <2>4. NameOf(r, a) = m
    BY <2>1, TokenTurn
  <2>5. a \in Identifiers(q)
    BY <2>2, <2>3 DEF Identifiers
  <2>. HIDE DEF a, n, m
  <2>6. \A b \in Turns(q) : Offered(q, b) = n <=> Offered(r, b) = m
    <3>. SUFFICES ASSUME NEW b \in Turns(q) PROVE Offered(q, b) = n <=> Offered(r, b) = m
      OBVIOUS
    <3>1. CASE Offered(q, b) = Blank
      BY <1>1, <2>2, <3>1, OfferedAlike
    <3>2. CASE Offered(q, b) # Blank
      BY <1>1, <2>3, <2>4, <2>5, <3>2, OfferedAlike
    <3>. QED
      BY <3>1, <3>2
  <2>7. Turns(q) = Turns(r)
    BY <1>1, OfferedAlike
  <2>8. n \in LocalNames(q) <=> m \in LocalNames(r)
    BY <2>2, <2>6, <2>7 DEF LocalNames
  <2>9. {x \in NewNames(q) : \A b \in 1 .. x : Offered(q, b) # n}
          = {x \in NewNames(r) : \A b \in 1 .. x : Offered(r, b) # m}
    <3>1. \A x \in NewNames(q) : \A b \in 1 .. x : b \in Turns(q)
      BY NamesFinite
    <3>. QED
      BY <1>3, <2>6, <3>1
  <2>10. Placeholder(q, n) = Placeholder(r, m)
    BY <2>9 DEF Placeholder
  <2>. QED
    BY <2>8, <2>10 DEF n, m
<1>5. ASSUME NEW i \in DOMAIN q.body, q.body[i].kind = "word" \/ q.body[i].text \notin LocalNames(q)
      PROVE  q.body[i].text = r.body[i].text
  <2>1. /\ i \in DOMAIN r.body /\ r.body[i].refers = q.body[i].refers
        /\ q.body[i].refers = Outside => q.body[i].text = r.body[i].text
    BY SameParts
  <2>2. q.body[i].kind = "word" => q.body[i].refers = Outside
    BY DeclParts DEF Compiles
  <2>. SUFFICES ASSUME q.body[i].refers # Outside, q.body[i].kind # "word"
                PROVE  q.body[i].text = r.body[i].text
    BY <2>1, <2>2
  <2>. DEFINE place == q.body[i].refers
  <2>3. place \in Declared(q) /\ NameAt(q, place) = q.body[i].text /\ NameAt(r, place) = r.body[i].text
    BY <2>1, DeclParts DEF Compiles
  <2>4. q.body[i].text # Blank
    BY DeclParts DEF Compiles
  <2>5. CASE place = <<"receiver", 0>>
    BY <1>1, <2>3, <2>5 DEF NameAt
  <2>6. ASSUME NEW j \in DOMAIN q.params, place = <<"param", j>>
        PROVE  FALSE
    <3>1. q.params[j].name = q.body[i].text
      BY <2>3, <2>6 DEF NameAt
    <3>. QED
      BY <1>5, <2>4, <3>1, ParamNumber
  <2>7. ASSUME NEW k \in DOMAIN q.body, q.body[k].kind \in {"declare", "bind"}, place = <<"body", k>>
        PROVE  q.body[i].text = r.body[i].text
    <3>1. q.body[k].text = q.body[i].text /\ r.body[k].text = r.body[i].text /\ k \in DOMAIN r.body
      BY <2>3, <2>7, SameParts DEF NameAt
    <3>2. CASE q.body[k].kind = "bind"
      BY <1>1, <2>7, <3>1, <3>2 DEF BindRenamed
    <3>3. CASE q.body[k].kind = "declare"
      <4>1. Len(q.params) + k \in Turns(q) /\ Offered(q, Len(q.params) + k) = q.body[i].text
        BY <2>7, <3>1, <3>3, TokenTurn
      <4>2. q.body[i].text \in LocalNames(q)
        BY <2>4, <4>1 DEF LocalNames
      <4>. QED
        BY <1>5, <4>2
    <3>. QED
      BY <2>7, <3>2, <3>3
  <2>8. \/ place = <<"receiver", 0>>
        \/ \E j \in DOMAIN q.params : place = <<"param", j>>
        \/ \E k \in DOMAIN q.body : q.body[k].kind \in {"declare", "bind"} /\ place = <<"body", k>>
    BY <2>3 DEF Declared
  <2>. HIDE DEF place
  <2>. QED
    BY <2>5, <2>6, <2>7, <2>8
<1>6. FuncHash(q) = FuncHash(r)
  <2>. DEFINE Mask(d, i) ==
         IF d.body[i].kind # "word" /\ d.body[i].text \in LocalNames(d)
           THEN [kind |-> d.body[i].kind, text |-> "_v", index |-> Placeholder(d, d.body[i].text)]
           ELSE [kind |-> d.body[i].kind, text |-> d.body[i].text, index |-> 0]
  <2>1. FuncHash(q) = [i \in DOMAIN q.body |-> Mask(q, i)] /\ FuncHash(r) = [i \in DOMAIN r.body |-> Mask(r, i)]
    BY DEF FuncHash
  <2>2. DOMAIN q.body = DOMAIN r.body
    BY SameParts
  <2>3. ASSUME NEW i \in DOMAIN q.body PROVE Mask(q, i) = Mask(r, i)
    <3>1. q.body[i].kind = r.body[i].kind
      BY SameParts
    <3>2. CASE q.body[i].kind = "word"
      BY <1>5, <3>1, <3>2
    <3>3. CASE q.body[i].kind # "word" /\ q.body[i].text \in LocalNames(q)
      BY <1>4, <3>1, <3>3
    <3>4. CASE q.body[i].kind # "word" /\ q.body[i].text \notin LocalNames(q)
      BY <1>4, <1>5, <3>1, <3>4
    <3>. QED
      BY <3>2, <3>3, <3>4
  <2>. HIDE DEF Mask
  <2>. QED
    BY <2>1, <2>2, <2>3
<1>. QED
  BY <1>2, <1>6 DEF Compare

-----------------------------------------------------------------------------
(* What is in the frontier.                                                 *)

\* A function that differs is in the changed set, with its file, and what is
\* classified so far is classified for what it is, but for the causes named.
ChangesFound ==
  at \notin {"diff", "failed"} =>
    \A f \in File : \A r \in Functions(input.head[f]) :
      Differs(f, r) => r.symbol \in DOMAIN changed /\ changed[r.symbol] = f

Hides(s) == \E v \in Versions(s) : MayHide(v[1], v[2])

Misleads(s) == \E v \in Versions(s) : MayMislead(v[1], v[2])

ClassifiedRightly ==
  \A s \in DOMAIN kinds :
    LET f == changed[s]
        really == \E r \in Functions(input.head[f]) : r.symbol = s /\ Differs(f, r)
    IN /\ really => kinds[s] # "trivial" \/ Hides(s)
       /\ failures = 0 => (kinds[s] # "trivial" => really \/ Misleads(s))

\* What was changed is in the head commit.
ChangedRows ==
  \A s \in DOMAIN changed : \E r \in Functions(input.head[changed[s]]) : r.symbol = s

AllClassified == Analyzed => DOMAIN kinds = DOMAIN changed

FrontierInductive ==
  /\ TypeInv /\ ChangesFound /\ ClassifiedRightly
  /\ ChangedRows /\ AllClassified

\* What SourcesTell says of the commits that are analyzed.
LEMMA SourcesOfInput ==
  ASSUME TypeInv, SourcesTell, NEW f \in File
  PROVE  /\ input.base[f].lines \in Seq(Line) /\ input.head[f].lines \in Seq(Line)
         /\ \A r \in Functions(input.head[f]) :
              /\ r.kind \in {"function", "method"} /\ r \in input.head[f].rows
              /\ r.start \in 1 .. Len(input.head[f].lines) /\ r.end \in r.start .. Len(input.head[f].lines)
         /\ \A r \in Functions(input.base[f]) : r.start \in 1 .. Len(input.base[f].lines)
         /\ \A q, r \in Functions(input.head[f]) : q.symbol = r.symbol => q = r
         /\ \A q, r \in Functions(input.base[f]) : q.symbol = r.symbol => q = r
         /\ \A g \in File : \A q \in Functions(input.head[f]), r \in Functions(input.head[g]) :
              q.symbol = r.symbol => f = g
         /\ \A M \in Alignments(input.base[f].lines, input.head[f].lines) :
              \A r \in Functions(input.head[f]) :
                Untouched(input.base[f].lines, input.head[f].lines, M, r) =>
                  \E q \in Functions(input.base[f]) : q.symbol = r.symbol /\ Behaviour(q.decl) = Behaviour(r.decl)
         /\ \A q \in Functions(input.base[f]), r \in Functions(input.head[f]) :
              /\ q.decl \in Decl /\ r.decl \in Decl
              /\ q.symbol = r.symbol => Scoped(q.decl, r.decl)
<1>1. input \in Cases /\ input \in Case
  BY CaseType DEF TypeInv, ImpactTypeOK
<1>2. input.base[f] \in Version /\ input.head[f] \in Version
  BY <1>1 DEF Case
<1>3. input.base[f].lines \in Seq(Line) /\ input.head[f].lines \in Seq(Line)
  BY <1>2 DEF Version
<1>4. \A version \in {input.base[f], input.head[f]} :
        /\ \A r \in version.rows : r.start \in 1 .. Len(version.lines) /\ r.end \in r.start .. Len(version.lines)
        /\ \A q, r \in Functions(version) : q.symbol = r.symbol => q = r
  BY <1>1 DEF SourcesTell, RowsPlaced
<1>5. \A version \in {input.base[f], input.head[f]} : \A r \in Functions(version) :
        r.kind \in {"function", "method"} /\ r \in version.rows
  BY DEF Functions
<1>6. \A g \in File : \A q \in Functions(input.head[f]), r \in Functions(input.head[g]) :
        q.symbol = r.symbol => f = g
  BY <1>1 DEF SourcesTell, OneHome
<1>7. \A M \in Alignments(input.base[f].lines, input.head[f].lines) :
        \A r \in Functions(input.head[f]) :
          Untouched(input.base[f].lines, input.head[f].lines, M, r) =>
            \E q \in Functions(input.base[f]) : q.symbol = r.symbol /\ Behaviour(q.decl) = Behaviour(r.decl)
  BY <1>1 DEF SourcesTell, TextTells
<1>8. \A q \in Functions(input.base[f]), r \in Functions(input.head[f]) :
        q.symbol = r.symbol => Scoped(q.decl, r.decl)
  BY <1>1 DEF SourcesTell, ScopesTell
<1>9. \A q \in Functions(input.base[f]), r \in Functions(input.head[f]) : q.decl \in Decl /\ r.decl \in Decl
  BY <1>2 DEF Version, Row, Functions
<1>. QED
  BY <1>3, <1>4, <1>5, <1>6, <1>7, <1>8, <1>9

\* A function that differs is touched, however the file is aligned.
LEMMA DifferenceTouched ==
  ASSUME TypeInv, SourcesTell, NEW f \in File, NEW T \in Touched(f),
         NEW r \in Functions(input.head[f]), Differs(f, r)
  PROVE  r \in T
<1>. DEFINE base == input.base[f].lines
            head == input.head[f].lines
<1>1. PICK M \in Alignments(base, head) : T = MapToSymbols(HunkRanges(Hunks(base, head, M)), input.head[f].rows)
  BY DEF Touched
<1>2. /\ base \in Seq(Line) /\ head \in Seq(Line)
      /\ r.kind \in {"function", "method"} /\ r \in input.head[f].rows
      /\ r.start \in 1 .. Len(head) /\ r.end \in r.start .. Len(head)
      /\ Untouched(base, head, M, r) =>
           \E q \in Functions(input.base[f]) : q.symbol = r.symbol /\ Behaviour(q.decl) = Behaviour(r.decl)
  BY SourcesOfInput
<1>3. ~Untouched(base, head, M, r)
  BY <1>2 DEF Differs
<1>. HIDE DEF base, head
<1>. QED
  BY <1>1, <1>2, <1>3, MapMissesNothing

\* The only declaration of a name is the one that is found.
LEMMA FoundDecl ==
  ASSUME NEW version, NEW r \in Functions(version), r.start \in Nat,
         \A q \in Functions(version) : q.symbol = r.symbol => q = r
  PROVE  FindFuncDecl(version, r.symbol) = {r.decl}
<1>. DEFINE found == {x \in version.rows : x.symbol = r.symbol /\ x.kind \in {"function", "method"}}
<1>1. found = {r}
  BY DEF Functions
<1>2. {q \in found : \A o \in found : q.start <= o.start} = {r}
  BY <1>1
<1>. QED
  BY <1>2 DEF FindFuncDecl

LEMMA NotFound ==
  ASSUME NEW version, NEW s, \A q \in Functions(version) : q.symbol # s
  PROVE  FindFuncDecl(version, s) = {}
<1>1. {r \in version.rows : r.symbol = s /\ r.kind \in {"function", "method"}} = {}
  BY DEF Functions
<1>. QED
  BY <1>1 DEF FindFuncDecl

LEMMA Compared ==
  ASSUME NEW base, NEW head, NEW s, base.lines # <<>>, head.lines # <<>>,
         NEW before, NEW after,
         FindFuncDecl(base, s) = {before}, FindFuncDecl(head, s) = {after}
  PROVE  ClassifySymbol(base, head, s) = {Compare(before, after)}
<1>1. {before} # {} /\ {after} # {}
  OBVIOUS
<1>2. ClassifySymbol(base, head, s) = {Compare(b, a) : b \in {before}, a \in {after}}
  BY <1>1 DEF ClassifySymbol
<1>3. {Compare(b, a) : b \in {before}, a \in {after}} = {Compare(before, after)}
  OBVIOUS
<1>. QED
  BY <1>2, <1>3

\* What the classifier says is right, but for the causes named.
LEMMA ClassifierRight ==
  ASSUME TypeInv, SourcesTell, NEW f \in File, NEW r \in Functions(input.head[f]),
         NEW kind \in ClassifySymbol(input.base[f], input.head[f], r.symbol)
  PROVE  /\ Differs(f, r) => kind # "trivial" \/ Hides(r.symbol)
         /\ kind # "trivial" => Differs(f, r) \/ Misleads(r.symbol)
<1>. DEFINE base == input.base[f]
            head == input.head[f]
<1>1. /\ r.start \in 1 .. Len(head.lines) /\ head.lines \in Seq(Line) /\ base.lines \in Seq(Line)
      /\ \A q \in Functions(head) : q.symbol = r.symbol => q = r
      /\ \A q, p \in Functions(base) : q.symbol = p.symbol => q = p
      /\ \A q \in Functions(base) : q.start \in 1 .. Len(base.lines)
      /\ \A q \in Functions(base) :
           /\ q.decl \in Decl /\ r.decl \in Decl
           /\ q.symbol = r.symbol => Scoped(q.decl, r.decl)
  BY SourcesOfInput
<1>2. head.lines # <<>>
  BY <1>1
<1>3. FindFuncDecl(head, r.symbol) = {r.decl}
  <2>1. r.start \in Nat
    BY <1>1
  <2>. QED
    BY <1>1, <2>1, FoundDecl
<1>4. CASE \A q \in Functions(base) : q.symbol # r.symbol
  <2>1. FindFuncDecl(base, r.symbol) = {}
    BY <1>4, NotFound
  <2>2. kind = "logic_change"
    BY <2>1 DEF ClassifySymbol, Missing
  <2>. QED
    BY <1>4, <2>2 DEF Differs
<1>5. ASSUME NEW q \in Functions(base), q.symbol = r.symbol
      PROVE  /\ Differs(f, r) => kind # "trivial" \/ Hides(r.symbol)
             /\ kind # "trivial" => Differs(f, r) \/ Misleads(r.symbol)
  <2>1. base.lines # <<>>
    BY <1>1
  <2>2. q.start \in Nat
    BY <1>1
  <2>3. FindFuncDecl(base, q.symbol) = {q.decl}
    BY <1>1, <2>2, FoundDecl
  <2>4. kind = Compare(q.decl, r.decl)
    <3>1. FindFuncDecl(base, r.symbol) = {q.decl}
      BY <1>5, <2>3
    <3>2. ClassifySymbol(base, head, r.symbol) = {Compare(q.decl, r.decl)}
      BY <1>2, <1>3, <2>1, <3>1, Compared
    <3>. QED
      BY <3>2
  <2>5. Differs(f, r) <=> Behaviour(q.decl) # Behaviour(r.decl)
    BY <1>1, <1>5 DEF Differs
  <2>6. <<q.decl, r.decl>> \in Versions(r.symbol)
    BY <1>5 DEF Versions
  <2>7. /\ MayHide(q.decl, r.decl) => Hides(r.symbol)
        /\ MayMislead(q.decl, r.decl) => Misleads(r.symbol)
    <3>. DEFINE v == <<q.decl, r.decl>>
    <3>1. v[1] = q.decl /\ v[2] = r.decl
      OBVIOUS
    <3>2. v \in Versions(r.symbol)
      BY <2>6
    <3>. HIDE DEF v
    <3>. QED
      BY <3>1, <3>2 DEF Hides, Misleads
  <2>8. q.decl \in Decl /\ r.decl \in Decl /\ Scoped(q.decl, r.decl)
    BY <1>1, <1>5
  <2>9. kind = "trivial" => MayHide(q.decl, r.decl) \/ Behaviour(q.decl) = Behaviour(r.decl)
    BY <2>4, <2>8, TrivialRight
  <2>10. kind # "trivial" => MayMislead(q.decl, r.decl) \/ Behaviour(q.decl) # Behaviour(r.decl)
    BY <2>4, <2>8, ChangeRight
  <2>. QED
    BY <2>5, <2>7, <2>9, <2>10
<1>. QED
  BY <1>4, <1>5

LEMMA FrontierMapDiff ==
  ASSUME FrontierInductive, SourcesTell, MapDiff
  PROVE  FrontierInductive'
<1>. USE DEF FrontierInductive
<1>1. PICK touched \in [File -> UNION {Touched(f) : f \in File}] :
         (\A f \in File : touched[f] \in Touched(f)) /\ changed' \in ChangedSets(touched)
  BY DEF MapDiff
<1>. DEFINE symbols == {r.symbol : r \in UNION {touched[f] : f \in File}}
<1>2. /\ changed' \in [symbols -> File]
      /\ \A s \in symbols : \E r \in touched[changed'[s]] : r.symbol = s
  BY <1>1 DEF ChangedSets
<1>3. \A f \in File : touched[f] \subseteq Functions(input.head[f])
  BY <1>1 DEF Touched, MapToSymbols, Functions
<1>4. input' = input /\ kinds' = kinds /\ DOMAIN kinds = {} /\ TypeInv'
  BY TypeMapDiff DEF MapDiff, TypeInv, StepsInOrder
<1>5. ASSUME NEW f \in File, NEW r \in Functions(input.head[f]), Differs(f, r)
      PROVE  r.symbol \in DOMAIN changed' /\ changed'[r.symbol] = f
  <2>1. r \in touched[f]
    BY <1>1, <1>5, DifferenceTouched
  <2>2. r.symbol \in symbols
    BY <2>1
  <2>. HIDE DEF symbols
  <2>3. changed'[r.symbol] \in File /\ \E q \in touched[changed'[r.symbol]] : q.symbol = r.symbol
    BY <1>2, <2>2
  <2>4. PICK q \in Functions(input.head[changed'[r.symbol]]) : q.symbol = r.symbol
    BY <1>3, <2>3
  <2>5. f = changed'[r.symbol]
    BY <2>3, <2>4, SourcesOfInput
  <2>. QED
    BY <1>2, <2>2, <2>5
<1>6. ChangesFound'
  BY <1>4, <1>5 DEF ChangesFound, Differs
<1>7. ChangedRows'
  <2>1. \A s \in symbols : \E r \in Functions(input.head[changed'[s]]) : r.symbol = s
    BY <1>2, <1>3
  <2>. HIDE DEF symbols
  <2>. QED
    BY <1>2, <1>4, <2>1 DEF ChangedRows
<1>8. ClassifiedRightly'
  BY <1>4 DEF ClassifiedRightly
<1>9. AllClassified'
  <2>1. at' = IF DOMAIN changed' = {} THEN "done" ELSE "classify"
    BY DEF MapDiff
  <2>. QED
    BY <1>4, <2>1 DEF AllClassified, Analyzed
<1>. QED
  BY <1>4, <1>6, <1>7, <1>8, <1>9

LEMMA FrontierRecord ==
  ASSUME FrontierInductive, SourcesTell, NEW s \in Unclassified, NEW kind, Record(s, kind),
         UNCHANGED <<input, at, changed>>, at = "classify", TypeInv',
         failures' = 0 => kind \in ClassifySymbol(input.base[changed[s]], input.head[changed[s]], s),
         failures' \in Nat, failures \in Nat, failures <= failures',
         kind \in ClassifySymbol(input.base[changed[s]], input.head[changed[s]], s) \/ kind = Missing
  PROVE  FrontierInductive'
<1>. USE DEF FrontierInductive
<1>1. /\ DOMAIN kinds' = DOMAIN kinds \cup {s} /\ s \notin DOMAIN kinds /\ kinds'[s] = kind
      /\ \A t \in DOMAIN kinds : kinds'[t] = kinds[t]
      /\ s \in DOMAIN changed
  BY DEF Record, Unclassified
<1>. DEFINE f == changed[s]
            Really(t) == \E r \in Functions(input.head[changed[t]]) : r.symbol = t /\ Differs(changed[t], r)
<1>2. PICK r \in Functions(input.head[f]) : r.symbol = s
  BY <1>1 DEF ChangedRows
<1>3. f \in File
  BY <1>1 DEF TypeInv, ImpactTypeOK
<1>4. Really(s) <=> Differs(f, r)
  BY <1>2, <1>3, SourcesOfInput
<1>5. kind \in ClassifySymbol(input.base[f], input.head[f], s) =>
        /\ Really(s) => kind # "trivial" \/ Hides(s)
        /\ kind # "trivial" => Really(s) \/ Misleads(s)
  BY <1>2, <1>3, <1>4, ClassifierRight
<1>6. kind = Missing => kind # "trivial"
  BY DEF Missing
<1>7. \A t \in DOMAIN kinds' :
        /\ Really(t) => kinds'[t] # "trivial" \/ Hides(t)
        /\ failures' = 0 => (kinds'[t] # "trivial" => Really(t) \/ Misleads(t))
  <2>1. \A t \in DOMAIN kinds :
          /\ Really(t) => kinds[t] # "trivial" \/ Hides(t)
          /\ failures = 0 => (kinds[t] # "trivial" => Really(t) \/ Misleads(t))
    BY DEF ClassifiedRightly
  <2>. HIDE DEF Really, f
  <2>2. failures' = 0 => failures = 0
    OBVIOUS
  <2>. QED
    BY <1>1, <1>5, <1>6, <2>1, <2>2 DEF f
<1>8. ClassifiedRightly'
  BY <1>7 DEF ClassifiedRightly, Differs, Hides, Misleads, Versions
<1>. QED
  BY <1>8 DEF ChangesFound, ChangedRows, AllClassified, Analyzed, Differs

LEMMA FrontierStep ==
  ASSUME FrontierInductive, SourcesTell, [Next]_vars
  PROVE  FrontierInductive'
<1>. USE DEF FrontierInductive
<1>1. TypeInv' /\ failures \in Nat /\ failures' \in Nat
  BY TypeStep, ImpactAssumption DEF TypeInv, ImpactTypeOK
<1>2. CASE Classify
  <2>1. PICK s \in Unclassified : \E kind \in ClassifySymbol(input.base[changed[s]], input.head[changed[s]], s) : Record(s, kind)
    BY <1>2 DEF Classify
  <2>2. PICK kind \in ClassifySymbol(input.base[changed[s]], input.head[changed[s]], s) : Record(s, kind)
    BY <2>1
  <2>. QED
    BY <1>1, <1>2, <2>2, FrontierRecord DEF Classify
<1>3. CASE ClassifyBlindly
  <2>1. PICK s \in Unclassified : Record(s, Missing)
    BY <1>3 DEF ClassifyBlindly
  <2>2. failures' = failures + 1
    BY <1>3 DEF ClassifyBlindly
  <2>. QED
    BY <1>1, <1>3, <2>1, <2>2, FrontierRecord DEF ClassifyBlindly
<1>4. CASE BeginSearch
  <2>1. UNCHANGED <<input, changed, kinds, failures>> /\ at' \in {"done", "search"} /\ at = "classify"
    BY <1>4 DEF BeginSearch
  <2>2. DOMAIN kinds = DOMAIN changed
    BY <1>4 DEF BeginSearch, Unclassified, TypeInv, ImpactTypeOK
  <2>. QED
    BY <1>1, <2>1, <2>2 DEF ChangesFound, ClassifiedRightly, ChangedRows, AllClassified, Differs, Hides, Misleads, Versions
<1>5. CASE Visit \/ Report
  <2>1. UNCHANGED <<input, changed, kinds, failures>> /\ at = "search"
    BY <1>5 DEF Visit, Report
  <2>2. DOMAIN kinds = DOMAIN changed
    BY <2>1 DEF AllClassified, Analyzed
  <2>. QED
    BY <1>1, <2>1, <2>2 DEF ChangesFound, ClassifiedRightly, ChangedRows, AllClassified, Differs, Hides, Misleads, Versions
<1>6. CASE Exit
  <2>1. UNCHANGED <<input, changed, kinds>> /\ at' = "failed" /\ failures' = failures + 1
    BY <1>6 DEF Exit
  <2>2. failures' # 0
    BY <1>1, <2>1
  <2>. QED
    BY <1>1, <2>1, <2>2 DEF ChangesFound, ClassifiedRightly, ChangedRows, AllClassified, Analyzed, Differs, Hides, Misleads, Versions
<1>7. CASE UNCHANGED vars
  BY <1>1, <1>7 DEF vars, ChangesFound, ClassifiedRightly, ChangedRows, AllClassified, Analyzed, Differs, Hides, Misleads, Versions
<1>. QED
  BY <1>2, <1>3, <1>4, <1>5, <1>6, <1>7, FrontierMapDiff DEF Next, Step

LEMMA FrontierHolds == SourcesTell => (Spec => []FrontierInductive)
<1>. SUFFICES ASSUME SourcesTell PROVE Spec => []FrontierInductive
  OBVIOUS
<1>1. Init => FrontierInductive
  <2>. SUFFICES ASSUME Init PROVE FrontierInductive
    OBVIOUS
  <2>1. at = "diff" /\ DOMAIN kinds = {} /\ DOMAIN changed = {}
    BY DEF Init, Empty
  <2>. QED
    BY <2>1, TypeInit DEF FrontierInductive, ChangesFound, ClassifiedRightly, ChangedRows, AllClassified, Analyzed
<1>2. FrontierInductive /\ [Next]_vars => FrontierInductive'
  BY FrontierStep
<1>. QED
  BY <1>1, <1>2, PTL DEF Spec

(***************************************************************************)
(* classifier.go, "zero blast radius", for all files whose text says what  *)
(* they mean: however git aligns them, and whatever fails, no function     *)
(* that changed is left out but for one of the causes named.               *)
(***************************************************************************)
THEOREM FrontierIsComplete == SourcesTell => (Spec => []FrontierComplete)
<1>. SUFFICES ASSUME SourcesTell PROVE Spec => []FrontierComplete
  OBVIOUS
<1>1. FrontierInductive => FrontierComplete
  <2>. SUFFICES ASSUME FrontierInductive, Analyzed, NEW f \in File,
                       NEW r \in Functions(input.head[f]), Differs(f, r), r.symbol \notin Frontier
                PROVE  Hides(r.symbol)
    BY DEF FrontierComplete, ReallyChanged, Hides
  <2>1. r.symbol \in DOMAIN changed /\ changed[r.symbol] = f
    BY DEF FrontierInductive, ChangesFound, Analyzed
  <2>2. r.symbol \in DOMAIN kinds
    BY <2>1 DEF FrontierInductive, AllClassified
  <2>3. kinds[r.symbol] # "trivial" \/ Hides(r.symbol)
    BY <2>1, <2>2 DEF FrontierInductive, ClassifiedRightly
  <2>. QED
    BY <2>2, <2>3 DEF Frontier
<1>. QED
  BY FrontierHolds, <1>1, PTL

(***************************************************************************)
(* For the same files, without an error, nothing else is in it but for one *)
(* of the causes named.                                                    *)
(***************************************************************************)
THEOREM FrontierIsPrecise == SourcesTell => (Spec => []FrontierPrecise)
<1>. SUFFICES ASSUME SourcesTell PROVE Spec => []FrontierPrecise
  OBVIOUS
<1>1. FrontierInductive => FrontierPrecise
  <2>. SUFFICES ASSUME FrontierInductive, failures = 0, NEW s \in Frontier, s \notin ReallyChanged
                PROVE  Misleads(s)
    BY DEF FrontierPrecise, Misleads
  <2>1. s \in DOMAIN kinds /\ kinds[s] # "trivial"
    BY DEF Frontier
  <2>2. \/ \E r \in Functions(input.head[changed[s]]) : r.symbol = s /\ Differs(changed[s], r)
        \/ Misleads(s)
    BY <2>1 DEF FrontierInductive, ClassifiedRightly
  <2>3. changed[s] \in File
    BY <2>1 DEF FrontierInductive, TypeInv, ImpactTypeOK
  <2>. QED
    BY <2>2, <2>3 DEF ReallyChanged
<1>. QED
  BY FrontierHolds, <1>1, PTL

\* The first symbol of a path that direct calls do not reach would have been
\* called directly by the one before.
LEMMA DirectPath ==
  ASSUME Inductive, NEW s \in DOMAIN visited, visited[s].provenance = "direct_call"
  PROVE  s \in Reaches(DirectCalls, Frontier)
<1>. DEFINE path == visited[s].path
            L == Reaches(DirectCalls, Frontier)
            Out == {i \in 1 .. Len(path) : path[i] \notin L}
<1>1. /\ path \in Seq(Symbol) /\ path # <<>> /\ Len(path) \in Nat
      /\ path[1] \in Frontier /\ path[Len(path)] = s
      /\ \A i \in 1 .. Len(path) - 1 :
           \E e \in input.graph : e.source = path[i] /\ e.target = path[i + 1]
      /\ \A e \in CallsOf(path) : e.provenance = "direct_call"
  BY DEF Inductive, PathsStart, PathsReal, TypeInv, ImpactTypeOK
<1>. HIDE DEF path
<1>. SUFFICES ASSUME Out # {} PROVE FALSE
  BY <1>1
<1>2. PICK i \in Out : \A j \in Out : i <= j
  <2>1. Out \subseteq Nat
    OBVIOUS
  <2>. HIDE DEF Out
  <2>. QED
    BY <2>1, Least
<1>3. Frontier \subseteq Symbol /\ Frontier \subseteq L
  <2>1. Frontier \subseteq Symbol
    BY DEF Frontier, Inductive, TypeInv, ImpactTypeOK
  <2>. QED
    BY <2>1, EntriesReached DEF Reaches
<1>4. i # 1
  BY <1>1, <1>2, <1>3
<1>5. i - 1 \in 1 .. Len(path) - 1 /\ i - 1 \notin Out /\ (i - 1) + 1 = i
  BY <1>1, <1>2, <1>4
<1>6. path[i - 1] \in L
  BY <1>1, <1>5
<1>7. PICK e \in input.graph : e.source = path[i - 1] /\ e.target = path[(i - 1) + 1]
  BY <1>1, <1>5
<1>8. e \in CallsOf(path)
  BY <1>5, <1>7 DEF CallsOf
<1>9. e \in DirectCalls /\ e.target \in Symbol /\ e.source = path[i - 1] /\ e.target = path[i]
  BY <1>1, <1>5, <1>7, <1>8, CaseType DEF DirectCalls, Inductive
<1>10. <<path[i - 1], path[i]>> \in {<<x.source, x.target>> : x \in DirectCalls}
  BY <1>9
<1>11. path[i] \in L
  BY <1>6, <1>9, <1>10, CalleesReached DEF Reaches
<1>. QED
  BY <1>2, <1>11

(***************************************************************************)
(* README.md:378, for all commits and call graphs: what is reported as     *)
(* "must run" is reached from the frontier by direct calls alone.          *)
(***************************************************************************)
THEOREM MustRunIsCertain == Spec => []MustRunCertain
<1>1. Inductive => MustRunCertain
  BY DirectPath DEF MustRunCertain
<1>. QED
  BY InductiveHolds, <1>1, PTL

(***************************************************************************)
(* No turn of the search is in vain, for any graph: it finds symbols, and  *)
(* there are only so many, or leaves a shorter queue.                      *)
(***************************************************************************)
THEOREM SearchAdvances == Spec => SearchProgress
<1>1. TypeInv /\ Visit => TurnAdvances
  <2>. SUFFICES ASSUME TypeInv, Visit PROVE TurnAdvances
    OBVIOUS
  <2>1. PICK targets :
          /\ targets \subseteq Symbol \ DOMAIN visited
          /\ DOMAIN visited' = DOMAIN visited \cup targets
          /\ \E order \in Orders(targets) : queue' = Tail(queue) \o order
    BY VisitStep
  <2>2. PICK order \in Orders(targets) : queue' = Tail(queue) \o order
    BY <2>1
  <2>3. ASSUME DOMAIN visited' = DOMAIN visited
        PROVE  Len(queue') < Len(queue)
    <3>1. targets = {} /\ Cardinality({}) = 0
      BY <2>1, <2>3, FS_EmptySet
    <3>2. order \in Seq({}) /\ Len(order) = 0
      BY <2>2, <3>1 DEF Orders
    <3>3. queue \in Seq(DOMAIN visited) /\ queue # <<>>
      BY VisitStep DEF TypeInv, ImpactTypeOK
    <3>4. Tail(queue) \in Seq(DOMAIN visited) /\ Len(Tail(queue)) = Len(queue) - 1
      BY <3>3
    <3>5. order \in Seq(DOMAIN visited)
      BY <3>2
    <3>6. Len(queue') = Len(queue) - 1 + 0
      BY <2>2, <3>2, <3>4, <3>5
    <3>. QED
      BY <3>3, <3>6
  <2>. QED
    BY <2>1, <2>3, VisitStep DEF TurnAdvances
<1>. QED
  BY TypeInit, TypeStep, <1>1, PTL DEF Spec, SearchProgress
=============================================================================
