---------------------------- MODULE FullRebuild ----------------------------
(***************************************************************************)
(* What the interval store promises, without intervals, hashes or          *)
(* selection: it answers with the facts of one commit, and indexing a      *)
(* commit replaces all of them at once by what a rebuild derives.          *)
(***************************************************************************)
EXTENDS Program

CONSTANTS Tree, MaxSeq

VARIABLES
  answer,          \* the live facts
  at,              \* the seq to resume from
  analyzer         \* the installed build

Init == answer = {} /\ at = 0 /\ analyzer \in Build

Index(c, n) ==
  /\ CheckPoison(Tree[c])
  /\ n \in at .. MaxSeq - 1
  /\ answer' = FactsOf(Tree[c], analyzer)
  /\ at' = n + 1
  /\ UNCHANGED analyzer

Install(b) == b # analyzer /\ analyzer' = b /\ UNCHANGED <<answer, at>>

Next ==
  \/ \E c \in DOMAIN Tree, n \in 0 .. MaxSeq - 1 : Index(c, n)
  \/ \E b \in Build : Install(b)

Spec == Init /\ [][Next]_<<answer, at, analyzer>>
=============================================================================
