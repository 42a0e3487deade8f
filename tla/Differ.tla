------------------------------- MODULE Differ -------------------------------
(***************************************************************************)
(* From git's diff of one file to the symbols it touches.  git takes some  *)
(* lines of the base file for lines of the head file, in order; which ones *)
(* is its own choice.  What is left over are the hunks of                  *)
(* git diff --unified=0, and only their place in the head file is read.    *)
(***************************************************************************)
EXTENDS Integers, Sequences

\* The sets of pairs <<base line, head line>> that git may match.
Alignments(base, head) ==
  {M \in SUBSET {p \in (DOMAIN base) \X (DOMAIN head) : base[p[1]] = head[p[2]]} :
     \A m, n \in M : m[1] < n[1] <=> m[2] < n[2]}

\* The ends of the two files match too.
Matched(base, head, M) == M \cup {<<0, 0>>, <<Len(base) + 1, Len(head) + 1>>}

Neighbours(S) ==
  {p \in S \X S : p[1][2] < p[2][2] /\ \A k \in S : ~(p[1][2] < k[2] /\ k[2] < p[2][2])}

\* A hunk between two matches; one without head lines is placed at the line
\* before it.
HunkBetween(m, n) ==
  [start |-> IF n[2] = m[2] + 1 THEN m[2] ELSE m[2] + 1, count |-> n[2] - m[2] - 1]

Hunks(base, head, M) ==
  {HunkBetween(p[1], p[2]) :
     p \in {q \in Neighbours(Matched(base, head, M)) : q[2] # <<q[1][1] + 1, q[1][2] + 1>>}}

\* Mutant: a hunk without head lines has no range.
RangesOfLines(hunks) == {<<k.start, k.start + k.count - 1>> : k \in {x \in hunks : x.count > 0}}

\* parseDiff: the range of a pure deletion is the line before it.
HunkRanges(hunks) ==
  {<<k.start, IF k.start + k.count - 1 < k.start THEN k.start ELSE k.start + k.count - 1>> : k \in hunks}

\* MapToSymbols: functions and methods whose lines meet a range.
MapToSymbols(ranges, rows) ==
  {r \in rows :
     /\ r.kind \in {"function", "method"}
     /\ \E range \in ranges : ~(range[2] < r.start \/ range[1] > r.end)}

\* What the map is for: a symbol that is left out is, line for line, in the base
\* file, its lines one after the other.
Untouched(base, head, M, r) ==
  \E shift \in -Len(head) .. Len(base) : \A k \in r.start .. r.end : <<k + shift, k>> \in M
=============================================================================
