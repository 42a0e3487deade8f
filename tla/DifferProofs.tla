---------------------------- MODULE DifferProofs ----------------------------
(***************************************************************************)
(* The map from hunks to symbols leaves out no change, however git aligns  *)
(* the two files.                                                          *)
(***************************************************************************)
EXTENDS Differ, WellFoundedInduction, TLAPS

\* The order of the naturals as a relation.
LEMMA NatLess == \A a, b \in Nat : a < b => <<a, b>> \in OpToRel(<, Nat)
BY DEF OpToRel

LEMMA NoneBelow ==
  ASSUME NEW R, \A a, b \in Nat : a < b => <<a, b>> \in R, IsWellFoundedOn(R, Nat),
         NEW S, S \subseteq Nat, S # {}
  PROVE  \E x \in S : \A y \in S : x <= y
<1>1. PICK x \in S : \A y \in S : ~(<<y, x>> \in R)
  BY WFMin
<1>2. \A y \in S : ~(y < x)
  BY <1>1
<1>. QED
  BY <1>2

\* A set of naturals has a least element.
LEMMA Least ==
  ASSUME NEW S, S \subseteq Nat, S # {}
  PROVE  \E x \in S : \A y \in S : x <= y
<1>. DEFINE R == OpToRel(<, Nat)
<1>1. IsWellFoundedOn(R, Nat)
  BY NatLessThanWellFounded
<1>2. \A a, b \in Nat : a < b => <<a, b>> \in R
  BY NatLess
<1>. HIDE DEF R
<1>3. \A Q : (\A a, b \in Nat : a < b => <<a, b>> \in Q) /\ IsWellFoundedOn(Q, Nat)
          => \E x \in S : \A y \in S : x <= y
  BY NoneBelow
<1>. QED
  BY <1>1, <1>2, <1>3, Zenon

\* A bounded one has a greatest.
LEMMA Greatest ==
  ASSUME NEW n \in Nat, NEW S, S \subseteq 0 .. n, S # {}
  PROVE  \E x \in S : \A y \in S : y <= x
<1>. DEFINE D == {n - t : t \in S}
<1>1. D \subseteq Nat /\ D # {}
  <2>1. \A t \in S : t \in Nat /\ t <= n
    OBVIOUS
  <2>2. \A t \in S : n - t \in Nat
    BY <2>1
  <2>3. D \subseteq Nat
    BY <2>2, Zenon
  <2>4. D # {}
    OBVIOUS
  <2>. QED
    BY <2>3, <2>4
<1>2. \E d \in D : \A y \in D : d <= y
  <2>. HIDE DEF D
  <2>. QED
    BY <1>1, Least
<1>3. PICK x \in S : \A y \in D : n - x <= y
  BY <1>2
<1>4. ASSUME NEW y \in S
      PROVE  y <= x
  <2>1. n - x <= n - y
    BY <1>3
  <2>. QED
    BY <2>1
<1>. QED
  BY <1>4

-----------------------------------------------------------------------------
\* The matches with the ends of the files are pairs of naturals, in order.
LEMMA MatchedOrdered ==
  ASSUME NEW Lines, NEW base \in Seq(Lines), NEW head \in Seq(Lines),
         NEW M \in Alignments(base, head)
  PROVE  /\ \A p \in Matched(base, head, M) :
              p[1] \in 0 .. Len(base) + 1 /\ p[2] \in 0 .. Len(head) + 1 /\ p = <<p[1], p[2]>>
         /\ \A p, q \in Matched(base, head, M) : p[1] < q[1] <=> p[2] < q[2]
         /\ \A p, q \in Matched(base, head, M) : p[2] = q[2] => p = q
         /\ <<0, 0>> \in Matched(base, head, M)
         /\ <<Len(base) + 1, Len(head) + 1>> \in Matched(base, head, M)
<1>. DEFINE S == Matched(base, head, M)
<1>1. /\ Len(base) \in Nat /\ DOMAIN base = 1 .. Len(base)
      /\ Len(head) \in Nat /\ DOMAIN head = 1 .. Len(head)
  OBVIOUS
<1>2. \A p \in M : p \in (1 .. Len(base)) \X (1 .. Len(head))
  BY <1>1 DEF Alignments
<1>3. \A p, q \in M : p[1] < q[1] <=> p[2] < q[2]
  BY DEF Alignments
<1>4. \A p \in S : p \in M \/ p = <<0, 0>> \/ p = <<Len(base) + 1, Len(head) + 1>>
  BY DEF Matched
<1>5. \A p \in S : p[1] \in 0 .. Len(base) + 1 /\ p[2] \in 0 .. Len(head) + 1 /\ p = <<p[1], p[2]>>
  BY <1>1, <1>2, <1>4
<1>6. \A p, q \in S : p[1] < q[1] <=> p[2] < q[2]
  BY <1>1, <1>2, <1>3, <1>4
<1>7. ASSUME NEW p \in S, NEW q \in S, p[2] = q[2]
      PROVE  p = q
  <2>1. ~(p[1] < q[1]) /\ ~(q[1] < p[1])
    BY <1>5, <1>6, <1>7
  <2>2. p[1] = q[1]
    BY <2>1, <1>5
  <2>. QED
    BY <2>2, <1>5, <1>7
<1>. QED
  BY <1>5, <1>6, <1>7 DEF Matched

\* Two neighbours that do not follow one another make a range.
LEMMA GapHasRange ==
  ASSUME NEW base, NEW head, NEW M,
         NEW m \in Matched(base, head, M), NEW n \in Matched(base, head, M),
         m[1] \in Nat, m[2] \in Nat, n[2] \in Nat, m[2] < n[2],
         \A k \in Matched(base, head, M) : ~(m[2] < k[2] /\ k[2] < n[2]),
         n # <<m[1] + 1, m[2] + 1>>
  PROVE  \E range \in HunkRanges(Hunks(base, head, M)) :
           IF n[2] = m[2] + 1 THEN range[1] = m[2] /\ range[2] = m[2]
                              ELSE range[1] = m[2] + 1 /\ range[2] = n[2] - 1
<1>. DEFINE hunk == HunkBetween(m, n)
            end == IF hunk.start + hunk.count - 1 < hunk.start THEN hunk.start ELSE hunk.start + hunk.count - 1
<1>1. <<m, n>> \in Neighbours(Matched(base, head, M))
  BY DEF Neighbours
<1>2. hunk \in Hunks(base, head, M)
  BY <1>1 DEF Hunks
<1>3. <<hunk.start, end>> \in HunkRanges(Hunks(base, head, M))
  BY <1>2 DEF HunkRanges
<1>4. CASE n[2] = m[2] + 1
  <2>1. hunk.start = m[2] /\ hunk.count = 0
    BY <1>4 DEF HunkBetween
  <2>. QED
    BY <1>3, <1>4, <2>1
<1>5. CASE n[2] # m[2] + 1
  <2>1. hunk.start = m[2] + 1 /\ hunk.count = n[2] - m[2] - 1
    BY <1>5 DEF HunkBetween
  <2>2. end = n[2] - 1
    BY <2>1, <1>5
  <2>. QED
    BY <1>3, <1>5, <2>1, <2>2
<1>. QED
  BY <1>4, <1>5

\* A line of the head file that git matches with no line is in a range.
LEMMA UnmatchedInRange ==
  ASSUME NEW Lines, NEW base \in Seq(Lines), NEW head \in Seq(Lines),
         NEW M \in Alignments(base, head),
         NEW line \in 1 .. Len(head), \A p \in M : p[2] # line
  PROVE  \E range \in HunkRanges(Hunks(base, head, M)) :
           range[1] \in Nat /\ range[2] \in Nat /\ range[1] <= line /\ line <= range[2]
<1>. DEFINE S == Matched(base, head, M)
            Above == {p[2] : p \in {q \in S : q[2] < line}}
            Below == {p[2] : p \in {q \in S : line < q[2]}}
<1>1. Len(base) \in Nat /\ Len(head) \in Nat
  OBVIOUS
<1>2. \A p \in S : p[1] \in Nat /\ p[2] \in 0 .. Len(head) + 1
  <2>1. \A p \in S : p[1] \in 0 .. Len(base) + 1 /\ p[2] \in 0 .. Len(head) + 1
    BY MatchedOrdered
  <2>. HIDE DEF S
  <2>. QED
    BY <1>1, <2>1
<1>3. <<0, 0>> \in S /\ <<Len(base) + 1, Len(head) + 1>> \in S
  BY MatchedOrdered
<1>4. \A p \in S : p[2] # line
  BY <1>1 DEF Matched
<1>. HIDE DEF S
<1>5. \E x \in Above : \A y \in Above : y <= x
  <2>1. Above \subseteq 0 .. Len(head) + 1
    BY <1>2, Zenon
  <2>2. Above # {}
    <3>. DEFINE p == <<0, 0>>
    <3>1. p \in S /\ p[2] < line
      BY <1>3
    <3>. HIDE DEF p
    <3>. QED
      BY <3>1
  <2>3. Len(head) + 1 \in Nat
    BY <1>1
  <2>. HIDE DEF Above
  <2>. QED
    BY <2>1, <2>2, <2>3, Greatest
<1>6. \E x \in Below : \A y \in Below : x <= y
  <2>1. Below \subseteq Nat
    BY <1>2
  <2>2. Below # {}
    <3>. DEFINE p == <<Len(base) + 1, Len(head) + 1>>
    <3>1. p \in S /\ line < p[2]
      BY <1>1, <1>3
    <3>. HIDE DEF p
    <3>. QED
      BY <3>1
  <2>. HIDE DEF Below
  <2>. QED
    BY <2>1, <2>2, Least
<1>7. PICK m \in S : m[2] < line /\ \A p \in S : p[2] < line => p[2] <= m[2]
  BY <1>5
<1>8. PICK n \in S : line < n[2] /\ \A p \in S : line < p[2] => n[2] <= p[2]
  BY <1>6
<1>9. /\ m[1] \in Nat /\ m[2] \in Nat /\ n[2] \in Nat
      /\ m[2] < n[2] /\ n[2] # m[2] + 1 /\ n # <<m[1] + 1, m[2] + 1>>
  BY <1>2, <1>7, <1>8
<1>10. \A k \in S : ~(m[2] < k[2] /\ k[2] < n[2])
  BY <1>1, <1>2, <1>4, <1>7, <1>8
<1>11. \E range \in HunkRanges(Hunks(base, head, M)) : range[1] = m[2] + 1 /\ range[2] = n[2] - 1
  BY <1>9, <1>10, GapHasRange DEF S
<1>. QED
  BY <1>7, <1>8, <1>9, <1>11

(***************************************************************************)
(* differ.go, MapToSymbols, for every pair of files and every alignment:   *)
(* a function that no hunk is mapped to has, line for line, the text it    *)
(* has in the base file, with nothing cut out between two of its lines.    *)
(***************************************************************************)
THEOREM MapMissesNothing ==
  ASSUME NEW Lines, NEW base \in Seq(Lines), NEW head \in Seq(Lines),
         NEW M \in Alignments(base, head),
         NEW rows, NEW r \in rows, r.kind \in {"function", "method"},
         r.start \in 1 .. Len(head), r.end \in r.start .. Len(head),
         r \notin MapToSymbols(HunkRanges(Hunks(base, head, M)), rows)
  PROVE  Untouched(base, head, M, r)
<1>. DEFINE Ranges == HunkRanges(Hunks(base, head, M))
            S == Matched(base, head, M)
            shift == (CHOOSE p \in M : p[2] = r.start)[1] - r.start
            Off == {k \in r.start .. r.end : <<k + shift, k>> \notin M}
<1>1. Len(base) \in Nat /\ Len(head) \in Nat
  OBVIOUS
<1>2. \A range \in Ranges : range[2] < r.start \/ range[1] > r.end
  BY DEF MapToSymbols
<1>3. M \subseteq S /\ \A p \in M : p[1] \in Nat /\ p[2] \in Nat /\ p = <<p[1], p[2]>>
  <2>1. M \subseteq S
    BY DEF Matched
  <2>2. \A p \in S : p[1] \in 0 .. Len(base) + 1 /\ p[2] \in 0 .. Len(head) + 1 /\ p = <<p[1], p[2]>>
    BY MatchedOrdered
  <2>. HIDE DEF S
  <2>. QED
    BY <1>1, <2>1, <2>2
<1>4. ASSUME NEW k \in r.start .. r.end
      PROVE  \E p \in M : p[2] = k
  <2>1. k \in 1 .. Len(head)
    BY <1>1
  <2>2. CASE \A p \in M : p[2] # k
    <3>1. \E range \in Ranges : range[1] \in Nat /\ range[2] \in Nat /\ range[1] <= k /\ k <= range[2]
      BY <2>1, <2>2, UnmatchedInRange
    <3>. HIDE DEF Ranges
    <3>. QED
      BY <1>1, <1>2, <3>1
  <2>. QED
    BY <2>2
<1>. DEFINE first == CHOOSE p \in M : p[2] = r.start
<1>5. first \in M /\ first[2] = r.start
  <2>1. \E p \in M : p[2] = r.start
    BY <1>1, <1>4
  <2>. QED
    BY <2>1
<1>6. /\ shift \in Int /\ <<r.start + shift, r.start>> \in M
      /\ shift \in -Len(head) .. Len(base)
  <2>1. first[1] \in Nat /\ first = <<first[1], first[2]>>
    BY <1>3, <1>5
  <2>4. first[1] \in 1 .. Len(base)
    <3>1. DOMAIN base = 1 .. Len(base)
      OBVIOUS
    <3>2. first \in (DOMAIN base) \X (DOMAIN head)
      BY <1>5 DEF Alignments
    <3>. QED
      BY <3>1, <3>2
  <2>2. shift = first[1] - r.start
    OBVIOUS
  <2>. HIDE DEF shift, first
  <2>3. shift \in Int /\ r.start + shift = first[1] /\ shift \in -Len(head) .. Len(base)
    BY <1>1, <2>1, <2>2, <2>4
  <2>. QED
    BY <1>5, <2>1, <2>3
<1>. HIDE DEF shift, first
<1>7. Off = {}
  <2>. SUFFICES ASSUME Off # {}
                PROVE  FALSE
    OBVIOUS
  <2>1. \E k \in Off : \A j \in Off : k <= j
    <3>1. Off \subseteq Nat
      OBVIOUS
    <3>. HIDE DEF Off
    <3>. QED
      BY <3>1, Least
  <2>2. PICK k \in Off : \A j \in Off : k <= j
    BY <2>1
  <2>3. k \in r.start .. r.end /\ k # r.start
    BY <1>6
  <2>4. k - 1 \in r.start .. r.end /\ k - 1 \notin Off
    BY <2>2, <2>3
  <2>. DEFINE m == <<(k - 1) + shift, k - 1>>
  <2>5. m \in M
    BY <2>4
  <2>6. PICK n \in M : n[2] = k
    BY <1>4, <2>3
  <2>7. n # <<m[1] + 1, m[2] + 1>>
    <3>1. m[1] + 1 = k + shift /\ m[2] + 1 = k
      BY <1>6, <2>3
    <3>. QED
      BY <2>2, <2>6, <3>1
  <2>8. \A q \in S : ~(m[2] < q[2] /\ q[2] < n[2])
    <3>1. \A q \in S : q[2] \in 0 .. Len(head) + 1
      BY MatchedOrdered
    <3>. HIDE DEF S
    <3>. QED
      BY <2>3, <2>6, <3>1
  <2>9. PICK range \in Ranges : range[1] = k - 1 /\ range[2] = k - 1
    <3>1. /\ m \in S /\ n \in S /\ m[1] \in Nat /\ m[2] \in Nat /\ n[2] \in Nat
          /\ m[2] < n[2] /\ n[2] = m[2] + 1 /\ m[2] = k - 1
      BY <1>3, <2>3, <2>5, <2>6
    <3>. HIDE DEF m
    <3>2. \E range \in Ranges :
            IF n[2] = m[2] + 1 THEN range[1] = m[2] /\ range[2] = m[2]
                               ELSE range[1] = m[2] + 1 /\ range[2] = n[2] - 1
      BY <2>7, <2>8, <3>1, GapHasRange
    <3>. QED
      BY <3>1, <3>2
  <2>. QED
    BY <1>2, <2>4, <2>9
<1>. QED
  BY <1>6, <1>7 DEF Untouched
=============================================================================
