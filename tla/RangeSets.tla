----------------------------- MODULE RangeSets -----------------------------
(***************************************************************************)
(* Sets of runes as sequences of inclusive ranges, and Partition, which    *)
(* splits the scanner's domain into classes for the DFA construction.  The *)
(* ranges arrive in the order a pattern gives them, overlapping, adjacent  *)
(* or repeated.                                                            *)
(***************************************************************************)
EXTENDS Integers, Sequences, SequencesExt, FiniteSets, TLC

CONSTANTS
  MaxRune,        (* The runes are 0 .. MaxRune.                           *)
  Labels,         (* The range sets that patterns use.                     *)
  domain,         (* The scanner domain: it has a gap, the surrogates.     *)
  MaxLabels       (* Bound on the labels of one lexer.                     *)

Runes == 0 .. MaxRune
Interval(lo, hi) == [lo |-> lo, hi |-> hi]

(***************************************************************************)
(* The operations.                                                         *)
(***************************************************************************)
Before(r, s) == r.lo < s.lo \/ (r.lo = s.lo /\ r.hi < s.hi)

(* Sorted, and overlapping or adjacent ranges merged. *)
Normalize(s) ==
  LET Merge(out, r) ==
        IF out = <<>> \/ r.lo > Last(out).hi + 1 THEN Append(out, r)
        ELSE IF r.hi > Last(out).hi THEN [out EXCEPT ![Len(out)].hi = r.hi] ELSE out
  IN  FoldLeft(Merge, <<>>, SortSeq(s, Before))

(* The search stops at the first range above the rune. *)
ContainsRune(s, rune) ==
  \E i \in DOMAIN s : /\ rune <= s[i].hi
                      /\ \A j \in 1 .. i : s[j].lo <= rune

Union(s, other) == Normalize(s \o other)

(* Both walk two normal sets side by side and drop the range that ends first. *)
Intersects(s, other) ==
  LET a == Normalize(s)
      b == Normalize(other)
      From[i \in 1 .. Len(a) + 1, j \in 1 .. Len(b) + 1] ==
        /\ i <= Len(a) /\ j <= Len(b)
        /\ IF a[i].hi < b[j].lo THEN From[i + 1, j]
           ELSE IF b[j].hi < a[i].lo THEN From[i, j + 1] ELSE TRUE
  IN  From[1, 1]

Intersection(s, other) ==
  LET a == Normalize(s)
      b == Normalize(other)
      From[i \in 1 .. Len(a) + 1, j \in 1 .. Len(b) + 1] ==
        IF i > Len(a) \/ j > Len(b) THEN <<>>
        ELSE LET lo == IF a[i].lo > b[j].lo THEN a[i].lo ELSE b[j].lo
                 hi == IF a[i].hi < b[j].hi THEN a[i].hi ELSE b[j].hi
             IN  (IF lo <= hi THEN <<Interval(lo, hi)>> ELSE <<>>)
                   \o IF a[i].hi < b[j].hi THEN From[i + 1, j] ELSE From[i, j + 1]
  IN  Normalize(From[1, 1])

(* What is left of a range after a cut. *)
Without(r, cut) ==
  IF cut.hi < r.lo \/ cut.lo > r.hi THEN <<r>>
  ELSE (IF cut.lo > r.lo THEN <<Interval(r.lo, cut.lo - 1)>> ELSE <<>>)
         \o (IF cut.hi < r.hi THEN <<Interval(cut.hi + 1, r.hi)>> ELSE <<>>)

Difference(s, other) ==
  LET Cut(current, cut) == FlattenSeq([i \in DOMAIN current |-> Without(current[i], cut)])
  IN  Normalize(FoldLeft(Cut, Normalize(s), Normalize(other)))

IsSubsetOf(s, other) == Difference(s, other) = <<>>

(***************************************************************************)
(* Partition: the loop over the sets, one step for each.                   *)
(***************************************************************************)
VARIABLES
  sets,           (* The sets the parts were split by so far.              *)
  parts

vars == <<sets, parts>>

Init == sets = <<>> /\ parts = <<Normalize(domain)>>

\* Mutant: parts the set does not touch are dropped.
SplitDropsOutside(set) ==
  /\ Len(sets) < MaxLabels
  /\ sets' = Append(sets, set)
  /\ parts' = LET Halves(part) == <<Intersection(part, set)>>
              IN  SelectSeq(FlattenSeq([i \in DOMAIN parts |-> Halves(parts[i])]),
                            LAMBDA half : half # <<>>)

Split(set) ==
  /\ Len(sets) < MaxLabels
  /\ sets' = Append(sets, set)
  /\ parts' = LET Halves(part) == <<Intersection(part, set), Difference(part, set)>>
              IN  SelectSeq(FlattenSeq([i \in DOMAIN parts |-> Halves(parts[i])]),
                            LAMBDA half : half # <<>>)

Partition == SortSeq(parts, LAMBDA p, q : p[1].lo < q[1].lo)

Next == \E set \in Labels : Split(set)

Spec == Init /\ [][Next]_vars

(***************************************************************************)
(* Properties.                                                             *)
(***************************************************************************)
Members(s) == {rune \in Runes : \E i \in DOMAIN s : s[i].lo <= rune /\ rune <= s[i].hi}

Normal(s) == \A i \in 1 .. Len(s) - 1 : s[i].hi + 1 < s[i + 1].lo

(* The operations compute set algebra on whatever the patterns give them,    *)
(* and their results are in the one normal form of a set, so that comparing  *)
(* two results as text compares them as sets.                                *)
OperationsAreExact ==
  \A i, j \in DOMAIN sets :
    LET s == sets[i]
        t == sets[j]
    IN  /\ Members(Union(s, t)) = Members(s) \cup Members(t)
        /\ Members(Intersection(s, t)) = Members(s) \cap Members(t)
        /\ Members(Difference(s, t)) = Members(s) \ Members(t)
        /\ Intersects(s, t) <=> Members(s) \cap Members(t) # {}
        /\ IsSubsetOf(s, t) <=> Members(s) \subseteq Members(t)
        /\ \A rune \in Runes : ContainsRune(Normalize(s), rune) <=> rune \in Members(s)

NormalForms ==
  \A i, j \in DOMAIN sets :
    /\ Normal(Normalize(sets[i])) /\ Normal(Union(sets[i], sets[j]))
    /\ Normal(Intersection(sets[i], sets[j])) /\ Normal(Difference(sets[i], sets[j]))
    /\ Normalize(sets[i]) = Normalize(sets[j]) <=> Members(sets[i]) = Members(sets[j])

(* The classes of the partition cover the domain, are disjoint, and are as   *)
(* large as possible: two runes share a class exactly when every set has     *)
(* both or neither.  They are listed by their first runes.                   *)
PartitionIsCoarsest ==
  /\ UNION {Members(Partition[i]) : i \in DOMAIN Partition} = Members(domain)
  /\ \A x, y \in Members(domain) :
       (\E i \in DOMAIN Partition : {x, y} \subseteq Members(Partition[i]))
         <=> \A k \in DOMAIN sets : x \in Members(sets[k]) <=> y \in Members(sets[k])
  /\ \A i \in 1 .. Len(Partition) - 1 :
       /\ Partition[i][1].lo < Partition[i + 1][1].lo
       /\ Members(Partition[i]) \cap Members(Partition[i + 1]) = {}

=============================================================================
