------------------------ MODULE GrammarTablesProofs ------------------------
(***************************************************************************)
(* The tables of every grammar without errors are sound, whichever         *)
(* algorithm builds them: what the proofs about the generated parsers      *)
(* assume of their tables.  Merging states is safe, and the algorithms are *)
(* a hierarchy.  The operands of typed reducers have the types declared.   *)
(***************************************************************************)
EXTENDS TypedActions, ProofLemmas

-----------------------------------------------------------------------------
(* Loops. *)

\* What holds at first and is carried from each step to the next holds at last.
LEMMA AppliedFacts ==
  ASSUME NEW A, NEW steps \in Seq([A -> A]), NEW start \in A,
         NEW Good \in [Nat -> SUBSET A], start \in Good[0],
         \A n \in 1..Len(steps) : \A a \in Good[n - 1] : steps[n][a] \in Good[n]
  PROVE  Applied(steps, start) \in Good[Len(steps)]
<1> DEFINE f == CHOOSE f : TakesTurns(f, steps, start)
<1>1. TakesTurns(f, steps, start)
  BY TurnsExist
<1>2. Applied(steps, start) = f[Len(steps)]
  BY DEF Applied, TakesTurns
<1> HIDE DEF f
<1>3. f[Len(steps)] \in Good[Len(steps)]
  BY <1>1, TurnsKeep
<1> QED  BY <1>2, <1>3

\* A loop whose rounds keep an invariant and lower a measure ends, with the
\* invariant, at a value that another round does not change.
LEMMA FixpointFacts ==
  ASSUME NEW A, NEW step \in [A -> A], NEW I \in SUBSET A, NEW m \in [I -> Nat], NEW start \in I,
         \A a \in I : step[a] \in I /\ (step[a] # a => m[step[a]] < m[a])
  PROVE  Fixpoint(step, start) \in I /\ step[Fixpoint(step, start)] = Fixpoint(step, start)
<1> DEFINE f == CHOOSE f : RunsOn(f, step)
<1>1. RunsOn(f, step)
  BY RunExists
<1>2. Fixpoint(step, start) = f[start]
  BY DEF Fixpoint, RunsOn
<1> HIDE DEF f
<1>3. f[start] \in I /\ step[f[start]] = f[start]
  BY <1>1, RunRests
<1> QED  BY <1>2, <1>3

-----------------------------------------------------------------------------
(* Grammars, and the sets of items an automaton is made of. *)

\* What FromSpec and Augment make sure of.
GrammarOK(g) ==
  /\ IsFiniteSet(g.terminals) /\ IsFiniteSet(g.nonterminals)
  /\ Alphabet(g) \subseteq STRING /\ g.terminals \cap g.nonterminals = {}
  /\ EOF \in g.terminals /\ Error \in g.terminals /\ NoLookahead \notin g.terminals
  /\ \E n \in Nat : RulesOf(g) = 0..n
  /\ \A r \in RulesOf(g) : /\ g.rules[r].lhs \in g.nonterminals
                           /\ Rhs(g, r) \in Seq(Alphabet(g) \ {g.rules[0].lhs})
  /\ g.rules[0].lhs = g.start /\ Len(Rhs(g, 0)) = 1
  /\ g.symbols \in Seq(STRING)
  /\ \A r \in RulesOf(g) \ {0} : g.rules[r].lhs \in ToSet(g.symbols)

LookaheadsOf(g) == g.terminals \cup {NoLookahead}
GoodItems(g)    == {it \in Items(g) : it[2] <= Len(Rhs(g, it[1]))}

\* Some item of the set has its dot before x.
Awaits(g, items, x) == \E it \in items : ~IsComplete(g, it) /\ AfterDot(g, it) = x

\* The symbols and the length of a rule.
LEMMA RhsFacts ==
  ASSUME NEW g, GrammarOK(g), NEW r \in RulesOf(g)
  PROVE  /\ Rhs(g, r) \in Seq(Alphabet(g)) /\ Len(Rhs(g, r)) \in Nat
         /\ \A i \in 1..Len(Rhs(g, r)) : Rhs(g, r)[i] \in Alphabet(g) /\ Rhs(g, r)[i] # g.rules[0].lhs
<1>1. Rhs(g, r) \in Seq(Alphabet(g) \ {g.rules[0].lhs})
  BY DEF GrammarOK
<1>2. Rhs(g, r) \in Seq(Alphabet(g))
  BY <1>1, SeqMonotonic
<1>3. Len(Rhs(g, r)) \in Nat
  BY <1>2, LenProperties
<1>4. \A i \in 1..Len(Rhs(g, r)) : Rhs(g, r)[i] \in Alphabet(g) \ {g.rules[0].lhs}
  BY <1>1, ElementOfSeq
<1> QED  BY <1>2, <1>3, <1>4

\* An item is a rule, a dot and a lookahead,
LEMMA ItemFacts ==
  ASSUME NEW g, NEW it \in Items(g)
  PROVE  /\ it[1] \in RulesOf(g) /\ it[2] \in Nat /\ it[3] \in LookaheadsOf(g)
         /\ it = <<it[1], it[2], it[3]>>
BY DEF Items, LookaheadsOf

\* and the dot of a good one stands in its rule.
LEMMA GoodItemFacts ==
  ASSUME NEW g, GrammarOK(g), NEW it \in GoodItems(g)
  PROVE  /\ it \in Items(g) /\ it[1] \in RulesOf(g) /\ it[2] \in 0..Len(Rhs(g, it[1]))
         /\ ~IsComplete(g, it) =>
              /\ it[2] + 1 \in 1..Len(Rhs(g, it[1]))
              /\ AfterDot(g, it) \in Alphabet(g) /\ AfterDot(g, it) # g.rules[0].lhs
<1>1. it \in Items(g) /\ it[2] <= Len(Rhs(g, it[1]))
  BY DEF GoodItems
<1>2. it[1] \in RulesOf(g) /\ it[2] \in Nat
  BY <1>1, ItemFacts
<1>3. Len(Rhs(g, it[1])) \in Nat
  BY <1>2, RhsFacts
<1>4. ASSUME ~IsComplete(g, it)
      PROVE  it[2] + 1 \in 1..Len(Rhs(g, it[1]))
  BY <1>1, <1>2, <1>3, <1>4 DEF IsComplete
<1>5. ASSUME ~IsComplete(g, it)
      PROVE  AfterDot(g, it) \in Alphabet(g) /\ AfterDot(g, it) # g.rules[0].lhs
  BY <1>2, <1>4, <1>5, RhsFacts DEF AfterDot
<1> QED  BY <1>1, <1>2, <1>3, <1>4, <1>5

\* There are finitely many good items.
LEMMA GoodItemsFinite ==
  ASSUME NEW g, GrammarOK(g)
  PROVE  IsFiniteSet(GoodItems(g))
<1> DEFINE R == RulesOf(g)  L == LookaheadsOf(g)
           Of == [r \in R |-> {<<r, p[1], p[2]>> : p \in (0..Len(Rhs(g, r))) \X L}]
           All == {Of[r] : r \in R}
<1>1. IsFiniteSet(R)
  <2>1. PICK n \in Nat : R = 0..n
    BY DEF GrammarOK
  <2> QED  BY <2>1, FS_Interval
<1>2. IsFiniteSet(L)
  BY FS_AddElement DEF GrammarOK, LookaheadsOf
<1>3. IsFiniteSet(All)
  <2>1. Of \in [R -> {Of[r] : r \in R}]
    OBVIOUS
  <2> HIDE DEF Of, R
  <2> QED  BY <1>1, <2>1, ImageFinite
<1>4. \A S \in All : IsFiniteSet(S)
  <2> SUFFICES ASSUME NEW r \in R
               PROVE  IsFiniteSet(Of[r])
    OBVIOUS
  <2> DEFINE D == 0..Len(Rhs(g, r))  P == D \X L
             item == [p \in P |-> <<r, p[1], p[2]>>]
  <2>1. IsFiniteSet(D)
    <3>1. Len(Rhs(g, r)) \in Nat
      BY RhsFacts
    <3> QED  BY <3>1, FS_Interval
  <2>2. IsFiniteSet(P)
    <3> HIDE DEF D, L
    <3> QED  BY <1>2, <2>1, FS_Product
  <2>3. Of[r] = {item[p] : p \in P} /\ item \in [P -> Of[r]]
    OBVIOUS
  <2> HIDE DEF P, item, Of
  <2>4. IsFiniteSet({item[p] : p \in P})
    <3> DEFINE V == Of[r]
    <3>1. item \in [P -> V]
      BY <2>3
    <3> HIDE DEF V
    <3> QED  BY <2>2, <3>1, ImageFinite
  <2> QED  BY <2>3, <2>4
<1>5. IsFiniteSet(UNION All)
  <2> HIDE DEF All
  <2> QED  BY <1>3, <1>4, FS_UNION
<1>6. GoodItems(g) \subseteq UNION All
  <2> SUFFICES ASSUME NEW it \in GoodItems(g)
               PROVE  it \in Of[it[1]] /\ it[1] \in R
    OBVIOUS
  <2>1. it[1] \in R /\ it[2] \in 0..Len(Rhs(g, it[1])) /\ it \in Items(g)
    BY GoodItemFacts
  <2>2. it[3] \in L /\ it = <<it[1], it[2], it[3]>>
    BY <2>1, ItemFacts
  <2> DEFINE d == it[2]  la == it[3]
  <2>3. <<d, la>> \in (0..Len(Rhs(g, it[1]))) \X L /\ it = <<it[1], <<d, la>>[1], <<d, la>>[2]>>
    BY <2>1, <2>2
  <2> HIDE DEF R, L, d, la
  <2> QED  BY <2>1, <2>3
<1> HIDE DEF All
<1> QED  BY <1>5, <1>6, FS_Subset

-----------------------------------------------------------------------------
(* FIRST. *)

Firsts(g) == [Alphabet(g) -> SUBSET g.terminals]

\* The terminals that can begin a sequence are terminals.
LEMMA FirstSequenceTyped ==
  ASSUME NEW g, NEW first \in Firsts(g), NEW nullable, NEW seq \in Seq(Alphabet(g))
  PROVE  FirstSequence(first, nullable, seq) \subseteq g.terminals
<1>1. \A i \in 1..Len(seq) : first[seq[i]] \subseteq g.terminals
  <2> SUFFICES ASSUME NEW i \in 1..Len(seq)
               PROVE  first[seq[i]] \subseteq g.terminals
    OBVIOUS
  <2>1. seq[i] \in Alphabet(g)
    BY ElementOfSeq
  <2> QED  BY <2>1 DEF Firsts
<1> QED  BY <1>1 DEF FirstSequence

\* A round adds terminals to the sets,
LEMMA GrowFirstTyped ==
  ASSUME NEW g, GrammarOK(g), NEW first \in Firsts(g), NEW nullable
  PROVE  /\ GrowFirst(g, nullable, first) \in Firsts(g)
         /\ \A x \in Alphabet(g) : first[x] \subseteq GrowFirst(g, nullable, first)[x]
<1>1. \A r \in RulesOf(g) : FirstSequence(first, nullable, Rhs(g, r)) \subseteq g.terminals
  BY RhsFacts, FirstSequenceTyped
<1>2. \A x \in Alphabet(g) : GrowFirst(g, nullable, first)[x] \subseteq g.terminals
  BY <1>1 DEF GrowFirst, Firsts
<1>3. GrowFirst(g, nullable, first) \in Firsts(g)
  BY <1>2 DEF GrowFirst, Firsts
<1> QED  BY <1>3 DEF GrowFirst

\* and rounds are made until none does.
LEMMA FirstFacts ==
  ASSUME NEW g, GrammarOK(g), NEW nullable
  PROVE  /\ FirstSets(g, nullable) \in Firsts(g)
         /\ \A t \in g.terminals : FirstSets(g, nullable)[t] = {t}
         /\ GrowFirst(g, nullable, FirstSets(g, nullable)) = FirstSets(g, nullable)
<1> DEFINE A == Firsts(g)
           step == [first \in A |-> GrowFirst(g, nullable, first)]
           start == [x \in Alphabet(g) |-> IF x \in g.terminals THEN {x} ELSE {}]
           U == Alphabet(g) \X g.terminals
           Pairs(first) == {p \in U : p[2] \in first[p[1]]}
           m == [first \in A |-> Cardinality(U) - Cardinality(Pairs(first))]
           I == {first \in A : \A t \in g.terminals : first[t] = {t}}
           n == [first \in I |-> m[first]]
<1>1. IsFiniteSet(U)
  <2>1. IsFiniteSet(Alphabet(g)) /\ IsFiniteSet(g.terminals)
    BY FS_Union DEF GrammarOK, Alphabet
  <2> QED  BY <2>1, FS_Product
<1>2. step \in [A -> A]
  BY GrowFirstTyped
<1>3. start \in I
  BY DEF Firsts, Alphabet
<1>4. ASSUME NEW first \in A
      PROVE  /\ m[first] \in Nat
             /\ step[first] # first => m[step[first]] < m[first]
  <2> DEFINE next == GrowFirst(g, nullable, first)
  <2>1. next \in A /\ \A x \in Alphabet(g) : first[x] \subseteq next[x]
    BY GrowFirstTyped
  <2>2. step[first] = next
    OBVIOUS
  <2> HIDE DEF next, step
  <2>3. Pairs(first) \subseteq Pairs(next) /\ Pairs(next) \subseteq U
    BY <2>1
  <2>4. Pairs(first) = Pairs(next) => first = next
    <3> SUFFICES ASSUME Pairs(first) = Pairs(next)
                 PROVE  first = next
      OBVIOUS
    <3>1. \A x \in Alphabet(g), t \in g.terminals : t \in first[x] <=> t \in next[x]
      <4> SUFFICES ASSUME NEW x \in Alphabet(g), NEW t \in g.terminals
                   PROVE  t \in first[x] <=> t \in next[x]
        OBVIOUS
      <4>1. <<x, t>> \in U
        OBVIOUS
      <4>2. <<x, t>> \in Pairs(first) <=> <<x, t>> \in Pairs(next)
        OBVIOUS
      <4> QED  BY <4>1, <4>2
    <3>2. \A x \in Alphabet(g) : first[x] = next[x]
      BY <2>1, <3>1 DEF Firsts
    <3> QED  BY <2>1, <3>2 DEF Firsts
  <2>5. m[first] = Cardinality(U) - Cardinality(Pairs(first)) /\ m[next] = Cardinality(U) - Cardinality(Pairs(next))
    BY <2>1
  <2> HIDE DEF m, Pairs, U
  <2>6. Cardinality(U) - Cardinality(Pairs(first)) \in Nat
    BY <1>1, <2>1, <2>3, GrowthMeasure
  <2>7. first # next => Cardinality(U) - Cardinality(Pairs(next)) < Cardinality(U) - Cardinality(Pairs(first))
    BY <1>1, <2>3, <2>4, GrowthMeasure
  <2> QED  BY <2>2, <2>5, <2>6, <2>7
<1>5. \A first \in I : step[first] \in I
  <2> SUFFICES ASSUME NEW first \in I
               PROVE  step[first] \in I
    OBVIOUS
  <2>1. GrowFirst(g, nullable, first) \in A
    BY GrowFirstTyped
  <2>2. ASSUME NEW t \in g.terminals
        PROVE  GrowFirst(g, nullable, first)[t] = {t}
    <3>1. {q \in RulesOf(g) : g.rules[q].lhs = t} = {}
      BY DEF GrammarOK
    <3>2. first[t] = {t} /\ t \in Alphabet(g)
      BY DEF Alphabet
    <3> QED  BY <3>1, <3>2 DEF GrowFirst
  <2> QED  BY <2>1, <2>2
<1>6. n \in [I -> Nat] /\ I \in SUBSET A
  <2> HIDE DEF m, A
  <2> QED  BY <1>4
<1>7. \A first \in I : step[first] # first => n[step[first]] < n[first]
  <2> HIDE DEF m, A, step
  <2> QED  BY <1>4, <1>5
<1>8. FirstSets(g, nullable) = Fixpoint(step, start)
  BY DEF FirstSets, Firsts
<1>9. Fixpoint(step, start) \in I /\ step[Fixpoint(step, start)] = Fixpoint(step, start)
  <2> HIDE DEF A, I, step, start, n, m
  <2> QED  BY <1>2, <1>3, <1>5, <1>6, <1>7, FixpointFacts
<1> HIDE DEF start
<1> QED  BY <1>8, <1>9

-----------------------------------------------------------------------------
(* Closures. *)

\* What closing over an item adds can be looked ahead to.
LEMMA LookaheadsTyped ==
  ASSUME NEW g, GrammarOK(g), NEW first \in Firsts(g), NEW nullable, NEW it \in Items(g)
  PROVE  Lookaheads(g, first, nullable, it) \subseteq LookaheadsOf(g)
<1>1. it[1] \in RulesOf(g) /\ it[2] \in Nat /\ it[3] \in LookaheadsOf(g)
  BY ItemFacts
<1>2. CASE it[3] = NoLookahead
  BY <1>1, <1>2 DEF Lookaheads
<1>3. CASE it[3] # NoLookahead
  <2> DEFINE rhs == Rhs(g, it[1])  rest == Suffix(rhs, it[2] + 2)  seq == Append(rest, it[3])
  <2>1. rhs \in Seq(Alphabet(g)) /\ Len(rhs) \in Nat
    BY <1>1, RhsFacts
  <2>2. rest \in Seq(Alphabet(g))
    <3>1. it[2] + 2 \in Int /\ Len(rhs) \in Int
      BY <1>1, <2>1
    <3>2. \A i \in it[2] + 2..Len(rhs) : rhs[i] \in Alphabet(g)
      <4> SUFFICES ASSUME NEW i \in it[2] + 2..Len(rhs)
                   PROVE  rhs[i] \in Alphabet(g)
        OBVIOUS
      <4>1. i \in 1..Len(rhs)
        BY <1>1, <2>1
      <4> HIDE DEF rhs
      <4> QED  BY <2>1, <4>1, ElementOfSeq
    <3> HIDE DEF rhs
    <3> QED  BY <3>1, <3>2, SubSeqProperties DEF Suffix
  <2>3. it[3] \in Alphabet(g)
    BY <1>1, <1>3 DEF LookaheadsOf, Alphabet
  <2> HIDE DEF rest
  <2>4. seq \in Seq(Alphabet(g))
    BY <2>2, <2>3, AppendProperties
  <2>5. Lookaheads(g, first, nullable, it) = FirstSequence(first, nullable, seq)
    BY <1>3 DEF Lookaheads, rest
  <2> HIDE DEF seq
  <2> QED  BY <2>4, <2>5, FirstSequenceTyped DEF LookaheadsOf
<1> QED  BY <1>2, <1>3

\* What a round of closing adds: an item with its dot at the start of a rule,
\* for an item with its dot before what the rule derives.
LEMMA GrowItemsFacts ==
  ASSUME NEW g, GrammarOK(g), NEW first \in Firsts(g), NEW nullable, NEW items \in SUBSET Items(g)
  PROVE  /\ items \subseteq GrowItems(g, first, nullable, items)
         /\ \A it : it \in GrowItems(g, first, nullable, items) <=>
              \/ it \in items
              \/ \E by \in items, r \in RulesOf(g), la \in LookaheadsOf(g) :
                   /\ it = <<r, 0, la>> /\ la \in Lookaheads(g, first, nullable, by)
                   /\ ~IsComplete(g, by) /\ AfterDot(g, by) = g.rules[r].lhs
         /\ GrowItems(g, first, nullable, items) \in SUBSET Items(g)
<1> DEFINE new(it) == {<<r, 0, la>> : r \in {q \in RulesOf(g) : g.rules[q].lhs = AfterDot(g, it)},
                                      la \in Lookaheads(g, first, nullable, it)}
           Added == {new(it) : it \in Opened(g, items)}
<1>1. GrowItems(g, first, nullable, items) = items \cup UNION Added
  BY DEF GrowItems
<1>2. \A by \in items : Lookaheads(g, first, nullable, by) \subseteq LookaheadsOf(g)
  BY LookaheadsTyped
<1>3. \A r \in RulesOf(g) : g.rules[r].lhs \in g.nonterminals
  BY DEF GrammarOK
<1>4. ASSUME NEW it
      PROVE  it \in UNION Added <=>
               \E by \in items, r \in RulesOf(g), la \in LookaheadsOf(g) :
                   /\ it = <<r, 0, la>> /\ la \in Lookaheads(g, first, nullable, by)
                   /\ ~IsComplete(g, by) /\ AfterDot(g, by) = g.rules[r].lhs
  <2>1. ASSUME NEW by \in Opened(g, items), it \in new(by)
        PROVE  \E r \in RulesOf(g), la \in LookaheadsOf(g) :
                   /\ it = <<r, 0, la>> /\ la \in Lookaheads(g, first, nullable, by)
                   /\ ~IsComplete(g, by) /\ AfterDot(g, by) = g.rules[r].lhs
    BY <1>2, <2>1 DEF Opened
  <2>2. ASSUME NEW by \in items, NEW r \in RulesOf(g), NEW la \in LookaheadsOf(g),
               it = <<r, 0, la>>, la \in Lookaheads(g, first, nullable, by),
               ~IsComplete(g, by), AfterDot(g, by) = g.rules[r].lhs
        PROVE  by \in Opened(g, items) /\ it \in new(by)
    BY <1>3, <2>2 DEF Opened
  <2>3. it \in UNION Added <=> \E by \in Opened(g, items) : it \in new(by)
    OBVIOUS
  <2>4. Opened(g, items) \subseteq items
    BY DEF Opened
  <2> HIDE DEF new, Added
  <2> QED  BY <2>1, <2>2, <2>3, <2>4
<1> HIDE DEF Added
<1>5. \A it : it \in GrowItems(g, first, nullable, items) <=> it \in items \/ it \in UNION Added
  BY <1>1
<1>6. \A it : it \in UNION Added => it \in Items(g)
  BY <1>4 DEF Items, LookaheadsOf
<1> QED  BY <1>1, <1>4, <1>5, <1>6

\* A dot may stand at the start of any rule.
LEMMA StartItems ==
  ASSUME NEW g, GrammarOK(g), NEW r \in RulesOf(g), NEW la \in LookaheadsOf(g)
  PROVE  <<r, 0, la>> \in GoodItems(g)
<1>1. Len(Rhs(g, r)) \in Nat
  BY RhsFacts
<1> QED  BY <1>1 DEF GoodItems, Items, LookaheadsOf

\* Good items stay good.
LEMMA GrowItemsGood ==
  ASSUME NEW g, GrammarOK(g), NEW first \in Firsts(g), NEW nullable, NEW items \in SUBSET GoodItems(g)
  PROVE  GrowItems(g, first, nullable, items) \in SUBSET GoodItems(g)
<1>1. items \in SUBSET Items(g)
  BY DEF GoodItems
<1>2. \A r \in RulesOf(g), la \in LookaheadsOf(g) : <<r, 0, la>> \in GoodItems(g)
  BY StartItems
<1>3. \A it : it \in GrowItems(g, first, nullable, items) =>
        it \in items \/ \E r \in RulesOf(g), la \in LookaheadsOf(g) : it = <<r, 0, la>>
  BY <1>1, GrowItemsFacts
<1> QED  BY <1>2, <1>3

\* What holds of the kernel and is kept by every round holds of the closure, and
\* another round adds nothing to it.
LEMMA ClosureInduction ==
  ASSUME NEW g, GrammarOK(g), NEW first \in Firsts(g), NEW nullable,
         NEW P \in SUBSET SUBSET Items(g), NEW kernel \in P,
         \A items \in P : GrowItems(g, first, nullable, items) \in P
  PROVE  /\ Closure(g, first, nullable, kernel) \in P
         /\ GrowItems(g, first, nullable, Closure(g, first, nullable, kernel))
              = Closure(g, first, nullable, kernel)
<1> DEFINE A == SUBSET Items(g)
           step == [set \in A |-> GrowItems(g, first, nullable, set)]
           U == GoodItems(g)
           m == [set \in P |-> Cardinality(U) - Cardinality(set \cap U)]
<1>1. step \in [A -> A]
  BY GrowItemsFacts
<1>2. P \in SUBSET A
  OBVIOUS
<1>3. \A set \in P : step[set] = GrowItems(g, first, nullable, set) /\ step[set] \in P
  BY <1>2
<1>4. ASSUME NEW set \in P
      PROVE  m[set] \in Nat /\ (step[set] # set => m[step[set]] < m[set])
  <2>1. set \subseteq step[set] /\ \A it \in step[set] \ set : it \in U
    <3>1. \A r \in RulesOf(g), la \in LookaheadsOf(g) : <<r, 0, la>> \in U
      BY StartItems
    <3> HIDE DEF U
    <3> QED  BY <1>2, <1>3, <3>1, GrowItemsFacts
  <2> HIDE DEF step, U
  <2>2. IsFiniteSet(U)
    BY GoodItemsFinite DEF U
  <2> DEFINE S == set \cap U  T == step[set] \cap U
  <2>3. S \subseteq T /\ T \subseteq U /\ S \subseteq U /\ (S = T => set = step[set])
    BY <2>1
  <2>4. m[set] = Cardinality(U) - Cardinality(S) /\ m[step[set]] = Cardinality(U) - Cardinality(T)
    BY <1>3
  <2> HIDE DEF S, T, m
  <2>5. Cardinality(U) - Cardinality(S) \in Nat
    BY <2>2, <2>3, GrowthMeasure
  <2>6. S # T => Cardinality(U) - Cardinality(T) < Cardinality(U) - Cardinality(S)
    BY <2>2, <2>3, GrowthMeasure
  <2> QED  BY <2>3, <2>4, <2>5, <2>6
<1>5. m \in [P -> Nat]
  <2>1. \A set \in P : m[set] = Cardinality(U) - Cardinality(set \cap U)
    OBVIOUS
  <2> QED  BY <1>4, <2>1
<1>6. Closure(g, first, nullable, kernel) = Fixpoint(step, kernel)
  BY DEF Closure
<1>7. Fixpoint(step, kernel) \in P /\ step[Fixpoint(step, kernel)] = Fixpoint(step, kernel)
  <2> HIDE DEF step, m, A
  <2> QED  BY <1>1, <1>2, <1>3, <1>4, <1>5, FixpointFacts
<1> QED  BY <1>3, <1>6, <1>7

\* The closure of any items is one of items,
LEMMA ClosureTyped ==
  ASSUME NEW g, GrammarOK(g), NEW first \in Firsts(g), NEW nullable, NEW kernel \in SUBSET Items(g)
  PROVE  Closure(g, first, nullable, kernel) \in SUBSET Items(g)
<1> DEFINE P == SUBSET Items(g)
<1>1. P \in SUBSET SUBSET Items(g) /\ kernel \in P
  OBVIOUS
<1>2. \A items \in P : GrowItems(g, first, nullable, items) \in P
  BY GrowItemsFacts
<1> HIDE DEF P
<1>3. Closure(g, first, nullable, kernel) \in P
  BY <1>1, <1>2, ClosureInduction
<1> QED  BY <1>3 DEF P

\* and the closure of good ones is its kernel and items with their dots at the starts of rules that
\* derive what other items of the closure have their dots before.
LEMMA ClosureFacts ==
  ASSUME NEW g, GrammarOK(g), NEW first \in Firsts(g), NEW nullable, NEW kernel \in SUBSET GoodItems(g)
  PROVE  LET all == Closure(g, first, nullable, kernel)
         IN  /\ all \in SUBSET GoodItems(g) /\ kernel \subseteq all
             /\ \A it \in all \ kernel :
                  it[2] = 0 /\ it[1] # 0 /\ Awaits(g, all, g.rules[it[1]].lhs)
<1> DEFINE Explained(set) == \A it \in set \ kernel : it[2] = 0 /\ it[1] # 0 /\ Awaits(g, set, g.rules[it[1]].lhs)
           P == {set \in SUBSET GoodItems(g) : kernel \subseteq set /\ Explained(set)}
<1>1. kernel \in P
  OBVIOUS
<1>2. ASSUME NEW set \in P
      PROVE  GrowItems(g, first, nullable, set) \in P
  <2> DEFINE more == GrowItems(g, first, nullable, set)
  <2>1. set \in SUBSET GoodItems(g) /\ set \in SUBSET Items(g)
    BY DEF GoodItems
  <2>2. set \subseteq more /\ more \in SUBSET GoodItems(g)
    BY <2>1, GrowItemsFacts, GrowItemsGood
  <2>3. ASSUME NEW it \in more \ kernel
        PROVE  it[2] = 0 /\ it[1] # 0 /\ Awaits(g, more, g.rules[it[1]].lhs)
    <3>1. CASE it \in set
      <4>1. it[2] = 0 /\ it[1] # 0 /\ Awaits(g, set, g.rules[it[1]].lhs)
        BY <3>1
      <4> HIDE DEF more
      <4> QED  BY <2>2, <4>1 DEF Awaits
    <3>2. CASE it \notin set
      <4>1. PICK by \in set, r \in RulesOf(g), la \in LookaheadsOf(g) :
              it = <<r, 0, la>> /\ ~IsComplete(g, by) /\ AfterDot(g, by) = g.rules[r].lhs
        BY <2>1, <3>2, GrowItemsFacts
      <4>2. AfterDot(g, by) # g.rules[0].lhs
        BY <2>1, <4>1, GoodItemFacts
      <4>3. it[2] = 0 /\ it[1] = r /\ r # 0
        BY <4>1, <4>2
      <4> HIDE DEF more
      <4> QED  BY <2>2, <4>1, <4>3 DEF Awaits
    <3> QED  BY <3>1, <3>2
  <2> HIDE DEF more
  <2>4. Explained(more)
    BY <2>3
  <2> HIDE DEF Explained
  <2>5. more \in P
    BY <2>2, <2>4
  <2> QED  BY <2>5 DEF more
<1>3. Closure(g, first, nullable, kernel) \in P
  <2>1. P \in SUBSET SUBSET Items(g)
    BY DEF GoodItems
  <2> HIDE DEF P
  <2> QED  BY <1>1, <1>2, <2>1, ClosureInduction
<1> QED  BY <1>3

-----------------------------------------------------------------------------
(* Transitions. *)

\* A state that is entered has items to explain it, and never the first one.
Inner(items) == (\E it \in items : it[2] > 0) /\ \A it \in items : it[2] = 0 => it[1] # 0

\* An item stands at the start of a rule because another one awaits the rule.
Justified(g, items) == \A it \in items : it[2] = 0 /\ it[1] # 0 => Awaits(g, items, g.rules[it[1]].lhs)

\* Going from one state to the other on x moves dots over x.
Moves(g, from, x, to) ==
  \A it \in to : it[2] > 0 => Rhs(g, it[1])[it[2]] = x /\ <<it[1], it[2] - 1>> \in Core(from)

\* The transition on a symbol: there is one if an item awaits the symbol.
LEMMA GotoFacts ==
  ASSUME NEW g, GrammarOK(g), NEW first \in Firsts(g), NEW nullable,
         NEW items \in SUBSET GoodItems(g), NEW x
  PROVE  LET to == Goto(g, first, nullable, items, x)
         IN  /\ to \in SUBSET GoodItems(g) /\ Justified(g, to) /\ Moves(g, items, x, to)
             /\ to # {} <=> Awaits(g, items, x)
             /\ to # {} => Inner(to)
<1> DEFINE before == {i \in items : ~IsComplete(g, i) /\ AfterDot(g, i) = x}
           kernel == {<<it[1], it[2] + 1, it[3]>> : it \in before}
           to == Closure(g, first, nullable, kernel)
<1>1. Goto(g, first, nullable, items, x) = to
  BY DEF Goto
<1>2. ASSUME NEW it \in before
      PROVE  /\ it[1] \in RulesOf(g) /\ it[2] \in Nat /\ it[3] \in LookaheadsOf(g)
             /\ it[2] + 1 <= Len(Rhs(g, it[1])) /\ Rhs(g, it[1])[it[2] + 1] = x
  <2>1. it \in GoodItems(g) /\ ~IsComplete(g, it) /\ AfterDot(g, it) = x
    OBVIOUS
  <2>2. it \in Items(g) /\ it[2] + 1 \in 1..Len(Rhs(g, it[1]))
    BY <2>1, GoodItemFacts
  <2>3. it[1] \in RulesOf(g) /\ it[2] \in Nat /\ it[3] \in LookaheadsOf(g)
    BY <2>2, ItemFacts
  <2> QED  BY <2>1, <2>2, <2>3 DEF AfterDot
<1>3. ASSUME NEW it \in kernel
      PROVE  /\ it \in GoodItems(g) /\ it[2] > 0 /\ Rhs(g, it[1])[it[2]] = x
             /\ <<it[1], it[2] - 1>> \in Core(items)
  <2>1. PICK by \in before : it = <<by[1], by[2] + 1, by[3]>>
    OBVIOUS
  <2>2. /\ by[1] \in RulesOf(g) /\ by[2] \in Nat /\ by[3] \in LookaheadsOf(g) /\ by \in items
        /\ by[2] + 1 <= Len(Rhs(g, by[1])) /\ Rhs(g, by[1])[by[2] + 1] = x
    BY <1>2
  <2>3. it[1] = by[1] /\ it[2] = by[2] + 1 /\ it[3] = by[3] /\ it[2] - 1 = by[2]
    BY <2>1, <2>2
  <2>4. <<it[1], it[2] - 1>> \in Core(items)
    BY <2>2, <2>3 DEF Core
  <2>5. it \in GoodItems(g)
    BY <2>1, <2>2, <2>3 DEF GoodItems, Items, LookaheadsOf
  <2> QED  BY <2>2, <2>3, <2>4, <2>5
<1>4. kernel # {} <=> Awaits(g, items, x)
  BY DEF Awaits
<1> HIDE DEF kernel
<1>5. /\ to \in SUBSET GoodItems(g) /\ kernel \subseteq to
      /\ \A it \in to \ kernel : it[2] = 0 /\ it[1] # 0 /\ Awaits(g, to, g.rules[it[1]].lhs)
  <2>1. kernel \in SUBSET GoodItems(g)
    BY <1>3
  <2> QED  BY <2>1, ClosureFacts
<1>6. kernel = {} => to = {}
  <2> SUFFICES ASSUME kernel = {}
               PROVE  to \in {{}}
    OBVIOUS
  <2>1. GrowItems(g, first, nullable, {}) = {}
    BY DEF GrowItems, Opened
  <2> DEFINE P == {{}}
  <2>2. P \in SUBSET SUBSET Items(g) /\ kernel \in P
    OBVIOUS
  <2>3. \A set \in P : GrowItems(g, first, nullable, set) \in P
    BY <2>1
  <2> HIDE DEF P
  <2>4. to \in P
    BY <2>2, <2>3, ClosureInduction
  <2> QED  BY <2>4 DEF P
<1> HIDE DEF to
<1>7. \A it \in to : it[2] = 0 => it \in to \ kernel
  <2> SUFFICES ASSUME NEW it \in to, it[2] = 0, it \in kernel
               PROVE  FALSE
    OBVIOUS
  <2>1. it[2] > 0
    BY <1>3
  <2> QED  BY <2>1
<1>8. \A it \in to : it[2] > 0 => it \in kernel
  <2> SUFFICES ASSUME NEW it \in to, it[2] > 0, it \notin kernel
               PROVE  FALSE
    OBVIOUS
  <2>1. it[2] = 0
    BY <1>5
  <2> QED  BY <2>1
<1>9. Justified(g, to)
  BY <1>5, <1>7 DEF Justified
<1>10. Moves(g, items, x, to)
  BY <1>3, <1>8 DEF Moves
<1>11. to # {} => Inner(to)
  <2>1. to # {} => \E it \in to : it[2] > 0
    BY <1>3, <1>5, <1>6
  <2> QED  BY <1>5, <1>7, <2>1 DEF Inner
<1> QED  BY <1>1, <1>4, <1>5, <1>6, <1>9, <1>10, <1>11

\* Any items have a transition to items.
LEMMA GotoTyped ==
  ASSUME NEW g, GrammarOK(g), NEW first \in Firsts(g), NEW nullable, NEW items \in SUBSET Items(g), NEW x
  PROVE  Goto(g, first, nullable, items, x) \in SUBSET Items(g)
<1> DEFINE before == {i \in items : ~IsComplete(g, i) /\ AfterDot(g, i) = x}
           kernel == {<<it[1], it[2] + 1, it[3]>> : it \in before}
<1>1. \A it \in before : <<it[1], it[2] + 1, it[3]>> \in Items(g)
  BY ItemFacts DEF Items, LookaheadsOf
<1>2. kernel \in SUBSET Items(g)
  BY <1>1
<1>3. Goto(g, first, nullable, items, x) = Closure(g, first, nullable, kernel)
  BY DEF Goto
<1> HIDE DEF kernel
<1> QED  BY <1>2, <1>3, ClosureTyped

-----------------------------------------------------------------------------
(* Automata. *)

\* The least of some numbers is one of them.
LEMMA MinFacts ==
  ASSUME NEW S \in SUBSET Nat, S # {}
  PROVE  Min(S) \in S /\ \A n \in S : Min(S) <= n
<1>1. \E x \in S : \A y \in S : x <= y
  BY LeastElement
<1> QED  BY <1>1 DEF Min

\* Where the first element equal to e stands.
LEMMA PlaceOf ==
  ASSUME NEW S, NEW seq \in Seq(S), NEW e \in ToSet(seq)
  PROVE  /\ SelectInSeq(seq, LAMBDA s : s = e) \in 1..Len(seq)
         /\ seq[SelectInSeq(seq, LAMBDA s : s = e)] = e
<1> DEFINE I == {i \in 1..Len(seq) : seq[i] = e}
<1>1. Len(seq) \in Nat /\ DOMAIN seq = 1..Len(seq)
  BY LenProperties
<1>2. I # {}
  BY <1>1 DEF ToSet
<1>3. SelectInSeq(seq, LAMBDA s : s = e) = Min(I)
  BY <1>2 DEF SelectInSeq
<1>4. I \in SUBSET Nat
  BY <1>1
<1>5. Min(I) \in I
  <2> HIDE DEF I
  <2> QED  BY <1>2, <1>4, MinFacts
<1> QED  BY <1>3, <1>5

\* The parts of an automaton.
LEMMA AutomatonFacts ==
  ASSUME NEW g, NEW auto \in Automata(g)
  PROVE  /\ auto.states \in Seq(SUBSET Items(g)) /\ auto.edges \in SUBSET (Nat \X STRING \X Nat)
         /\ auto.next \in Nat /\ auto.next <= Len(auto.states) /\ Len(auto.states) \in Nat
         /\ auto = [states |-> auto.states, edges |-> auto.edges, next |-> auto.next]
<1>1. /\ auto \in [states : Seq(SUBSET Items(g)), edges : SUBSET (Nat \X STRING \X Nat), next : Nat]
      /\ auto.next <= Len(auto.states)
  BY DEF Automata
<1>2. auto.states \in Seq(SUBSET Items(g))
  BY <1>1
<1>3. Len(auto.states) \in Nat
  BY <1>2, LenProperties
<1> QED  BY <1>1, <1>2, <1>3

\* What following a transition leaves in place, and what it adds.
LEMMA VisitFacts ==
  ASSUME NEW g, NEW auto \in Automata(g), NEW x \in STRING, NEW goal \in SUBSET Items(g)
  PROVE  LET seen == Visit(auto, x, goal)
         IN  /\ seen \in Automata(g) /\ seen.next = auto.next /\ Len(auto.states) <= Len(seen.states)
             /\ \A i \in 1..Len(auto.states) : seen.states[i] = auto.states[i]
             /\ goal = {} => seen = auto
             /\ goal # {} =>
                  \E n \in 1..Len(seen.states) :
                    /\ seen.states[n] = goal
                    /\ seen.edges = auto.edges \cup {<<auto.next, x, n - 1>>}
                    /\ \/ seen.states = auto.states
                       \/ /\ seen.states = Append(auto.states, goal) /\ n = Len(auto.states) + 1
                          /\ goal \notin ToSet(auto.states)
<1> DEFINE S == auto.states  E == auto.edges  k == auto.next  seen == Visit(auto, x, goal)
<1>1. /\ S \in Seq(SUBSET Items(g)) /\ E \in SUBSET (Nat \X STRING \X Nat)
      /\ k \in Nat /\ k <= Len(S) /\ Len(S) \in Nat /\ auto = [states |-> S, edges |-> E, next |-> k]
  BY AutomatonFacts
<1>2. CASE goal = {}
  BY <1>1, <1>2 DEF Visit
<1>3. CASE goal # {} /\ goal \in ToSet(S)
  <2> DEFINE n == SelectInSeq(S, LAMBDA s : s = goal)
  <2>1. n \in 1..Len(S) /\ S[n] = goal
    <3> HIDE DEF S
    <3> QED  BY <1>1, <1>3, PlaceOf
  <2>2. seen = [auto EXCEPT !.edges = @ \cup {<<k, x, n - 1>>}]
    BY <1>3 DEF Visit
  <2> HIDE DEF n, S, E, k, seen
  <2>3. seen = [states |-> S, edges |-> E \cup {<<k, x, n - 1>>}, next |-> k]
    BY <1>1, <2>2
  <2>4. seen.states = S /\ seen.edges = E \cup {<<k, x, n - 1>>} /\ seen.next = k
    BY <2>3
  <2>5. n - 1 \in Nat
    BY <1>1, <2>1
  <2>6. seen \in Automata(g)
    BY <1>1, <2>3, <2>5 DEF Automata
  <2> QED  BY <1>1, <1>3, <2>1, <2>4, <2>6 DEF S, E, k, seen
<1>4. CASE goal # {} /\ goal \notin ToSet(S)
  <2> DEFINE n == Len(S) + 1  R == Append(S, goal)
  <2>1. seen = [auto EXCEPT !.states = Append(@, goal), !.edges = @ \cup {<<k, x, Len(S)>>}]
    BY <1>4 DEF Visit
  <2>2. /\ R \in Seq(SUBSET Items(g)) /\ Len(R) = n /\ R[n] = goal
        /\ \A i \in 1..Len(S) : R[i] = S[i]
    <3> HIDE DEF S
    <3> QED  BY <1>1, PushFacts
  <2>3. Len(S) = n - 1 /\ n \in 1..n
    BY <1>1
  <2> HIDE DEF S, E, k, seen, n
  <2>4. seen = [states |-> R, edges |-> E \cup {<<k, x, n - 1>>}, next |-> k]
    BY <1>1, <2>1, <2>3
  <2>5. seen.states = R /\ seen.edges = E \cup {<<k, x, n - 1>>} /\ seen.next = k
    BY <2>4
  <2>6. n - 1 \in Nat /\ k <= Len(R) /\ Len(S) <= Len(R)
    BY <1>1, <2>2, <2>3
  <2> HIDE DEF R
  <2>7. seen \in Automata(g)
    BY <1>1, <2>2, <2>4, <2>6 DEF Automata
  <2> USE DEF n
  <2> QED  BY <1>1, <1>4, <2>2, <2>3, <2>5, <2>6, <2>7 DEF S, E, k, seen, R
<1> QED  BY <1>2, <1>3, <1>4

\* What every automaton says of its states and edges, finished or not.
StatesOK(g, auto) ==
  /\ auto.states \in Seq(SUBSET GoodItems(g)) /\ Len(auto.states) >= 1
  /\ \A it \in auto.states[1] : it[2] = 0
  /\ \A i \in 2..Len(auto.states) : Inner(auto.states[i])
EdgesOK(g, auto) ==
  \A e \in auto.edges :
    /\ e[1] \in Numbers(auto) /\ e[2] \in STRING /\ e[3] \in Numbers(auto) \ {0}
    /\ Moves(g, auto.states[e[1] + 1], e[2], auto.states[e[3] + 1])
Leaves(auto, s, x) == TargetsOf(auto, s, x) # {}

\* Its edges are the transitions of its states.
Exact(g, first, nullable, auto) ==
  \A e \in auto.edges :
    /\ e[2] \in ToSet(g.symbols)
    /\ auto.states[e[3] + 1] = Goto(g, first, nullable, auto.states[e[1] + 1], e[2])
\* What transitions keep.
KeptByGoto(g, first, nullable, P) ==
  \A items \in P : \A x \in ToSet(g.symbols) :
    Goto(g, first, nullable, items, x) # {} => Goto(g, first, nullable, items, x) \in P
\* One under construction has found no state twice, each has its rules derived,
\* those below next have left on every symbol they await, and what transitions
\* keep has been kept since the first state.
Growing(g, first, nullable, from, P) ==
  {auto \in Automata(g) :
     /\ StatesOK(g, auto) /\ EdgesOK(g, auto)
     /\ \A i, j \in 1..Len(auto.states) : auto.states[i] = auto.states[j] => i = j
     /\ \A i \in 1..Len(auto.states) : Justified(g, auto.states[i])
     /\ \A s \in Nat : s < auto.next =>
          \A x \in ToSet(g.symbols) : Awaits(g, auto.states[s + 1], x) => Leaves(auto, s, x)
     /\ Exact(g, first, nullable, auto) /\ auto.states[1] = from
     /\ \A i \in 1..Len(auto.states) : auto.states[i] \in P}

\* More edges leave more.
LEMMA LeavesMore ==
  ASSUME NEW auto, NEW more, auto.edges \subseteq more.edges, NEW s, NEW x, Leaves(auto, s, x)
  PROVE  Leaves(more, s, x)
BY DEF Leaves, TargetsOf

\* Following a transition of state next keeps all that.
LEMMA VisitGrows ==
  ASSUME NEW g, GrammarOK(g), NEW first \in Firsts(g), NEW nullable,
         NEW from, NEW P, KeptByGoto(g, first, nullable, P), NEW auto \in Growing(g, first, nullable, from, P),
         auto.next < Len(auto.states), NEW x \in STRING, x \in ToSet(g.symbols)
  PROVE  LET items == auto.states[auto.next + 1]
             seen  == Visit(auto, x, Goto(g, first, nullable, items, x))
         IN  /\ seen \in Growing(g, first, nullable, from, P) /\ seen.next = auto.next /\ seen.next < Len(seen.states)
             /\ \A i \in 1..Len(auto.states) : seen.states[i] = auto.states[i]
             /\ auto.edges \subseteq seen.edges
             /\ Awaits(g, items, x) => Leaves(seen, auto.next, x)
<1> DEFINE S == auto.states  k == auto.next  items == S[k + 1]
           to == Goto(g, first, nullable, items, x)  seen == Visit(auto, x, to)
<1>1. /\ auto \in Automata(g) /\ StatesOK(g, auto) /\ EdgesOK(g, auto)
      /\ \A i, j \in 1..Len(S) : S[i] = S[j] => i = j
      /\ \A i \in 1..Len(S) : Justified(g, S[i])
      /\ \A s \in Nat : s < k => \A y \in ToSet(g.symbols) : Awaits(g, S[s + 1], y) => Leaves(auto, s, y)
  BY DEF Growing
<1>2. k \in Nat /\ Len(S) \in Nat /\ k + 1 \in 1..Len(S) /\ S \in Seq(SUBSET GoodItems(g)) /\ Len(S) >= 1
  <2>1. k \in Nat /\ Len(S) \in Nat
    BY <1>1, AutomatonFacts
  <2>2. S \in Seq(SUBSET GoodItems(g)) /\ Len(S) >= 1
    BY <1>1 DEF StatesOK
  <2> HIDE DEF items, to, seen
  <2> QED  BY <2>1, <2>2
<1>3. items \in SUBSET GoodItems(g)
  <2> HIDE DEF S, k
  <2> QED  BY <1>2, ElementOfSeq
<1>4. /\ to \in SUBSET GoodItems(g) /\ Justified(g, to) /\ Moves(g, items, x, to)
      /\ to # {} <=> Awaits(g, items, x)
      /\ to # {} => Inner(to)
  BY <1>3, GotoFacts
<1> HIDE DEF to
<1>5. to \in SUBSET Items(g)
  BY <1>4 DEF GoodItems
<1>6. CASE to = {}
  <2>1. seen = auto
    BY <1>1, <1>5, <1>6, VisitFacts
  <2> QED  BY <1>2, <1>4, <1>6, <2>1 DEF to
<1>7. CASE to # {}
  <2> DEFINE R == seen.states
  <2>1. seen \in Automata(g) /\ seen.next = k /\ Len(S) <= Len(R) /\ \A i \in 1..Len(S) : R[i] = S[i]
    <3>1. auto \in Automata(g)
      BY <1>1
    <3> QED  BY <1>5, <3>1, VisitFacts
  <2>2. PICK n \in 1..Len(R) :
          /\ R[n] = to /\ seen.edges = auto.edges \cup {<<k, x, n - 1>>}
          /\ \/ R = S
             \/ R = Append(S, to) /\ n = Len(S) + 1 /\ to \notin ToSet(S)
    BY <1>1, <1>5, <1>7, VisitFacts
  <2>3. Len(R) \in Nat
    BY <2>1, AutomatonFacts
  <2> HIDE DEF seen, S, k
  <2>4. /\ R \in Seq(SUBSET GoodItems(g))
        /\ \A i \in 1..Len(R) : i \in 1..Len(S) \/ (i = n /\ n = Len(S) + 1 /\ to \notin ToSet(S))
    <3>1. CASE R = S
      BY <1>2, <3>1
    <3>2. CASE R # S
      <4>1. R = Append(S, to) /\ n = Len(S) + 1 /\ to \notin ToSet(S)
        BY <2>2, <3>2
      <4>2. R \in Seq(SUBSET GoodItems(g)) /\ Len(R) = Len(S) + 1
        BY <1>2, <1>4, <4>1, PushFacts
      <4> QED  BY <1>2, <4>1, <4>2
    <3> QED  BY <3>1, <3>2
  <2>5. 1 \in 1..Len(S) /\ R[1] = S[1] /\ S[1] = from /\ \A it \in S[1] : it[2] = 0
    <3>1. S[1] = from
      BY DEF Growing, S
    <3> QED  BY <1>1, <1>2, <2>1, <3>1 DEF StatesOK, S
  <2>6. n # 1
    BY <1>4, <1>7, <2>2, <2>5 DEF Inner
  <2>7. StatesOK(g, seen)
    <3>1. \A i \in 2..Len(S) : Inner(S[i])
      BY <1>1 DEF StatesOK, S
    <3>2. ASSUME NEW i \in 2..Len(R)
          PROVE  Inner(R[i])
      <4>1. i \in 1..Len(R)
        BY <2>3
      <4>2. CASE i \in 1..Len(S)
        <5>1. i \in 2..Len(S)
          BY <1>2, <2>3, <4>2
        <5> QED  BY <2>1, <3>1, <4>2, <5>1
      <4>3. CASE i = n
        BY <1>4, <1>7, <2>2, <4>3
      <4> QED  BY <2>4, <4>1, <4>2, <4>3
    <3> QED  BY <1>2, <2>1, <2>3, <2>4, <2>5, <3>2 DEF StatesOK
  <2>8. EdgesOK(g, seen)
    <3>1. k \in Numbers(seen) /\ k + 1 \in 1..Len(S) /\ n - 1 \in Numbers(seen) \ {0} /\ (n - 1) + 1 = n
      BY <1>2, <2>1, <2>3, <2>6 DEF Numbers
    <3>2. R[k + 1] = items
      BY <2>1, <3>1
    <3>3. ASSUME NEW e \in seen.edges, e \notin auto.edges
          PROVE  /\ e[1] \in Numbers(seen) /\ e[2] \in STRING /\ e[3] \in Numbers(seen) \ {0}
                 /\ Moves(g, R[e[1] + 1], e[2], R[e[3] + 1])
      <4>1. e[1] = k /\ e[2] = x /\ e[3] = n - 1
        BY <2>2, <3>3
      <4> HIDE DEF items, R
      <4> QED  BY <1>4, <2>2, <3>1, <3>2, <4>1
    <3>4. ASSUME NEW e \in auto.edges
          PROVE  /\ e[1] \in Numbers(seen) /\ e[2] \in STRING /\ e[3] \in Numbers(seen) \ {0}
                 /\ Moves(g, R[e[1] + 1], e[2], R[e[3] + 1])
      <4>1. /\ e[1] \in 0..(Len(S) - 1) /\ e[2] \in STRING /\ e[3] \in 0..(Len(S) - 1) /\ e[3] # 0
            /\ Moves(g, S[e[1] + 1], e[2], S[e[3] + 1])
        BY <1>1 DEF EdgesOK, Numbers, S
      <4>2. e[1] + 1 \in 1..Len(S) /\ e[3] + 1 \in 1..Len(S)
        <5>1. Len(S) \in Nat /\ e[1] \in 0..(Len(S) - 1) /\ e[3] \in 0..(Len(S) - 1)
          BY <1>2, <4>1
        <5> QED  BY ONLY <5>1
      <4>3. S[e[1] + 1] = R[e[1] + 1] /\ S[e[3] + 1] = R[e[3] + 1]
        BY <2>1, <4>2
      <4>4. e[1] \in Numbers(seen) /\ e[3] \in Numbers(seen) \ {0}
        <5>1. Len(S) \in Nat /\ Len(R) \in Nat /\ Len(S) <= Len(R)
          BY <1>2, <2>1, <2>3
        <5>2. e[1] \in 0..(Len(R) - 1) /\ e[3] \in 0..(Len(R) - 1) /\ e[3] # 0
          BY ONLY <4>1, <5>1, SMTT(30)
        <5> QED  BY <5>2 DEF Numbers
      <4> QED  BY <4>1, <4>3, <4>4
    <3> QED  BY <3>3, <3>4 DEF EdgesOK
  <2>9. ASSUME NEW i \in 1..Len(R), NEW j \in 1..Len(R), R[i] = R[j]
        PROVE  i = j
    <3>1. DOMAIN S = 1..Len(S)
      BY <1>2, LenProperties
    <3>2. \A l \in 1..Len(S) : S[l] \in ToSet(S)
      BY <3>1 DEF ToSet
    <3>3. i \in 1..Len(S) /\ j \in 1..Len(S) => i = j
      BY <1>1, <2>1, <2>9 DEF S
    <3> QED  BY <2>1, <2>2, <2>4, <2>9, <3>2, <3>3
  <2>10. ASSUME NEW i \in 1..Len(R)
         PROVE  Justified(g, R[i])
    <3>1. \A l \in 1..Len(S) : Justified(g, S[l])
      BY <1>1 DEF S
    <3> QED  BY <1>4, <2>1, <2>2, <2>4, <3>1
  <2>11. auto.edges \subseteq seen.edges
    BY <2>2
  <2>12. ASSUME NEW s \in Nat, s < k, NEW y \in ToSet(g.symbols), Awaits(g, R[s + 1], y)
         PROVE  Leaves(seen, s, y)
    <3>1. s + 1 \in 1..Len(S)
      BY <1>2, <2>12
    <3>2. Awaits(g, S[s + 1], y)
      BY <2>1, <2>12, <3>1
    <3>3. Leaves(auto, s, y)
      BY <1>1, <2>12, <3>2 DEF S, k
    <3> QED  BY <2>11, <3>3, LeavesMore
  <2>13. Leaves(seen, k, x)
    <3>1. <<k, x, n - 1>> \in seen.edges
      BY <2>2
    <3>2. n - 1 \in TargetsOf(seen, k, x)
      BY <3>1 DEF TargetsOf
    <3> QED  BY <3>2 DEF Leaves
  <2>14. Exact(g, first, nullable, seen)
    <3>1. /\ Exact(g, first, nullable, auto) /\ k + 1 \in 1..Len(S) /\ (n - 1) + 1 = n
          /\ \A e \in auto.edges : e[1] + 1 \in 1..Len(S) /\ e[3] + 1 \in 1..Len(S)
      <4>1. Exact(g, first, nullable, auto)
        BY DEF Growing
      <4>2. (n - 1) + 1 = n
        BY <2>3
      <4>3. \A e \in auto.edges : e[1] \in 0..(Len(S) - 1) /\ e[3] \in 0..(Len(S) - 1)
        BY <1>1 DEF EdgesOK, Numbers, S
      <4>4. \A m \in 0..(Len(S) - 1) : m + 1 \in 1..Len(S)
        BY <1>2
      <4> QED  BY <1>2, <4>1, <4>2, <4>3, <4>4
    <3>2. ASSUME NEW e \in seen.edges, e \notin auto.edges
          PROVE  e[2] \in ToSet(g.symbols) /\ R[e[3] + 1] = Goto(g, first, nullable, R[e[1] + 1], e[2])
      <4>1. e[1] = k /\ e[2] = x /\ e[3] = n - 1
        BY <2>2, <3>2
      <4>2. R[k + 1] = items
        BY <2>1, <3>1
      <4> HIDE DEF items, R
      <4> QED  BY <2>2, <3>1, <4>1, <4>2 DEF to
    <3>3. ASSUME NEW e \in auto.edges
          PROVE  e[2] \in ToSet(g.symbols) /\ R[e[3] + 1] = Goto(g, first, nullable, R[e[1] + 1], e[2])
      <4>1. /\ e[2] \in ToSet(g.symbols)
            /\ S[e[3] + 1] = Goto(g, first, nullable, S[e[1] + 1], e[2])
        BY <3>1 DEF Exact, S
      <4>2. R[e[1] + 1] = S[e[1] + 1] /\ R[e[3] + 1] = S[e[3] + 1]
        BY <2>1, <3>1
      <4> QED  BY <4>1, <4>2
    <3> QED  BY <3>2, <3>3 DEF Exact
  <2>15. ASSUME NEW i \in 1..Len(R)
         PROVE  R[i] \in P
    <3>1. \A l \in 1..Len(S) : S[l] \in P
      BY DEF Growing, S
    <3>2. to \in P
      <4>1. items \in P
        BY <1>2, <3>1
      <4> QED  BY <1>7, <4>1 DEF KeptByGoto, to
    <3> QED  BY <2>1, <2>2, <2>4, <3>1, <3>2
  <2>16. seen \in Growing(g, first, nullable, from, P)
    BY <2>1, <2>5, <2>7, <2>8, <2>9, <2>10, <2>12, <2>14, <2>15 DEF Growing
  <2>17. seen.next < Len(R)
    BY <1>2, <2>1, <2>3
  <2> QED  BY <2>1, <2>11, <2>13, <2>17, <2>16 DEF seen, S, k, to
<1> QED  BY <1>6, <1>7

\* The visits of a state, as functions.
LEMMA VisitsTyped ==
  ASSUME NEW g, GrammarOK(g), NEW first \in Firsts(g), NEW nullable, NEW items \in SUBSET Items(g)
  PROVE  LET visits == Visits(g, first, nullable, items)
         IN  /\ visits \in Seq([Automata(g) -> Automata(g)]) /\ Len(visits) = Len(g.symbols)
             /\ \A i \in 1..Len(g.symbols), a \in Automata(g) :
                  visits[i][a] = Visit(a, g.symbols[i], Goto(g, first, nullable, items, g.symbols[i]))
<1> DEFINE N == Len(g.symbols)
           to(i) == Goto(g, first, nullable, items, g.symbols[i])
           visits == Visits(g, first, nullable, items)
<1>1. N \in Nat /\ DOMAIN g.symbols = 1..N /\ \A i \in 1..N : g.symbols[i] \in STRING
  <2>1. g.symbols \in Seq(STRING)
    BY DEF GrammarOK
  <2> QED  BY <2>1, LenProperties, ElementOfSeq
<1>2. \A i \in 1..N : to(i) \in SUBSET Items(g)
  BY GotoTyped
<1> HIDE DEF to
<1>3. \A i \in 1..N, a \in Automata(g) : Visit(a, g.symbols[i], to(i)) \in Automata(g)
  BY <1>1, <1>2, VisitFacts
<1>4. \A i \in 1..N : visits[i] = [a \in Automata(g) |-> Visit(a, g.symbols[i], to(i))]
  BY <1>1 DEF Visits, to
<1>5. visits = [i \in 1..N |-> visits[i]]
  BY <1>1 DEF Visits
<1> HIDE DEF visits
<1>6. \A i \in 1..N : visits[i] \in [Automata(g) -> Automata(g)]
  BY <1>3, <1>4
<1> HIDE DEF N
<1>7. visits \in Seq([Automata(g) -> Automata(g)]) /\ Len(visits) = N
  BY <1>1, <1>5, <1>6, IsASeq, SMTT(30)
<1> QED  BY <1>4, <1>7 DEF visits, to, N

\* A round of the worklist makes an automaton of an automaton,
LEMMA ExpandTyped ==
  ASSUME NEW g, GrammarOK(g), NEW first \in Firsts(g), NEW nullable, NEW auto \in Automata(g)
  PROVE  Expand(g, first, nullable, auto) \in Automata(g)
<1> DEFINE A == Automata(g)  N == Len(g.symbols)  items == auto.states[auto.next + 1]
           visits == Visits(g, first, nullable, items)
           Same == {a \in A : a.next = auto.next /\ Len(auto.states) <= Len(a.states)}
           Good == [n \in Nat |-> Same]
           last == Applied(visits, auto)
<1>1. CASE auto.next = Len(auto.states)
  BY <1>1 DEF Expand
<1>2. CASE auto.next # Len(auto.states)
  <2>1. /\ auto.next \in Nat /\ Len(auto.states) \in Nat /\ auto.next + 1 \in 1..Len(auto.states)
        /\ auto.next + 1 <= Len(auto.states) /\ auto.states \in Seq(SUBSET Items(g))
    <3>1. auto.next \in Nat /\ Len(auto.states) \in Nat /\ auto.next <= Len(auto.states)
      BY AutomatonFacts
    <3>2. auto.states \in Seq(SUBSET Items(g))
      BY AutomatonFacts
    <3> QED  BY <1>2, <3>1, <3>2
  <2>2. items \in SUBSET Items(g)
    BY <2>1, ElementOfSeq
  <2> HIDE DEF items
  <2>3. /\ visits \in Seq([A -> A]) /\ Len(visits) = N
        /\ \A i \in 1..N, a \in A :
             visits[i][a] = Visit(a, g.symbols[i], Goto(g, first, nullable, items, g.symbols[i]))
    BY <2>2, VisitsTyped
  <2>4. N \in Nat /\ \A i \in 1..N : g.symbols[i] \in STRING
    <3>1. g.symbols \in Seq(STRING)
      BY DEF GrammarOK
    <3> QED  BY <3>1, LenProperties, ElementOfSeq
  <2>5. ASSUME NEW i \in 1..N, NEW a \in Same
        PROVE  visits[i][a] \in Same
    <3> DEFINE x == g.symbols[i]  to == Goto(g, first, nullable, items, x)  b == Visit(a, x, to)
    <3>1. to \in SUBSET Items(g)
      BY <2>2, GotoTyped
    <3> HIDE DEF to
    <3>2. b \in A /\ b.next = a.next /\ Len(a.states) <= Len(b.states)
      <4>1. a \in Automata(g) /\ x \in STRING
        BY <2>4
      <4> HIDE DEF x
      <4> QED  BY <3>1, <4>1, VisitFacts
    <3>3. Len(a.states) \in Nat /\ Len(b.states) \in Nat
      BY <3>2, AutomatonFacts
    <3>4. visits[i][a] = b
      BY <2>3 DEF to
    <3> HIDE DEF b, visits, A
    <3> QED  BY <2>1, <3>2, <3>3, <3>4
  <2>6. Good \in [Nat -> SUBSET A] /\ auto \in Good[0] /\ Good[N] = Same
    BY <2>1, <2>4
  <2>7. \A i \in 1..N : \A a \in Good[i - 1] : visits[i][a] \in Good[i]
    <3>1. \A i \in 1..N : i - 1 \in Nat /\ i \in Nat
      BY <2>4
    <3> HIDE DEF Same, visits
    <3> QED  BY <2>5, <3>1
  <2>8. last \in Same
    <3> HIDE DEF A, Good, visits, N, Same
    <3>1. last \in Good[Len(visits)]
      BY <2>3, <2>6, <2>7, AppliedFacts
    <3> QED  BY <2>3, <2>6, <3>1
  <2>9. Expand(g, first, nullable, auto) = [last EXCEPT !.next = @ + 1]
    BY <1>2 DEF Expand, items
  <2> HIDE DEF last
  <2>10. last = [states |-> last.states, edges |-> last.edges, next |-> last.next]
         /\ last.states \in Seq(SUBSET Items(g)) /\ last.edges \in SUBSET (Nat \X STRING \X Nat)
         /\ Len(last.states) \in Nat
    BY <2>8, AutomatonFacts
  <2>11. [last EXCEPT !.next = @ + 1] = [states |-> last.states, edges |-> last.edges, next |-> auto.next + 1]
    BY <2>8, <2>10
  <2>12. auto.next + 1 <= Len(last.states) /\ auto.next + 1 \in Nat
    BY <2>1, <2>8, <2>10
  <2> QED  BY <2>9, <2>10, <2>11, <2>12 DEF Automata
<1> QED  BY <1>1, <1>2

\* and, while a state is left to expand, expands it.
LEMMA ExpandGrows ==
  ASSUME NEW g, GrammarOK(g), NEW first \in Firsts(g), NEW nullable,
         NEW from, NEW P, KeptByGoto(g, first, nullable, P), NEW auto \in Growing(g, first, nullable, from, P),
         auto.next # Len(auto.states)
  PROVE  /\ Expand(g, first, nullable, auto) \in Growing(g, first, nullable, from, P)
         /\ Expand(g, first, nullable, auto).next = auto.next + 1
<1> DEFINE A == Automata(g)  N == Len(g.symbols)  k == auto.next  items == auto.states[k + 1]
           visits == Visits(g, first, nullable, items)
           Left(a, n) == \A i \in 1..n : Awaits(g, items, g.symbols[i]) => Leaves(a, k, g.symbols[i])
           Good == [n \in Nat |-> {a \in Growing(g, first, nullable, from, P) : /\ a.next = k /\ a.next < Len(a.states)
                                                      /\ a.states[k + 1] = items /\ Left(a, n)}]
           last == Applied(visits, auto)
<1>1. auto \in A /\ k \in Nat /\ Len(auto.states) \in Nat /\ k < Len(auto.states)
      /\ k + 1 \in 1..Len(auto.states) /\ auto.states \in Seq(SUBSET Items(g))
  <2>1. auto \in A
    BY DEF Growing
  <2>2. k \in Nat /\ Len(auto.states) \in Nat /\ k <= Len(auto.states) /\ auto.states \in Seq(SUBSET Items(g))
    BY <2>1, AutomatonFacts
  <2>3. k < Len(auto.states) /\ k + 1 \in 1..Len(auto.states)
    BY <2>2
  <2> HIDE DEF A, k
  <2> QED  BY <2>1, <2>2, <2>3
<1>2. items \in SUBSET Items(g)
  <2> HIDE DEF k
  <2> QED  BY <1>1, ElementOfSeq
<1>3. /\ visits \in Seq([A -> A]) /\ Len(visits) = N
      /\ \A i \in 1..N, a \in A :
           visits[i][a] = Visit(a, g.symbols[i], Goto(g, first, nullable, items, g.symbols[i]))
  <2> HIDE DEF items
  <2> QED  BY <1>2, VisitsTyped
<1>4. N \in Nat /\ DOMAIN g.symbols = 1..N /\ \A i \in 1..N : g.symbols[i] \in STRING
  <2>1. g.symbols \in Seq(STRING)
    BY DEF GrammarOK
  <2> QED  BY <2>1, LenProperties, ElementOfSeq
<1>5. ASSUME NEW i \in 1..N, NEW a \in Good[i - 1]
      PROVE  visits[i][a] \in Good[i]
  <2> DEFINE x == g.symbols[i]  b == Visit(a, x, Goto(g, first, nullable, items, x))
  <2>1. i - 1 \in Nat /\ i \in Nat /\ x \in STRING /\ x \in ToSet(g.symbols)
    BY <1>4 DEF ToSet
  <2>2. a \in Growing(g, first, nullable, from, P) /\ a.next = k /\ a.next < Len(a.states) /\ a.states[k + 1] = items /\ Left(a, i - 1)
    <3> HIDE DEF Left, items, k
    <3> QED  BY <2>1
  <2>3. a \in A /\ Len(a.states) \in Nat
    <3>1. a \in A
      BY <2>2 DEF Growing
    <3> QED  BY <3>1, AutomatonFacts
  <2> HIDE DEF Good, visits, A, items, k
  <2>4. /\ b \in Growing(g, first, nullable, from, P) /\ b.next = a.next /\ b.next < Len(b.states)
        /\ \A j \in 1..Len(a.states) : b.states[j] = a.states[j]
        /\ a.edges \subseteq b.edges
        /\ Awaits(g, items, x) => Leaves(b, k, x)
    <3> HIDE DEF x
    <3>1. a.states[a.next + 1] = items
      BY <2>2
    <3> DEFINE c == Visit(a, x, Goto(g, first, nullable, a.states[a.next + 1], x))
    <3>2. /\ c \in Growing(g, first, nullable, from, P) /\ c.next = a.next /\ c.next < Len(c.states)
          /\ \A j \in 1..Len(a.states) : c.states[j] = a.states[j]
          /\ a.edges \subseteq c.edges
          /\ Awaits(g, a.states[a.next + 1], x) => Leaves(c, a.next, x)
      BY <2>1, <2>2, VisitGrows DEF x
    <3>3. c = b
      BY <3>1
    <3> HIDE DEF c, b
    <3> QED  BY <2>2, <3>1, <3>2, <3>3
  <2>5. visits[i][a] = b
    BY <1>3, <2>3
  <2> HIDE DEF b
  <2>6. k + 1 \in 1..Len(a.states)
    BY <1>1, <2>2, <2>3
  <2>7. b.states[k + 1] = items
    BY <2>2, <2>4, <2>6
  <2>8. Left(b, i)
    <3> SUFFICES ASSUME NEW j \in 1..i, Awaits(g, items, g.symbols[j])
                 PROVE  Leaves(b, k, g.symbols[j])
      OBVIOUS
    <3>1. CASE j = i
      BY <2>4, <3>1
    <3>2. CASE j # i
      <4>1. j \in 1..(i - 1)
        BY <2>1, <3>2
      <4>2. Leaves(a, k, g.symbols[j])
        BY <2>2, <4>1
      <4> QED  BY <2>4, <4>2, LeavesMore
    <3> QED  BY <3>1, <3>2
  <2> HIDE DEF Left
  <2>9. b \in Good[i]
    BY <2>1, <2>2, <2>4, <2>7, <2>8 DEF Good
  <2> QED  BY <2>5, <2>9
<1>6. Good \in [Nat -> SUBSET A] /\ auto \in Good[0]
  <2>1. Growing(g, first, nullable, from, P) \subseteq A
    BY DEF Growing
  <2>2. Left(auto, 0)
    BY SMT
  <2> HIDE DEF Left, A
  <2>3. Good \in [Nat -> SUBSET A]
    BY <2>1
  <2>4. Good[0] = {a \in Growing(g, first, nullable, from, P) : a.next = k /\ a.next < Len(a.states) /\ a.states[k + 1] = items /\ Left(a, 0)}
    OBVIOUS
  <2> HIDE DEF Good
  <2> QED  BY <1>1, <2>2, <2>3, <2>4
<1>7. last \in Good[N]
  <2> HIDE DEF A, Good, visits, N
  <2>1. \A n \in 1..Len(visits) : \A a \in Good[n - 1] : visits[n][a] \in Good[n]
    BY <1>3, <1>5
  <2>2. last \in Good[Len(visits)]
    BY <1>3, <1>6, <2>1, AppliedFacts
  <2> QED  BY <1>3, <2>2
<1>8. /\ last \in Growing(g, first, nullable, from, P) /\ last.next = k /\ last.next < Len(last.states)
      /\ last.states[k + 1] = items /\ Left(last, N)
  <2> HIDE DEF Left, items, last
  <2> QED  BY <1>4, <1>7
<1> DEFINE next == [last EXCEPT !.next = @ + 1]
<1>9. Expand(g, first, nullable, auto) = next
  BY DEF Expand
<1> HIDE DEF last
<1>10. last \in A
  BY <1>8 DEF Growing
<1>11. /\ last = [states |-> last.states, edges |-> last.edges, next |-> last.next]
       /\ last.states \in Seq(SUBSET Items(g)) /\ last.edges \in SUBSET (Nat \X STRING \X Nat)
       /\ Len(last.states) \in Nat
  BY <1>10, AutomatonFacts
<1>12. next = [states |-> last.states, edges |-> last.edges, next |-> k + 1]
  <2> HIDE DEF k
  <2> QED  BY <1>8, <1>11
<1> HIDE DEF next
<1>13. next.states = last.states /\ next.edges = last.edges /\ next.next = k + 1
  BY <1>12
<1>14. next \in A
  <2> HIDE DEF k
  <2> QED  BY <1>1, <1>8, <1>11, <1>12 DEF Automata
<1>15. StatesOK(g, next) /\ EdgesOK(g, next)
  <2>1. StatesOK(g, last) /\ EdgesOK(g, last)
    BY <1>8 DEF Growing
  <2> QED  BY <1>13, <2>1 DEF StatesOK, EdgesOK, Numbers
<1>16. /\ \A i, j \in 1..Len(next.states) : next.states[i] = next.states[j] => i = j
       /\ \A i \in 1..Len(next.states) : Justified(g, next.states[i])
  BY <1>8, <1>13 DEF Growing
<1>17. ASSUME NEW s \in Nat, s < k + 1, NEW x \in ToSet(g.symbols), Awaits(g, next.states[s + 1], x)
       PROVE  Leaves(next, s, x)
  <2>1. Leaves(last, s, x)
    <3>1. CASE s = k
      <4>1. PICK i \in 1..N : x = g.symbols[i]
        BY <1>4 DEF ToSet
      <4> HIDE DEF items, k, N
      <4> QED  BY <1>8, <1>13, <1>17, <3>1, <4>1
    <3>2. CASE s # k
      <4>1. s < last.next
        BY <1>1, <1>8, <1>17, <3>2
      <4> QED  BY <1>8, <1>13, <1>17, <4>1 DEF Growing
    <3> QED  BY <3>1, <3>2
  <2> QED  BY <1>13, <2>1, LeavesMore
<1>18. /\ Exact(g, first, nullable, next) /\ next.states[1] = from
       /\ \A i \in 1..Len(next.states) : next.states[i] \in P
  <2>1. /\ Exact(g, first, nullable, last) /\ last.states[1] = from
        /\ \A i \in 1..Len(last.states) : last.states[i] \in P
    BY <1>8 DEF Growing
  <2> QED  BY <1>13, <2>1 DEF Exact
<1>19. next \in Growing(g, first, nullable, from, P)
  BY <1>13, <1>14, <1>15, <1>16, <1>17, <1>18 DEF Growing
<1> QED  BY <1>9, <1>13, <1>19

\* The automaton before the first round.
LEMMA InitialGrows ==
  ASSUME NEW g, GrammarOK(g), NEW first \in Firsts(g), NEW nullable, NEW la \in LookaheadsOf(g),
         NEW P, Closure(g, first, nullable, {<<0, 0, la>>}) \in P
  PROVE  Initial(g, first, nullable, la) \in Growing(g, first, nullable, Closure(g, first, nullable, {<<0, 0, la>>}), P)
<1> DEFINE kernel == {<<0, 0, la>>}  items == Closure(g, first, nullable, kernel)
           auto == Initial(g, first, nullable, la)
<1>1. kernel \in SUBSET GoodItems(g)
  <2>1. 0 \in RulesOf(g)
    BY DEF GrammarOK
  <2> QED  BY <2>1, StartItems
<1>2. /\ items \in SUBSET GoodItems(g)
      /\ \A it \in items \ kernel : it[2] = 0 /\ it[1] # 0 /\ Awaits(g, items, g.rules[it[1]].lhs)
  <2> HIDE DEF kernel
  <2> QED  BY <1>1, ClosureFacts
<1> HIDE DEF items
<1>3. \A it \in items : it[2] = 0 /\ (it \in kernel => it[1] = 0)
  BY <1>2
<1>4. Justified(g, items)
  <2> HIDE DEF kernel
  <2> QED  BY <1>2, <1>3 DEF Justified
<1> DEFINE S == <<items>>
<1>5. S \in Seq(SUBSET GoodItems(g)) /\ Len(S) = 1 /\ S[1] = items
  BY <1>2, SingletonFacts
<1>6. S \in Seq(SUBSET Items(g))
  <2>1. SUBSET GoodItems(g) \subseteq SUBSET Items(g)
    BY DEF GoodItems
  <2> HIDE DEF S
  <2> QED  BY <1>5, <2>1, SeqMonotonic
<1>7. auto = [states |-> S, edges |-> {}, next |-> 0]
  BY DEF Initial, items
<1> HIDE DEF S, auto
<1>8. auto.states = S /\ auto.edges = {} /\ auto.next = 0
  BY <1>7
<1>9. auto \in Automata(g)
  <2>1. auto \in [states : Seq(SUBSET Items(g)), edges : SUBSET (Nat \X STRING \X Nat), next : Nat]
    BY <1>6, <1>7
  <2> QED  BY <1>5, <1>8, <2>1 DEF Automata
<1>10. auto.states[1] = items /\ \A i \in 1..Len(auto.states) : i = 1
  <2>1. 1..Len(auto.states) = 1..1
    BY <1>5, <1>8
  <2> QED  BY <1>5, <1>8, <2>1
<1>11. StatesOK(g, auto)
  <2>1. auto.states \in Seq(SUBSET GoodItems(g)) /\ Len(auto.states) = 1
    BY <1>5, <1>8
  <2>2. \A it \in auto.states[1] : it[2] = 0
    BY <1>3, <1>10
  <2>3. 2..Len(auto.states) = {}
    BY <2>1
  <2> QED  BY <2>1, <2>2, <2>3 DEF StatesOK
<1>12. EdgesOK(g, auto)
  BY <1>8 DEF EdgesOK
<1>13. \A i, j \in 1..Len(auto.states) : auto.states[i] = auto.states[j] => i = j
  BY <1>10
<1>14. \A i \in 1..Len(auto.states) : Justified(g, auto.states[i])
  BY <1>4, <1>10
<1>15. \A s \in Nat : s < auto.next =>
          \A x \in ToSet(g.symbols) : Awaits(g, auto.states[s + 1], x) => Leaves(auto, s, x)
  BY <1>8
<1>16. /\ Exact(g, first, nullable, auto) /\ auto.states[1] = items
       /\ \A i \in 1..Len(auto.states) : auto.states[i] \in P
  BY <1>8, <1>10 DEF Exact, items
<1> QED  BY <1>9, <1>11, <1>12, <1>13, <1>14, <1>15, <1>16 DEF Growing, auto, items

\* There are no more states than sets of items.
LEMMA StatesBounded ==
  ASSUME NEW g, GrammarOK(g), NEW first, NEW nullable, NEW from, NEW P,
         NEW auto \in Growing(g, first, nullable, from, P)
  PROVE  /\ Cardinality(SUBSET GoodItems(g)) \in Nat
         /\ auto.next \in Nat /\ auto.next <= Cardinality(SUBSET GoodItems(g))
<1> DEFINE U == SUBSET GoodItems(g)  n == Len(auto.states)  at == [i \in 1..n |-> auto.states[i]]
<1>1. IsFiniteSet(U) /\ Cardinality(U) \in Nat
  BY GoodItemsFinite, FS_SUBSET, FS_CardinalityType
<1>2. auto \in Automata(g) /\ auto.states \in Seq(U) /\ \A i, j \in 1..n : auto.states[i] = auto.states[j] => i = j
  BY DEF Growing, StatesOK
<1>3. auto.next \in Nat /\ auto.next <= n /\ n \in Nat
  BY <1>2, AutomatonFacts
<1>4. \A i \in 1..n : auto.states[i] \in U
  <2> HIDE DEF U
  <2> QED  BY <1>2, ElementOfSeq
<1> HIDE DEF U, n
<1>5. at \in Injection(1..n, U)
  BY <1>2, <1>4 DEF Injection, IsInjective
<1> HIDE DEF at
<1>6. Cardinality(1..n) <= Cardinality(U)
  BY <1>1, <1>5, FS_Injection
<1>7. Cardinality(1..n) = n
  BY <1>3, FS_Interval
<1> QED  BY <1>1, <1>3, <1>6, <1>7 DEF U

\* A state is left by what its items derive, as well.
AutomatonOK(g, auto) ==
  /\ StatesOK(g, auto) /\ EdgesOK(g, auto)
  /\ \A s \in Numbers(auto) : \A it \in auto.states[s + 1] :
       it[2] = 0 /\ it[1] # 0 => Leaves(auto, s, g.rules[it[1]].lhs)

\* The automaton the worklist builds, when it is empty.
LEMMA AutomatonFromFacts ==
  ASSUME NEW g, GrammarOK(g), NEW first \in Firsts(g), NEW nullable, NEW la \in LookaheadsOf(g),
         NEW P, Closure(g, first, nullable, {<<0, 0, la>>}) \in P, KeptByGoto(g, first, nullable, P)
  PROVE  LET auto == AutomatonFrom(g, first, nullable, la)
         IN  /\ auto \in Growing(g, first, nullable, Closure(g, first, nullable, {<<0, 0, la>>}), P)
             /\ auto.next = Len(auto.states) /\ AutomatonOK(g, auto)
<1> DEFINE from == Closure(g, first, nullable, {<<0, 0, la>>})
           A == Automata(g)  I == Growing(g, first, nullable, from, P)
           step == [auto \in A |-> Expand(g, first, nullable, auto)]
           C == Cardinality(SUBSET GoodItems(g))
           m == [auto \in I |-> C - auto.next]
           start == Initial(g, first, nullable, la)
           auto == Fixpoint(step, start)
<1>1. AutomatonFrom(g, first, nullable, la) = auto
  BY DEF AutomatonFrom
<1>2. step \in [A -> A] /\ I \in SUBSET A
  BY ExpandTyped DEF Growing
<1>3. start \in I
  BY InitialGrows
<1>4. m \in [I -> Nat]
  <2>1. \A a \in I : C - a.next \in Nat
    <3> HIDE DEF C, from
    <3>1. \A a \in I : C \in Nat /\ a.next \in Nat /\ a.next <= C
      BY StatesBounded DEF C
    <3> QED  BY <3>1
  <2> QED  BY <2>1
<1>5. ASSUME NEW a \in I
      PROVE  /\ step[a] \in I /\ (step[a] # a => m[step[a]] < m[a])
             /\ step[a] = a => a.next = Len(a.states)
  <2>1. step[a] = Expand(g, first, nullable, a) /\ m[a] = C - a.next
    BY <1>2
  <2>2. CASE a.next = Len(a.states)
    <3>1. step[a] = a
      BY <2>1, <2>2 DEF Expand
    <3> QED  BY <2>2, <3>1
  <2>3. CASE a.next # Len(a.states)
    <3> DEFINE b == Expand(g, first, nullable, a)
    <3>1. b \in I /\ b.next = a.next + 1
      BY <2>3, ExpandGrows
    <3> HIDE DEF b
    <3>2. m[b] = C - b.next
      BY <3>1
    <3>3. C \in Nat /\ a.next \in Nat /\ b.next \in Nat
      <4> HIDE DEF C
      <4> QED  BY <3>1, StatesBounded DEF C
    <3>4. b # a /\ C - b.next < C - a.next
      <4> HIDE DEF C
      <4> QED  BY <3>1, <3>3
    <3>5. step[a] = b
      BY <2>1 DEF b
    <3> HIDE DEF step, m, C
    <3> QED  BY <2>1, <3>1, <3>2, <3>4, <3>5
  <2> QED  BY <2>2, <2>3
<1>6. auto \in I /\ step[auto] = auto
  <2> HIDE DEF A, I, step, m, start
  <2>1. \A a \in I : step[a] \in I /\ (step[a] # a => m[step[a]] < m[a])
    BY <1>5
  <2> QED  BY ONLY <1>2, <1>3, <1>4, <2>1, FixpointFacts DEF auto
<1> HIDE DEF auto
<1>7. auto.next = Len(auto.states)
  <2> HIDE DEF step
  <2> QED  BY <1>5, <1>6
<1>8. /\ StatesOK(g, auto) /\ EdgesOK(g, auto)
      /\ \A i \in 1..Len(auto.states) : Justified(g, auto.states[i])
      /\ \A s \in Nat : s < auto.next =>
           \A x \in ToSet(g.symbols) : Awaits(g, auto.states[s + 1], x) => Leaves(auto, s, x)
  BY <1>6 DEF Growing
<1>9. ASSUME NEW s \in Numbers(auto), NEW it \in auto.states[s + 1], it[2] = 0, it[1] # 0
      PROVE  Leaves(auto, s, g.rules[it[1]].lhs)
  <2>1. auto.states \in Seq(SUBSET GoodItems(g)) /\ Len(auto.states) \in Nat
    BY <1>8, LenProperties DEF StatesOK
  <2>2. s \in Nat /\ s < auto.next /\ s + 1 \in 1..Len(auto.states)
    BY <1>7, <2>1 DEF Numbers
  <2>3. it \in GoodItems(g)
    BY <2>1, <2>2, ElementOfSeq
  <2>4. it[1] \in RulesOf(g) \ {0}
    BY <1>9, <2>3, GoodItemFacts
  <2>5. g.rules[it[1]].lhs \in ToSet(g.symbols)
    BY <2>4 DEF GrammarOK
  <2>6. Awaits(g, auto.states[s + 1], g.rules[it[1]].lhs)
    BY <1>8, <1>9, <2>2 DEF Justified
  <2> QED  BY <1>8, <2>2, <2>5, <2>6
<1>10. AutomatonOK(g, auto)
  BY <1>8, <1>9 DEF AutomatonOK
<1> QED  BY <1>1, <1>6, <1>7, <1>10

-----------------------------------------------------------------------------
(* Tables. *)

\* One of the offers is preferred.
LEMMA PreferredFacts ==
  ASSUME NEW offers, offers # {}, \A a \in offers : a.rule \in Nat
  PROVE  Preferred(offers) \in offers
<1> DEFINE T == {a.rule : a \in offers}
           Best(a) == IF \E b \in offers : b.kind = "shift" THEN a.kind = "shift"
                      ELSE \A b \in offers : a.rule <= b.rule
<1>1. \E a \in offers : \A b \in offers : a.rule <= b.rule
  <2>1. T \in SUBSET Nat /\ T # {}
    OBVIOUS
  <2>2. PICK n \in T : \A k \in T : n <= k
    <3> HIDE DEF T
    <3> QED  BY <2>1, LeastElement
  <2>3. PICK a \in offers : a.rule = n
    OBVIOUS
  <2> QED  BY <2>2, <2>3
<1>2. \E a \in offers : Best(a)
  <2>1. CASE \E b \in offers : b.kind = "shift"
    BY <2>1
  <2>2. CASE ~\E b \in offers : b.kind = "shift"
    <3>1. PICK a \in offers : \A b \in offers : a.rule <= b.rule
      BY <1>1
    <3>2. Best(a)
      BY <2>2, <3>1
    <3> QED  BY <3>2
  <2> QED  BY <2>1, <2>2
<1>3. Preferred(offers) = CHOOSE a \in offers : Best(a)
  BY DEF Preferred
<1> HIDE DEF Best
<1> QED  BY <1>2, <1>3

\* What can be offered on a terminal, and which item or edge it comes from.
LEMMA OfferedFacts ==
  ASSUME NEW g, NEW follow, NEW items, NEW targets, NEW t, NEW a \in Offered(g, follow, items, targets, t)
  PROVE  \/ \E s \in targets : a = ShiftTo(s)
         \/ a = AcceptAction /\ t = EOF /\ \E it \in items : IsComplete(g, it) /\ it[1] = 0
         \/ \E it \in items : IsComplete(g, it) /\ it[1] # 0 /\ a = ReduceBy(it[1])
BY DEF Offered

\* The items of a state of an automaton are good, and the first one is there.
LEMMA StateFacts ==
  ASSUME NEW g, NEW auto, StatesOK(g, auto)
  PROVE  /\ Len(auto.states) \in Nat /\ Numbers(auto) \subseteq Nat /\ 0 \in Numbers(auto)
         /\ \A s \in Numbers(auto) : s + 1 \in 1..Len(auto.states) /\ auto.states[s + 1] \subseteq GoodItems(g)
         /\ \A it \in auto.states[1] : it[2] = 0
         /\ \A s \in Numbers(auto) \ {0} : Inner(auto.states[s + 1])
<1>1. auto.states \in Seq(SUBSET GoodItems(g)) /\ Len(auto.states) >= 1
  BY DEF StatesOK
<1>2. Len(auto.states) \in Nat
  BY <1>1, LenProperties
<1>3. Numbers(auto) \subseteq Nat /\ 0 \in Numbers(auto)
  BY <1>1, <1>2 DEF Numbers
<1>4. \A s \in Numbers(auto) : s + 1 \in 1..Len(auto.states)
  BY <1>2 DEF Numbers
<1>5. \A s \in Numbers(auto) : auto.states[s + 1] \subseteq GoodItems(g)
  BY <1>1, <1>4, ElementOfSeq
<1>6. \A s \in Numbers(auto) \ {0} : s + 1 \in 2..Len(auto.states)
  BY <1>2 DEF Numbers
<1> QED  BY <1>2, <1>3, <1>4, <1>5, <1>6 DEF StatesOK

\* An edge enters a state that the edge explains.
LEMMA TargetFacts ==
  ASSUME NEW g, NEW auto, EdgesOK(g, auto), NEW s, NEW x, NEW to \in TargetsOf(auto, s, x)
  PROVE  /\ s \in Numbers(auto) /\ to \in Numbers(auto) \ {0}
         /\ Moves(g, auto.states[s + 1], x, auto.states[to + 1])
<1>1. PICK e \in auto.edges : e[1] = s /\ e[2] = x /\ e[3] = to
  BY DEF TargetsOf
<1> QED  BY <1>1 DEF EdgesOK

\* The tables that are made of an automaton.
LEMMA TableForFacts ==
  ASSUME NEW g, NEW follow, NEW auto
  PROVE  LET T == TableFor(g, follow, auto)
         IN  /\ T.states = Numbers(auto) /\ T.rules = g.rules /\ T.terminals = g.terminals \ {EOF, Error}
             /\ \A s \in Numbers(auto) :
                  /\ T.items[s] = Core(auto.states[s + 1])
                  /\ DOMAIN T.actions[s] = {t \in g.terminals : OfferedIn(g, follow, auto, s, t) # {}}
                  /\ \A t \in DOMAIN T.actions[s] : T.actions[s][t] = Preferred(OfferedIn(g, follow, auto, s, t))
                  /\ DOMAIN T.gotos[s] = {x \in g.nonterminals \ (g.terminals \ {EOF}) : Leaves(auto, s, x)}
                  /\ \A x \in DOMAIN T.gotos[s] : T.gotos[s][x] \in TargetsOf(auto, s, x)
<1> DEFINE T == TableFor(g, follow, auto)
           offers == [s \in Numbers(auto) |-> [t \in g.terminals |-> OfferedIn(g, follow, auto, s, t)]]
           exits(s) == {y \in g.nonterminals \ (g.terminals \ {EOF}) : TargetsOf(auto, s, y) # {}}
<1>1. /\ T.states = Numbers(auto) /\ T.rules = g.rules /\ T.terminals = g.terminals \ {EOF, Error}
      /\ T.items = [s \in Numbers(auto) |-> Core(auto.states[s + 1])]
      /\ T.actions = [s \in Numbers(auto) |-> [t \in {u \in g.terminals : offers[s][u] # {}} |->
                                                 Preferred(offers[s][t])]]
      /\ T.gotos = [s \in Numbers(auto) |-> [x \in exits(s) |-> CHOOSE to \in TargetsOf(auto, s, x) : TRUE]]
  BY DEF TableFor, Numbers
<1> HIDE DEF T
<1>2. ASSUME NEW s \in Numbers(auto)
      PROVE  /\ T.items[s] = Core(auto.states[s + 1])
             /\ DOMAIN T.actions[s] = {t \in g.terminals : OfferedIn(g, follow, auto, s, t) # {}}
             /\ \A t \in DOMAIN T.actions[s] : T.actions[s][t] = Preferred(OfferedIn(g, follow, auto, s, t))
             /\ DOMAIN T.gotos[s] = {x \in g.nonterminals \ (g.terminals \ {EOF}) : Leaves(auto, s, x)}
             /\ \A x \in DOMAIN T.gotos[s] : T.gotos[s][x] \in TargetsOf(auto, s, x)
  <2>1. \A t \in g.terminals : offers[s][t] = OfferedIn(g, follow, auto, s, t)
    OBVIOUS
  <2>2. T.items[s] = Core(auto.states[s + 1])
    BY <1>1
  <2>3. T.actions[s] = [t \in {u \in g.terminals : offers[s][u] # {}} |-> Preferred(offers[s][t])]
    BY <1>1
  <2>4. T.gotos[s] = [x \in exits(s) |-> CHOOSE to \in TargetsOf(auto, s, x) : TRUE]
    BY <1>1
  <2>5. DOMAIN T.gotos[s] = exits(s) /\ \A x \in exits(s) : T.gotos[s][x] \in TargetsOf(auto, s, x)
    BY <2>4
  <2>6. exits(s) = {x \in g.nonterminals \ (g.terminals \ {EOF}) : Leaves(auto, s, x)}
    BY DEF Leaves
  <2> HIDE DEF offers, exits
  <2>7. /\ DOMAIN T.actions[s] = {t \in g.terminals : OfferedIn(g, follow, auto, s, t) # {}}
        /\ \A t \in DOMAIN T.actions[s] : T.actions[s][t] = Preferred(OfferedIn(g, follow, auto, s, t))
    BY <2>1, <2>3
  <2> QED  BY <2>2, <2>5, <2>6, <2>7
<1> QED  BY <1>1, <1>2 DEF T

\* They are sound if the automaton is, whatever FOLLOW is.
LEMMA TablesSound ==
  ASSUME NEW g, GrammarOK(g), NEW follow, NEW auto, AutomatonOK(g, auto)
  PROVE  SoundTables(TableFor(g, follow, auto))
<1> DEFINE T == TableFor(g, follow, auto)
<1>1. StatesOK(g, auto) /\ EdgesOK(g, auto)
  BY DEF AutomatonOK
<1>2. /\ T.states = Numbers(auto) /\ T.rules = g.rules /\ T.terminals = g.terminals \ {EOF, Error}
      /\ \A s \in Numbers(auto) :
           /\ T.items[s] = Core(auto.states[s + 1])
           /\ DOMAIN T.actions[s] = {t \in g.terminals : OfferedIn(g, follow, auto, s, t) # {}}
           /\ \A t \in DOMAIN T.actions[s] : T.actions[s][t] = Preferred(OfferedIn(g, follow, auto, s, t))
           /\ DOMAIN T.gotos[s] = {x \in g.nonterminals \ (g.terminals \ {EOF}) : Leaves(auto, s, x)}
           /\ \A x \in DOMAIN T.gotos[s] : T.gotos[s][x] \in TargetsOf(auto, s, x)
  BY TableForFacts
<1> HIDE DEF T
<1>3. /\ Numbers(auto) \subseteq Nat /\ 0 \in Numbers(auto)
      /\ \A s \in Numbers(auto) : auto.states[s + 1] \subseteq GoodItems(g)
      /\ \A it \in auto.states[1] : it[2] = 0
      /\ \A s \in Numbers(auto) \ {0} : Inner(auto.states[s + 1])
  BY <1>1, StateFacts
<1>4. \A r \in RulesOf(g) : /\ Rhs(g, r) \in Seq(STRING) /\ g.rules[r].lhs \in STRING \ g.terminals
                            /\ g.rules[r].lhs \in g.nonterminals
  <2> SUFFICES ASSUME NEW r \in RulesOf(g)
               PROVE  /\ Rhs(g, r) \in Seq(STRING) /\ g.rules[r].lhs \in STRING \ g.terminals
                      /\ g.rules[r].lhs \in g.nonterminals
    OBVIOUS
  <2>1. Rhs(g, r) \in Seq(Alphabet(g))
    BY RhsFacts
  <2>2. Alphabet(g) \subseteq STRING
    BY DEF GrammarOK
  <2>3. Rhs(g, r) \in Seq(STRING)
    BY <2>1, <2>2, SeqMonotonic
  <2>4. g.rules[r].lhs \in g.nonterminals /\ g.terminals \cap g.nonterminals = {}
    BY DEF GrammarOK
  <2> QED  BY <2>2, <2>3, <2>4 DEF Alphabet
<1>5. EOF \in g.terminals /\ Error \in g.terminals /\ Len(Rhs(g, 0)) = 1 /\ g.terminals \subseteq STRING
  BY DEF GrammarOK, Alphabet
<1>6. ASSUME NEW s \in Numbers(auto), NEW x, NEW to \in TargetsOf(auto, s, x)
      PROVE  to \in Entered(T) /\ Explains(T, s, x, to)
  <2>1. to \in Numbers(auto) \ {0} /\ Moves(g, auto.states[s + 1], x, auto.states[to + 1])
    BY <1>1, TargetFacts
  <2>2. ASSUME NEW item \in T.items[to], item[2] > 0
        PROVE  RhsOf(T, item)[item[2]] = x /\ <<item[1], item[2] - 1>> \in T.items[s]
    <3>1. PICK it \in auto.states[to + 1] : item = <<it[1], it[2]>>
      BY <1>2, <2>1 DEF Core
    <3>2. item[1] = it[1] /\ item[2] = it[2]
      BY <3>1
    <3>3. Rhs(g, it[1])[it[2]] = x /\ <<it[1], it[2] - 1>> \in Core(auto.states[s + 1])
      BY <2>1, <2>2, <3>2 DEF Moves
    <3> QED  BY <1>2, <3>2, <3>3 DEF RhsOf, Rhs
  <2> QED  BY <1>2, <2>1, <2>2 DEF Entered, Explains
<1>7. ASSUME NEW s \in Numbers(auto), NEW item \in T.items[s]
      PROVE  SoundItem(T, s, item)
  <2>1. PICK it \in auto.states[s + 1] : item = <<it[1], it[2]>>
    BY <1>2 DEF Core
  <2>2. item[1] = it[1] /\ item[2] = it[2] /\ it \in GoodItems(g)
    BY <1>3, <2>1
  <2>3. it[1] \in RulesOf(g) /\ it[2] \in 0..Len(Rhs(g, it[1]))
    BY <2>2, GoodItemFacts
  <2>4. s = 0 => it[2] = 0
    BY <1>3
  <2>5. it[1] = 0 /\ it[2] = 0 => s = 0
    BY <1>3 DEF Inner
  <2>6. ASSUME it[2] = 0, it[1] # 0
        PROVE  g.rules[it[1]].lhs \in DOMAIN T.gotos[s]
    <3>1. Leaves(auto, s, g.rules[it[1]].lhs)
      BY <2>6 DEF AutomatonOK
    <3> QED  BY <1>2, <1>4, <2>3, <3>1
  <2> QED  BY <1>2, <2>2, <2>3, <2>4, <2>5, <2>6 DEF SoundItem, RhsOf, Rhs, RulesOf
<1>8. ASSUME NEW s \in Numbers(auto), NEW t \in DOMAIN T.actions[s]
      PROVE  SoundAction(T, s, t, T.actions[s][t])
  <2> DEFINE items == auto.states[s + 1]  targets == IF t = EOF THEN {} ELSE TargetsOf(auto, s, t)
             offers == Offered(g, follow, items, targets, t)  a == T.actions[s][t]
  <2>1. items \subseteq GoodItems(g) /\ T.items[s] = Core(items)
    BY <1>2, <1>3
  <2>2. OfferedIn(g, follow, auto, s, t) = offers
    BY DEF OfferedIn
  <2>3. offers # {} /\ a = Preferred(offers)
    BY <1>2, <2>2
  <2> HIDE DEF items, targets, a
  <2>4. \A b \in offers :
          \/ \E to \in targets : b = ShiftTo(to)
          \/ b = AcceptAction /\ t = EOF /\ \E it \in items : IsComplete(g, it) /\ it[1] = 0
          \/ \E it \in items : IsComplete(g, it) /\ it[1] # 0 /\ b = ReduceBy(it[1])
    BY OfferedFacts
  <2> HIDE DEF offers
  <2>5. \A it \in items : /\ it[1] \in RulesOf(g) /\ it[1] \in Nat
                          /\ IsComplete(g, it) => <<it[1], Len(Rhs(g, it[1]))>> \in T.items[s]
    <3> SUFFICES ASSUME NEW it \in items
                 PROVE  /\ it[1] \in RulesOf(g) /\ it[1] \in Nat
                        /\ IsComplete(g, it) => <<it[1], Len(Rhs(g, it[1]))>> \in T.items[s]
      OBVIOUS
    <3>1. it[1] \in RulesOf(g)
      BY <2>1, GoodItemFacts
    <3>2. it[1] \in Nat
      BY <3>1 DEF GrammarOK
    <3> QED  BY <2>1, <3>1, <3>2 DEF IsComplete, Core
  <2>6. \A b \in offers : b.rule \in Nat
    <3>1. AcceptAction.rule \in Nat /\ \A to \in targets : ShiftTo(to).rule \in Nat
      BY DEF ShiftTo, AcceptAction
    <3>2. \A it \in items : ReduceBy(it[1]).rule \in Nat
      BY <2>5 DEF ReduceBy
    <3> QED  BY <2>4, <3>1, <3>2
  <2>7. a \in offers
    BY <2>3, <2>6, PreferredFacts
  <2>8. ASSUME NEW to \in targets, a = ShiftTo(to)
        PROVE  a.kind = "shift" /\ SoundShift(T, s, t, a)
    <3>1. t # EOF /\ to \in TargetsOf(auto, s, t)
      BY DEF targets
    <3>2. a.kind = "shift" /\ a.state = to
      BY <2>8 DEF ShiftTo
    <3> QED  BY <1>6, <3>1, <3>2 DEF SoundShift
  <2>9. ASSUME a = AcceptAction, t = EOF, NEW it \in items, IsComplete(g, it), it[1] = 0
        PROVE  a.kind = "accept" /\ SoundAccept(T, s, t)
    BY <1>5, <2>5, <2>9 DEF AcceptAction, SoundAccept
  <2>10. ASSUME NEW it \in items, IsComplete(g, it), it[1] # 0, a = ReduceBy(it[1])
         PROVE  a.kind = "reduce" /\ SoundReduce(T, s, a)
    BY <1>2, <2>5, <2>10 DEF ReduceBy, SoundReduce, RulesOf, Rhs
  <2>11. SoundAction(T, s, t, a)
    BY <2>4, <2>7, <2>8, <2>9, <2>10 DEF SoundAction
  <2> QED  BY <2>11 DEF a
<1>9. /\ T.terminals \subseteq STRING \ {EOF, Error}
      /\ \A r \in DOMAIN T.rules : /\ T.rules[r].rhs \in Seq(STRING)
                                   /\ T.rules[r].lhs \in STRING \ (T.terminals \cup {EOF, Error})
  BY <1>2, <1>4, <1>5 DEF RulesOf, Rhs
<1>10. Len(T.rules[0].rhs) = 1 /\ 0 \in T.states /\ T.states \subseteq Nat
  BY <1>2, <1>3, <1>5 DEF Rhs
<1>11. \A s \in T.states : \A x \in DOMAIN T.gotos[s] :
         T.gotos[s][x] \in Entered(T) /\ Explains(T, s, x, T.gotos[s][x])
  BY <1>2, <1>6
<1>12. \A s \in T.states : /\ \A item \in T.items[s] : SoundItem(T, s, item)
                           /\ \A t \in DOMAIN T.actions[s] : SoundAction(T, s, t, T.actions[s][t])
  BY <1>2, <1>7, <1>8
<1>13. \E n \in Nat \cap DOMAIN T.rules : DOMAIN T.rules = 0..n
  <2>1. PICK n \in Nat : DOMAIN T.rules = 0..n
    BY <1>2 DEF GrammarOK, RulesOf
  <2>2. n \in 0..n
    OBVIOUS
  <2> QED  BY <2>1, <2>2
<1>14. SoundTables(T)
  BY <1>9, <1>10, <1>11, <1>12, <1>13 DEF SoundTables
<1> QED  BY <1>14 DEF T

-----------------------------------------------------------------------------
(* Partitions of an automaton's states. *)

\* Groups that share no member and list none twice.
OnceEach(s) == \A a, b \in 1..Len(s) : s[a] = s[b] => a = b
Apart(p) ==
  /\ p \in Partitions
  /\ \A i \in 1..Len(p) : p[i] # <<>> /\ OnceEach(p[i])
  /\ \A i, j \in 1..Len(p) : i # j => ToSet(p[i]) \cap ToSet(p[j]) = {}
Members(p) == UNION {ToSet(p[i]) : i \in 1..Len(p)}

\* q divides the groups of p further, or is p.  The first member stays first.
Refines(q, p) ==
  /\ Apart(q) /\ Members(q) = Members(p)
  /\ \A i \in 1..Len(q) : \E j \in 1..Len(p) : ToSet(q[i]) \subseteq ToSet(p[j])
  /\ Len(p) > 0 => Len(q) > 0 /\ q[1][1] = p[1][1]
  /\ Len(p) <= Len(q) /\ (Len(q) = Len(p) => q = p)

\* The elements of a sequence, and those of a longer one.
LEMMA ToSetFacts ==
  ASSUME NEW S, NEW s \in Seq(S)
  PROVE  /\ Len(s) \in Nat /\ ToSet(s) \subseteq S /\ \A i \in 1..Len(s) : s[i] \in ToSet(s)
         /\ \A e \in ToSet(s) : \E i \in 1..Len(s) : s[i] = e
         /\ \A m \in S : ToSet(Append(s, m)) = ToSet(s) \cup {m}
         /\ s # <<>> <=> Len(s) >= 1
<1>1. Len(s) \in Nat /\ DOMAIN s = 1..Len(s) /\ \A i \in 1..Len(s) : s[i] \in S
  BY LenProperties, ElementOfSeq
<1>2. ASSUME NEW m \in S
      PROVE  ToSet(Append(s, m)) = ToSet(s) \cup {m}
  <2> DEFINE t == Append(s, m)
  <2>1. /\ t \in Seq(S) /\ Len(t) = Len(s) + 1 /\ \A i \in 1..Len(s) : t[i] = s[i]
        /\ t[Len(s) + 1] = m
    BY PushFacts
  <2> HIDE DEF t
  <2>2. DOMAIN t = 1..(Len(s) + 1)
    BY <2>1, LenProperties
  <2>3. \A i \in 1..(Len(s) + 1) : i \in 1..Len(s) \/ i = Len(s) + 1
    BY <1>1
  <2>4. Len(s) + 1 \in 1..(Len(s) + 1) /\ \A i \in 1..Len(s) : i \in 1..(Len(s) + 1)
    BY <1>1
  <2>5. ToSet(t) = ToSet(s) \cup {m}
    BY <1>1, <2>1, <2>2, <2>3, <2>4 DEF ToSet
  <2> QED  BY <2>5 DEF t
<1>3. s # <<>> <=> Len(s) >= 1
  <2>1. s = <<>> <=> Len(s) = 0
    BY EmptySeq
  <2> QED  BY <1>1, <2>1
<1>4. ToSet(s) = {s[i] : i \in 1..Len(s)}
  BY <1>1 DEF ToSet
<1> QED  BY <1>1, <1>2, <1>3, <1>4

\* One more element in a group that has some.
LEMMA GroupGrows ==
  ASSUME NEW s \in Seq(Nat), s # <<>>, NEW m \in Nat
  PROVE  /\ Append(s, m) # <<>> /\ Append(s, m)[1] = s[1]
         /\ ToSet(Append(s, m)) = ToSet(s) \cup {m}
<1>1. Append(s, m) # <<>> /\ \A a \in 1..Len(s) : Append(s, m)[a] = s[a]
  BY PushFacts
<1>2. Len(s) \in Nat /\ (s # <<>> <=> Len(s) >= 1) /\ ToSet(Append(s, m)) = ToSet(s) \cup {m}
  BY ToSetFacts
<1>3. 1 \in 1..Len(s)
  BY <1>2
<1> QED  BY <1>1, <1>2, <1>3

\* A group of a partition is a sequence of numbers.
LEMMA GroupFacts ==
  ASSUME NEW p \in Partitions
  PROVE  /\ Len(p) \in Nat /\ DOMAIN p = 1..Len(p)
         /\ \A i \in 1..Len(p) : p[i] \in Seq(Nat) /\ Len(p[i]) \in Nat
BY LenProperties, ElementOfSeq DEF Partitions

\* A member joins a group, or the groups.
LEMMA JoinAtTyped ==
  ASSUME NEW groups \in Partitions, NEW i \in 0..Len(groups), NEW m \in Nat
  PROVE  LET next == JoinAt(groups, i, m)
         IN  /\ next \in Partitions
             /\ i = 0 => /\ Len(next) = Len(groups) + 1 /\ next[Len(groups) + 1] = <<m>>
                         /\ \A j \in 1..Len(groups) : next[j] = groups[j]
             /\ i # 0 => /\ Len(next) = Len(groups)
                         /\ \A j \in 1..Len(groups) :
                              next[j] = IF j = i THEN Append(groups[j], m) ELSE groups[j]
<1>1. groups \in Seq(Seq(Nat)) /\ Len(groups) \in Nat /\ \A j \in 1..Len(groups) : groups[j] \in Seq(Nat)
  BY GroupFacts DEF Partitions
<1>2. CASE i = 0
  <2> DEFINE new == <<m>>  next == Append(groups, new)
  <2>1. new \in Seq(Nat)
    BY SingletonFacts
  <2> HIDE DEF new
  <2>2. /\ next \in Seq(Seq(Nat)) /\ Len(next) = Len(groups) + 1 /\ next[Len(groups) + 1] = new
        /\ \A j \in 1..Len(groups) : next[j] = groups[j]
    BY <1>1, <2>1, PushFacts
  <2> QED  BY <1>2, <2>2 DEF JoinAt, Partitions, new
<1>3. CASE i # 0
  <2> DEFINE new == Append(groups[i], m)  next == [groups EXCEPT ![i] = new]
  <2>1. i \in 1..Len(groups) /\ new \in Seq(Nat)
    <3>1. i \in 1..Len(groups)
      BY <1>1, <1>3
    <3>2. groups[i] \in Seq(Nat)
      BY <1>1, <3>1
    <3> QED  BY <3>1, <3>2, PushFacts
  <2>2. JoinAt(groups, i, m) = next
    BY <1>3 DEF JoinAt
  <2> HIDE DEF new
  <2>3. /\ next \in Seq(Seq(Nat)) /\ Len(next) = Len(groups)
        /\ \A j \in 1..Len(groups) : next[j] = IF j = i THEN new ELSE groups[j]
    BY <1>1, <2>1, ExceptSeq
  <2> HIDE DEF next
  <2>4. \A j \in 1..Len(groups) : next[j] = IF j = i THEN Append(groups[j], m) ELSE groups[j]
    BY <2>3 DEF new
  <2> QED  BY <1>3, <2>2, <2>3, <2>4 DEF Partitions
<1> QED  BY <1>2, <1>3

\* One group divided: its members, each in one group, the first one first.
Divides(q, s) ==
  /\ Apart(q) /\ Members(q) = ToSet(s)
  /\ s # <<>> => Len(q) > 0 /\ q[1][1] = s[1]
  /\ Len(q) = 1 => q[1] = s

\* A group with one more state still has each once.
LEMMA OnceMore ==
  ASSUME NEW s \in Seq(Nat), OnceEach(s), NEW m \in Nat, m \notin ToSet(s)
  PROVE  OnceEach(Append(s, m))
<1> DEFINE t == Append(s, m)
<1>1. /\ Len(t) = Len(s) + 1 /\ \A i \in 1..Len(s) : t[i] = s[i]
      /\ t[Len(s) + 1] = m
  BY PushFacts
<1>2. Len(s) \in Nat /\ \A i \in 1..Len(s) : s[i] # m
  BY ToSetFacts
<1> HIDE DEF t
<1>3. \A i \in 1..Len(t) : i \in 1..Len(s) \/ i = Len(s) + 1
  BY <1>1, <1>2
<1> QED  BY <1>1, <1>2, <1>3 DEF OnceEach, t

\* A member that joins a group of a division, or comes after the groups, makes it
\* a division of the members and that one.
LEMMA JoinAtDivides ==
  ASSUME NEW s \in Seq(Nat), NEW q, Divides(q, s), NEW i \in 0..Len(q), NEW m \in Nat, m \notin ToSet(s)
  PROVE  Divides(JoinAt(q, i, m), Append(s, m))
<1> DEFINE next == JoinAt(q, i, m)  t == Append(s, m)  n == Len(q)  one == <<m>>
<1>1. /\ q \in Partitions /\ n \in Nat /\ \A j \in 1..n : q[j] \in Seq(Nat) /\ q[j] # <<>> /\ OnceEach(q[j])
      /\ \A j, k \in 1..n : j # k => ToSet(q[j]) \cap ToSet(q[k]) = {}
  BY GroupFacts DEF Divides, Apart
<1>2. \A j \in 1..n : m \notin ToSet(q[j])
  BY DEF Divides, Members
<1>3. /\ t \in Seq(Nat) /\ t # <<>> /\ Len(s) \in Nat /\ ToSet(t) = ToSet(s) \cup {m}
      /\ t[1] = IF s = <<>> THEN m ELSE s[1]
  <2>1. /\ t \in Seq(Nat) /\ t # <<>> /\ \A j \in 1..Len(s) : t[j] = s[j]
        /\ t[Len(s) + 1] = m
    BY PushFacts
  <2>2. Len(s) \in Nat /\ ToSet(t) = ToSet(s) \cup {m} /\ (s # <<>> <=> Len(s) >= 1)
    BY ToSetFacts
  <2> HIDE DEF t
  <2>3. s = <<>> => Len(s) = 0
    BY <2>2
  <2> QED  BY <2>1, <2>2, <2>3
<1>4. one \in Seq(Nat) /\ Len(one) = 1 /\ one[1] = m
  BY SingletonFacts
<1>5. one # <<>> /\ OnceEach(one) /\ ToSet(one) = {m}
  <2>1. Len(one) = 1 /\ one # <<>>
    <3> HIDE DEF one
    <3>1. one # <<>> <=> Len(one) >= 1
      BY <1>4, ToSetFacts
    <3> QED  BY <1>4, <3>1
  <2>2. OnceEach(one)
    <3> HIDE DEF one
    <3>1. \A a \in 1..Len(one) : a = 1
      BY <2>1
    <3> QED  BY <3>1 DEF OnceEach
  <2>3. ToSet(one) = {m}
    <3> HIDE DEF one
    <3>1. 1 \in 1..Len(one) /\ \A a \in 1..Len(one) : a = 1
      BY <2>1
    <3>2. m \in ToSet(one) /\ \A e \in ToSet(one) : e = m
      BY <1>4, <3>1, ToSetFacts
    <3> QED  BY <3>2
  <2> QED  BY <2>1, <2>2, <2>3
<1>6. s # <<>> => n > 0 /\ q[1][1] = s[1]
  BY DEF Divides
<1>7. n = 0 => s = <<>>
  BY <1>1, <1>6
<1>8. Members(q) = ToSet(s) /\ (n = 1 => q[1] = s)
  BY DEF Divides
<1>9. n > 0 => s # <<>>
  <2> SUFFICES ASSUME n > 0, s = <<>>
               PROVE  FALSE
    OBVIOUS
  <2>1. 1 \in 1..n
    BY <1>1
  <2>2. \E e : e \in ToSet(q[1])
    <3>1. q[1] \in Seq(Nat) /\ q[1] # <<>>
      BY <1>1, <2>1
    <3>2. Len(q[1]) >= 1 /\ Len(q[1]) \in Nat /\ \A a \in 1..Len(q[1]) : q[1][a] \in ToSet(q[1])
      BY <3>1, ToSetFacts
    <3> QED  BY <3>2
  <2>3. Members(q) # {}
    BY <2>1, <2>2 DEF Members
  <2>4. ToSet(s) = {}
    <3>1. \A e \in ToSet(s) : \E j \in 1..Len(s) : s[j] = e
      BY ToSetFacts
    <3> QED  BY <3>1
  <2> QED  BY <1>8, <2>3, <2>4
<1> HIDE DEF n, t, one
<1>10. CASE i = 0
  <2> HIDE DEF next
  <2>1. next \in Partitions /\ Len(next) = n + 1 /\ next[n + 1] = one /\ \A j \in 1..n : next[j] = q[j]
    <3>1. q \in Partitions
      BY <1>1
    <3> QED  BY <1>10, <3>1, JoinAtTyped DEF n, one, next
  <2>2. \A j \in 1..Len(next) : j \in 1..n \/ j = n + 1
    BY <1>1, <2>1
  <2>3. Apart(next)
    <3>1. ASSUME NEW j \in 1..Len(next)
          PROVE  next[j] # <<>> /\ OnceEach(next[j])
      BY <1>1, <1>5, <2>1, <2>2
    <3>2. ASSUME NEW j \in 1..Len(next), NEW k \in 1..Len(next), j # k
          PROVE  ToSet(next[j]) \cap ToSet(next[k]) = {}
      <4>1. CASE j \in 1..n /\ k \in 1..n
        BY <1>1, <2>1, <3>2, <4>1
      <4>2. CASE j \in 1..n /\ k = n + 1
        <5>1. ToSet(next[j]) = ToSet(q[j]) /\ ToSet(next[k]) = {m} /\ m \notin ToSet(q[j])
          BY <1>2, <1>5, <2>1, <4>2
        <5> QED  BY <5>1
      <4>3. CASE j = n + 1 /\ k \in 1..n
        <5>1. ToSet(next[k]) = ToSet(q[k]) /\ ToSet(next[j]) = {m} /\ m \notin ToSet(q[k])
          BY <1>2, <1>5, <2>1, <4>3
        <5> QED  BY <5>1
      <4> QED  BY <2>2, <3>2, <4>1, <4>2, <4>3
    <3> QED  BY <2>1, <3>1, <3>2 DEF Apart
  <2>4. Members(next) = ToSet(t)
    <3>1. ASSUME NEW e \in Members(next)
          PROVE  e \in Members(q) \cup {m}
      <4>1. PICK j \in 1..Len(next) : e \in ToSet(next[j])
        BY DEF Members
      <4>2. CASE j \in 1..n
        BY <2>1, <4>1, <4>2 DEF Members, n
      <4>3. CASE j = n + 1
        BY <1>5, <2>1, <4>1, <4>3
      <4> QED  BY <2>2, <4>2, <4>3
    <3>2. ASSUME NEW e \in Members(q)
          PROVE  e \in Members(next)
      <4>1. PICK j \in 1..n : e \in ToSet(q[j])
        BY DEF Members, n
      <4>2. j \in 1..Len(next) /\ e \in ToSet(next[j])
        BY <1>1, <2>1, <4>1
      <4> QED  BY <4>2 DEF Members
    <3>3. m \in Members(next)
      <4>1. n + 1 \in 1..Len(next) /\ m \in ToSet(next[n + 1])
        BY <1>1, <1>5, <2>1
      <4> QED  BY <4>1 DEF Members
    <3> QED  BY <1>3, <1>8, <3>1, <3>2, <3>3
  <2>5. Len(next) > 0 /\ next[1][1] = t[1]
    <3>1. CASE n = 0
      BY <1>3, <1>4, <1>7, <2>1, <3>1
    <3>2. CASE n # 0
      <4>1. n > 0 /\ 1 \in 1..n /\ n + 1 > 0
        BY <1>1, <3>2
      <4>2. next[1] = q[1] /\ t[1] = s[1] /\ q[1][1] = s[1]
        BY <1>3, <1>6, <1>9, <2>1, <4>1
      <4> QED  BY <2>1, <4>1, <4>2
    <3> QED  BY <3>1, <3>2
  <2>6. Len(next) = 1 => next[1] = t
    <3> SUFFICES ASSUME Len(next) = 1
                 PROVE  next[1] = t
      OBVIOUS
    <3>1. n = 0
      <4>1. n \in Nat /\ n + 1 = 1
        BY <1>1, <2>1
      <4> QED  BY ONLY <4>1
    <3>2. next[1] = one /\ s = <<>>
      BY <1>7, <2>1, <3>1
    <3> QED  BY <3>2 DEF one, t
  <2> QED  BY <2>3, <2>4, <2>5, <2>6 DEF Divides, next, t
<1>11. CASE i # 0
  <2> HIDE DEF next
  <2>1. /\ next \in Partitions /\ Len(next) = n
        /\ \A j \in 1..n : next[j] = IF j = i THEN Append(q[j], m) ELSE q[j]
    <3>1. q \in Partitions
      BY <1>1
    <3> QED  BY <1>11, <3>1, JoinAtTyped DEF n, next
  <2>2. i \in 1..n
    BY <1>1, <1>11 DEF n
  <2>3. \A j \in 1..n : /\ next[j] # <<>> /\ OnceEach(next[j])
                        /\ ToSet(next[j]) = ToSet(q[j]) \cup (IF j = i THEN {m} ELSE {})
                        /\ next[j][1] = q[j][1]
    <3> SUFFICES ASSUME NEW j \in 1..n
                 PROVE  /\ next[j] # <<>> /\ OnceEach(next[j])
                        /\ ToSet(next[j]) = ToSet(q[j]) \cup (IF j = i THEN {m} ELSE {})
                        /\ next[j][1] = q[j][1]
      OBVIOUS
    <3>1. CASE j # i
      BY <1>1, <2>1, <3>1
    <3>2. CASE j = i
      <4> DEFINE u == q[j]  v == Append(u, m)
      <4>1. u \in Seq(Nat) /\ u # <<>> /\ OnceEach(u) /\ m \notin ToSet(u) /\ next[j] = v
        BY <1>1, <1>2, <2>1, <3>2
      <4> HIDE DEF u
      <4>2. v # <<>> /\ v[1] = u[1] /\ ToSet(v) = ToSet(u) \cup {m}
        BY <4>1, GroupGrows
      <4>3. OnceEach(v)
        BY <4>1, OnceMore
      <4> QED  BY <3>2, <4>1, <4>2, <4>3 DEF u
    <3> QED  BY <3>1, <3>2
  <2>4. Apart(next)
    <3>1. ASSUME NEW j \in 1..n, NEW k \in 1..n, j # k
          PROVE  ToSet(next[j]) \cap ToSet(next[k]) = {}
      <4>1. ToSet(q[j]) \cap ToSet(q[k]) = {} /\ m \notin ToSet(q[j]) /\ m \notin ToSet(q[k])
        BY <1>1, <1>2, <3>1
      <4>2. ToSet(next[j]) \subseteq ToSet(q[j]) \cup {m} /\ ToSet(next[k]) \subseteq ToSet(q[k]) \cup {m}
        BY <2>3
      <4>3. ~(m \in ToSet(next[j]) /\ m \in ToSet(next[k]))
        <5>1. m \in ToSet(next[j]) => j = i
          BY <2>3, <4>1
        <5>2. m \in ToSet(next[k]) => k = i
          BY <2>3, <4>1
        <5> QED  BY <3>1, <5>1, <5>2
      <4> QED  BY <4>1, <4>2, <4>3
    <3> QED  BY <2>1, <2>3, <3>1 DEF Apart
  <2>5. Members(next) = ToSet(t)
    <3>1. Members(next) = Members(q) \cup {m}
      <4>1. ASSUME NEW e \in Members(next)
            PROVE  e \in Members(q) \cup {m}
        <5>1. PICK j \in 1..n : e \in ToSet(next[j])
          BY <2>1 DEF Members
        <5>2. e \in ToSet(q[j]) \/ e = m
          BY <2>3, <5>1
        <5> QED  BY <5>2 DEF Members, n
      <4>2. ASSUME NEW e \in Members(q)
            PROVE  e \in Members(next)
        <5>1. PICK j \in 1..n : e \in ToSet(q[j])
          BY DEF Members, n
        <5>2. e \in ToSet(next[j])
          BY <2>3, <5>1
        <5> QED  BY <2>1, <5>2 DEF Members
      <4>3. m \in Members(next)
        <5>1. i \in 1..Len(next) /\ m \in ToSet(next[i])
          BY <2>1, <2>2, <2>3
        <5> QED  BY ONLY <5>1 DEF Members
      <4> QED  BY <4>1, <4>2, <4>3
    <3> QED  BY <1>3, <1>8, <3>1
  <2>6. Len(next) > 0 /\ next[1][1] = t[1]
    <3>1. n > 0 /\ 1 \in 1..n
      BY <1>1, <2>2
    <3> QED  BY <1>3, <1>6, <1>9, <2>1, <2>3, <3>1
  <2>7. Len(next) = 1 => next[1] = t
    <3> SUFFICES ASSUME Len(next) = 1
                 PROVE  next[1] = t
      OBVIOUS
    <3>1. n = 1 /\ i = 1
      BY <2>1, <2>2
    <3>2. next[1] = Append(q[1], m) /\ q[1] = s
      BY <1>8, <2>1, <3>1
    <3> QED  BY <3>2 DEF t
  <2> QED  BY <2>4, <2>5, <2>6, <2>7 DEF Divides, next, t
<1> QED  BY <1>10, <1>11

\* The first n elements are the first n - 1 and the n-th.
LEMMA PrefixGrows ==
  ASSUME NEW S, NEW seq \in Seq(S), NEW n \in 1..Len(seq)
  PROVE  SubSeq(seq, 1, n) = Append(SubSeq(seq, 1, n - 1), seq[n])
<1> DEFINE before == SubSeq(seq, 1, n - 1)  last == seq[n]
<1>1. Len(seq) \in Nat /\ n \in 1..n /\ 1 \in 1..Len(seq) /\ n \in Nat /\ n - 1 \in 0..Len(seq) /\ n >= 1
  BY LenProperties
<1>2. SubSeq(seq, 1, n) = before \o <<last>>
  BY <1>1, SubSeqRecursiveSecond
<1>3. before \in Seq(S) /\ last \in S
  BY <1>1, PrefixFacts, ElementOfSeq
<1> HIDE DEF before, last
<1>4. Append(before, last) = before \o <<last>>
  BY <1>3, AppendIsConcat
<1> QED  BY <1>2, <1>4 DEF before, last

\* What SelectInSeq selects from: the first place, or 0 if there is none.
LEMMA SelectFacts ==
  ASSUME NEW n \in Nat, NEW I \in SUBSET (1..n)
  PROVE  LET at == IF I # {} THEN Min(I) ELSE 0
         IN  at \in 0..n /\ (at # 0 => at \in I) /\ (I # {} => at \in I /\ at \in 1..n)
<1>1. I \in SUBSET Nat /\ 0 \notin I
  OBVIOUS
<1>2. CASE I = {}
  BY <1>2
<1>3. CASE I # {}
  <2> DEFINE at == Min(I)
  <2>1. at \in I
    BY <1>1, <1>3, MinFacts
  <2> HIDE DEF at
  <2>2. at \in 0..n /\ at \in 1..n
    BY <2>1
  <2> QED  BY <1>3, <2>1, <2>2 DEF at
<1> QED  BY <1>2, <1>3

\* Members that join one after the other are divided in the end.
LEMMA PlacedFacts ==
  ASSUME NEW members \in Seq(Nat), NEW steps \in Seq([Partitions -> Partitions]),
         Len(steps) = Len(members), NEW Fit \in SUBSET Partitions, <<>> \in Fit,
         \A n \in 1..Len(members) : \A q \in Fit :
           /\ steps[n][q] \in Fit
           /\ \E i \in 0..Len(q) : steps[n][q] = JoinAt(q, i, members[n])
  PROVE  /\ Applied(steps, <<>>) \in Fit
         /\ OnceEach(members) => Divides(Applied(steps, <<>>), members)
<1> DEFINE N == Len(members)  upTo(n) == SubSeq(members, 1, n)
           Good == [n \in Nat |-> {q \in Fit : n \in 0..N /\ OnceEach(members) => Divides(q, upTo(n))}]
<1>1. /\ N \in Nat /\ \A n \in 1..N : members[n] \in Nat
      /\ DOMAIN members = 1..N
  BY LenProperties, ElementOfSeq
<1>2. \A n \in 0..N : upTo(n) \in Seq(Nat) /\ Len(upTo(n)) = n /\ \A i \in 1..n : upTo(n)[i] = members[i]
  BY PrefixFacts
<1>3. \A n \in 1..N : upTo(n) = Append(upTo(n - 1), members[n])
  BY PrefixGrows
<1>4. ASSUME NEW n \in 1..N, OnceEach(members)
      PROVE  members[n] \notin ToSet(upTo(n - 1))
  <2>1. n - 1 \in 0..N /\ n \in 1..N
    BY <1>1
  <2> HIDE DEF upTo, N
  <2>2. \A e \in ToSet(upTo(n - 1)) : \E i \in 1..(n - 1) : members[i] = e
    <3>1. upTo(n - 1) \in Seq(Nat) /\ Len(upTo(n - 1)) = n - 1
      BY <1>2, <2>1
    <3>2. \A e \in ToSet(upTo(n - 1)) : \E i \in 1..Len(upTo(n - 1)) : upTo(n - 1)[i] = e
      BY <3>1, ToSetFacts
    <3> QED  BY <1>2, <2>1, <3>1, <3>2
  <2>3. \A i \in 1..(n - 1) : i \in 1..N /\ i # n
    BY <1>1
  <2>4. \A i \in 1..N : members[i] = members[n] => i = n
    BY <1>4 DEF OnceEach, N
  <2> QED  BY ONLY <2>2, <2>3, <2>4
<1>5. upTo(0) = <<>>
  BY SubSeqEmpty
<1>6. Divides(<<>>, <<>>)
  <2>1. <<>> \in Partitions /\ Len(<<>>) = 0 /\ <<>> \in Seq(Nat)
    BY EmptySeq DEF Partitions
  <2>2. Members(<<>>) = {}
    BY <2>1 DEF Members
  <2>3. ToSet(<<>>) = {}
    BY DEF ToSet
  <2> DEFINE none == <<>>
  <2>4. Apart(none)
    BY <2>1 DEF Apart
  <2>5. Members(none) = ToSet(none) /\ Len(none) = 0 /\ none = <<>>
    BY <2>1, <2>2, <2>3
  <2> HIDE DEF none
  <2>6. Divides(none, none)
    BY <2>4, <2>5 DEF Divides
  <2> QED  BY <2>6 DEF none
<1>7. \A n \in Nat : \A q \in Good[n] : q \in Fit /\ (n \in 0..N /\ OnceEach(members) => Divides(q, upTo(n)))
  OBVIOUS
<1>8. \A n \in Nat : \A q \in Fit : (n \in 0..N /\ OnceEach(members) => Divides(q, upTo(n))) => q \in Good[n]
  OBVIOUS
<1>9. Good \in [Nat -> SUBSET Partitions]
  OBVIOUS
<1> HIDE DEF Good, upTo
<1>10. <<>> \in Good[0]
  BY <1>5, <1>6, <1>8
<1>11. ASSUME NEW n \in 1..N, NEW q \in Good[n - 1]
       PROVE  steps[n][q] \in Good[n]
  <2>1. n \in Nat /\ n - 1 \in Nat /\ n - 1 \in 0..N /\ n \in 0..N
    BY <1>1
  <2>2. q \in Fit /\ (OnceEach(members) => Divides(q, upTo(n - 1)))
    BY <1>7, <2>1
  <2>3. steps[n][q] \in Fit /\ \E i \in 0..Len(q) : steps[n][q] = JoinAt(q, i, members[n])
    BY <2>2
  <2>4. ASSUME OnceEach(members)
        PROVE  Divides(steps[n][q], upTo(n))
    <3>1. PICK i \in 0..Len(q) : steps[n][q] = JoinAt(q, i, members[n])
      BY <2>3
    <3>2. upTo(n - 1) \in Seq(Nat) /\ Divides(q, upTo(n - 1)) /\ members[n] \in Nat
          /\ members[n] \notin ToSet(upTo(n - 1))
      BY <1>1, <1>2, <1>4, <2>1, <2>2, <2>4
    <3>3. Divides(JoinAt(q, i, members[n]), Append(upTo(n - 1), members[n]))
      BY <3>2, JoinAtDivides
    <3> QED  BY <1>3, <3>1, <3>3
  <2> QED  BY <1>8, <2>1, <2>3, <2>4
<1>12. Applied(steps, <<>>) \in Good[N]
  <2> DEFINE start == <<>>
  <2>1. start \in Partitions /\ start \in Good[0]
    BY <1>10
  <2>2. \A n \in 1..Len(steps) : \A q \in Good[n - 1] : steps[n][q] \in Good[n]
    BY <1>11
  <2> HIDE DEF start
  <2>3. Applied(steps, start) \in Good[Len(steps)]
    BY <1>9, <2>1, <2>2, AppliedFacts
  <2> QED  BY <2>3 DEF start
<1>13. upTo(N) = members
  BY SubSeqFull DEF upTo
<1> QED  BY <1>1, <1>7, <1>12, <1>13

\* Members of a group have the same key.
Alike(key, q) == \A i \in 1..Len(q) : q[i] # <<>> /\ \A m \in ToSet(q[i]) : key[m] = key[q[i][1]]
\* Groups have different ones.
Differ(key, q) == \A i, j \in 1..Len(q) : key[q[i][1]] = key[q[j][1]] => i = j

\* Grouping by a key.
LEMMA GroupByFacts ==
  ASSUME NEW key, NEW members \in Seq(Nat)
  PROVE  /\ GroupBy(key, members) \in Partitions
         /\ Alike(key, GroupBy(key, members)) /\ Differ(key, GroupBy(key, members))
         /\ OnceEach(members) => Divides(GroupBy(key, members), members)
<1> DEFINE N == Len(members)
           steps == [n \in DOMAIN members |-> [q \in Partitions |-> PlaceByKey(key, q, members[n])]]
           Fit == {q \in Partitions : Alike(key, q) /\ Differ(key, q)}
<1>1. N \in Nat /\ DOMAIN members = 1..N /\ \A n \in 1..N : members[n] \in Nat
  BY LenProperties, ElementOfSeq
<1>2. ASSUME NEW q \in Partitions, NEW m \in Nat
      PROVE  \E i \in 0..Len(q) : /\ PlaceByKey(key, q, m) = JoinAt(q, i, m)
                                  /\ i # 0 => i \in 1..Len(q) /\ key[q[i][1]] = key[m]
                                  /\ i = 0 => \A j \in 1..Len(q) : key[q[j][1]] # key[m]
  <2> DEFINE I == {i \in 1..Len(q) : key[q[i][1]] = key[m]}
             at == IF I # {} THEN Min(I) ELSE 0
  <2>1. at \in 0..Len(q) /\ (at # 0 => at \in I) /\ (at = 0 => I = {})
    <3>1. Len(q) \in Nat /\ I \in SUBSET (1..Len(q))
      BY GroupFacts
    <3> HIDE DEF I
    <3>2. at \in 0..Len(q) /\ (at # 0 => at \in I) /\ (I # {} => at \in 1..Len(q))
      BY <3>1, SelectFacts
    <3> HIDE DEF at
    <3> QED  BY <3>2
  <2>2. PlaceByKey(key, q, m) = JoinAt(q, at, m)
    BY DEF PlaceByKey, SelectInSeq
  <2> HIDE DEF at
  <2> QED  BY <2>1, <2>2
<1>3. ASSUME NEW q \in Partitions, NEW m \in Nat
      PROVE  PlaceByKey(key, q, m) \in Partitions
  BY <1>2, JoinAtTyped
<1>4. ASSUME NEW q \in Fit, NEW m \in Nat
      PROVE  PlaceByKey(key, q, m) \in Fit
  <2> DEFINE one == <<m>>
  <2>1. q \in Partitions /\ Alike(key, q) /\ Differ(key, q)
    OBVIOUS
  <2>2. PICK i \in 0..Len(q) : /\ PlaceByKey(key, q, m) = JoinAt(q, i, m)
                               /\ i # 0 => i \in 1..Len(q) /\ key[q[i][1]] = key[m]
                               /\ i = 0 => \A j \in 1..Len(q) : key[q[j][1]] # key[m]
    BY <1>2, <2>1
  <2> DEFINE next == JoinAt(q, i, m)
  <2>3. Len(q) \in Nat /\ \A j \in 1..Len(q) : q[j] \in Seq(Nat)
    BY <2>1, GroupFacts
  <2>4. ASSUME NEW j \in 1..Len(q)
        PROVE  /\ q[j] # <<>> /\ \A n \in ToSet(q[j]) : key[n] = key[q[j][1]]
               /\ Append(q[j], m) # <<>> /\ Append(q[j], m)[1] = q[j][1]
               /\ ToSet(Append(q[j], m)) = ToSet(q[j]) \cup {m}
    <3> DEFINE u == q[j]
    <3>1. u \in Seq(Nat) /\ u # <<>>
      BY <2>1, <2>3 DEF Alike
    <3>2. \A n \in ToSet(u) : key[n] = key[u[1]]
      BY <2>1 DEF Alike
    <3> HIDE DEF u
    <3>3. ASSUME NEW s \in Seq(Nat), s # <<>>
          PROVE  Append(s, m) # <<>> /\ Append(s, m)[1] = s[1] /\ ToSet(Append(s, m)) = ToSet(s) \cup {m}
      BY <3>3, GroupGrows
    <3> QED  BY <3>1, <3>2, <3>3 DEF u
  <2>5. one # <<>> /\ one[1] = m /\ \A n \in ToSet(one) : key[n] = key[one[1]]
    <3>1. one \in Seq(Nat) /\ Len(one) = 1 /\ one[1] = m
      BY SingletonFacts
    <3> HIDE DEF one
    <3>2. one # <<>> <=> Len(one) >= 1
      BY <3>1, ToSetFacts
    <3>3. \A n \in ToSet(one) : \E a \in 1..Len(one) : one[a] = n
      BY <3>1, ToSetFacts
    <3>4. \A a \in 1..Len(one) : a = 1
      BY <3>1
    <3> QED  BY <3>1, <3>2, <3>3, <3>4
  <2> HIDE DEF one, next
  <2>6. next \in Partitions /\ Alike(key, next) /\ Differ(key, next)
    <3>1. CASE i = 0
      <4>1. /\ next \in Partitions /\ Len(next) = Len(q) + 1 /\ next[Len(q) + 1] = one
            /\ \A j \in 1..Len(q) : next[j] = q[j]
        BY <2>1, <3>1, JoinAtTyped DEF next, one
      <4>2. \A j \in 1..Len(next) : j \in 1..Len(q) \/ j = Len(q) + 1
        BY <2>3, <4>1
      <4>3. Alike(key, next)
        <5> SUFFICES ASSUME NEW j \in 1..Len(next)
                     PROVE  next[j] # <<>> /\ \A n \in ToSet(next[j]) : key[n] = key[next[j][1]]
          BY DEF Alike
        <5>1. CASE j \in 1..Len(q)
          BY <2>4, <4>1, <5>1
        <5>2. CASE j = Len(q) + 1
          BY <2>5, <4>1, <5>2
        <5> QED  BY <4>2, <5>1, <5>2
      <4>4. \A j \in 1..Len(q) : key[next[j][1]] = key[q[j][1]] /\ key[q[j][1]] # key[m]
        BY <2>2, <3>1, <4>1
      <4>5. key[next[Len(q) + 1][1]] = key[m]
        BY <2>5, <4>1
      <4>6. Differ(key, next)
        <5>1. \A j, k \in 1..Len(q) : key[q[j][1]] = key[q[k][1]] => j = k
          BY <2>1 DEF Differ
        <5> SUFFICES ASSUME NEW j \in 1..Len(next), NEW k \in 1..Len(next),
                            key[next[j][1]] = key[next[k][1]]
                     PROVE  j = k
          BY DEF Differ
        <5>2. CASE j \in 1..Len(q) /\ k \in 1..Len(q)
          BY <4>4, <5>1, <5>2
        <5>3. CASE j = Len(q) + 1 \/ k = Len(q) + 1
          BY <4>2, <4>4, <4>5, <5>3
        <5> QED  BY <4>2, <5>2, <5>3
      <4> QED  BY <4>1, <4>3, <4>6
    <3>2. CASE i # 0
      <4>1. /\ next \in Partitions /\ Len(next) = Len(q)
            /\ \A j \in 1..Len(q) : next[j] = IF j = i THEN Append(q[j], m) ELSE q[j]
        BY <2>1, <3>2, JoinAtTyped DEF next
      <4>2. ASSUME NEW j \in 1..Len(q)
            PROVE  /\ next[j] # <<>> /\ \A n \in ToSet(next[j]) : key[n] = key[next[j][1]]
                   /\ key[next[j][1]] = key[q[j][1]]
        <5>1. CASE j = i
          <6> DEFINE u == q[j]  v == Append(u, m)
          <6>1. next[j] = v /\ key[u[1]] = key[m]
            BY <2>2, <3>2, <4>1, <5>1
          <6>2. /\ \A n \in ToSet(u) : key[n] = key[u[1]]
                /\ v # <<>> /\ v[1] = u[1] /\ ToSet(v) = ToSet(u) \cup {m}
            BY <2>4
          <6>3. u = q[j]
            OBVIOUS
          <6> HIDE DEF u, v
          <6>4. next[j] # <<>> /\ key[next[j][1]] = key[q[j][1]]
            BY ONLY <6>1, <6>2, <6>3
          <6>5. \A n \in ToSet(next[j]) : key[n] = key[next[j][1]]
            BY ONLY <6>1, <6>2
          <6> QED  BY ONLY <6>4, <6>5
        <5>2. CASE j # i
          BY <2>4, <4>1, <5>2
        <5> QED  BY <5>1, <5>2
      <4>3. Alike(key, next)
        BY <4>1, <4>2 DEF Alike
      <4>4. Differ(key, next)
        BY <2>1, <4>1, <4>2 DEF Differ
      <4> QED  BY <4>1, <4>3, <4>4
    <3> QED  BY <3>1, <3>2
  <2> QED  BY <2>2, <2>6 DEF next
<1>5. steps \in Seq([Partitions -> Partitions]) /\ Len(steps) = N
      /\ \A n \in 1..N, q \in Partitions : steps[n][q] = PlaceByKey(key, q, members[n])
  <2>1. \A n \in 1..N : steps[n] = [q \in Partitions |-> PlaceByKey(key, q, members[n])]
    BY <1>1
  <2>2. steps = [n \in 1..N |-> steps[n]]
    BY <1>1
  <2> HIDE DEF steps, N
  <2>3. \A n \in 1..N : steps[n] \in [Partitions -> Partitions]
    BY <1>1, <1>3, <2>1
  <2>4. steps \in Seq([Partitions -> Partitions]) /\ Len(steps) = N
    BY <1>1, <2>2, <2>3, IsASeq, SMTT(30)
  <2> QED  BY <2>1, <2>4
<1>6. GroupBy(key, members) = Applied(steps, <<>>)
  BY DEF GroupBy
<1> HIDE DEF steps
<1>7. Fit \in SUBSET Partitions /\ <<>> \in Fit
  <2>1. <<>> \in Partitions /\ Len(<<>>) = 0
    BY EmptySeq DEF Partitions
  <2>2. Alike(key, <<>>) /\ Differ(key, <<>>)
    BY <2>1 DEF Alike, Differ
  <2> QED  BY <2>1, <2>2
<1>8. ASSUME NEW n \in 1..N, NEW q \in Fit
      PROVE  steps[n][q] \in Fit /\ \E i \in 0..Len(q) : steps[n][q] = JoinAt(q, i, members[n])
  <2> DEFINE m == members[n]
  <2>1. q \in Partitions /\ m \in Nat
    BY <1>1
  <2>2. steps[n][q] = PlaceByKey(key, q, m)
    BY <1>5, <2>1
  <2> HIDE DEF Fit, m
  <2>3. PlaceByKey(key, q, m) \in Fit
    BY <1>4, <2>1
  <2>4. PICK i \in 0..Len(q) : PlaceByKey(key, q, m) = JoinAt(q, i, m)
    BY <1>2, <2>1
  <2> QED  BY <2>2, <2>3, <2>4 DEF m
<1>9. /\ Applied(steps, <<>>) \in Fit
      /\ OnceEach(members) => Divides(Applied(steps, <<>>), members)
  <2> HIDE DEF Fit
  <2> QED  BY <1>5, <1>7, <1>8, PlacedFacts
<1> QED  BY <1>6, <1>9

\* Groups of one state, or without a conflict.
Adequate(g, auto, q) == \A i \in 1..Len(q) : Len(q[i]) <= 1 \/ MergeConflicts(g, auto, q[i]) = {}

\* Splitting by compatibility.
LEMMA SplitFacts ==
  ASSUME NEW g, NEW auto, NEW members \in Seq(Nat)
  PROVE  /\ SplitByCompatibility(g, auto, members) \in Partitions
         /\ Adequate(g, auto, SplitByCompatibility(g, auto, members))
         /\ OnceEach(members) => Divides(SplitByCompatibility(g, auto, members), members)
<1> DEFINE N == Len(members)
           steps == [n \in DOMAIN members |-> [q \in Partitions |-> PlaceByFit(g, auto, q, members[n])]]
<1>1. N \in Nat /\ DOMAIN members = 1..N /\ \A n \in 1..N : members[n] \in Nat
  BY LenProperties, ElementOfSeq
<1>2. ASSUME NEW q \in Partitions, NEW m \in Nat
      PROVE  \E i \in 0..Len(q) : /\ PlaceByFit(g, auto, q, m) = JoinAt(q, i, m)
                                  /\ i # 0 => MergeConflicts(g, auto, Append(q[i], m)) = {}
  <2> DEFINE I == {i \in 1..Len(q) : MergeConflicts(g, auto, Append(q[i], m)) = {}}
             at == IF I # {} THEN Min(I) ELSE 0
  <2>1. at \in 0..Len(q) /\ (at # 0 => at \in I)
    <3>1. Len(q) \in Nat /\ I \in SUBSET (1..Len(q))
      BY GroupFacts
    <3>2. I \subseteq Nat /\ 0 \notin I
      BY <3>1
    <3> HIDE DEF I
    <3>3. I # {} => Min(I) \in I
      BY ONLY <3>2, MinFacts
    <3>4. (I = {} => at = 0) /\ (I # {} => at = Min(I))
      OBVIOUS
    <3> HIDE DEF at
    <3>5. CASE I = {}
      BY <3>1, <3>4, <3>5
    <3>6. CASE I # {}
      <4>1. at \in I
        BY ONLY <3>3, <3>4, <3>6
      <4>2. at \in 1..Len(q)
        BY <3>1, <4>1
      <4> QED  BY <3>1, <4>1, <4>2
    <3> QED  BY <3>5, <3>6
  <2>2. PlaceByFit(g, auto, q, m) = JoinAt(q, at, m)
    BY DEF PlaceByFit, SelectInSeq
  <2> HIDE DEF at
  <2> QED  BY <2>1, <2>2
<1>3. ASSUME NEW q \in Partitions, NEW m \in Nat
      PROVE  PlaceByFit(g, auto, q, m) \in Partitions
  <2>1. PICK i \in 0..Len(q) : PlaceByFit(g, auto, q, m) = JoinAt(q, i, m)
    BY <1>2
  <2>2. JoinAt(q, i, m) \in Partitions
    BY JoinAtTyped
  <2> QED  BY ONLY <2>1, <2>2
<1>4. steps \in Seq([Partitions -> Partitions]) /\ Len(steps) = N
      /\ \A n \in 1..N, q \in Partitions : steps[n][q] = PlaceByFit(g, auto, q, members[n])
  <2>1. \A n \in 1..N : steps[n] = [q \in Partitions |-> PlaceByFit(g, auto, q, members[n])]
    BY <1>1
  <2>2. steps = [n \in 1..N |-> steps[n]]
    BY <1>1
  <2> HIDE DEF steps, N
  <2>3. \A n \in 1..N : steps[n] \in [Partitions -> Partitions]
    BY <1>1, <1>3, <2>1
  <2>4. steps \in Seq([Partitions -> Partitions]) /\ Len(steps) = N
    BY <1>1, <2>2, <2>3, IsASeq, SMTT(30)
  <2> QED  BY <2>1, <2>4
<1>5. SplitByCompatibility(g, auto, members) = Applied(steps, <<>>)
  BY DEF SplitByCompatibility
<1> HIDE DEF steps
<1> DEFINE Fit == {q \in Partitions : Adequate(g, auto, q)}
<1>6. Fit \in SUBSET Partitions /\ <<>> \in Fit
  BY EmptySeq DEF Partitions, Adequate
<1>7. ASSUME NEW n \in 1..N, NEW q \in Fit
      PROVE  steps[n][q] \in Fit /\ \E i \in 0..Len(q) : steps[n][q] = JoinAt(q, i, members[n])
  <2> DEFINE m == members[n]
  <2>1. q \in Partitions /\ m \in Nat
    BY <1>1
  <2>2. steps[n][q] = PlaceByFit(g, auto, q, m)
    BY <1>4, <2>1
  <2>3. Adequate(g, auto, q)
    OBVIOUS
  <2> HIDE DEF m
  <2>4. PICK i \in 0..Len(q) : /\ PlaceByFit(g, auto, q, m) = JoinAt(q, i, m)
                               /\ i # 0 => MergeConflicts(g, auto, Append(q[i], m)) = {}
    BY <1>2, <2>1
  <2> DEFINE next == JoinAt(q, i, m)
  <2>5. /\ next \in Partitions /\ Len(q) \in Nat
        /\ i = 0 => /\ Len(next) = Len(q) + 1 /\ next[Len(q) + 1] = <<m>>
                    /\ \A j \in 1..Len(q) : next[j] = q[j]
        /\ i # 0 => /\ Len(next) = Len(q)
                    /\ \A j \in 1..Len(q) : next[j] = IF j = i THEN Append(q[j], m) ELSE q[j]
    BY <2>1, JoinAtTyped, GroupFacts
  <2> HIDE DEF next
  <2>6. Adequate(g, auto, next)
    <3>1. CASE i = 0
      <4>1. \A j \in 1..Len(next) : j \in 1..Len(q) \/ j = Len(q) + 1
        BY <2>5, <3>1
      <4>2. Len(<<m>>) <= 1
        BY <2>1, SingletonFacts
      <4> QED  BY <2>3, <2>5, <3>1, <4>1, <4>2 DEF Adequate
    <3>2. CASE i # 0
      BY <2>3, <2>4, <2>5, <3>2 DEF Adequate
    <3> QED  BY <3>1, <3>2
  <2> QED  BY <2>2, <2>4, <2>5, <2>6 DEF m, next
<1>8. /\ Applied(steps, <<>>) \in Fit
      /\ OnceEach(members) => Divides(Applied(steps, <<>>), members)
  <2> HIDE DEF Fit
  <2> QED  BY <1>4, <1>6, <1>7, PlacedFacts
<1> QED  BY <1>5, <1>8

\* Lists joined in their order: what holds of none and is kept by the next one.
LEMMA FlattenInduction ==
  ASSUME NEW S, NEW lists \in Seq(Seq(S)), NEW Good \in [Nat -> SUBSET Seq(S)], <<>> \in Good[0],
         \A n \in 1..Len(lists) : \A l \in Good[n - 1] : l \o lists[n] \in Good[n]
  PROVE  FlattenSeq(lists) \in Good[Len(lists)]
<1> DEFINE N == Len(lists)
           Is(f) == f = [i \in 1..N |-> IF i = 1 THEN lists[i] ELSE f[i - 1] \o lists[i]]
           Step == [n \in Nat |-> [l \in Seq(S) |-> IF n \in 1..N THEN l \o lists[n] ELSE l]]
           none == <<>>
<1>1. N \in Nat /\ \A n \in 1..N : lists[n] \in Seq(S)
  BY LenProperties, ElementOfSeq
<1>2. none \in Seq(S) /\ \A l \in Seq(S) : none \o l = l
  BY EmptySeq, ConcatEmptySeq
<1>3. Step \in [Nat -> [Seq(S) -> Seq(S)]]
  <2>1. \A n \in 1..N, l \in Seq(S) : l \o lists[n] \in Seq(S)
    BY <1>1, JoinFacts
  <2> QED  BY <2>1
<1>4. PICK h \in [Nat -> Seq(S)] : Follows(h, none, Step)
  <2> HIDE DEF Step, none
  <2> QED  BY <1>2, <1>3, Recursion
<1>5. h[0] = none /\ \A n \in 1..N : h[n] = h[n - 1] \o lists[n]
  <2>1. h[0] = none
    BY <1>4 DEF Follows
  <2>2. ASSUME NEW n \in 1..N
        PROVE  h[n] = h[n - 1] \o lists[n]
    <3>1. n \in Nat \ {0} /\ n - 1 \in Nat
      BY <1>1
    <3>2. h[n] = Step[n][h[n - 1]] /\ h[n - 1] \in Seq(S)
      BY <1>4, <3>1 DEF Follows
    <3>3. \A l \in Seq(S) : Step[n][l] = l \o lists[n]
      BY <3>1
    <3> HIDE DEF Step
    <3> QED  BY <3>2, <3>3
  <2> QED  BY <2>1, <2>2
<1> HIDE DEF Step
<1>6. ASSUME NEW f, Is(f), NEW n \in Nat
      PROVE  n \in 1..N => f[n] = h[n]
  <2> DEFINE Same == {k \in Nat : k \in 1..N => f[k] = h[k]}
  <2>1. 0 \in Same
    OBVIOUS
  <2>2. ASSUME NEW k \in Nat, k \in Same
        PROVE  k + 1 \in Same
    <3> SUFFICES ASSUME k + 1 \in 1..N
                 PROVE  f[k + 1] = h[k + 1]
      OBVIOUS
    <3>1. f[k + 1] = IF k + 1 = 1 THEN lists[k + 1] ELSE f[k] \o lists[k + 1]
      <4>1. (k + 1) - 1 = k
        OBVIOUS
      <4> HIDE DEF N
      <4> QED  BY <1>6, <4>1
    <3>2. h[k + 1] = h[k] \o lists[k + 1]
      <4>1. (k + 1) - 1 = k
        OBVIOUS
      <4> HIDE DEF N
      <4> QED  BY <1>5, <4>1
    <3>3. CASE k = 0
      <4>1. h[k] = none /\ lists[k + 1] \in Seq(S)
        BY <1>1, <1>5, <3>3
      <4>2. h[k + 1] = lists[k + 1]
        BY <1>2, <3>2, <4>1
      <4> QED  BY <3>1, <3>3, <4>2
    <3>4. CASE k # 0
      <4>1. k \in 1..N /\ k + 1 # 1
        BY <1>1, <3>4
      <4>2. f[k] = h[k]
        BY <2>2, <4>1
      <4> QED  BY <3>1, <3>2, <4>1, <4>2
    <3> QED  BY <3>3, <3>4
  <2> HIDE DEF Same
  <2>3. n \in Same
    BY <2>1, <2>2, Induction
  <2> QED  BY <2>3 DEF Same
<1>7. \E f : Is(f)
  <2> DEFINE f == [i \in 1..N |-> h[i]]
  <2>1. \A i \in 1..N : f[i] = IF i = 1 THEN lists[i] ELSE f[i - 1] \o lists[i]
    <3> SUFFICES ASSUME NEW i \in 1..N
                 PROVE  h[i] = IF i = 1 THEN lists[i] ELSE f[i - 1] \o lists[i]
      OBVIOUS
    <3>1. CASE i = 1
      <4>1. h[i] = h[0] \o lists[i] /\ lists[i] \in Seq(S)
        <5>1. h[i] = h[i - 1] \o lists[i]
          <6> HIDE DEF N, none
          <6> QED  BY <1>5
        <5>2. i - 1 = 0
          BY <3>1
        <5> QED  BY <1>1, <5>1, <5>2
      <4>2. h[i] = lists[i]
        BY <1>2, <1>5, <4>1
      <4> QED  BY <3>1, <4>2
    <3>2. CASE i # 1
      <4>1. i - 1 \in 1..N /\ f[i - 1] = h[i - 1]
        BY <1>1, <3>2
      <4> QED  BY <1>5, <3>2, <4>1
    <3> QED  BY <3>1, <3>2
  <2>2. f = [i \in 1..N |-> f[i]]
    OBVIOUS
  <2> HIDE DEF f, N
  <2>3. Is(f)
    BY <2>1, <2>2
  <2> HIDE DEF Is
  <2> QED  BY <2>3
<1>8. FlattenSeq(lists) = h[N]
  <2>1. CASE N = 0
    <3>1. FlattenSeq(lists) = lists
      BY <2>1 DEF FlattenSeq
    <3>2. lists = <<>>
      BY <2>1, EmptySeq
    <3> QED  BY <1>5, <2>1, <3>1, <3>2
  <2>2. CASE N # 0
    <3> DEFINE f == CHOOSE f : Is(f)
    <3>1. FlattenSeq(lists) = f[N]
      BY <2>2 DEF FlattenSeq
    <3>2. Is(f)
      <4> HIDE DEF Is
      <4> QED  BY <1>7
    <3> HIDE DEF f, Is
    <3>3. N \in 1..N
      BY <1>1, <2>2
    <3> HIDE DEF N
    <3> QED  BY <1>1, <1>6, <3>1, <3>2, <3>3
  <2> QED  BY <2>1, <2>2
<1> DEFINE Holds == {n \in Nat : n \in 0..N => h[n] \in Good[n]}
<1>9. 0 \in Holds
  BY <1>5
<1>10. ASSUME NEW n \in Nat, n \in Holds
       PROVE  n + 1 \in Holds
  <2> SUFFICES ASSUME n + 1 \in 0..N
               PROVE  h[n + 1] \in Good[n + 1]
    OBVIOUS
  <2>1. n \in 0..N /\ n + 1 \in 1..N /\ (n + 1) - 1 = n
    BY <1>1
  <2>2. h[n] \in Good[n]
    BY <1>10, <2>1
  <2>3. h[n] \o lists[n + 1] \in Good[n + 1]
    BY <2>1, <2>2
  <2> QED  BY <1>5, <2>1, <2>3
<1> HIDE DEF Holds
<1>11. N \in Holds
  BY <1>1, <1>9, <1>10, Induction
<1> QED  BY <1>1, <1>8, <1>11 DEF Holds

\* The members of one more group.
LEMMA MembersGrow ==
  ASSUME NEW p \in Partitions, NEW s \in Seq(Nat)
  PROVE  LET t == Append(p, s)
         IN  /\ t \in Partitions /\ Len(t) = Len(p) + 1 /\ t[Len(p) + 1] = s
             /\ \A i \in 1..Len(p) : t[i] = p[i]
             /\ \A i \in 1..Len(t) : i \in 1..Len(p) \/ i = Len(p) + 1
             /\ Members(t) = Members(p) \cup ToSet(s)
<1> DEFINE t == Append(p, s)  n == Len(p)
<1>1. n \in Nat /\ p \in Seq(Seq(Nat))
  BY GroupFacts DEF Partitions
<1>2. /\ t \in Seq(Seq(Nat)) /\ Len(t) = n + 1 /\ t[n + 1] = s
      /\ \A i \in 1..n : t[i] = p[i]
  BY <1>1, PushFacts
<1> HIDE DEF t
<1>3. \A i \in 1..Len(t) : i \in 1..n \/ i = n + 1
  BY <1>1, <1>2
<1>4. n + 1 \in 1..Len(t) /\ \A i \in 1..n : i \in 1..Len(t)
  BY <1>1, <1>2
<1>5. Members(t) = Members(p) \cup ToSet(s)
  <2>1. ASSUME NEW e \in Members(t)
        PROVE  e \in Members(p) \cup ToSet(s)
    <3>1. PICK i \in 1..Len(t) : e \in ToSet(t[i])
      BY DEF Members
    <3> QED  BY <1>2, <1>3, <3>1 DEF Members
  <2>2. ASSUME NEW e \in Members(p)
        PROVE  e \in Members(t)
    <3>1. PICK i \in 1..n : e \in ToSet(p[i])
      BY DEF Members
    <3>2. i \in 1..Len(t) /\ e \in ToSet(t[i])
      BY <1>2, <1>4, <3>1
    <3> QED  BY <3>2 DEF Members
  <2>3. ASSUME NEW e \in ToSet(s)
        PROVE  e \in Members(t)
    BY <1>2, <1>4, <2>3 DEF Members
  <2> QED  BY <2>1, <2>2, <2>3
<1> QED  BY <1>2, <1>3, <1>5 DEF t, Partitions

\* A group that is divided after the groups before it.
LEMMA RefinesMore ==
  ASSUME NEW p, NEW q, Refines(q, p), NEW s \in Seq(Nat), s # <<>>, NEW d, Divides(d, s),
         p \in Partitions, Apart(Append(p, s))
  PROVE  Refines(q \o d, Append(p, s))
<1> DEFINE t == Append(p, s)  r == q \o d  k == Len(q)  l == Len(d)  n == Len(p)
<1>1. /\ t \in Partitions /\ Len(t) = n + 1 /\ t[n + 1] = s
      /\ \A i \in 1..n : t[i] = p[i]
      /\ Members(t) = Members(p) \cup ToSet(s) /\ n \in Nat
  <2>1. n \in Nat
    BY GroupFacts
  <2> QED  BY <2>1, MembersGrow
<1>2. /\ q \in Partitions /\ k \in Nat /\ \A i \in 1..k : q[i] # <<>> /\ OnceEach(q[i])
      /\ \A i, j \in 1..k : i # j => ToSet(q[i]) \cap ToSet(q[j]) = {}
  BY GroupFacts DEF Refines, Apart
<1>3. /\ d \in Partitions /\ l \in Nat /\ \A i \in 1..l : d[i] # <<>> /\ OnceEach(d[i])
      /\ \A i, j \in 1..l : i # j => ToSet(d[i]) \cap ToSet(d[j]) = {}
  BY GroupFacts DEF Divides, Apart
<1>4. /\ r \in Partitions /\ Len(r) = k + l
      /\ \A i \in 1..k : r[i] = q[i]
      /\ \A i \in 1..l : r[k + i] = d[i]
  BY <1>2, <1>3, JoinFacts DEF Partitions
<1>5. l > 0 /\ d[1][1] = s[1] /\ Members(d) = ToSet(s) /\ (l = 1 => d[1] = s)
  BY DEF Divides
<1>6. Members(q) = Members(p) /\ n <= k /\ (k = n => q = p) /\ (n > 0 => k > 0 /\ q[1][1] = p[1][1])
  BY DEF Refines
<1>7. Members(p) \cap ToSet(s) = {}
  <2>1. \A i \in 1..n : i # n + 1 /\ i \in 1..Len(t) /\ n + 1 \in 1..Len(t)
    BY <1>1
  <2>2. \A i \in 1..n : ToSet(t[i]) \cap ToSet(t[n + 1]) = {}
    BY <2>1 DEF Apart
  <2>3. \A i \in 1..n : ToSet(p[i]) \cap ToSet(s) = {}
    BY <1>1, <2>2
  <2> QED  BY <2>3 DEF Members
<1>8. /\ \A i \in 1..k : ToSet(q[i]) \subseteq Members(p)
      /\ \A i \in 1..l : ToSet(d[i]) \subseteq ToSet(s)
  BY <1>5, <1>6 DEF Members
<1> HIDE DEF t, r, k, l, n
<1>9. \A i \in 1..Len(r) : i \in 1..k \/ \E j \in 1..l : i = k + j
  <2> SUFFICES ASSUME NEW i \in 1..Len(r), i \notin 1..k
               PROVE  \E j \in 1..l : i = k + j
    OBVIOUS
  <2>1. i - k \in 1..l /\ i = k + (i - k)
    BY <1>2, <1>3, <1>4
  <2> QED  BY <2>1
<1>10. /\ \A i \in 1..k : i \in 1..Len(r)
       /\ \A j \in 1..l : k + j \in 1..Len(r)
  BY <1>2, <1>3, <1>4
<1>11. Apart(r)
  <2>1. \A i \in 1..Len(r) : r[i] # <<>> /\ OnceEach(r[i])
    BY <1>2, <1>3, <1>4, <1>9
  <2>2. ASSUME NEW i \in 1..Len(r), NEW j \in 1..Len(r), i # j
        PROVE  ToSet(r[i]) \cap ToSet(r[j]) = {}
    <3>1. CASE i \in 1..k /\ j \in 1..k
      BY <1>2, <1>4, <2>2, <3>1
    <3>2. ASSUME NEW a \in 1..k, NEW b \in 1..l
          PROVE  ToSet(r[a]) \cap ToSet(r[k + b]) = {}
      <4>1. ToSet(r[a]) \subseteq Members(p) /\ ToSet(r[k + b]) \subseteq ToSet(s)
        BY <1>4, <1>8
      <4> QED  BY <1>7, <4>1
    <3>3. ASSUME NEW a \in 1..l, NEW b \in 1..l, i = k + a, j = k + b
          PROVE  ToSet(r[i]) \cap ToSet(r[j]) = {}
      <4>1. a # b
        BY <2>2, <3>3
      <4>2. ToSet(d[a]) \cap ToSet(d[b]) = {}
        BY <1>3, <4>1
      <4> QED  BY <1>4, <3>3, <4>2
    <3> QED  BY <1>9, <3>1, <3>2, <3>3
  <2> QED  BY <1>4, <2>1, <2>2 DEF Apart
<1>12. Members(r) = Members(t)
  <2>1. ASSUME NEW e \in Members(r)
        PROVE  e \in Members(q) \cup Members(d)
    <3>1. PICK i \in 1..Len(r) : e \in ToSet(r[i])
      BY DEF Members
    <3>2. CASE i \in 1..k
      BY <1>4, <3>1, <3>2 DEF Members, k
    <3>3. ASSUME NEW j \in 1..l, i = k + j
          PROVE  e \in Members(d)
      BY <1>4, <3>1, <3>3 DEF Members, l
    <3> QED  BY <1>9, <3>2, <3>3
  <2>2. ASSUME NEW e \in Members(q)
        PROVE  e \in Members(r)
    <3>1. PICK i \in 1..k : e \in ToSet(q[i])
      BY DEF Members, k
    <3>2. i \in 1..Len(r) /\ e \in ToSet(r[i])
      BY <1>4, <1>10, <3>1
    <3> QED  BY <3>2 DEF Members
  <2>3. ASSUME NEW e \in Members(d)
        PROVE  e \in Members(r)
    <3>1. PICK i \in 1..l : e \in ToSet(d[i])
      BY DEF Members, l
    <3>2. k + i \in 1..Len(r) /\ e \in ToSet(r[k + i])
      BY <1>4, <1>10, <3>1
    <3> QED  BY <3>2 DEF Members
  <2> QED  BY <1>1, <1>5, <1>6, <2>1, <2>2, <2>3
<1>13. ASSUME NEW i \in 1..Len(r)
       PROVE  \E j \in 1..Len(t) : ToSet(r[i]) \subseteq ToSet(t[j])
  <2>1. CASE i \in 1..k
    <3>1. PICK j \in 1..n : ToSet(q[i]) \subseteq ToSet(p[j])
      BY <2>1 DEF Refines, k, n
    <3>2. j \in 1..Len(t) /\ t[j] = p[j]
      BY <1>1, <3>1
    <3> QED  BY <1>4, <2>1, <3>1, <3>2
  <2>2. ASSUME NEW a \in 1..l, i = k + a
        PROVE  \E j \in 1..Len(t) : ToSet(r[i]) \subseteq ToSet(t[j])
    <3>1. n + 1 \in 1..Len(t) /\ t[n + 1] = s
      BY <1>1
    <3>2. ToSet(r[i]) \subseteq ToSet(s)
      BY <1>4, <1>8, <2>2
    <3> QED  BY <3>1, <3>2
  <2> QED  BY <1>9, <2>1, <2>2
<1>14. Len(r) > 0 /\ r[1][1] = t[1][1]
  <2>1. CASE n > 0
    <3>1. k > 0 /\ 1 \in 1..k /\ 1 \in 1..n /\ k + l > 0
      BY <1>1, <1>2, <1>3, <1>6, <2>1
    <3> QED  BY <1>1, <1>4, <1>6, <2>1, <3>1
  <2>2. CASE ~(n > 0)
    <3>1. n = 0 /\ t[1] = s
      BY <1>1, <2>2
    <3>2. k = 0
      <4> SUFFICES ASSUME k # 0
                   PROVE  FALSE
        OBVIOUS
      <4>1. 1 \in 1..k
        BY <1>2
      <4>2. \E j \in 1..n : ToSet(q[1]) \subseteq ToSet(p[j])
        BY <4>1 DEF Refines, k, n
      <4> QED  BY <3>1, <4>2
    <3>3. 1 \in 1..l /\ k + 1 = 1 /\ k + l > 0
      BY <1>3, <1>5, <3>2
    <3>4. r[1] = d[1]
      BY <1>4, <3>3
    <3> QED  BY <1>4, <1>5, <3>1, <3>3, <3>4
  <2> QED  BY <2>1, <2>2
<1>15. Len(t) <= Len(r)
  BY <1>1, <1>2, <1>3, <1>4, <1>5, <1>6
<1>16. ASSUME Len(r) = Len(t)
       PROVE  r = t
  <2>1. k = n /\ l = 1
    BY <1>1, <1>2, <1>3, <1>4, <1>5, <1>6, <1>16
  <2>2. q = p /\ d[1] = s
    BY <1>5, <1>6, <2>1
  <2>3. \A i \in 1..(n + 1) : i \in 1..n \/ i = n + 1
    BY <1>1
  <2>4. 1 \in 1..l /\ r[n + 1] = d[1]
    BY <1>4, <2>1
  <2>5. \A i \in 1..(n + 1) : r[i] = t[i]
    BY <1>1, <1>4, <2>1, <2>2, <2>3, <2>4
  <2>6. r \in Seq(Seq(Nat)) /\ t \in Seq(Seq(Nat))
    BY <1>1, <1>4 DEF Partitions
  <2> QED  BY <1>1, <1>16, <2>5, <2>6, SeqEqual
<1>17. Refines(r, t)
  BY <1>11, <1>12, <1>13, <1>14, <1>15, <1>16 DEF Refines
<1> QED  BY <1>17 DEF r, t

\* A group that is not divided.
LEMMA DividesNothing ==
  ASSUME NEW s \in Seq(Nat), s # <<>>, OnceEach(s)
  PROVE  <<s>> \in Partitions /\ Divides(<<s>>, s)
<1> DEFINE q == <<s>>
<1>1. q \in Seq(Seq(Nat)) /\ Len(q) = 1 /\ q[1] = s
  BY SingletonFacts
<1> HIDE DEF q
<1>2. \A i \in 1..Len(q) : i = 1
  BY <1>1
<1>3. q \in Partitions
  BY <1>1 DEF Partitions
<1>4. Apart(q)
  BY <1>1, <1>2, <1>3 DEF Apart
<1>5. Members(q) = ToSet(s)
  <2>1. 1 \in 1..Len(q)
    BY <1>1
  <2> QED  BY <1>1, <1>2, <2>1 DEF Members
<1>6. Len(q) > 0 /\ q[1][1] = s[1]
  BY <1>1
<1> QED  BY <1>1, <1>3, <1>4, <1>5, <1>6 DEF Divides, q

\* Joining lists of groups gives groups,
LEMMA FlattenTyped ==
  ASSUME NEW d \in Seq(Partitions)
  PROVE  FlattenSeq(d) \in Partitions
<1> DEFINE S == Seq(Nat)  Good == [n \in Nat |-> Seq(S)]
<1>1. Partitions = Seq(S) /\ Good \in [Nat -> SUBSET Seq(S)] /\ <<>> \in Good[0]
  BY EmptySeq DEF Partitions
<1>2. Len(d) \in Nat /\ \A n \in 1..Len(d) : d[n] \in Seq(S)
  BY <1>1, LenProperties, ElementOfSeq
<1>3. \A n \in Nat : Good[n] = Seq(S)
  OBVIOUS
<1> HIDE DEF S, Good
<1>4. \A n \in 1..Len(d) : \A l \in Good[n - 1] : l \o d[n] \in Good[n]
  <2> SUFFICES ASSUME NEW n \in 1..Len(d), NEW l \in Good[n - 1]
               PROVE  l \o d[n] \in Good[n]
    OBVIOUS
  <2>1. n \in Nat /\ n - 1 \in Nat
    BY <1>2
  <2>2. l \in Seq(S) /\ d[n] \in Seq(S)
    BY <1>2, <1>3, <2>1
  <2>3. l \o d[n] \in Seq(S)
    BY <2>2, JoinFacts
  <2> QED  BY <1>3, <2>1, <2>3
<1>5. FlattenSeq(d) \in Good[Len(d)]
  BY <1>1, <1>2, <1>4, FlattenInduction
<1> QED  BY <1>1, <1>2, <1>3, <1>5

\* and if each list divides a group, they refine the partition.
LEMMA FlattenRefines ==
  ASSUME NEW p, Apart(p), NEW d \in Seq(Partitions), Len(d) = Len(p),
         \A i \in 1..Len(p) : Divides(d[i], p[i])
  PROVE  Refines(FlattenSeq(d), p)
<1> DEFINE S == Seq(Nat)  N == Len(p)  upTo(n) == SubSeq(p, 1, n)
           Good == [n \in Nat |-> {q \in Seq(S) : n \in 0..N => Refines(q, upTo(n))}]
<1>1. p \in Seq(S) /\ Partitions = Seq(S) /\ N \in Nat /\ \A i \in 1..N : p[i] \in S
  BY GroupFacts DEF Apart, Partitions
<1>2. /\ \A i \in 1..N : p[i] # <<>> /\ OnceEach(p[i])
      /\ \A i, j \in 1..N : i # j => ToSet(p[i]) \cap ToSet(p[j]) = {}
  BY DEF Apart
<1>3. Len(d) = N /\ \A n \in 1..N : d[n] \in Seq(S)
  BY <1>1, ElementOfSeq
<1>4. \A n \in 0..N : upTo(n) \in Seq(S) /\ Len(upTo(n)) = n /\ \A i \in 1..n : upTo(n)[i] = p[i]
  <2> HIDE DEF S
  <2> QED  BY <1>1, PrefixFacts
<1>5. \A n \in 1..N : upTo(n) = Append(upTo(n - 1), p[n])
  <2> HIDE DEF S
  <2> QED  BY <1>1, PrefixGrows
<1> HIDE DEF upTo
<1>6. \A n \in 0..N : Apart(upTo(n))
  <2> SUFFICES ASSUME NEW n \in 0..N
               PROVE  Apart(upTo(n))
    OBVIOUS
  <2>1. \A i \in 1..n : i \in 1..N
    BY <1>1
  <2> HIDE DEF N
  <2> QED  BY <1>1, <1>2, <1>4, <2>1 DEF Apart
<1>7. /\ \A n \in Nat : \A q \in Good[n] : q \in Seq(S) /\ (n \in 0..N => Refines(q, upTo(n)))
      /\ \A n \in Nat : \A q \in Seq(S) : (n \in 0..N => Refines(q, upTo(n))) => q \in Good[n]
      /\ Good \in [Nat -> SUBSET Seq(S)]
  OBVIOUS
<1> HIDE DEF Good, S
<1>8. <<>> \in Good[0]
  <2> DEFINE none == <<>>
  <2>1. upTo(0) = none /\ 0 \in 0..N
    BY <1>1, <1>4, EmptySeq
  <2>2. none \in Seq(S) /\ Len(none) = 0 /\ Apart(none)
    BY <1>6, <2>1, EmptySeq
  <2> HIDE DEF none
  <2>3. Refines(none, none)
    BY <2>2 DEF Refines
  <2>4. none \in Good[0]
    BY <1>7, <2>1, <2>2, <2>3
  <2> QED  BY <2>4 DEF none
<1>9. ASSUME NEW n \in 1..N, NEW q \in Good[n - 1]
      PROVE  q \o d[n] \in Good[n]
  <2>1. n \in Nat /\ n - 1 \in Nat /\ n - 1 \in 0..N /\ n \in 0..N
    BY <1>1
  <2>2. q \in Seq(S) /\ Refines(q, upTo(n - 1))
    BY <1>7, <2>1
  <2> DEFINE before == upTo(n - 1)  s == p[n]  more == d[n]
  <2>3. s \in Seq(Nat) /\ s # <<>> /\ Divides(more, s)
    BY <1>1, <1>2 DEF S
  <2>4. before \in Partitions /\ Apart(Append(before, s))
    BY <1>1, <1>4, <1>5, <1>6, <2>1
  <2>5. q \o more \in Seq(S)
    BY <1>3, <2>2, JoinFacts
  <2>6. upTo(n) = Append(before, s)
    BY <1>5
  <2> HIDE DEF before, s, more
  <2>7. Refines(q \o more, Append(before, s))
    BY <2>2, <2>3, <2>4, RefinesMore DEF before
  <2>8. q \o more \in Good[n]
    BY <1>7, <2>1, <2>5, <2>6, <2>7
  <2> QED  BY <2>8 DEF more
<1>10. FlattenSeq(d) \in Good[N]
  <2>1. d \in Seq(Seq(S)) /\ Len(d) = N
    BY <1>1, <1>3
  <2> HIDE DEF N
  <2>2. FlattenSeq(d) \in Good[Len(d)]
    BY <1>7, <1>8, <1>9, <2>1, FlattenInduction
  <2> QED  BY <2>1, <2>2
<1>11. upTo(N) = p
  <2> HIDE DEF S
  <2> QED  BY <1>1, SubSeqFull DEF upTo
<1> QED  BY <1>1, <1>7, <1>10, <1>11

\* Dividing what was divided.
LEMMA RefinesTransitive ==
  ASSUME NEW p, p \in Partitions, NEW q, Refines(q, p), NEW r, Refines(r, q)
  PROVE  Refines(r, p)
<1>1. Apart(r) /\ Members(r) = Members(p)
  BY DEF Refines
<1>2. \A i \in 1..Len(r) : \E j \in 1..Len(p) : ToSet(r[i]) \subseteq ToSet(p[j])
  <2> SUFFICES ASSUME NEW i \in 1..Len(r)
               PROVE  \E j \in 1..Len(p) : ToSet(r[i]) \subseteq ToSet(p[j])
    OBVIOUS
  <2>1. PICK k \in 1..Len(q) : ToSet(r[i]) \subseteq ToSet(q[k])
    BY DEF Refines
  <2>2. PICK j \in 1..Len(p) : ToSet(q[k]) \subseteq ToSet(p[j])
    BY DEF Refines
  <2> QED  BY <2>1, <2>2
<1>3. Len(p) > 0 => Len(r) > 0 /\ r[1][1] = p[1][1]
  BY DEF Refines
<1>4. Len(p) \in Nat /\ Len(q) \in Nat /\ Len(r) \in Nat
  BY GroupFacts DEF Refines, Apart
<1>5. Len(p) <= Len(q) /\ (Len(q) = Len(p) => q = p) /\ Len(q) <= Len(r) /\ (Len(r) = Len(q) => r = q)
  BY DEF Refines
<1>6. Len(p) <= Len(r) /\ (Len(r) = Len(p) => r = p)
  <2>1. Len(p) <= Len(r)
    BY <1>4, <1>5
  <2>2. Len(r) = Len(p) => Len(r) = Len(q) /\ Len(q) = Len(p)
    BY <1>4, <1>5
  <2> QED  BY <1>5, <2>1, <2>2
<1> QED  BY <1>1, <1>2, <1>3, <1>6 DEF Refines

\* Splitting the inadequate groups refines a partition.
LEMMA SplitInadequateFacts ==
  ASSUME NEW g, NEW auto, NEW p \in Partitions
  PROVE  /\ SplitInadequate(g, auto, p) \in Partitions
         /\ Apart(p) => Refines(SplitInadequate(g, auto, p), p)
<1> DEFINE part(i) == IF Len(p[i]) <= 1 \/ MergeConflicts(g, auto, p[i]) = {} THEN <<p[i]>>
                      ELSE SplitByCompatibility(g, auto, p[i])
           d == [i \in 1..Len(p) |-> part(i)]
<1>1. Len(p) \in Nat /\ \A i \in 1..Len(p) : p[i] \in Seq(Nat)
  BY GroupFacts
<1>2. ASSUME NEW i \in 1..Len(p)
      PROVE  part(i) \in Partitions /\ (p[i] # <<>> /\ OnceEach(p[i]) => Divides(part(i), p[i]))
  <2> DEFINE s == p[i]  one == <<s>>  many == SplitByCompatibility(g, auto, s)
  <2>1. s \in Seq(Nat)
    BY <1>1
  <2>2. part(i) = one \/ part(i) = many
    OBVIOUS
  <2> HIDE DEF s, part
  <2>3. one \in Partitions
    <3>1. one \in Seq(Seq(Nat))
      BY <2>1, SingletonFacts
    <3> QED  BY <3>1 DEF Partitions
  <2>4. s # <<>> /\ OnceEach(s) => Divides(one, s)
    BY <2>1, DividesNothing
  <2>5. many \in Partitions /\ (OnceEach(s) => Divides(many, s))
    BY <2>1, SplitFacts
  <2> HIDE DEF one, many
  <2> QED  BY <2>2, <2>3, <2>4, <2>5 DEF s
<1>3. SplitInadequate(g, auto, p) = FlattenSeq(d)
  BY DEF SplitInadequate
<1>4. d \in Seq(Partitions) /\ Len(d) = Len(p) /\ \A i \in 1..Len(p) : d[i] = part(i)
  <2>1. \A i \in 1..Len(p) : d[i] = part(i)
    OBVIOUS
  <2>2. d = [i \in 1..Len(p) |-> d[i]]
    OBVIOUS
  <2> HIDE DEF d, part
  <2>3. \A i \in 1..Len(p) : d[i] \in Partitions
    BY <1>2, <2>1
  <2> QED  BY <1>1, <2>1, <2>2, <2>3, IsASeq
<1> HIDE DEF d, part
<1>5. ASSUME Apart(p)
      PROVE  Refines(FlattenSeq(d), p)
  <2>1. \A i \in 1..Len(p) : Divides(d[i], p[i])
    BY <1>2, <1>4, <1>5 DEF Apart
  <2> QED  BY <1>4, <1>5, <2>1, FlattenRefines
<1> QED  BY <1>3, <1>4, <1>5, FlattenTyped

\* So does separating members whose transitions disagree.
LEMMA RefineByTransitionsFacts ==
  ASSUME NEW auto, NEW p \in Partitions
  PROVE  /\ RefineByTransitions(auto, p) \in Partitions
         /\ Apart(p) => Refines(RefineByTransitions(auto, p), p)
<1> DEFINE grp == [m \in Numbers(auto) |-> GroupOf(p, m)]
           signature == [m \in Numbers(auto) |-> {<<e[2], grp[e[3]]>> : e \in {d \in auto.edges : d[1] = m}}]
           d == [i \in 1..Len(p) |-> GroupBy(signature, p[i])]
<1>1. RefineByTransitions(auto, p) = FlattenSeq(d)
  BY DEF RefineByTransitions
<1> HIDE DEF grp, signature
<1>2. Len(p) \in Nat /\ \A i \in 1..Len(p) : p[i] \in Seq(Nat)
  BY GroupFacts
<1>3. ASSUME NEW i \in 1..Len(p)
      PROVE  /\ GroupBy(signature, p[i]) \in Partitions
             /\ OnceEach(p[i]) => Divides(GroupBy(signature, p[i]), p[i])
  BY <1>2, GroupByFacts
<1>4. d \in Seq(Partitions) /\ Len(d) = Len(p) /\ \A i \in 1..Len(p) : d[i] = GroupBy(signature, p[i])
  <2>1. \A i \in 1..Len(p) : d[i] = GroupBy(signature, p[i])
    OBVIOUS
  <2>2. d = [i \in 1..Len(p) |-> d[i]]
    OBVIOUS
  <2> HIDE DEF d
  <2>3. \A i \in 1..Len(p) : d[i] \in Partitions
    BY <1>3, <2>1
  <2> QED  BY <1>2, <2>1, <2>2, <2>3, IsASeq
<1> HIDE DEF d
<1>5. ASSUME Apart(p)
      PROVE  Refines(FlattenSeq(d), p)
  <2>1. \A i \in 1..Len(p) : Divides(d[i], p[i])
    BY <1>3, <1>4, <1>5 DEF Apart
  <2> QED  BY <1>4, <1>5, <2>1, FlattenRefines
<1> QED  BY <1>1, <1>4, <1>5, FlattenTyped

\* There are no more groups than members.
LEMMA GroupsBounded ==
  ASSUME NEW p, Apart(p), NEW S, IsFiniteSet(S), Members(p) \subseteq S
  PROVE  Cardinality(S) - Len(p) \in Nat
<1> DEFINE n == Len(p)  head == [i \in 1..n |-> p[i][1]]
<1>1. p \in Partitions /\ n \in Nat /\ \A i \in 1..n : p[i] \in Seq(Nat) /\ p[i] # <<>>
  BY GroupFacts DEF Apart
<1>2. \A i, j \in 1..n : i # j => ToSet(p[i]) \cap ToSet(p[j]) = {}
  BY DEF Apart
<1>3. \A i \in 1..n : p[i][1] \in ToSet(p[i]) /\ p[i][1] \in S
  <2> SUFFICES ASSUME NEW i \in 1..n
               PROVE  p[i][1] \in ToSet(p[i]) /\ p[i][1] \in S
    OBVIOUS
  <2> DEFINE u == p[i]
  <2>1. u \in Seq(Nat) /\ u # <<>>
    BY <1>1
  <2> HIDE DEF u
  <2>2. Len(u) \in Nat /\ (u # <<>> <=> Len(u) >= 1) /\ \A a \in 1..Len(u) : u[a] \in ToSet(u)
    BY <2>1, ToSetFacts
  <2>3. 1 \in 1..Len(u)
    BY <2>1, <2>2
  <2>4. u[1] \in ToSet(u)
    BY <2>2, <2>3
  <2> QED  BY <2>4 DEF u, Members
<1>4. head \in Injection(1..n, S)
  <2>1. head \in [1..n -> S]
    BY <1>3
  <2>2. ASSUME NEW i \in 1..n, NEW j \in 1..n, head[i] = head[j], i # j
        PROVE  FALSE
    <3>1. head[i] = p[i][1] /\ head[j] = p[j][1]
      OBVIOUS
    <3> HIDE DEF head, n
    <3>2. p[i][1] \in ToSet(p[i]) \cap ToSet(p[j])
      BY <1>3, <2>2, <3>1
    <3> QED  BY <1>2, <2>2, <3>2
  <2> HIDE DEF head, n
  <2>3. \A i, j \in 1..n : head[i] = head[j] => i = j
    BY <2>2
  <2> QED  BY <2>1, <2>3 DEF Injection, IsInjective
<1> HIDE DEF n, head
<1>5. Cardinality(1..n) <= Cardinality(S) /\ Cardinality(S) \in Nat
  BY <1>4, FS_Injection, FS_CardinalityType
<1>6. Cardinality(1..n) = n
  <2>1. 1 \in Int /\ n \in Int /\ n \in Nat
    BY <1>1
  <2>2. Cardinality(1..n) = IF 1 > n THEN 0 ELSE n - 1 + 1
    BY <2>1, FS_Interval
  <2> QED  BY ONLY <2>1, <2>2
<1> QED  BY <1>1, <1>5, <1>6 DEF n

\* IELR's partition refines the one it starts from, and another round refines
\* it no further.
LEMMA IELRFacts ==
  ASSUME NEW g, NEW auto, NEW p, Apart(p), IsFiniteSet(Members(p))
  PROVE  LET q == IELRPartition(g, auto, p)
         IN  Refines(q, p) /\ RefineByTransitions(auto, SplitInadequate(g, auto, q)) = q
<1> DEFINE A == Partitions  S == Members(p)
           next(q) == RefineByTransitions(auto, SplitInadequate(g, auto, q))
           step == [q \in A |-> next(q)]
           I == {q \in A : Refines(q, p)}
           m == [q \in I |-> Cardinality(S) - Len(q)]
<1>1. p \in A
  BY DEF Apart
<1>2. step \in [A -> A] /\ I \in SUBSET A
  BY SplitInadequateFacts, RefineByTransitionsFacts
<1>3. p \in I
  <2>1. \A i \in 1..Len(p) : \E j \in 1..Len(p) : ToSet(p[i]) \subseteq ToSet(p[j])
    OBVIOUS
  <2>2. Len(p) \in Nat
    BY <1>1, GroupFacts
  <2>3. Refines(p, p)
    BY <2>1, <2>2 DEF Refines
  <2> QED  BY <1>1, <2>3
<1>4. ASSUME NEW q \in I
      PROVE  Len(q) \in Nat /\ Cardinality(S) - Len(q) \in Nat
  <2>1. Apart(q) /\ Members(q) = S /\ q \in A
    BY DEF Refines
  <2> HIDE DEF I, S
  <2> QED  BY <2>1, GroupFacts, GroupsBounded DEF S
<1>5. m \in [I -> Nat]
  <2> HIDE DEF S, I
  <2> QED  BY <1>4
<1>6. ASSUME NEW q \in I
      PROVE  step[q] \in I /\ (step[q] # q => m[step[q]] < m[q])
  <2> DEFINE mid == SplitInadequate(g, auto, q)  r == RefineByTransitions(auto, mid)
  <2>1. q \in A /\ Refines(q, p) /\ Apart(q)
    BY DEF Refines
  <2>2. mid \in A /\ Refines(mid, q)
    BY <2>1, SplitInadequateFacts
  <2>3. Apart(mid)
    BY <2>2 DEF Refines
  <2> HIDE DEF mid
  <2>4. r \in A /\ Refines(r, mid)
    BY <2>2, <2>3, RefineByTransitionsFacts
  <2>5. step[q] = r
    BY <2>1 DEF mid
  <2> HIDE DEF r, step
  <2>6. Refines(r, q)
    BY <2>1, <2>2, <2>4, RefinesTransitive
  <2>7. Refines(r, p)
    BY <1>1, <2>1, <2>6, RefinesTransitive
  <2>8. r \in I
    BY <2>4, <2>7
  <2>9. m[r] = Cardinality(S) - Len(r) /\ m[q] = Cardinality(S) - Len(q)
    BY <2>8
  <2>10. Len(q) <= Len(r) /\ (Len(r) = Len(q) => r = q)
    BY <2>6 DEF Refines
  <2> HIDE DEF m, I
  <2>11. Len(q) \in Nat /\ Len(r) \in Nat /\ Cardinality(S) - Len(q) \in Nat /\ Cardinality(S) - Len(r) \in Nat
    BY <1>4, <2>8
  <2>12. Cardinality(S) \in Nat
    BY FS_CardinalityType
  <2> HIDE DEF S
  <2>13. r # q => Cardinality(S) - Len(r) < Cardinality(S) - Len(q)
    BY <2>10, <2>11, <2>12
  <2> QED  BY <2>5, <2>8, <2>9, <2>13
<1>7. IELRPartition(g, auto, p) = Fixpoint(step, p)
  BY DEF IELRPartition
<1> DEFINE last == Fixpoint(step, p)
<1>8. last \in I /\ step[last] = last
  <2> HIDE DEF A, I, m, step
  <2> QED  BY <1>2, <1>3, <1>5, <1>6, FixpointFacts
<1> HIDE DEF last
<1>9. next(last) = last
  BY <1>8
<1> QED  BY <1>7, <1>8, <1>9 DEF last

-----------------------------------------------------------------------------
(* Merged states. *)

\* Every state of the automaton in one group, with the states of its core, and
\* the first state in the first group.
PartitionOK(auto, p) ==
  /\ Apart(p) /\ Members(p) = Numbers(auto) /\ Len(p) >= 1 /\ p[1][1] = 0
  /\ \A i \in 1..Len(p) : \A m, n \in ToSet(p[i]) : Core(auto.states[m + 1]) = Core(auto.states[n + 1])

\* The rules and dots of the items.
LEMMA CoreFacts ==
  ASSUME NEW items
  PROVE  /\ \A it \in items : <<it[1], it[2]>> \in Core(items)
         /\ \A r, d : <<r, d>> \in Core(items) <=> \E it \in items : it[1] = r /\ it[2] = d
BY DEF Core

\* The group of a state is the one that lists it.
LEMMA GroupOfFacts ==
  ASSUME NEW p, Apart(p)
  PROVE  /\ \A m \in Members(p) : /\ GroupOf(p, m) + 1 \in 1..Len(p)
                                  /\ m \in ToSet(p[GroupOf(p, m) + 1])
         /\ \A i \in 1..Len(p) : \A m \in ToSet(p[i]) : GroupOf(p, m) = i - 1 /\ m \in Members(p)
<1>1. Len(p) \in Nat
  BY GroupFacts DEF Apart
<1>2. ASSUME NEW m \in Members(p)
      PROVE  GroupOf(p, m) + 1 \in 1..Len(p) /\ m \in ToSet(p[GroupOf(p, m) + 1])
  <2> DEFINE I == {i \in 1..Len(p) : m \in ToSet(p[i])}
             at == IF I # {} THEN Min(I) ELSE 0
  <2>1. I # {}
    BY DEF Members
  <2>2. GroupOf(p, m) = at - 1
    BY DEF GroupOf, SelectInSeq
  <2>3. at \in I /\ at \in 1..Len(p)
    <3>1. I \in SUBSET (1..Len(p))
      OBVIOUS
    <3> HIDE DEF I
    <3> QED  BY <1>1, <2>1, <3>1, SelectFacts
  <2> HIDE DEF at
  <2>4. GroupOf(p, m) + 1 = at
    BY <1>1, <2>2, <2>3
  <2> QED  BY <2>3, <2>4
<1>3. ASSUME NEW i \in 1..Len(p), NEW m \in ToSet(p[i])
      PROVE  GroupOf(p, m) = i - 1 /\ m \in Members(p)
  <2> DEFINE k == GroupOf(p, m) + 1
  <2>1. m \in Members(p)
    BY DEF Members
  <2>2. k \in 1..Len(p) /\ m \in ToSet(p[k])
    BY <1>2, <2>1
  <2> HIDE DEF k
  <2>3. k = i
    BY <1>3, <2>2 DEF Apart
  <2>4. GroupOf(p, m) \in Int
    <3> DEFINE I == {j \in 1..Len(p) : m \in ToSet(p[j])}
               at == IF I # {} THEN Min(I) ELSE 0
    <3>1. GroupOf(p, m) = at - 1
      BY DEF GroupOf, SelectInSeq
    <3>2. at \in 0..Len(p)
      <4>1. I \in SUBSET (1..Len(p))
        OBVIOUS
      <4> HIDE DEF I
      <4> QED  BY <1>1, <4>1, SelectFacts
    <3> HIDE DEF at
    <3> QED  BY <1>1, <3>1, <3>2
  <2> QED  BY <1>1, <2>1, <2>3, <2>4 DEF k
<1> QED  BY <1>2, <1>3

\* A partition by core is one, and has one group for each core.
LEMMA CorePartitionsFacts ==
  ASSUME NEW g, NEW auto, StatesOK(g, auto)
  PROVE  LET p == InitialCorePartitions(auto)
         IN  /\ PartitionOK(auto, p)
             /\ \A i, j \in 1..Len(p) : \A m \in ToSet(p[i]), n \in ToSet(p[j]) :
                  Core(auto.states[m + 1]) = Core(auto.states[n + 1]) => i = j
<1> DEFINE L == Len(auto.states)  members == [i \in 1..L |-> i - 1]
           core == [m \in Numbers(auto) |-> Core(auto.states[m + 1])]
           p == GroupBy(core, members)
<1>1. InitialCorePartitions(auto) = p
  BY DEF InitialCorePartitions
<1>2. L \in Nat /\ L >= 1
  BY StateFacts DEF StatesOK
<1> HIDE DEF L
<1>3. members \in Seq(Nat) /\ Len(members) = L /\ \A i \in 1..L : members[i] = i - 1
  <2>1. members \in [1..L -> Nat]
    BY <1>2
  <2>2. DOMAIN members = 1..L /\ \A i \in 1..L : members[i] = i - 1
    OBVIOUS
  <2> HIDE DEF members
  <2>3. members \in Seq(Nat)
    BY <1>2, <2>1, IsASeq
  <2>4. Len(members) \in Nat /\ DOMAIN members = 1..Len(members)
    BY <2>3, LenProperties
  <2> QED  BY <1>2, <2>2, <2>3, <2>4
<1> HIDE DEF members
<1>4. OnceEach(members) /\ members # <<>> /\ members[1] = 0
  <2>1. \A a, b \in 1..L : members[a] = members[b] => a = b
    BY <1>2, <1>3
  <2> QED  BY <1>2, <1>3, <2>1 DEF OnceEach
<1>5. ToSet(members) = Numbers(auto)
  <2>1. Numbers(auto) = 0..(L - 1)
    BY DEF Numbers, L
  <2>2. \A e \in ToSet(members) : \E i \in 1..L : members[i] = e
    BY <1>3, ToSetFacts
  <2>3. \A i \in 1..L : members[i] \in ToSet(members)
    BY <1>3, ToSetFacts
  <2>4. \A n \in 0..(L - 1) : n + 1 \in 1..L /\ members[n + 1] = n
    BY <1>2, <1>3
  <2>5. \A e \in ToSet(members) : e \in 0..(L - 1)
    BY <1>2, <1>3, <2>2
  <2>6. \A n \in 0..(L - 1) : n \in ToSet(members)
    BY <2>3, <2>4
  <2> QED  BY <2>1, <2>5, <2>6
<1>6. Alike(core, p) /\ Divides(p, members) /\ Differ(core, p)
  <2> HIDE DEF core
  <2> QED  BY <1>3, <1>4, GroupByFacts
<1> HIDE DEF p
<1>7. Apart(p) /\ Members(p) = Numbers(auto) /\ Len(p) > 0 /\ p[1][1] = 0 /\ Len(p) \in Nat
  BY <1>4, <1>5, <1>6, GroupFacts DEF Divides, Apart
<1>8. \A i \in 1..Len(p) : \A m \in ToSet(p[i]) : core[m] = Core(auto.states[m + 1])
  BY <1>7, GroupOfFacts
<1> HIDE DEF core
<1>9. ASSUME NEW i \in 1..Len(p), NEW m \in ToSet(p[i]), NEW n \in ToSet(p[i])
      PROVE  Core(auto.states[m + 1]) = Core(auto.states[n + 1])
  <2>1. core[m] = core[p[i][1]] /\ core[n] = core[p[i][1]]
    BY <1>6 DEF Alike
  <2> QED  BY <1>8, <2>1
<1>10. ASSUME NEW i \in 1..Len(p), NEW j \in 1..Len(p), NEW m \in ToSet(p[i]), NEW n \in ToSet(p[j]),
              Core(auto.states[m + 1]) = Core(auto.states[n + 1])
       PROVE  i = j
  <2>1. core[m] = core[n]
    BY <1>8, <1>10
  <2>2. core[m] = core[p[i][1]] /\ core[n] = core[p[j][1]]
    BY <1>6 DEF Alike
  <2> QED  BY <1>6, <2>1, <2>2 DEF Differ
<1>11. PartitionOK(auto, p)
  BY <1>7, <1>9 DEF PartitionOK
<1> QED  BY <1>1, <1>10, <1>11

\* One that divides its groups is one as well.
LEMMA RefinedPartition ==
  ASSUME NEW auto, NEW p, PartitionOK(auto, p), NEW q, Refines(q, p)
  PROVE  PartitionOK(auto, q)
<1>1. Apart(q) /\ Members(q) = Numbers(auto) /\ Len(q) > 0 /\ q[1][1] = 0 /\ Len(q) \in Nat
  <2>1. Apart(p) /\ Len(p) >= 1 /\ p[1][1] = 0 /\ Members(p) = Numbers(auto)
    BY DEF PartitionOK
  <2>2. Len(p) \in Nat
    BY <2>1, GroupFacts DEF Apart
  <2>3. /\ Apart(q) /\ Members(q) = Members(p)
        /\ Len(p) > 0 => Len(q) > 0 /\ q[1][1] = p[1][1]
    BY DEF Refines
  <2>4. Len(q) \in Nat
    BY <2>3, GroupFacts DEF Apart
  <2> QED  BY <2>1, <2>2, <2>3, <2>4
<1>2. ASSUME NEW i \in 1..Len(q), NEW m \in ToSet(q[i]), NEW n \in ToSet(q[i])
      PROVE  Core(auto.states[m + 1]) = Core(auto.states[n + 1])
  <2>1. PICK j \in 1..Len(p) : ToSet(q[i]) \subseteq ToSet(p[j])
    BY DEF Refines
  <2>2. m \in ToSet(p[j]) /\ n \in ToSet(p[j])
    BY <2>1
  <2> QED  BY <2>2 DEF PartitionOK
<1> QED  BY <1>1, <1>2 DEF PartitionOK

\* The partitions that LALR and IELR merge by.
LEMMA MergePartitionFacts ==
  ASSUME NEW g, NEW auto, StatesOK(g, auto), NEW algorithm
  PROVE  PartitionOK(auto, MergePartition(g, auto, InitialCorePartitions(auto), algorithm))
<1> DEFINE p == InitialCorePartitions(auto)  q == IELRPartition(g, auto, p)
<1>1. PartitionOK(auto, p)
  BY CorePartitionsFacts
<1> HIDE DEF p
<1>2. IsFiniteSet(Members(p)) /\ Apart(p)
  <2>1. Len(auto.states) \in Nat
    BY StateFacts
  <2>2. 0 \in Int /\ Len(auto.states) - 1 \in Int
    BY <2>1
  <2>3. IsFiniteSet(Numbers(auto))
    BY <2>2, FS_Interval DEF Numbers
  <2> QED  BY <1>1, <2>3 DEF PartitionOK
<1>3. Refines(q, p)
  BY <1>2, IELRFacts
<1> HIDE DEF q
<1>4. PartitionOK(auto, q)
  BY <1>1, <1>3, RefinedPartition
<1> QED  BY <1>1, <1>4 DEF MergePartition, p, q

\* The states and the edges of the merged automaton: an edge for each of the
\* automaton's that is kept, and one is kept wherever a member of a group has one.
LEMMA MergedFacts ==
  ASSUME NEW g, NEW auto, AutomatonOK(g, auto), NEW p, PartitionOK(auto, p)
  PROVE  LET M == Merged(auto, p)
         IN  /\ Len(M.states) = Len(p) /\ Numbers(M) = 0..(Len(p) - 1) /\ DOMAIN M.states = 1..Len(p)
             /\ \A i \in 1..Len(p) : M.states[i] = MembersUnion(auto, p[i])
             /\ \A e \in M.edges : \E d \in auto.edges : e = <<GroupOf(p, d[1]), d[2], GroupOf(p, d[3])>>
             /\ \A d \in auto.edges : Leaves(M, GroupOf(p, d[1]), d[2])
<1> DEFINE into(m) == GroupOf(p, m)  M == Merged(auto, p)
           grp == [m \in Numbers(auto) |-> into(m)]
           wins(e) == \A d \in auto.edges : grp[d[1]] = grp[e[1]] /\ d[2] = e[2] => e[1] <= d[1]
<1>1. Len(p) \in Nat /\ Numbers(auto) \subseteq Nat
  BY GroupFacts, StateFacts DEF PartitionOK, Apart, AutomatonOK
<1>2. M = [states |-> [i \in 1..Len(p) |-> MembersUnion(auto, p[i])],
           edges |-> {<<grp[e[1]], e[2], grp[e[3]]>> : e \in {d \in auto.edges : wins(d)}}]
  BY DEF Merged
<1>3. M.states = [i \in 1..Len(p) |-> MembersUnion(auto, p[i])]
  BY <1>2
<1>4. M.edges = {<<grp[e[1]], e[2], grp[e[3]]>> : e \in {d \in auto.edges : wins(d)}}
  BY <1>2
<1> HIDE DEF M
<1>5. /\ DOMAIN M.states = 1..Len(p) /\ Len(M.states) = Len(p)
      /\ \A i \in 1..Len(p) : M.states[i] = MembersUnion(auto, p[i])
  BY <1>1, <1>3
<1>6. Numbers(M) = 0..(Len(p) - 1)
  BY <1>5 DEF Numbers
<1>7. \A d \in auto.edges : d[1] \in Numbers(auto) /\ d[3] \in Numbers(auto)
  BY DEF AutomatonOK, EdgesOK
<1>8. \A d \in auto.edges : grp[d[1]] = into(d[1]) /\ grp[d[3]] = into(d[3])
  BY <1>7
<1> HIDE DEF grp
<1>9. \A e \in M.edges : \E d \in auto.edges : e = <<into(d[1]), d[2], into(d[3])>>
  BY <1>4, <1>8
<1>10. ASSUME NEW d \in auto.edges
       PROVE  Leaves(M, into(d[1]), d[2])
  <2> DEFINE same == {f \in auto.edges : into(f[1]) = into(d[1]) /\ f[2] = d[2]}
             from == {f[1] : f \in same}
  <2>1. from \in SUBSET Nat /\ from # {}
    <3>1. d \in same
      OBVIOUS
    <3>2. \A f \in same : f[1] \in Nat
      BY <1>1, <1>7
    <3> QED  BY <3>1, <3>2
  <2>2. PICK s \in from : \A u \in from : s <= u
    <3> HIDE DEF from
    <3> QED  BY <2>1, LeastElement
  <2>3. PICK f \in same : f[1] = s
    OBVIOUS
  <2>4. \A k \in auto.edges : grp[k[1]] = grp[f[1]] /\ k[2] = f[2] => f[1] <= k[1]
    <3> SUFFICES ASSUME NEW k \in auto.edges, grp[k[1]] = grp[f[1]], k[2] = f[2]
                 PROVE  f[1] <= k[1]
      OBVIOUS
    <3>1. into(k[1]) = into(f[1])
      BY <1>8
    <3>2. k \in same
      BY <3>1
    <3> QED  BY <2>2, <2>3, <3>2
  <2>5. f \in auto.edges /\ wins(f)
    BY <2>4
  <2> DEFINE e == <<grp[f[1]], f[2], grp[f[3]]>>
  <2>6. e \in M.edges
    BY <1>4, <2>5
  <2>7. e[1] = into(d[1]) /\ e[2] = d[2]
    BY <1>8
  <2> HIDE DEF e, into
  <2>8. e[3] \in TargetsOf(M, into(d[1]), d[2])
    BY <2>6, <2>7 DEF TargetsOf
  <2> QED  BY <2>8 DEF Leaves
<1> QED  BY <1>5, <1>6, <1>9, <1>10 DEF M, into

\* Merging the states of an automaton gives one.
LEMMA MergedOK ==
  ASSUME NEW g, NEW auto, AutomatonOK(g, auto), NEW p, PartitionOK(auto, p)
  PROVE  AutomatonOK(g, Merged(auto, p))
<1> DEFINE M == Merged(auto, p)  at(m) == auto.states[m + 1]  into(m) == GroupOf(p, m)
<1>1. /\ Apart(p) /\ Members(p) = Numbers(auto) /\ Len(p) >= 1 /\ p[1][1] = 0
      /\ \A i \in 1..Len(p) : \A m, n \in ToSet(p[i]) : Core(at(m)) = Core(at(n))
  BY DEF PartitionOK
<1>2. Len(p) \in Nat /\ \A i \in 1..Len(p) : p[i] \in Seq(Nat) /\ p[i] # <<>>
  BY <1>1, GroupFacts DEF Apart
<1>3. StatesOK(g, auto) /\ EdgesOK(g, auto)
  BY DEF AutomatonOK
<1>4. /\ Numbers(auto) \subseteq Nat /\ 0 \in Numbers(auto)
      /\ \A m \in Numbers(auto) : at(m) \subseteq GoodItems(g)
      /\ \A it \in at(0) : it[2] = 0
      /\ \A m \in Numbers(auto) \ {0} : Inner(at(m))
  BY <1>3, StateFacts
<1>5. /\ Len(M.states) = Len(p) /\ Numbers(M) = 0..(Len(p) - 1) /\ DOMAIN M.states = 1..Len(p)
      /\ \A i \in 1..Len(p) : M.states[i] = MembersUnion(auto, p[i])
      /\ \A e \in M.edges : \E d \in auto.edges : e = <<into(d[1]), d[2], into(d[3])>>
      /\ \A d \in auto.edges : Leaves(M, into(d[1]), d[2])
  BY MergedFacts
<1>6. /\ \A m \in Numbers(auto) : into(m) + 1 \in 1..Len(p) /\ m \in ToSet(p[into(m) + 1])
      /\ \A i \in 1..Len(p) : \A m \in ToSet(p[i]) : into(m) = i - 1 /\ m \in Numbers(auto)
  BY <1>1, GroupOfFacts
<1>7. \A m \in Numbers(auto) : into(m) \in 0..(Len(p) - 1)
  <2>1. \A i \in 1..Len(p) : i - 1 \in 0..(Len(p) - 1)
    BY <1>2
  <2> QED  BY <1>6, <2>1
<1> HIDE DEF M, into
<1>8. \A i \in 1..Len(p) : p[i][1] \in ToSet(p[i])
  <2>1. ASSUME NEW s \in Seq(Nat), s # <<>>
        PROVE  s[1] \in ToSet(s)
    <3>1. Len(s) \in Nat /\ Len(s) >= 1 /\ \A i \in 1..Len(s) : s[i] \in ToSet(s)
      BY <2>1, ToSetFacts
    <3> QED  BY <3>1
  <2> QED  BY <1>2, <2>1
<1>9. \A i \in 1..Len(p) : M.states[i] = UNION {at(m) : m \in ToSet(p[i])}
  BY <1>5 DEF MembersUnion
<1> HIDE DEF at
<1>10. 1 \in 1..Len(p) /\ 0 \in ToSet(p[1])
  BY <1>1, <1>2, <1>8
\* Items of a group stand in each of its members, but for their lookaheads.
<1>11. ASSUME NEW i \in 1..Len(p), NEW it \in M.states[i], NEW n \in ToSet(p[i])
       PROVE  \E like \in at(n) : like[1] = it[1] /\ like[2] = it[2]
  <2>1. PICK m \in ToSet(p[i]) : it \in at(m)
    BY <1>9
  <2>2. <<it[1], it[2]>> \in Core(at(m))
    BY <2>1, CoreFacts
  <2>3. <<it[1], it[2]>> \in Core(at(n))
    BY <1>1, <2>2 DEF at
  <2> QED  BY <2>3, CoreFacts
<1>12. \A it \in M.states[1] : it[2] = 0
  BY <1>4, <1>10, <1>11
<1>13. \A i \in 1..Len(p) : \A m \in ToSet(p[i]) : at(m) \subseteq M.states[i]
  BY <1>9
<1>14. ASSUME NEW m \in Numbers(auto) \ {0}
       PROVE  m \notin ToSet(p[1])
  <2> SUFFICES ASSUME m \in ToSet(p[1])
               PROVE  FALSE
    OBVIOUS
  <2>1. \A it \in at(m) : it[2] = 0
    BY <1>10, <1>12, <1>13
  <2>2. PICK it \in at(m) : it[2] > 0
    BY <1>4 DEF Inner
  <2> QED  BY <2>1, <2>2
<1>15. StatesOK(g, M)
  <2>1. \A i \in 1..Len(p) : M.states[i] \in SUBSET GoodItems(g)
    BY <1>4, <1>6, <1>9
  <2>2. M.states \in Seq(SUBSET GoodItems(g))
    <3>1. M.states = [i \in 1..Len(p) |-> M.states[i]]
      <4>1. M.states = [i \in 1..Len(p) |-> MembersUnion(auto, p[i])]
        BY DEF Merged, M
      <4> QED  BY <4>1
    <3>2. M.states \in [1..Len(p) -> SUBSET GoodItems(g)]
      BY <2>1, <3>1
    <3> DEFINE seq == M.states
    <3>3. seq \in [1..Len(p) -> SUBSET GoodItems(g)]
      BY <3>2
    <3> HIDE DEF seq
    <3>4. seq \in Seq(SUBSET GoodItems(g))
      BY <1>2, <3>3, IsASeq
    <3> QED  BY <3>4 DEF seq
  <2>3. ASSUME NEW i \in 2..Len(p)
        PROVE  Inner(M.states[i])
    <3>1. i \in 1..Len(p) /\ i # 1
      BY <1>2
    <3>2. \A m \in ToSet(p[i]) : m \in Numbers(auto) \ {0}
      <4>1. ToSet(p[i]) \cap ToSet(p[1]) = {}
        BY <1>1, <1>10, <3>1 DEF Apart
      <4> QED  BY <1>6, <1>10, <3>1, <4>1
    <3>3. \A m \in ToSet(p[i]) : Inner(at(m))
      BY <1>4, <3>2
    <3>4. \E it \in M.states[i] : it[2] > 0
      <4>1. PICK it \in at(p[i][1]) : it[2] > 0
        BY <1>8, <3>1, <3>3 DEF Inner
      <4> QED  BY <1>8, <1>13, <3>1, <4>1
    <3>5. \A it \in M.states[i] : it[2] = 0 => it[1] # 0
      BY <1>9, <3>1, <3>3 DEF Inner
    <3> QED  BY <3>4, <3>5 DEF Inner
  <2> QED  BY <1>1, <1>5, <1>12, <2>2, <2>3 DEF StatesOK
<1>16. EdgesOK(g, M)
  <2> SUFFICES ASSUME NEW e \in M.edges
               PROVE  /\ e[1] \in Numbers(M) /\ e[2] \in STRING /\ e[3] \in Numbers(M) \ {0}
                      /\ Moves(g, M.states[e[1] + 1], e[2], M.states[e[3] + 1])
    BY DEF EdgesOK
  <2>1. PICK d \in auto.edges : e = <<into(d[1]), d[2], into(d[3])>>
    BY <1>5
  <2>2. /\ d[1] \in Numbers(auto) /\ d[2] \in STRING /\ d[3] \in Numbers(auto) \ {0}
        /\ Moves(g, at(d[1]), d[2], at(d[3]))
    BY <1>3 DEF EdgesOK, at
  <2>3. e[1] = into(d[1]) /\ e[2] = d[2] /\ e[3] = into(d[3])
    BY <2>1
  <2> DEFINE i == into(d[1]) + 1  j == into(d[3]) + 1
  <2>4. i \in 1..Len(p) /\ j \in 1..Len(p) /\ d[1] \in ToSet(p[i]) /\ d[3] \in ToSet(p[j])
    BY <1>6, <2>2
  <2>5. e[1] \in Numbers(M) /\ e[3] \in Numbers(M)
    BY <1>5, <1>7, <2>2, <2>3
  <2>6. e[3] # 0
    <3>1. j # 1
      BY <1>14, <2>2, <2>4
    <3> QED  BY <2>3, <3>1
  <2> HIDE DEF i, j
  <2>7. Moves(g, M.states[i], d[2], M.states[j])
    <3> SUFFICES ASSUME NEW it \in M.states[j], it[2] > 0
                 PROVE  Rhs(g, it[1])[it[2]] = d[2] /\ <<it[1], it[2] - 1>> \in Core(M.states[i])
      BY DEF Moves
    <3>1. PICK like \in at(d[3]) : like[1] = it[1] /\ like[2] = it[2]
      BY <1>11, <2>4
    <3>2. Rhs(g, it[1])[it[2]] = d[2] /\ <<it[1], it[2] - 1>> \in Core(at(d[1]))
      BY <2>2, <3>1 DEF Moves
    <3>3. PICK from \in at(d[1]) : from[1] = it[1] /\ from[2] = it[2] - 1
      BY <3>2, CoreFacts
    <3>4. from \in M.states[i]
      BY <1>13, <2>4, <3>3
    <3> QED  BY <3>2, <3>3, <3>4, CoreFacts
  <2> QED  BY <2>2, <2>3, <2>5, <2>6, <2>7 DEF i, j
<1>17. ASSUME NEW s \in Numbers(M), NEW it \in M.states[s + 1], it[2] = 0, it[1] # 0
       PROVE  Leaves(M, s, g.rules[it[1]].lhs)
  <2> DEFINE i == s + 1  x == g.rules[it[1]].lhs
  <2>1. i \in 1..Len(p) /\ s = i - 1
    BY <1>2, <1>5
  <2> HIDE DEF i, x
  <2>2. PICK m \in ToSet(p[i]) : it \in at(m)
    BY <1>9, <1>17, <2>1 DEF i
  <2>3. m \in Numbers(auto) /\ into(m) = s
    BY <1>6, <2>1, <2>2
  <2>4. TargetsOf(auto, m, x) # {}
    BY <1>17, <2>2, <2>3 DEF AutomatonOK, Leaves, at, x
  <2>5. PICK d \in auto.edges : d[1] = m /\ d[2] = x
    BY <2>4 DEF TargetsOf
  <2>6. Leaves(M, s, x)
    BY <1>5, <2>3, <2>5
  <2> QED  BY <2>6 DEF x
<1> QED  BY <1>15, <1>16, <1>17 DEF AutomatonOK, M

-----------------------------------------------------------------------------
(* The four algorithms. *)

\* Transitions lead to good items.
LEMMA ItemsAreKept ==
  ASSUME NEW g, GrammarOK(g), NEW first \in Firsts(g), NEW nullable, NEW la \in LookaheadsOf(g)
  PROVE  /\ Closure(g, first, nullable, {<<0, 0, la>>}) \in SUBSET GoodItems(g)
         /\ KeptByGoto(g, first, nullable, SUBSET GoodItems(g))
<1> DEFINE kernel == {<<0, 0, la>>}
<1>1. kernel \in SUBSET GoodItems(g)
  <2>1. 0 \in RulesOf(g)
    BY DEF GrammarOK
  <2> QED  BY <2>1, StartItems
<1> HIDE DEF kernel
<1>2. Closure(g, first, nullable, kernel) \in SUBSET GoodItems(g)
  BY <1>1, ClosureFacts
<1>3. KeptByGoto(g, first, nullable, SUBSET GoodItems(g))
  BY GotoFacts DEF KeptByGoto
<1> QED  BY <1>2, <1>3 DEF kernel

\* The automata of a grammar, whatever its items look ahead to.
LEMMA AutomataOK ==
  ASSUME NEW g, GrammarOK(g), NEW nullable, NEW la \in LookaheadsOf(g)
  PROVE  AutomatonOK(g, Automaton(g, nullable, la))
<1> DEFINE first == FirstSets(g, nullable)
<1>1. first \in Firsts(g)
  BY FirstFacts
<1> HIDE DEF first
<1>2. AutomatonOK(g, AutomatonFrom(g, first, nullable, la))
  BY <1>1, ItemsAreKept, AutomatonFromFacts
<1> QED  BY <1>2 DEF Automaton, first

\* Each algorithm builds sound tables.
LEMMA BuildSound ==
  ASSUME NEW g, GrammarOK(g), NEW algorithm
  PROVE  SoundTables(BuildTable(g, algorithm))
<1> DEFINE nullable == Nullable(g)  follow == FollowSets(g, nullable)
           simple == CanonicalLR0(g, nullable)  auto == CanonicalLR1(g, nullable)
           p == MergePartition(g, auto, InitialCorePartitions(auto), algorithm)
<1>1. NoLookahead \in LookaheadsOf(g) /\ EOF \in LookaheadsOf(g)
  BY DEF LookaheadsOf, GrammarOK
<1>2. AutomatonOK(g, simple) /\ AutomatonOK(g, auto)
  <2> HIDE DEF nullable
  <2> QED  BY <1>1, AutomataOK DEF CanonicalLR0, CanonicalLR1
<1>3. BuildTable(g, algorithm) =
        IF algorithm = "slr" THEN TableFor(g, follow, simple)
        ELSE TableFor(g, NoFollow, IF algorithm = "canonical" THEN auto ELSE Merged(auto, p))
  BY DEF BuildTable, BuildAugmented, BuildSLR, BuildLR1
<1> HIDE DEF follow, simple, auto
<1>4. PartitionOK(auto, p)
  BY <1>2, MergePartitionFacts DEF AutomatonOK
<1> HIDE DEF p
<1>5. AutomatonOK(g, Merged(auto, p))
  BY <1>2, <1>4, MergedOK
<1>6. /\ SoundTables(TableFor(g, follow, simple)) /\ SoundTables(TableFor(g, NoFollow, auto))
      /\ SoundTables(TableFor(g, NoFollow, Merged(auto, p)))
  BY <1>2, <1>5, TablesSound
<1> QED  BY <1>3, <1>6

-----------------------------------------------------------------------------
(* What can follow an item. *)

\* What the rules derive from known symbols, round by round, is known already
\* to any set that keeps what a round adds.
LEMMA DerivedFacts ==
  ASSUME NEW g, GrammarOK(g), NEW known \in SUBSET Alphabet(g),
         NEW P \in SUBSET SUBSET Alphabet(g), known \in P,
         \A set \in P : GrowNullable(g, set) \in P
  PROVE  /\ DerivedFrom(g, known) \in P
         /\ GrowNullable(g, DerivedFrom(g, known)) = DerivedFrom(g, known)
<1> DEFINE U == Alphabet(g)  A == SUBSET U
           step == [set \in A |-> GrowNullable(g, set)]
           m == [set \in P |-> Cardinality(U) - Cardinality(set)]
<1>1. IsFiniteSet(U)
  BY FS_Union DEF GrammarOK, Alphabet
<1>2. \A set \in A : GrowNullable(g, set) \in A
  BY DEF GrowNullable, GrammarOK, Alphabet
<1> HIDE DEF U
<1>3. step \in [A -> A] /\ P \in SUBSET A /\ known \in P
  BY <1>2 DEF U
<1>4. ASSUME NEW set \in P
      PROVE  /\ step[set] \in P /\ m[set] \in Nat /\ (step[set] # set => m[step[set]] < m[set])
  <2> DEFINE more == GrowNullable(g, set)
  <2>1. step[set] = more /\ more \in P /\ m[set] = Cardinality(U) - Cardinality(set)
        /\ m[more] = Cardinality(U) - Cardinality(more)
    BY <1>3
  <2>2. set \subseteq more /\ more \subseteq U /\ set \subseteq U
    BY <1>3, <2>1 DEF GrowNullable
  <2> HIDE DEF more, step, m
  <2>3. Cardinality(U) - Cardinality(set) \in Nat
    BY <1>1, <2>2, GrowthMeasure
  <2>4. set # more => Cardinality(U) - Cardinality(more) < Cardinality(U) - Cardinality(set)
    BY <1>1, <2>2, GrowthMeasure
  <2> QED  BY <2>1, <2>3, <2>4
<1>5. m \in [P -> Nat]
  <2>1. \A set \in P : m[set] = Cardinality(U) - Cardinality(set)
    OBVIOUS
  <2> QED  BY <1>4, <2>1
<1>6. DerivedFrom(g, known) = Fixpoint(step, known)
  BY DEF DerivedFrom, U
<1>7. Fixpoint(step, known) \in P /\ step[Fixpoint(step, known)] = Fixpoint(step, known)
  <2>1. \A set \in P : step[set] \in P /\ (step[set] # set => m[step[set]] < m[set])
    BY <1>4
  <2> HIDE DEF step, m, A
  <2> QED  BY <1>3, <1>5, <2>1, FixpointFacts
<1>8. step[Fixpoint(step, known)] = GrowNullable(g, Fixpoint(step, known))
  BY <1>3, <1>7
<1> QED  BY <1>6, <1>7, <1>8

\* A sequence can begin with some terminal, or is nullable,
Begins(first, nullable, seq) == FirstSequence(first, nullable, seq) # {} \/ ToSet(seq) \subseteq nullable

\* if each of its symbols is.
LEMMA BeginsFacts ==
  ASSUME NEW S, NEW seq \in Seq(S), NEW first, NEW nullable,
         \A x \in ToSet(seq) : x \in nullable \/ first[x] # {}
  PROVE  Begins(first, nullable, seq)
<1> DEFINE I == {i \in 1..Len(seq) : seq[i] \notin nullable}
<1>1. Len(seq) \in Nat /\ \A i \in 1..Len(seq) : seq[i] \in ToSet(seq)
  BY ToSetFacts
<1>2. \A e \in ToSet(seq) : \E i \in 1..Len(seq) : seq[i] = e
  BY ToSetFacts
<1>3. CASE I = {}
  <2>1. ToSet(seq) \subseteq nullable
    BY <1>2, <1>3
  <2> QED  BY <2>1 DEF Begins
<1>4. CASE I # {}
  <2>1. I \in SUBSET Nat
    BY <1>1
  <2>2. PICK i \in I : \A j \in I : i <= j
    <3> HIDE DEF I
    <3> QED  BY <1>4, <2>1, LeastElement
  <2>3. i \in 1..Len(seq) /\ first[seq[i]] # {}
    BY <1>1
  <2>4. ToSet(SubSeq(seq, 1, i - 1)) \subseteq nullable
    <3> DEFINE pre == SubSeq(seq, 1, i - 1)
    <3>1. i - 1 \in 0..Len(seq)
      BY <1>1, <2>3
    <3>2. pre \in Seq(S) /\ Len(pre) = i - 1 /\ \A k \in 1..(i - 1) : pre[k] = seq[k]
      BY <3>1, PrefixFacts
    <3> HIDE DEF pre
    <3>3. \A e \in ToSet(pre) : \E k \in 1..(i - 1) : pre[k] = e
      BY <3>2, ToSetFacts
    <3>4. \A k \in 1..(i - 1) : seq[k] \in nullable
      <4> SUFFICES ASSUME NEW k \in 1..(i - 1), seq[k] \notin nullable
                   PROVE  FALSE
        OBVIOUS
      <4>1. k \in I /\ ~(i <= k)
        BY <1>1, <2>3
      <4> QED  BY <2>2, <4>1
    <3> QED  BY <3>2, <3>3, <3>4 DEF pre
  <2>5. first[seq[i]] \subseteq FirstSequence(first, nullable, seq)
    BY <2>3, <2>4 DEF FirstSequence
  <2> QED  BY <2>3, <2>5 DEF Begins
<1> QED  BY <1>3, <1>4

\* Every symbol does in a grammar whose nonterminals all derive some word.
LEMMA ProductiveBegins ==
  ASSUME NEW g, GrammarOK(g), AllProductive(g)
  PROVE  \A x \in Alphabet(g) : x \in Nullable(g) \/ FirstSets(g, Nullable(g))[x] # {}
<1> DEFINE nullable == Nullable(g)  first == FirstSets(g, nullable)
           Known == {x \in Alphabet(g) : x \in nullable \/ first[x] # {}}
           P == SUBSET Known
<1>1. GrowNullable(g, nullable) = nullable
  <2> DEFINE Q == SUBSET Alphabet(g)
  <2>1. Q \in SUBSET SUBSET Alphabet(g) /\ {} \in Q /\ {} \in SUBSET Alphabet(g)
    OBVIOUS
  <2>2. \A set \in Q : GrowNullable(g, set) \in Q
    BY DEF GrowNullable, GrammarOK, Alphabet
  <2> HIDE DEF Q
  <2>3. GrowNullable(g, DerivedFrom(g, {})) = DerivedFrom(g, {})
    BY <2>1, <2>2, DerivedFacts
  <2> QED  BY <2>3 DEF Nullable
<1>2. /\ first \in Firsts(g) /\ GrowFirst(g, nullable, first) = first
      /\ \A t \in g.terminals : first[t] = {t}
  <2> HIDE DEF nullable
  <2> QED  BY FirstFacts
<1> HIDE DEF first, nullable
<1>3. ASSUME NEW r \in RulesOf(g), ToSet(Rhs(g, r)) \subseteq Known
      PROVE  g.rules[r].lhs \in Known
  <2> DEFINE rhs == Rhs(g, r)  lhs == g.rules[r].lhs
  <2>1. rhs \in Seq(Alphabet(g)) /\ lhs \in Alphabet(g)
    BY RhsFacts DEF GrammarOK, Alphabet
  <2>2. \A x \in ToSet(rhs) : x \in nullable \/ first[x] # {}
    BY <1>3
  <2>3. Begins(first, nullable, rhs)
    <3> HIDE DEF rhs
    <3> QED  BY <2>1, <2>2, BeginsFacts
  <2>4. CASE ToSet(rhs) \subseteq nullable
    <3>1. lhs \in GrowNullable(g, nullable)
      BY <2>4 DEF GrowNullable
    <3> QED  BY <1>1, <2>1, <3>1
  <2>5. CASE FirstSequence(first, nullable, rhs) # {}
    <3>1. FirstSequence(first, nullable, rhs) \subseteq GrowFirst(g, nullable, first)[lhs]
      BY <2>1 DEF GrowFirst
    <3> QED  BY <1>2, <2>1, <2>5, <3>1
  <2> QED  BY <2>3, <2>4, <2>5 DEF Begins
<1>4. \A set \in P : GrowNullable(g, set) \in P
  BY <1>3 DEF GrowNullable
<1>5. g.terminals \in P /\ g.terminals \in SUBSET Alphabet(g)
  BY <1>2 DEF Alphabet
<1>6. DerivedFrom(g, g.terminals) \in P
  <2>1. P \in SUBSET SUBSET Alphabet(g)
    OBVIOUS
  <2> HIDE DEF P
  <2> QED  BY <1>4, <1>5, <2>1, DerivedFacts
<1>7. Alphabet(g) \subseteq Known
  BY <1>5, <1>6 DEF AllProductive, Alphabet
<1> QED  BY <1>7 DEF first, nullable

-----------------------------------------------------------------------------
(* Which items a closure has does not depend on what its kernel looks ahead to. *)

\* What can begin a sequence with a symbol after it.
LEMMA TrailFacts ==
  ASSUME NEW S, NEW seq \in Seq(S), NEW x \in S, NEW first, NEW nullable
  PROVE  FirstSequence(first, nullable, Append(seq, x)) = Trail(nullable, first, seq, first[x])
<1> DEFINE n == Len(seq)  all == Append(seq, x)
           Open(s, i) == ToSet(SubSeq(s, 1, i - 1)) \subseteq nullable
<1>1. n \in Nat /\ all \in Seq(S) /\ Len(all) = n + 1 /\ all[n + 1] = x
      /\ \A i \in 1..n : all[i] = seq[i]
  BY LenProperties, PushFacts
<1>2. ASSUME NEW h \in 0..n
      PROVE  SubSeq(all, 1, h) = SubSeq(seq, 1, h)
  <2> DEFINE u == SubSeq(all, 1, h)  v == SubSeq(seq, 1, h)
  <2>1. h \in 0..Len(all)
    BY <1>1
  <2> HIDE DEF all
  <2>2. u \in Seq(S) /\ Len(u) = h /\ \A i \in 1..h : u[i] = all[i]
    BY <1>1, <2>1, PrefixFacts
  <2>3. v \in Seq(S) /\ Len(v) = h /\ \A i \in 1..h : v[i] = seq[i]
    BY PrefixFacts
  <2> HIDE DEF u, v
  <2>4. \A i \in 1..h : u[i] = v[i]
    BY <1>1, <2>2, <2>3
  <2>5. u = v
    BY <2>2, <2>3, <2>4, SeqEqual
  <2> QED  BY <2>5 DEF u, v
<1>3. SubSeq(seq, 1, n) = seq
  BY SubSeqFull
<1> HIDE DEF all, n
<1>4. /\ \A i \in 1..n : i - 1 \in 0..n /\ Open(all, i) = Open(seq, i) /\ i \in 1..Len(all)
      /\ n + 1 \in 1..Len(all)
      /\ Open(all, n + 1) <=> ToSet(seq) \subseteq nullable
      /\ \A i \in 1..Len(all) : i \in 1..n \/ i = n + 1
  <2>1. \A i \in 1..n : i - 1 \in 0..n /\ i \in 1..Len(all)
    BY <1>1
  <2>2. n + 1 \in 1..Len(all) /\ n + 1 - 1 = n /\ n \in 0..n
    BY <1>1
  <2>3. \A i \in 1..Len(all) : i \in 1..n \/ i = n + 1
    BY <1>1
  <2>4. \A i \in 1..n : Open(all, i) = Open(seq, i)
    BY <1>2, <2>1
  <2>5. Open(all, n + 1) <=> ToSet(seq) \subseteq nullable
    <3>1. SubSeq(all, 1, n) = seq
      BY <1>2, <1>3, <2>2
    <3>2. ASSUME NEW k, k - 1 = n
          PROVE  Open(all, k) <=> ToSet(seq) \subseteq nullable
      BY <3>1, <3>2
    <3> HIDE DEF Open
    <3> QED  BY <2>2, <3>2
  <2> QED  BY <2>1, <2>2, <2>3, <2>4, <2>5
<1>5. /\ FirstSequence(first, nullable, all) = UNION {first[all[i]] : i \in {j \in 1..Len(all) : Open(all, j)}}
      /\ FirstSequence(first, nullable, seq) = UNION {first[seq[i]] : i \in {j \in 1..n : Open(seq, j)}}
  BY DEF FirstSequence, n
<1> HIDE DEF Open
<1>6. FirstSequence(first, nullable, all) =
        FirstSequence(first, nullable, seq) \cup (IF ToSet(seq) \subseteq nullable THEN first[x] ELSE {})
  <2>1. ASSUME NEW t
        PROVE  t \in FirstSequence(first, nullable, all) <=>
                 \/ t \in FirstSequence(first, nullable, seq)
                 \/ ToSet(seq) \subseteq nullable /\ t \in first[x]
    <3>1. t \in FirstSequence(first, nullable, all) <=>
            \E i \in 1..Len(all) : Open(all, i) /\ t \in first[all[i]]
      BY <1>5
    <3>2. t \in FirstSequence(first, nullable, seq) <=> \E i \in 1..n : Open(seq, i) /\ t \in first[seq[i]]
      BY <1>5
    <3>3. (\E i \in 1..Len(all) : Open(all, i) /\ t \in first[all[i]]) <=>
            \/ \E i \in 1..n : Open(all, i) /\ t \in first[all[i]]
            \/ Open(all, n + 1) /\ t \in first[all[n + 1]]
      BY <1>4
    <3>4. (\E i \in 1..n : Open(all, i) /\ t \in first[all[i]]) <=>
            (\E i \in 1..n : Open(seq, i) /\ t \in first[seq[i]])
      BY <1>1, <1>4
    <3> QED  BY <1>1, <1>4, <3>1, <3>2, <3>3, <3>4
  <2> QED  BY <2>1
<1> QED  BY <1>6 DEF Trail, all

\* The good items with these lookaheads.
Ahead(g, L) == {it \in GoodItems(g) : it[3] \in L}

\* Closing over an item that looks ahead to a terminal adds items that do, for
\* what can begin the rest of the rule and, behind a nullable rest, for the terminal.
LEMMA LookaheadFacts ==
  ASSUME NEW g, GrammarOK(g), NEW first \in Firsts(g), \A t \in g.terminals : first[t] = {t}, NEW nullable,
         NEW it \in Ahead(g, g.terminals), ~IsComplete(g, it)
  PROVE  LET rest == Suffix(Rhs(g, it[1]), it[2] + 2)
         IN  /\ Lookaheads(g, first, nullable, it) = Trail(nullable, first, rest, first[it[3]])
             /\ Lookaheads(g, first, nullable, it) # {} <=> Begins(first, nullable, rest)
             /\ rest \in Seq(Alphabet(g))
             /\ Lookaheads(g, first, nullable, it) \subseteq g.terminals
<1> DEFINE rhs == Rhs(g, it[1])  rest == Suffix(rhs, it[2] + 2)
<1>1. it[1] \in RulesOf(g) /\ it[2] \in 0..Len(rhs) /\ it[3] \in g.terminals /\ it[3] # NoLookahead
  BY GoodItemFacts DEF Ahead, GrammarOK
<1>2. rhs \in Seq(Alphabet(g)) /\ Len(rhs) \in Nat /\ \A i \in 1..Len(rhs) : rhs[i] \in Alphabet(g)
  BY <1>1, RhsFacts
<1> HIDE DEF rhs
<1>3. rest \in Seq(Alphabet(g))
  <2>1. it[2] + 2 \in Int /\ Len(rhs) \in Int
    BY <1>1, <1>2
  <2>2. \A i \in it[2] + 2..Len(rhs) : rhs[i] \in Alphabet(g)
    BY <1>1, <1>2
  <2> QED  BY <2>1, <2>2, SubSeqProperties DEF Suffix
<1>4. Lookaheads(g, first, nullable, it) = FirstSequence(first, nullable, Append(rest, it[3]))
  BY <1>1 DEF Lookaheads, rhs
<1> HIDE DEF rest
<1>5. it[3] \in Alphabet(g)
  BY <1>1 DEF Alphabet
<1>6. Lookaheads(g, first, nullable, it) = Trail(nullable, first, rest, first[it[3]])
  BY <1>3, <1>4, <1>5, TrailFacts
<1>7. it[3] \in first[it[3]]
  BY <1>1
<1>8. Lookaheads(g, first, nullable, it) # {} <=> Begins(first, nullable, rest)
  BY <1>6, <1>7 DEF Trail, Begins
<1>9. FirstSequence(first, nullable, rest) \subseteq g.terminals
  BY <1>3, FirstSequenceTyped
<1>10. Lookaheads(g, first, nullable, it) \subseteq g.terminals
  BY <1>5, <1>6, <1>9 DEF Trail, Firsts
<1> QED  BY <1>3, <1>6, <1>8, <1>10 DEF rest, rhs

\* Lookaheads among L bring none but those.
Sustains(g, first, nullable, L) ==
  \A it \in Ahead(g, L) : ~IsComplete(g, it) => Lookaheads(g, first, nullable, it) \subseteq L
\* Where an item with a lookahead of L brings items, so does one with a lookahead of M.
Carries(g, first, nullable, L, M) ==
  \A a \in Ahead(g, L), b \in Ahead(g, M) :
    a[1] = b[1] /\ a[2] = b[2] /\ ~IsComplete(g, a) /\ Lookaheads(g, first, nullable, a) # {}
      => Lookaheads(g, first, nullable, b) # {}

\* Terminals are interchangeable; no lookahead brings as many items, and more
\* only where a nonterminal derives no word.
LEMMA KindFacts ==
  ASSUME NEW g, GrammarOK(g), NEW first \in Firsts(g), \A t \in g.terminals : first[t] = {t}, NEW nullable
  PROVE  LET T == g.terminals  N == {NoLookahead}
         IN  /\ Sustains(g, first, nullable, T) /\ Sustains(g, first, nullable, N)
             /\ Carries(g, first, nullable, T, T) /\ Carries(g, first, nullable, T, N)
             /\ (\A x \in Alphabet(g) : x \in nullable \/ first[x] # {}) => Carries(g, first, nullable, N, T)
<1> DEFINE T == g.terminals  N == {NoLookahead}
<1>1. Sustains(g, first, nullable, T)
  BY LookaheadFacts DEF Sustains
<1>2. \A it \in Ahead(g, N) : Lookaheads(g, first, nullable, it) = N
  BY DEF Ahead, Lookaheads
<1>3. Sustains(g, first, nullable, N) /\ Carries(g, first, nullable, T, N)
  BY <1>2 DEF Sustains, Carries
<1>4. Carries(g, first, nullable, T, T)
  <2> SUFFICES ASSUME NEW a \in Ahead(g, T), NEW b \in Ahead(g, T), a[1] = b[1], a[2] = b[2],
                      ~IsComplete(g, a), Lookaheads(g, first, nullable, a) # {}
               PROVE  Lookaheads(g, first, nullable, b) # {}
    BY DEF Carries
  <2> DEFINE rest == Suffix(Rhs(g, a[1]), a[2] + 2)
  <2>1. ~IsComplete(g, b) /\ rest = Suffix(Rhs(g, b[1]), b[2] + 2)
    BY DEF IsComplete
  <2>2. Begins(first, nullable, rest)
    BY LookaheadFacts
  <2> HIDE DEF rest
  <2> QED  BY <2>1, <2>2, LookaheadFacts
<1>5. ASSUME \A x \in Alphabet(g) : x \in nullable \/ first[x] # {}
      PROVE  Carries(g, first, nullable, N, T)
  <2> SUFFICES ASSUME NEW a \in Ahead(g, N), NEW b \in Ahead(g, T), a[1] = b[1], a[2] = b[2], ~IsComplete(g, a)
               PROVE  Lookaheads(g, first, nullable, b) # {}
    BY DEF Carries
  <2> DEFINE rest == Suffix(Rhs(g, b[1]), b[2] + 2)
  <2>1. ~IsComplete(g, b)
    BY DEF IsComplete
  <2>2. rest \in Seq(Alphabet(g)) /\ (Lookaheads(g, first, nullable, b) # {} <=> Begins(first, nullable, rest))
    BY <2>1, LookaheadFacts
  <2> HIDE DEF rest
  <2>3. ToSet(rest) \subseteq Alphabet(g)
    BY <2>2, ToSetFacts
  <2>4. \A x \in ToSet(rest) : x \in nullable \/ first[x] # {}
    BY <1>5, <2>3
  <2>5. Begins(first, nullable, rest)
    BY <2>2, <2>4, BeginsFacts
  <2> QED  BY <2>2, <2>5
<1> QED  BY <1>1, <1>3, <1>4, <1>5

\* Items with lookaheads among L are closed over by such items,
LEMMA ClosureAhead ==
  ASSUME NEW g, GrammarOK(g), NEW first \in Firsts(g), NEW nullable, NEW L,
         Sustains(g, first, nullable, L), NEW kernel \in SUBSET Ahead(g, L)
  PROVE  LET all == Closure(g, first, nullable, kernel)
         IN  /\ all \in SUBSET Ahead(g, L) /\ kernel \subseteq all
             /\ GrowItems(g, first, nullable, all) = all
<1> DEFINE P == {set \in SUBSET Ahead(g, L) : kernel \subseteq set}
<1>1. P \in SUBSET SUBSET Items(g) /\ kernel \in P
  BY DEF Ahead, GoodItems
<1>2. ASSUME NEW set \in P
      PROVE  GrowItems(g, first, nullable, set) \in P
  <2>1. set \in SUBSET Items(g) /\ set \in SUBSET Ahead(g, L) /\ kernel \subseteq set
    BY <1>1
  <2>2. ASSUME NEW it \in GrowItems(g, first, nullable, set), it \notin set
        PROVE  it \in Ahead(g, L)
    <3>1. PICK by \in set, r \in RulesOf(g), la \in LookaheadsOf(g) :
            it = <<r, 0, la>> /\ la \in Lookaheads(g, first, nullable, by) /\ ~IsComplete(g, by)
      BY <2>1, <2>2, GrowItemsFacts
    <3>2. la \in L
      BY <2>1, <3>1 DEF Sustains
    <3>3. it \in GoodItems(g)
      BY <3>1, StartItems
    <3> QED  BY <3>1, <3>2, <3>3 DEF Ahead
  <2>3. set \subseteq GrowItems(g, first, nullable, set)
    BY <2>1, GrowItemsFacts
  <2> QED  BY <2>1, <2>2, <2>3
<1> HIDE DEF P
<1>3. /\ Closure(g, first, nullable, kernel) \in P
      /\ GrowItems(g, first, nullable, Closure(g, first, nullable, kernel)) = Closure(g, first, nullable, kernel)
  BY <1>1, <1>2, ClosureInduction
<1> QED  BY <1>3 DEF P

\* and a kernel that has the rules and dots of another has those of its closure.
LEMMA ClosureCores ==
  ASSUME NEW g, GrammarOK(g), NEW first \in Firsts(g), NEW nullable, NEW L, NEW M,
         Sustains(g, first, nullable, L), Sustains(g, first, nullable, M), Carries(g, first, nullable, L, M),
         NEW kernel \in SUBSET Ahead(g, L), NEW other \in SUBSET Ahead(g, M), Core(kernel) \subseteq Core(other)
  PROVE  Core(Closure(g, first, nullable, kernel)) \subseteq Core(Closure(g, first, nullable, other))
<1> DEFINE all == Closure(g, first, nullable, other)
           P == {set \in SUBSET Ahead(g, L) : Core(set) \subseteq Core(all)}
<1>1. all \in SUBSET Ahead(g, M) /\ other \subseteq all /\ GrowItems(g, first, nullable, all) = all
  BY ClosureAhead
<1> HIDE DEF all
<1>2. Core(kernel) \subseteq Core(all)
  <2>1. Core(other) \subseteq Core(all)
    BY <1>1 DEF Core
  <2> QED  BY <2>1
<1>3. P \in SUBSET SUBSET Items(g) /\ kernel \in P
  BY <1>2 DEF Ahead, GoodItems
<1>4. ASSUME NEW set \in P
      PROVE  GrowItems(g, first, nullable, set) \in P
  <2>1. set \in SUBSET Items(g) /\ set \in SUBSET Ahead(g, L) /\ all \in SUBSET Items(g)
        /\ Core(set) \subseteq Core(all)
    BY <1>1, <1>3 DEF Ahead, GoodItems
  <2>2. ASSUME NEW it \in GrowItems(g, first, nullable, set), it \notin set
        PROVE  it \in Ahead(g, L) /\ <<it[1], it[2]>> \in Core(all)
    <3>1. PICK by \in set, r \in RulesOf(g), la \in LookaheadsOf(g) :
            /\ it = <<r, 0, la>> /\ la \in Lookaheads(g, first, nullable, by)
            /\ ~IsComplete(g, by) /\ AfterDot(g, by) = g.rules[r].lhs
      BY <2>1, <2>2, GrowItemsFacts
    <3>2. it \in Ahead(g, L)
      <4>1. la \in L
        BY <2>1, <3>1 DEF Sustains
      <4>2. it \in GoodItems(g)
        BY <3>1, StartItems
      <4> QED  BY <3>1, <4>1, <4>2 DEF Ahead
    <3>3. PICK like \in all : like[1] = by[1] /\ like[2] = by[2]
      <4>1. <<by[1], by[2]>> \in Core(all)
        BY <2>1, <3>1, CoreFacts
      <4> QED  BY <4>1, CoreFacts
    <3>4. ~IsComplete(g, like) /\ AfterDot(g, like) = g.rules[r].lhs
      BY <3>1, <3>3 DEF IsComplete, AfterDot
    <3>5. Lookaheads(g, first, nullable, like) # {}
      <4>1. Lookaheads(g, first, nullable, by) # {} /\ by \in Ahead(g, L) /\ like \in Ahead(g, M)
        BY <1>1, <2>1, <3>1
      <4> QED  BY <3>1, <3>3, <4>1 DEF Carries
    <3>6. PICK mb \in LookaheadsOf(g) : mb \in Lookaheads(g, first, nullable, like)
      BY <2>1, <3>5, LookaheadsTyped
    <3>7. <<r, 0, mb>> \in GrowItems(g, first, nullable, all)
      <4> DEFINE new == <<r, 0, mb>>
      <4>1. \E b \in all, q \in RulesOf(g), la2 \in LookaheadsOf(g) :
              /\ new = <<q, 0, la2>> /\ la2 \in Lookaheads(g, first, nullable, b)
              /\ ~IsComplete(g, b) /\ AfterDot(g, b) = g.rules[q].lhs
        BY <3>4, <3>6
      <4> HIDE DEF new
      <4>2. new \in GrowItems(g, first, nullable, all)
        BY <2>1, <4>1, GrowItemsFacts
      <4> QED  BY <4>2 DEF new
    <3>8. <<r, 0>> \in Core(all)
      <4>1. <<r, 0, mb>> \in all
        BY <1>1, <3>7
      <4> QED  BY <4>1 DEF Core
    <3> QED  BY <3>1, <3>2, <3>8
  <2>3. \A it \in set : it \in Ahead(g, L) /\ <<it[1], it[2]>> \in Core(all)
    BY <2>1, CoreFacts
  <2>4. \A it \in GrowItems(g, first, nullable, set) : it \in Ahead(g, L) /\ <<it[1], it[2]>> \in Core(all)
    BY <2>2, <2>3
  <2> QED  BY <2>4 DEF Core
<1>5. Closure(g, first, nullable, kernel) \in P
  <2> HIDE DEF P
  <2> QED  BY <1>3, <1>4, ClosureInduction
<1> QED  BY <1>5 DEF all

\* What is before a symbol in some items, moved over it.
LEMMA KernelFacts ==
  ASSUME NEW g, GrammarOK(g), NEW L, NEW items \in SUBSET Ahead(g, L), NEW x
  PROVE  {<<it[1], it[2] + 1, it[3]>> : it \in {i \in items : ~IsComplete(g, i) /\ AfterDot(g, i) = x}}
           \in SUBSET Ahead(g, L)
<1> SUFFICES ASSUME NEW it \in items, ~IsComplete(g, it)
             PROVE  <<it[1], it[2] + 1, it[3]>> \in Ahead(g, L)
  OBVIOUS
<1>1. it \in GoodItems(g) /\ it[3] \in L
  BY DEF Ahead
<1>2. it \in Items(g) /\ it[2] + 1 \in 1..Len(Rhs(g, it[1]))
  BY <1>1, GoodItemFacts
<1>3. it[1] \in RulesOf(g) /\ it[2] \in Nat /\ it[3] \in LookaheadsOf(g)
  BY <1>2, ItemFacts
<1> QED  BY <1>1, <1>2, <1>3 DEF Ahead, GoodItems, Items, LookaheadsOf

\* So the states of an automaton look ahead to what the first one does,
LEMMA AheadKept ==
  ASSUME NEW g, GrammarOK(g), NEW first \in Firsts(g), NEW nullable, NEW L,
         Sustains(g, first, nullable, L), NEW la \in LookaheadsOf(g), la \in L
  PROVE  /\ <<0, 0, la>> \in Ahead(g, L)
         /\ Closure(g, first, nullable, {<<0, 0, la>>}) \in SUBSET Ahead(g, L)
         /\ KeptByGoto(g, first, nullable, SUBSET Ahead(g, L))
<1>1. <<0, 0, la>> \in Ahead(g, L)
  <2>1. 0 \in RulesOf(g)
    BY DEF GrammarOK
  <2>2. <<0, 0, la>> \in GoodItems(g)
    BY <2>1, StartItems
  <2> QED  BY <2>2 DEF Ahead
<1> DEFINE kernel == {<<0, 0, la>>}
<1>2. kernel \in SUBSET Ahead(g, L)
  BY <1>1
<1> HIDE DEF kernel
<1>3. Closure(g, first, nullable, kernel) \in SUBSET Ahead(g, L)
  BY <1>2, ClosureAhead
<1>4. ASSUME NEW items \in SUBSET Ahead(g, L), NEW x
      PROVE  Goto(g, first, nullable, items, x) \in SUBSET Ahead(g, L)
  <2> DEFINE more == {<<it[1], it[2] + 1, it[3]>> :
                        it \in {i \in items : ~IsComplete(g, i) /\ AfterDot(g, i) = x}}
  <2>1. more \in SUBSET Ahead(g, L)
    BY KernelFacts
  <2>2. Goto(g, first, nullable, items, x) = Closure(g, first, nullable, more)
    BY DEF Goto
  <2> HIDE DEF more
  <2> QED  BY <2>1, <2>2, ClosureAhead
<1> QED  BY <1>1, <1>3, <1>4 DEF KeptByGoto, kernel

\* and a transition from more rules and dots leads to more.
LEMMA GotoCores ==
  ASSUME NEW g, GrammarOK(g), NEW first \in Firsts(g), NEW nullable, NEW L, NEW M,
         Sustains(g, first, nullable, L), Sustains(g, first, nullable, M), Carries(g, first, nullable, L, M),
         NEW items \in SUBSET Ahead(g, L), NEW others \in SUBSET Ahead(g, M), Core(items) \subseteq Core(others),
         NEW x
  PROVE  /\ Core(Goto(g, first, nullable, items, x)) \subseteq Core(Goto(g, first, nullable, others, x))
         /\ Awaits(g, items, x) => Awaits(g, others, x)
<1> DEFINE Ready(s) == {i \in s : ~IsComplete(g, i) /\ AfterDot(g, i) = x}
           Kernel(s) == {<<it[1], it[2] + 1, it[3]>> : it \in Ready(s)}
<1>1. /\ Goto(g, first, nullable, items, x) = Closure(g, first, nullable, Kernel(items))
      /\ Goto(g, first, nullable, others, x) = Closure(g, first, nullable, Kernel(others))
  BY DEF Goto
<1>2. ASSUME NEW K, NEW s \in SUBSET Ahead(g, K)
      PROVE  Kernel(s) \in SUBSET Ahead(g, K)
  BY KernelFacts
<1>3. \A it \in items : \E like \in others : like[1] = it[1] /\ like[2] = it[2]
  <2> SUFFICES ASSUME NEW it \in items
               PROVE  \E like \in others : like[1] = it[1] /\ like[2] = it[2]
    OBVIOUS
  <2>1. <<it[1], it[2]>> \in Core(others)
    BY CoreFacts
  <2> QED  BY <2>1, CoreFacts
<1>4. \A it \in Ready(items) : \E like \in Ready(others) : like[1] = it[1] /\ like[2] = it[2]
  <2> SUFFICES ASSUME NEW it \in Ready(items)
               PROVE  \E like \in Ready(others) : like[1] = it[1] /\ like[2] = it[2]
    OBVIOUS
  <2>1. PICK like \in others : like[1] = it[1] /\ like[2] = it[2]
    BY <1>3
  <2>2. like \in Ready(others)
    BY <2>1 DEF IsComplete, AfterDot
  <2> QED  BY <2>1, <2>2
<1>5. Core(Kernel(items)) \subseteq Core(Kernel(others))
  <2> SUFFICES ASSUME NEW it \in Ready(items)
               PROVE  <<it[1], it[2] + 1>> \in Core(Kernel(others))
    BY DEF Core
  <2>1. PICK like \in Ready(others) : like[1] = it[1] /\ like[2] = it[2]
    BY <1>4
  <2>2. <<like[1], like[2] + 1, like[3]>> \in Kernel(others)
    OBVIOUS
  <2> DEFINE next == <<like[1], like[2] + 1, like[3]>>
  <2>3. next \in Kernel(others) /\ next[1] = it[1] /\ next[2] = it[2] + 1
    BY <2>1, <2>2
  <2> HIDE DEF next, Kernel
  <2> QED  BY <2>3, CoreFacts
<1>6. Awaits(g, items, x) => Awaits(g, others, x)
  BY <1>4 DEF Awaits
<1> HIDE DEF Kernel
<1>7. Kernel(items) \in SUBSET Ahead(g, L) /\ Kernel(others) \in SUBSET Ahead(g, M)
  BY <1>2
<1>8. Core(Closure(g, first, nullable, Kernel(items))) \subseteq Core(Closure(g, first, nullable, Kernel(others)))
  BY <1>5, <1>7, ClosureCores
<1> QED  BY <1>1, <1>6, <1>8

-----------------------------------------------------------------------------
(* The cores of the automata. *)

\* The states of an automaton, as a set.
StatesOf(auto) == {auto.states[j] : j \in 1..Len(auto.states)}

\* The transitions of a finished automaton's states lead to its states.
LEMMA StateOnSymbol ==
  ASSUME NEW g, GrammarOK(g), NEW first, NEW nullable, NEW from, NEW P,
         NEW auto \in Growing(g, first, nullable, from, P), auto.next = Len(auto.states)
  PROVE  \A items \in StatesOf(auto), x \in ToSet(g.symbols) :
           Awaits(g, items, x) => Goto(g, first, nullable, items, x) \in StatesOf(auto)
<1> SUFFICES ASSUME NEW j \in 1..Len(auto.states), NEW x \in ToSet(g.symbols), Awaits(g, auto.states[j], x)
             PROVE  \E k \in 1..Len(auto.states) : auto.states[k] = Goto(g, first, nullable, auto.states[j], x)
  BY DEF StatesOf
<1>1. /\ StatesOK(g, auto) /\ EdgesOK(g, auto) /\ Exact(g, first, nullable, auto)
      /\ \A s \in Nat : s < auto.next =>
           \A y \in ToSet(g.symbols) : Awaits(g, auto.states[s + 1], y) => Leaves(auto, s, y)
  BY DEF Growing
<1>2. Len(auto.states) \in Nat /\ \A s \in Numbers(auto) : s + 1 \in 1..Len(auto.states)
  BY <1>1, StateFacts
<1>3. j - 1 \in Nat /\ j - 1 < auto.next /\ (j - 1) + 1 = j
  BY <1>2
<1>4. Leaves(auto, j - 1, x)
  <2> DEFINE s == j - 1
  <2>1. s \in Nat /\ s < auto.next /\ Awaits(g, auto.states[s + 1], x)
    BY <1>3
  <2> HIDE DEF s
  <2>2. Leaves(auto, s, x)
    BY <1>1, <2>1
  <2> QED  BY <2>2 DEF s
<1>5. PICK e \in auto.edges : e[1] = j - 1 /\ e[2] = x
  BY <1>4 DEF Leaves, TargetsOf
<1>6. e[3] \in Numbers(auto) /\ auto.states[e[3] + 1] = Goto(g, first, nullable, auto.states[e[1] + 1], e[2])
  BY <1>1 DEF EdgesOK, Exact
<1>7. e[1] + 1 = j
  BY <1>3, <1>5
<1> QED  BY <1>2, <1>5, <1>6, <1>7

\* A state of the automaton from one lookahead has its rules and dots in one of
\* the automaton from another, and is its like where both bring as many items.
LEMMA CoresReached ==
  ASSUME NEW g, GrammarOK(g), NEW first \in Firsts(g), NEW nullable, NEW L, NEW M,
         Sustains(g, first, nullable, L), Sustains(g, first, nullable, M),
         Carries(g, first, nullable, L, M),
         NEW la \in LookaheadsOf(g), la \in L, NEW mb \in LookaheadsOf(g), mb \in M
  PROVE  \A items \in StatesOf(AutomatonFrom(g, first, nullable, la)) :
           \E others \in StatesOf(AutomatonFrom(g, first, nullable, mb)) :
             /\ Core(items) \subseteq Core(others)
             /\ Carries(g, first, nullable, M, L) => Core(items) = Core(others)
<1> DEFINE A == AutomatonFrom(g, first, nullable, la)  B == AutomatonFrom(g, first, nullable, mb)
           Q == SUBSET Ahead(g, M)
           same == Carries(g, first, nullable, M, L)
           Like(a, b) == Core(a) \subseteq Core(b) /\ (same => Core(a) = Core(b))
           P == {set \in SUBSET Ahead(g, L) : \E others \in StatesOf(B) : Like(set, others)}
           from == Closure(g, first, nullable, {<<0, 0, la>>})
           start == Closure(g, first, nullable, {<<0, 0, mb>>})
<1>1. <<0, 0, mb>> \in Ahead(g, M) /\ start \in Q /\ KeptByGoto(g, first, nullable, Q)
  BY AheadKept
<1>2. <<0, 0, la>> \in Ahead(g, L) /\ from \in SUBSET Ahead(g, L) /\ KeptByGoto(g, first, nullable, SUBSET Ahead(g, L))
  BY AheadKept
<1> HIDE DEF Q
<1>3. B \in Growing(g, first, nullable, start, Q) /\ B.next = Len(B.states)
  BY <1>1, AutomatonFromFacts
<1> HIDE DEF B, P, same, start
<1>4. start \in StatesOf(B) /\ StatesOf(B) \subseteq SUBSET Ahead(g, M)
  <2>1. StatesOK(g, B) /\ B.states[1] = start /\ \A j \in 1..Len(B.states) : B.states[j] \in Q
    BY <1>3 DEF Growing
  <2>2. 0 + 1 \in 1..Len(B.states)
    BY <2>1, StateFacts
  <2> QED  BY <2>1, <2>2 DEF Q, StatesOf
<1>5. \A items \in StatesOf(B), x \in ToSet(g.symbols) :
        Awaits(g, items, x) => Goto(g, first, nullable, items, x) \in StatesOf(B)
  <2>1. GrammarOK(g)
    OBVIOUS
  <2> QED  BY ONLY <2>1, <1>3, StateOnSymbol
<1>6. Like(from, start)
  <2> DEFINE k == {<<0, 0, la>>}  l == {<<0, 0, mb>>}
  <2>1. k \in SUBSET Ahead(g, L) /\ l \in SUBSET Ahead(g, M) /\ Core(k) = {<<0, 0>>} /\ Core(l) = {<<0, 0>>}
    BY <1>1, <1>2 DEF Core
  <2> HIDE DEF k, l
  <2>2. Core(Closure(g, first, nullable, k)) \subseteq Core(Closure(g, first, nullable, l))
    BY <2>1, ClosureCores
  <2>3. same => Core(Closure(g, first, nullable, l)) \subseteq Core(Closure(g, first, nullable, k))
    BY <2>1, ClosureCores DEF same
  <2> QED  BY <2>2, <2>3 DEF k, l, start
<1> HIDE DEF from
<1>7. from \in P
  BY <1>2, <1>4, <1>6 DEF P
<1>8. ASSUME NEW items \in P, NEW x \in ToSet(g.symbols), Goto(g, first, nullable, items, x) # {}
      PROVE  Goto(g, first, nullable, items, x) \in P
  <2> DEFINE to == Goto(g, first, nullable, items, x)
  <2>1. items \in SUBSET Ahead(g, L) /\ items \in SUBSET GoodItems(g)
    BY DEF Ahead, P
  <2>2. PICK others \in StatesOf(B) : Like(items, others)
    BY DEF P
  <2>3. Awaits(g, items, x)
    BY <1>8, <2>1, GotoFacts
  <2>4. others \in SUBSET Ahead(g, M) /\ Core(items) \subseteq Core(others) /\ (same => Core(others) \subseteq Core(items))
    BY <1>4, <2>2
  <2>5. Awaits(g, others, x) /\ Like(to, Goto(g, first, nullable, others, x))
    <3>1. Awaits(g, others, x) /\ Core(to) \subseteq Core(Goto(g, first, nullable, others, x))
      BY <2>1, <2>3, <2>4, GotoCores
    <3>2. same => Core(Goto(g, first, nullable, others, x)) \subseteq Core(to)
      BY <2>1, <2>4, GotoCores DEF same
    <3> QED  BY <3>1, <3>2
  <2>6. Goto(g, first, nullable, others, x) \in StatesOf(B)
    BY <1>5, <2>5
  <2>7. to \in SUBSET Ahead(g, L)
    BY <1>2, <1>8, <2>1 DEF KeptByGoto
  <2> HIDE DEF to
  <2>8. to \in P
    BY <2>5, <2>6, <2>7 DEF P
  <2> QED  BY <2>8 DEF to
<1>9. KeptByGoto(g, first, nullable, P)
  BY <1>8 DEF KeptByGoto
<1>10. A \in Growing(g, first, nullable, from, P)
  <2>1. Closure(g, first, nullable, {<<0, 0, la>>}) \in P
    BY <1>7 DEF from
  <2> QED  BY <1>9, <2>1, AutomatonFromFacts DEF from
<1> HIDE DEF A
<1>11. StatesOf(A) \subseteq P
  BY <1>10 DEF Growing, StatesOf
<1>12. \A items \in StatesOf(A) : \E others \in StatesOf(B) : Like(items, others)
  BY <1>11 DEF P
<1> QED  BY <1>12 DEF A, B, same

\* One set has no more members than another it is mapped into one to one.
LEMMA NoMore ==
  ASSUME NEW n \in Nat, NEW k \in Nat, NEW h \in [1..n -> 1..k],
         \A i, j \in 1..n : h[i] = h[j] => i = j
  PROVE  n <= k
<1> DEFINE S == 1..n  T == 1..k
<1>1. IsFiniteSet(T) /\ Cardinality(S) = n /\ Cardinality(T) = k
  <2>1. 1 \in Int /\ n \in Int /\ k \in Int
    OBVIOUS
  <2>2. /\ IsFiniteSet(T)
        /\ Cardinality(S) = IF 1 > n THEN 0 ELSE n - 1 + 1
        /\ Cardinality(T) = IF 1 > k THEN 0 ELSE k - 1 + 1
    BY <2>1, FS_Interval
  <2> QED  BY <2>2
<1>2. h \in Injection(S, T)
  BY DEF Injection, IsInjective
<1> HIDE DEF S, T
<1>3. Cardinality(S) <= Cardinality(T)
  BY <1>1, <1>2, FS_Injection
<1> QED  BY <1>1, <1>3

\* The automaton from a lookahead of L.
LEMMA AutomatonAhead ==
  ASSUME NEW g, GrammarOK(g), NEW first \in Firsts(g), NEW nullable, NEW L,
         Sustains(g, first, nullable, L), NEW la \in LookaheadsOf(g), la \in L
  PROVE  LET auto == AutomatonFrom(g, first, nullable, la)
         IN  /\ AutomatonOK(g, auto) /\ Exact(g, first, nullable, auto)
             /\ \A i, j \in 1..Len(auto.states) : auto.states[i] = auto.states[j] => i = j
             /\ \A i \in 1..Len(auto.states) : auto.states[i] \in SUBSET Ahead(g, L)
             /\ \A s \in Numbers(auto), x \in ToSet(g.symbols) :
                  Awaits(g, auto.states[s + 1], x) => Leaves(auto, s, x)
<1> DEFINE auto == AutomatonFrom(g, first, nullable, la)  Q == SUBSET Ahead(g, L)
           from == Closure(g, first, nullable, {<<0, 0, la>>})
<1>1. from \in Q /\ KeptByGoto(g, first, nullable, Q)
  BY AheadKept
<1> HIDE DEF Q
<1>2. auto \in Growing(g, first, nullable, from, Q) /\ AutomatonOK(g, auto) /\ auto.next = Len(auto.states)
  BY <1>1, AutomatonFromFacts
<1> HIDE DEF auto, from
<1>3. /\ Exact(g, first, nullable, auto)
      /\ \A i, j \in 1..Len(auto.states) : auto.states[i] = auto.states[j] => i = j
      /\ \A i \in 1..Len(auto.states) : auto.states[i] \in Q
      /\ \A s \in Nat : s < auto.next =>
           \A x \in ToSet(g.symbols) : Awaits(g, auto.states[s + 1], x) => Leaves(auto, s, x)
  BY <1>2 DEF Growing
<1>4. \A s \in Numbers(auto) : s \in Nat /\ s < auto.next
  <2>1. Len(auto.states) \in Nat
    BY <1>2, StateFacts DEF AutomatonOK
  <2> QED  BY <1>2, <2>1 DEF Numbers
<1> QED  BY <1>2, <1>3, <1>4 DEF auto, Q

\* Items without lookahead are their cores.
LEMMA CoresTellApart ==
  ASSUME NEW g, NEW some \in SUBSET Ahead(g, {NoLookahead}), NEW others \in SUBSET Ahead(g, {NoLookahead}),
         Core(some) = Core(others)
  PROVE  some = others
<1>1. ASSUME NEW a \in SUBSET Ahead(g, {NoLookahead}), NEW b \in SUBSET Ahead(g, {NoLookahead}),
             Core(a) = Core(b)
      PROVE  a \subseteq b
  <2> SUFFICES ASSUME NEW it \in a
               PROVE  it \in b
    OBVIOUS
  <2>1. <<it[1], it[2]>> \in Core(b)
    BY <1>1, CoreFacts
  <2>2. PICK like \in b : like[1] = it[1] /\ like[2] = it[2]
    BY <2>1, CoreFacts
  <2>3. it \in Items(g) /\ like \in Items(g) /\ it[3] = NoLookahead /\ like[3] = NoLookahead
    BY <2>2 DEF Ahead, GoodItems
  <2>4. it = <<it[1], it[2], it[3]>> /\ like = <<like[1], like[2], like[3]>>
    BY <2>3, ItemFacts
  <2> QED  BY <2>2, <2>3, <2>4
<1>2. some \subseteq others
  BY <1>1
<1>3. others \subseteq some
  BY <1>1
<1> QED  BY <1>2, <1>3

\* Grouping the states of an automaton by core gives as many groups as another
\* automaton has states, if those are told apart by their cores and the cores
\* of the two are the same.
LEMMA GroupsOfCores ==
  ASSUME NEW g, NEW auto, StatesOK(g, auto), NEW simple, StatesOK(g, simple),
         \A a \in StatesOf(auto) : \E b \in StatesOf(simple) : Core(a) = Core(b),
         \A b \in StatesOf(simple) : \E a \in StatesOf(auto) : Core(b) = Core(a),
         \A i, j \in 1..Len(simple.states) : Core(simple.states[i]) = Core(simple.states[j]) => i = j
  PROVE  Len(InitialCorePartitions(auto)) = Len(simple.states)
<1> DEFINE p == InitialCorePartitions(auto)  n == Len(p)  k == Len(simple.states)
           Of(i) == Core(auto.states[p[i][1] + 1])
           Here(j) == Core(simple.states[j])
           up == [i \in 1..n |-> CHOOSE j \in 1..k : Of(i) = Here(j)]
           down == [j \in 1..k |-> CHOOSE i \in 1..n : Here(j) = Of(i)]
<1>1. /\ PartitionOK(auto, p)
      /\ \A i, j \in 1..n : \A m \in ToSet(p[i]), q \in ToSet(p[j]) :
           Core(auto.states[m + 1]) = Core(auto.states[q + 1]) => i = j
  BY CorePartitionsFacts
<1> HIDE DEF p
<1>2. /\ Apart(p) /\ Members(p) = Numbers(auto)
      /\ \A i \in 1..n : \A m, q \in ToSet(p[i]) : Core(auto.states[m + 1]) = Core(auto.states[q + 1])
  BY <1>1 DEF PartitionOK
<1>3. n \in Nat /\ k \in Nat /\ Len(auto.states) \in Nat
  BY <1>2, GroupFacts, StateFacts DEF Apart
<1>4. \A i \in 1..n : p[i][1] \in ToSet(p[i])
  <2> SUFFICES ASSUME NEW i \in 1..n
               PROVE  p[i][1] \in ToSet(p[i])
    OBVIOUS
  <2> DEFINE u == p[i]
  <2>1. u \in Seq(Nat) /\ u # <<>>
    BY <1>2, GroupFacts DEF Apart
  <2> HIDE DEF u
  <2>2. Len(u) \in Nat /\ (u # <<>> <=> Len(u) >= 1) /\ \A a \in 1..Len(u) : u[a] \in ToSet(u)
    BY <2>1, ToSetFacts
  <2>3. 1 \in 1..Len(u)
    BY <2>1, <2>2
  <2>4. u[1] \in ToSet(u)
    BY <2>2, <2>3
  <2> QED  BY <2>4 DEF u
<1>5. \A i \in 1..n : p[i][1] + 1 \in 1..Len(auto.states)
  BY <1>2, <1>4, GroupOfFacts, StateFacts
<1>6. \A i, j \in 1..n : Of(i) = Of(j) => i = j
  <2> SUFFICES ASSUME NEW i \in 1..n, NEW j \in 1..n, Of(i) = Of(j)
               PROVE  i = j
    OBVIOUS
  <2>1. p[i][1] \in ToSet(p[i]) /\ p[j][1] \in ToSet(p[j])
    BY <1>4
  <2> QED  BY <1>1, <2>1
<1>7. \A i \in 1..n : \E j \in 1..k : Of(i) = Here(j)
  <2>1. \A i \in 1..n : auto.states[p[i][1] + 1] \in StatesOf(auto)
    BY <1>5 DEF StatesOf
  <2>2. \A b \in StatesOf(simple) : \E j \in 1..k : Core(b) = Here(j)
    BY DEF StatesOf
  <2> HIDE DEF Here, k, n
  <2> QED  BY <2>1, <2>2
<1>8. ASSUME NEW j \in 1..k
      PROVE  \E i \in 1..n : Here(j) = Of(i)
  <2>1. PICK a \in 1..Len(auto.states) : Here(j) = Core(auto.states[a])
    BY DEF StatesOf
  <2> DEFINE m == a - 1
  <2>2. m \in Numbers(auto) /\ m + 1 = a
    BY <1>3 DEF Numbers
  <2> HIDE DEF m
  <2>3. PICK i \in 1..n : m \in ToSet(p[i])
    BY <1>2, <2>2, GroupOfFacts
  <2>4. Core(auto.states[m + 1]) = Of(i)
    BY <1>2, <1>4, <2>3
  <2>5. Here(j) = Of(i)
    BY <2>1, <2>2, <2>4
  <2> QED  BY <2>5
<1> HIDE DEF n, k, Of
<1>9. up \in [1..n -> 1..k] /\ \A i \in 1..n : Of(i) = Here(up[i])
  BY <1>7
<1>10. down \in [1..k -> 1..n] /\ \A j \in 1..k : Here(j) = Of(down[j])
  BY <1>8
<1>11. \A i, j \in 1..k : Here(i) = Here(j) => i = j
  BY DEF k
<1> HIDE DEF up, down, Here
<1>12. \A i, j \in 1..n : up[i] = up[j] => i = j
  BY <1>6, <1>9
<1>13. \A i, j \in 1..k : down[i] = down[j] => i = j
  BY <1>10, <1>11
<1>14. n <= k
  BY <1>3, <1>9, <1>12, NoMore
<1>15. k <= n
  BY <1>3, <1>10, <1>13, NoMore
<1> QED  BY <1>3, <1>14, <1>15 DEF n, k, p

\* Merging canonical LR(1) states by core drops no edge and, where every
\* nonterminal derives some word, leaves as many states as LR(0) has.
LEMMA CoresMerge ==
  ASSUME NEW g, GrammarOK(g)
  PROVE  LET nullable == Nullable(g)  auto == CanonicalLR1(g, nullable)  p == InitialCorePartitions(auto)
         IN  /\ AllProductive(g) => Len(p) = Len(CanonicalLR0(g, nullable).states)
             /\ \A e, f \in auto.edges :
                  GroupOf(p, e[1]) = GroupOf(p, f[1]) /\ e[2] = f[2] => GroupOf(p, e[3]) = GroupOf(p, f[3])
<1> DEFINE nullable == Nullable(g)  first == FirstSets(g, nullable)  T == g.terminals  N == {NoLookahead}
           auto == AutomatonFrom(g, first, nullable, EOF)
           simple == AutomatonFrom(g, first, nullable, NoLookahead)
           p == InitialCorePartitions(auto)
<1>1. CanonicalLR1(g, nullable) = auto /\ CanonicalLR0(g, nullable) = simple
  BY DEF CanonicalLR1, CanonicalLR0, Automaton
<1>2. first \in Firsts(g) /\ \A t \in g.terminals : first[t] = {t}
  <2> HIDE DEF nullable
  <2> QED  BY FirstFacts
<1>3. AllProductive(g) => \A x \in Alphabet(g) : x \in nullable \/ first[x] # {}
  BY ProductiveBegins
<1> HIDE DEF nullable, first
<1>4. /\ Sustains(g, first, nullable, T) /\ Sustains(g, first, nullable, N)
      /\ Carries(g, first, nullable, T, T) /\ Carries(g, first, nullable, T, N)
      /\ AllProductive(g) => Carries(g, first, nullable, N, T)
  BY <1>2, <1>3, KindFacts
<1>5. EOF \in LookaheadsOf(g) /\ EOF \in T /\ NoLookahead \in LookaheadsOf(g) /\ NoLookahead \in N
  BY DEF LookaheadsOf, GrammarOK
<1> HIDE DEF N
<1>6. /\ AutomatonOK(g, auto) /\ Exact(g, first, nullable, auto)
      /\ \A i \in 1..Len(auto.states) : auto.states[i] \in SUBSET Ahead(g, T)
  BY <1>2, <1>4, <1>5, AutomatonAhead
<1>7. /\ AutomatonOK(g, simple)
      /\ \A i, j \in 1..Len(simple.states) : simple.states[i] = simple.states[j] => i = j
      /\ \A i \in 1..Len(simple.states) : simple.states[i] \in SUBSET Ahead(g, N)
  BY <1>2, <1>4, <1>5, AutomatonAhead
<1>8. StatesOK(g, auto) /\ StatesOK(g, simple) /\ EdgesOK(g, auto)
  BY <1>6, <1>7 DEF AutomatonOK
<1>9. ASSUME AllProductive(g)
      PROVE  Len(p) = Len(simple.states)
  <2>1. /\ GrammarOK(g) /\ first \in Firsts(g) /\ Carries(g, first, nullable, T, N) /\ Carries(g, first, nullable, N, T)
        /\ Sustains(g, first, nullable, T) /\ Sustains(g, first, nullable, N)
        /\ EOF \in LookaheadsOf(g) /\ EOF \in T /\ NoLookahead \in LookaheadsOf(g) /\ NoLookahead \in N
    BY <1>2, <1>4, <1>5, <1>9
  <2> HIDE DEF T
  <2>2. \A a \in StatesOf(auto) : \E b \in StatesOf(simple) : Core(a) = Core(b)
    BY ONLY <2>1, CoresReached
  <2>3. \A b \in StatesOf(simple) : \E a \in StatesOf(auto) : Core(b) = Core(a)
    BY ONLY <2>1, CoresReached
  <2>4. \A i, j \in 1..Len(simple.states) : Core(simple.states[i]) = Core(simple.states[j]) => i = j
    <3> HIDE DEF simple
    <3> SUFFICES ASSUME NEW i \in 1..Len(simple.states), NEW j \in 1..Len(simple.states),
                        Core(simple.states[i]) = Core(simple.states[j])
                 PROVE  i = j
      OBVIOUS
    <3> DEFINE a == simple.states[i]  b == simple.states[j]
    <3>1. a \in SUBSET Ahead(g, N) /\ b \in SUBSET Ahead(g, N) /\ Core(a) = Core(b)
      BY <1>7
    <3> HIDE DEF a, b
    <3>2. a = b
      BY <3>1, CoresTellApart DEF N
    <3> QED  BY <1>7, <3>2 DEF a, b
  <2> HIDE DEF auto, simple
  <2> QED  BY <1>8, <2>2, <2>4, <2>3, GroupsOfCores
<1> HIDE DEF auto, simple
<1>10. /\ PartitionOK(auto, p)
       /\ \A i, j \in 1..Len(p) : \A m \in ToSet(p[i]), q \in ToSet(p[j]) :
            Core(auto.states[m + 1]) = Core(auto.states[q + 1]) => i = j
  BY <1>8, CorePartitionsFacts
<1> HIDE DEF p
<1>11. /\ \A m \in Numbers(auto) : GroupOf(p, m) + 1 \in 1..Len(p) /\ m \in ToSet(p[GroupOf(p, m) + 1])
       /\ \A i \in 1..Len(p) : \A m \in ToSet(p[i]) : GroupOf(p, m) = i - 1
  BY <1>10, GroupOfFacts DEF PartitionOK
<1>12. \A m, n \in Numbers(auto) :
         GroupOf(p, m) = GroupOf(p, n) <=> Core(auto.states[m + 1]) = Core(auto.states[n + 1])
  <2> SUFFICES ASSUME NEW m \in Numbers(auto), NEW n \in Numbers(auto)
               PROVE  GroupOf(p, m) = GroupOf(p, n) <=> Core(auto.states[m + 1]) = Core(auto.states[n + 1])
    OBVIOUS
  <2> DEFINE i == GroupOf(p, m) + 1  j == GroupOf(p, n) + 1
  <2>1. i \in 1..Len(p) /\ m \in ToSet(p[i]) /\ j \in 1..Len(p) /\ n \in ToSet(p[j])
    BY <1>11
  <2> HIDE DEF i, j
  <2>2. GroupOf(p, m) = i - 1 /\ GroupOf(p, n) = j - 1
    BY <1>11, <2>1
  <2>3. Core(auto.states[m + 1]) = Core(auto.states[n + 1]) => i = j
    BY <1>10, <2>1
  <2>4. i = j => Core(auto.states[m + 1]) = Core(auto.states[n + 1])
    BY <1>10, <2>1 DEF PartitionOK
  <2>5. i - 1 = j - 1 => i = j
    BY <2>1
  <2> QED  BY <2>2, <2>3, <2>4, <2>5
<1>13. ASSUME NEW e \in auto.edges, NEW f \in auto.edges, GroupOf(p, e[1]) = GroupOf(p, f[1]), e[2] = f[2]
       PROVE  GroupOf(p, e[3]) = GroupOf(p, f[3])
  <2> DEFINE from == auto.states[e[1] + 1]  other == auto.states[f[1] + 1]  x == e[2]
  <2>1. /\ e[1] \in Numbers(auto) /\ e[3] \in Numbers(auto) /\ f[1] \in Numbers(auto) /\ f[3] \in Numbers(auto)
        /\ auto.states[e[3] + 1] = Goto(g, first, nullable, from, x)
        /\ auto.states[f[3] + 1] = Goto(g, first, nullable, other, x)
    BY <1>6, <1>8, <1>13 DEF EdgesOK, Exact
  <2>2. Core(from) = Core(other)
    BY <1>12, <1>13, <2>1
  <2>3. from \in SUBSET Ahead(g, T) /\ other \in SUBSET Ahead(g, T)
    BY <1>6, <1>8, <2>1, StateFacts
  <2> HIDE DEF from, other, x
  <2>4. Core(Goto(g, first, nullable, from, x)) \subseteq Core(Goto(g, first, nullable, other, x))
    BY <1>2, <1>4, <2>2, <2>3, GotoCores
  <2>5. Core(Goto(g, first, nullable, other, x)) \subseteq Core(Goto(g, first, nullable, from, x))
    BY <1>2, <1>4, <2>2, <2>3, GotoCores
  <2>6. Core(auto.states[e[3] + 1]) = Core(auto.states[f[3] + 1])
    <3> DEFINE a == Goto(g, first, nullable, from, x)  b == Goto(g, first, nullable, other, x)
    <3>1. Core(a) \subseteq Core(b) /\ Core(b) \subseteq Core(a)
      BY <2>4, <2>5
    <3>2. auto.states[e[3] + 1] = a /\ auto.states[f[3] + 1] = b
      BY <2>1
    <3> HIDE DEF a, b
    <3>3. Core(a) = Core(b)
      BY <3>1
    <3> QED  BY <3>2, <3>3
  <2> QED  BY <1>12, <2>1, <2>6
<1> QED  BY <1>1, <1>9, <1>13 DEF p, nullable

\* The states of a group have the core of their merger.
LEMMA GroupCore ==
  ASSUME NEW g, NEW auto, AutomatonOK(g, auto), NEW p, PartitionOK(auto, p),
         NEW i \in 1..Len(p), NEW m \in ToSet(p[i])
  PROVE  Core(auto.states[m + 1]) = Core(Merged(auto, p).states[i])
<1> DEFINE here == auto.states[m + 1]  all == Merged(auto, p).states[i]
<1>1. all = UNION {auto.states[n + 1] : n \in ToSet(p[i])}
  BY MergedFacts DEF MembersUnion
<1>2. here \subseteq all
  BY <1>1
<1>3. ASSUME NEW it \in all
      PROVE  <<it[1], it[2]>> \in Core(here)
  <2>1. PICK n \in ToSet(p[i]) : it \in auto.states[n + 1]
    BY <1>1
  <2>2. <<it[1], it[2]>> \in Core(auto.states[n + 1])
    BY <2>1, CoreFacts
  <2> QED  BY <2>2 DEF PartitionOK
<1> HIDE DEF here, all
<1>4. Core(here) \subseteq Core(all)
  BY <1>2 DEF Core
<1>5. Core(all) \subseteq Core(here)
  BY <1>3 DEF Core
<1> QED  BY <1>4, <1>5 DEF here, all

\* What a merged state does on a terminal, short of a reduction, comes from one
\* of its members.
LEMMA FromMember ==
  ASSUME NEW g, GrammarOK(g), NEW auto, AutomatonOK(g, auto), NEW p, PartitionOK(auto, p),
         NEW s \in Numbers(Merged(auto, p)), NEW t,
         NEW a \in OfferedIn(g, NoFollow, Merged(auto, p), s, t), a.kind # "reduce"
  PROVE  \E c \in Numbers(auto) : /\ Core(auto.states[c + 1]) = Core(Merged(auto, p).states[s + 1])
                                  /\ OfferedIn(g, NoFollow, auto, c, t) # {}
<1> DEFINE M == Merged(auto, p)  i == s + 1
<1>1. /\ Numbers(M) = 0..(Len(p) - 1) /\ \A j \in 1..Len(p) : M.states[j] = MembersUnion(auto, p[j])
      /\ \A e \in M.edges : \E d \in auto.edges : e = <<GroupOf(p, d[1]), d[2], GroupOf(p, d[3])>>
  BY MergedFacts
<1>2. Apart(p) /\ Members(p) = Numbers(auto) /\ EdgesOK(g, auto)
  BY DEF PartitionOK, AutomatonOK
<1>3. Len(p) \in Nat
  BY <1>2, GroupFacts DEF Apart
<1>4. i \in 1..Len(p) /\ s = i - 1
  BY <1>1, <1>3
<1> HIDE DEF M, i
<1>5. /\ \A m \in Numbers(auto) : GroupOf(p, m) + 1 \in 1..Len(p) /\ m \in ToSet(p[GroupOf(p, m) + 1])
      /\ \A j \in 1..Len(p) : \A m \in ToSet(p[j]) : m \in Numbers(auto)
  BY <1>2, GroupOfFacts
<1>6. \A m \in ToSet(p[i]) : Core(auto.states[m + 1]) = Core(M.states[i])
  BY <1>4, GroupCore DEF M
<1>7. a \in Offered(g, NoFollow, M.states[i], IF t = EOF THEN {} ELSE TargetsOf(M, s, t), t)
  BY DEF OfferedIn, M, i
<1>8. \A r : ReduceBy(r).kind = "reduce"
  BY DEF ReduceBy
<1>9. CASE t # EOF /\ \E to \in TargetsOf(M, s, t) : a = ShiftTo(to)
  <2>1. PICK e \in M.edges : e[1] = s /\ e[2] = t
    BY <1>9 DEF TargetsOf
  <2>2. PICK d \in auto.edges : e = <<GroupOf(p, d[1]), d[2], GroupOf(p, d[3])>>
    BY <1>1
  <2>3. GroupOf(p, d[1]) = s /\ d[2] = t /\ d[1] \in Numbers(auto)
    BY <1>2, <2>1, <2>2 DEF EdgesOK
  <2>4. d[1] \in ToSet(p[i])
    BY <1>5, <2>3 DEF i
  <2>5. d[3] \in TargetsOf(auto, d[1], t)
    BY <2>3 DEF TargetsOf
  <2>6. ShiftTo(d[3]) \in OfferedIn(g, NoFollow, auto, d[1], t)
    BY <1>9, <2>5 DEF OfferedIn, Offered
  <2> QED  BY <1>6, <2>3, <2>4, <2>6 DEF M, i
<1>10. CASE t = EOF /\ \E it \in M.states[i] : IsComplete(g, it) /\ it[1] = 0
  <2>1. PICK it \in M.states[i] : IsComplete(g, it) /\ it[1] = 0
    BY <1>10
  <2>2. PICK m \in ToSet(p[i]) : it \in auto.states[m + 1]
    BY <1>1, <1>4, <2>1 DEF MembersUnion
  <2>3. AcceptAction \in OfferedIn(g, NoFollow, auto, m, t)
    BY <1>10, <2>1, <2>2 DEF OfferedIn, Offered
  <2> QED  BY <1>4, <1>5, <1>6, <2>2, <2>3 DEF M, i
<1>11. \/ t # EOF /\ \E to \in TargetsOf(M, s, t) : a = ShiftTo(to)
       \/ t = EOF /\ \E it \in M.states[i] : IsComplete(g, it) /\ it[1] = 0
  <2> DEFINE targets == IF t = EOF THEN {} ELSE TargetsOf(M, s, t)
  <2>1. targets # {} => t # EOF /\ targets = TargetsOf(M, s, t)
    OBVIOUS
  <2> HIDE DEF targets
  <2>2. \/ \E to \in targets : a = ShiftTo(to)
        \/ a = AcceptAction /\ t = EOF /\ \E it \in M.states[i] : IsComplete(g, it) /\ it[1] = 0
        \/ \E it \in M.states[i] : IsComplete(g, it) /\ it[1] # 0 /\ a = ReduceBy(it[1])
    BY <1>7, OfferedFacts DEF targets
  <2> QED  BY <1>8, <2>1, <2>2
<1> QED  BY <1>9, <1>10, <1>11

\* What is offered, if anything, is preferred from among it.
LEMMA PreferredOffer ==
  ASSUME NEW g, GrammarOK(g), NEW follow, NEW auto, StatesOK(g, auto), NEW s \in Numbers(auto), NEW t,
         OfferedIn(g, follow, auto, s, t) # {}
  PROVE  Preferred(OfferedIn(g, follow, auto, s, t)) \in OfferedIn(g, follow, auto, s, t)
<1> DEFINE offers == OfferedIn(g, follow, auto, s, t)  items == auto.states[s + 1]
           targets == IF t = EOF THEN {} ELSE TargetsOf(auto, s, t)
<1>1. items \subseteq GoodItems(g) /\ offers = Offered(g, follow, items, targets, t)
  BY StateFacts DEF OfferedIn
<1> HIDE DEF items, offers, targets
<1>2. PICK n \in Nat : RulesOf(g) = 0..n
  BY DEF GrammarOK
<1>3. \A it \in items : it[1] \in Nat
  BY <1>1, <1>2, GoodItemFacts
<1>4. ASSUME NEW a \in offers
      PROVE  a.rule \in Nat
  <2>1. \/ \E to \in targets : a = ShiftTo(to)
        \/ a = AcceptAction
        \/ \E it \in items : a = ReduceBy(it[1])
    BY <1>1, OfferedFacts
  <2> QED  BY <1>3, <2>1 DEF ShiftTo, AcceptAction, ReduceBy
<1> QED  BY <1>4, PreferredFacts DEF offers

-----------------------------------------------------------------------------
(* Conflicts. *)

\* Two actions are offered: whatever a shift's target, that is a conflict.
Contested(g, follow, items, targets, t) ==
  \E a, b \in Offered(g, follow, items, targets, t) : a # b
Single(targets) == \A a, b \in targets : a = b

\* A finite set has more than one element if two of them differ.
LEMMA ManyFacts ==
  ASSUME NEW S, IsFiniteSet(S)
  PROVE  Cardinality(S) > 1 <=> \E a, b \in S : a # b
<1>1. Cardinality(S) \in Nat /\ (Cardinality(S) = 0 <=> S = {}) /\ (Cardinality(S) = 1 <=> \E x : S = {x})
  BY FS_CardinalityType, FS_EmptySet, FS_Singleton
<1>2. (S = {} \/ \E x : S = {x}) <=> ~\E a, b \in S : a # b
  OBVIOUS
<1> HIDE DEF Cardinality
<1>3. Cardinality(S) > 1 <=> ~(Cardinality(S) = 0 \/ Cardinality(S) = 1)
  BY <1>1
<1> QED  BY <1>1, <1>2, <1>3

\* A state is offered finitely many actions, so that it has a conflict if two differ.
LEMMA OffersFinite ==
  ASSUME NEW g, GrammarOK(g), NEW follow, NEW items \in SUBSET GoodItems(g),
         NEW targets, IsFiniteSet(targets), NEW t
  PROVE  Cardinality(Offered(g, follow, items, targets, t)) > 1 <=> Contested(g, follow, items, targets, t)
<1> DEFINE offers == Offered(g, follow, items, targets, t)
           shift == [s \in targets |-> ShiftTo(s)]  reduce == [it \in items |-> ReduceBy(it[1])]
           U == {shift[s] : s \in targets}  V == {reduce[it] : it \in items}
           all == (U \cup V) \cup {AcceptAction}
<1>1. \A a \in offers : a \in all
  <2> SUFFICES ASSUME NEW a \in offers
               PROVE  a \in all
    OBVIOUS
  <2>1. \/ \E s \in targets : a = ShiftTo(s)
        \/ a = AcceptAction
        \/ \E it \in items : a = ReduceBy(it[1])
    BY OfferedFacts
  <2> QED  BY <2>1
<1>2. IsFiniteSet(items)
  BY GoodItemsFinite, FS_Subset
<1>3. IsFiniteSet(U)
  <2>1. shift \in [targets -> U]
    OBVIOUS
  <2> HIDE DEF shift, U
  <2>2. IsFiniteSet({shift[s] : s \in targets})
    BY <2>1, ImageFinite
  <2> QED  BY <2>2 DEF U
<1>4. IsFiniteSet(V)
  <2>1. reduce \in [items -> V]
    OBVIOUS
  <2> HIDE DEF reduce, V
  <2>2. IsFiniteSet({reduce[it] : it \in items})
    BY <1>2, <2>1, ImageFinite
  <2> QED  BY <2>2 DEF V
<1> HIDE DEF offers, U, V
<1>5. IsFiniteSet(all)
  BY <1>3, <1>4, FS_Union, FS_AddElement
<1> HIDE DEF all
<1>6. IsFiniteSet(offers)
  BY <1>1, <1>5, FS_Subset
<1>7. Cardinality(offers) > 1 <=> \E a, b \in offers : a # b
  BY <1>6, ManyFacts
<1> QED  BY <1>7 DEF Contested, offers

\* A state with more to reduce, and a shift if the other has one, is contested
\* if the other one is.
LEMMA ContestedMore ==
  ASSUME NEW g, NEW follow, NEW items, NEW targets, NEW t, NEW others, NEW more, NEW all,
         Single(targets), targets # {} => more # {},
         \A it \in items : IsComplete(g, it) => \E o \in all :
           /\ o[1] = it[1] /\ o[2] = it[2]
           /\ t \in ReduceOn(g, follow, it) => t \in ReduceOn(g, others, o),
         Contested(g, follow, items, targets, t)
  PROVE  Contested(g, others, all, more, t)
<1> DEFINE offers == Offered(g, follow, items, targets, t)  there == Offered(g, others, all, more, t)
<1>1. ASSUME NEW a \in offers
      PROVE  (\E s \in targets : a = ShiftTo(s)) \/ (a \in there /\ a.kind # "shift")
  <2>1. CASE \E it \in items : IsComplete(g, it) /\ it[1] = 0 /\ t = EOF /\ a = AcceptAction
    <3>1. PICK it \in items : IsComplete(g, it) /\ it[1] = 0 /\ t = EOF /\ a = AcceptAction
      BY <2>1
    <3>2. PICK o \in all : o[1] = it[1] /\ o[2] = it[2]
      BY <3>1
    <3>3. IsComplete(g, o) /\ o[1] = 0
      BY <3>1, <3>2 DEF IsComplete
    <3>4. a \in there
      BY <3>1, <3>3 DEF Offered
    <3> QED  BY <3>1, <3>4 DEF AcceptAction
  <2>2. CASE \E it \in items : IsComplete(g, it) /\ it[1] # 0 /\ t \in ReduceOn(g, follow, it) /\ a = ReduceBy(it[1])
    <3>1. PICK it \in items : IsComplete(g, it) /\ it[1] # 0 /\ t \in ReduceOn(g, follow, it) /\ a = ReduceBy(it[1])
      BY <2>2
    <3>2. PICK o \in all : o[1] = it[1] /\ o[2] = it[2] /\ t \in ReduceOn(g, others, o)
      BY <3>1
    <3>3. IsComplete(g, o) /\ o[1] # 0 /\ a = ReduceBy(o[1])
      BY <3>1, <3>2 DEF IsComplete
    <3>4. a \in there
      BY <3>2, <3>3 DEF Offered
    <3> QED  BY <3>1, <3>4 DEF ReduceBy
  <2>3. \/ \E s \in targets : a = ShiftTo(s)
        \/ \E it \in items : IsComplete(g, it) /\ it[1] = 0 /\ t = EOF /\ a = AcceptAction
        \/ \E it \in items : IsComplete(g, it) /\ it[1] # 0 /\ t \in ReduceOn(g, follow, it) /\ a = ReduceBy(it[1])
    BY DEF Offered
  <2> QED  BY <2>1, <2>2, <2>3
<1>2. \A s \in more : ShiftTo(s) \in there /\ ShiftTo(s).kind = "shift"
  BY DEF Offered, ShiftTo
<1>3. PICK a \in offers, b \in offers : a # b
  BY DEF Contested
<1> HIDE DEF offers, there
<1>4. CASE a \in there /\ a.kind # "shift"
  <2>1. CASE b \in there
    BY <1>3, <1>4, <2>1 DEF Contested, there
  <2>2. CASE \E s \in targets : b = ShiftTo(s)
    <3>1. PICK u \in more : TRUE
      BY <2>2
    <3>2. ShiftTo(u) \in there /\ ShiftTo(u) # a
      BY <1>2, <1>4
    <3> QED  BY <1>4, <3>2 DEF Contested, there
  <2> QED  BY <1>1, <2>1, <2>2
<1>5. CASE \E s \in targets : a = ShiftTo(s)
  <2>1. PICK u \in more : TRUE
    BY <1>5
  <2>2. b \in there /\ b.kind # "shift"
    <3>1. ~\E s \in targets : b = ShiftTo(s)
      BY <1>3, <1>5 DEF Single
    <3> QED  BY <1>1, <3>1
  <2>3. ShiftTo(u) \in there /\ ShiftTo(u) # b
    BY <1>2, <2>2
  <2> QED  BY <2>2, <2>3 DEF Contested, there
<1> QED  BY <1>1, <1>4, <1>5

\* The states a shift of a state leads to.
Shifts(auto, s, t) == IF t = EOF THEN {} ELSE TargetsOf(auto, s, t)

\* A table without conflicts is of states none of which is contested.
LEMMA CleanFacts ==
  ASSUME NEW g, GrammarOK(g), NEW follow, NEW auto, AutomatonOK(g, auto)
  PROVE  TableFor(g, follow, auto).conflicts = {} <=>
           \A s \in Numbers(auto), t \in g.terminals :
             ~Contested(g, follow, auto.states[s + 1], Shifts(auto, s, t), t)
<1> DEFINE T == TableFor(g, follow, auto)
           offers == [s \in Numbers(auto) |-> [t \in g.terminals |-> OfferedIn(g, follow, auto, s, t)]]
<1>1. T.conflicts = {c \in Numbers(auto) \X g.terminals : Cardinality(offers[c[1]][c[2]]) > 1}
  BY DEF TableFor, Numbers
<1>2. \A s \in Numbers(auto), t \in g.terminals : offers[s][t] = OfferedIn(g, follow, auto, s, t)
  OBVIOUS
<1> HIDE DEF T, offers
<1>3. StatesOK(g, auto) /\ EdgesOK(g, auto)
  BY DEF AutomatonOK
<1>4. IsFiniteSet(Numbers(auto))
  <2>1. Len(auto.states) \in Nat
    BY <1>3, StateFacts
  <2>2. 0 \in Int /\ Len(auto.states) - 1 \in Int
    BY <2>1
  <2> QED  BY <2>2, FS_Interval DEF Numbers
<1>5. ASSUME NEW s \in Numbers(auto), NEW t \in g.terminals
      PROVE  Cardinality(offers[s][t]) > 1 <=> Contested(g, follow, auto.states[s + 1], Shifts(auto, s, t), t)
  <2> DEFINE items == auto.states[s + 1]  targets == Shifts(auto, s, t)
  <2>1. items \in SUBSET GoodItems(g)
    BY <1>3, StateFacts
  <2>2. targets \subseteq Numbers(auto)
    BY <1>3, TargetFacts DEF Shifts
  <2>3. IsFiniteSet(targets)
    <3> HIDE DEF targets
    <3> QED  BY <1>4, <2>2, FS_Subset
  <2>4. offers[s][t] = Offered(g, follow, items, targets, t)
    BY <1>2 DEF OfferedIn, Shifts
  <2> HIDE DEF items, targets
  <2> QED  BY <2>1, <2>3, <2>4, OffersFinite DEF items, targets
<1>6. T.conflicts = {} <=> \A s \in Numbers(auto), t \in g.terminals : ~(Cardinality(offers[s][t]) > 1)
  <2>1. \A s \in Numbers(auto), t \in g.terminals : <<s, t>> \in T.conflicts <=> Cardinality(offers[s][t]) > 1
    BY <1>1
  <2>2. \A c \in T.conflicts : c[1] \in Numbers(auto) /\ c[2] \in g.terminals /\ c = <<c[1], c[2]>>
    BY <1>1
  <2>3. T.conflicts = {} => \A s \in Numbers(auto), t \in g.terminals : <<s, t>> \notin T.conflicts
    OBVIOUS
  <2>4. ASSUME T.conflicts # {}
        PROVE  \E s \in Numbers(auto), t \in g.terminals : <<s, t>> \in T.conflicts
    BY <2>2, <2>4
  <2> QED  BY <2>1, <2>3, <2>4
<1> QED  BY <1>5, <1>6 DEF T

\* Whether some member leaves on a terminal.
SomeShift(auto, members, t) == IF t # EOF /\ \E m \in ToSet(members) : Leaves(auto, m, t) THEN {1} ELSE {}

\* The members can be one state where that is not contested.
LEMMA MergeConflictsFacts ==
  ASSUME NEW g, GrammarOK(g), NEW auto, AutomatonOK(g, auto), NEW members, ToSet(members) \subseteq Numbers(auto)
  PROVE  MergeConflicts(g, auto, members) = {} <=>
           \A t \in g.terminals : ~Contested(g, NoFollow, MembersUnion(auto, members), SomeShift(auto, members, t), t)
<1> DEFINE items == MembersUnion(auto, members)
           shifts == {e[2] : e \in {d \in auto.edges : d[1] \in ToSet(members)}} \cap (g.terminals \ {EOF})
           want(t) == IF t \in shifts THEN {1} ELSE {}
           count(t) == Cardinality(Offered(g, NoFollow, items, want(t), t))
<1>1. MergeConflicts(g, auto, members) = {t \in g.terminals : count(t) > 1}
  BY DEF MergeConflicts
<1>2. items \in SUBSET GoodItems(g)
  BY StateFacts DEF AutomatonOK, MembersUnion
<1>3. \A t \in g.terminals : want(t) = SomeShift(auto, members, t)
  <2> SUFFICES ASSUME NEW t \in g.terminals
               PROVE  t \in shifts <=> t # EOF /\ \E m \in ToSet(members) : Leaves(auto, m, t)
    BY DEF SomeShift
  <2>1. ASSUME t \in shifts
        PROVE  t # EOF /\ \E m \in ToSet(members) : Leaves(auto, m, t)
    <3>1. PICK e \in auto.edges : e[1] \in ToSet(members) /\ e[2] = t
      BY <2>1
    <3>2. e[3] \in TargetsOf(auto, e[1], t)
      BY <3>1 DEF TargetsOf
    <3> QED  BY <2>1, <3>1, <3>2 DEF Leaves
  <2>2. ASSUME t # EOF, NEW m \in ToSet(members), Leaves(auto, m, t)
        PROVE  t \in shifts
    <3>1. PICK e \in auto.edges : e[1] = m /\ e[2] = t
      BY <2>2 DEF Leaves, TargetsOf
    <3> QED  BY <2>2, <3>1
  <2> QED  BY <2>1, <2>2
<1> HIDE DEF items, want
<1>4. ASSUME NEW t \in g.terminals
      PROVE  count(t) > 1 <=> Contested(g, NoFollow, items, SomeShift(auto, members, t), t)
  <2> DEFINE targets == SomeShift(auto, members, t)
  <2>1. IsFiniteSet(targets)
    BY FS_EmptySet, FS_Singleton DEF SomeShift
  <2>2. want(t) = targets
    BY <1>3
  <2> HIDE DEF targets
  <2> QED  BY <1>2, <2>1, <2>2, OffersFinite DEF targets
<1> HIDE DEF count
<1> QED  BY <1>1, <1>4 DEF items

\* Fewer members leave less to contest.
LEMMA FewerConflicts ==
  ASSUME NEW g, GrammarOK(g), NEW auto, AutomatonOK(g, auto),
         NEW members, ToSet(members) \subseteq Numbers(auto), MergeConflicts(g, auto, members) = {},
         NEW some, ToSet(some) \subseteq ToSet(members)
  PROVE  MergeConflicts(g, auto, some) = {}
<1> SUFFICES ASSUME NEW t \in g.terminals,
                    Contested(g, NoFollow, MembersUnion(auto, some), SomeShift(auto, some, t), t)
             PROVE  FALSE
  BY MergeConflictsFacts
<1> DEFINE items == MembersUnion(auto, some)  all == MembersUnion(auto, members)
           targets == SomeShift(auto, some, t)  more == SomeShift(auto, members, t)
<1>1. items \subseteq all
  BY DEF MembersUnion
<1>2. Single(targets) /\ (targets # {} => more # {})
  BY DEF SomeShift, Single
<1>3. Contested(g, NoFollow, items, targets, t)
  OBVIOUS
<1> HIDE DEF items, all, targets, more
<1>4. \A it \in items : IsComplete(g, it) => \E o \in all :
        /\ o[1] = it[1] /\ o[2] = it[2]
        /\ t \in ReduceOn(g, NoFollow, it) => t \in ReduceOn(g, NoFollow, o)
  BY <1>1
<1>5. Contested(g, NoFollow, all, more, t)
  BY <1>2, <1>3, <1>4, ContestedMore
<1> QED  BY <1>5, MergeConflictsFacts DEF all, more

\* At most one transition of a state is on a symbol.
SingleTargets(auto) == \A s, x : Single(TargetsOf(auto, s, x))

\* That is so if transitions are what the states say, and no two are the same,
LEMMA ExactTargets ==
  ASSUME NEW g, NEW first, NEW nullable, NEW auto, AutomatonOK(g, auto), Exact(g, first, nullable, auto),
         \A i, j \in 1..Len(auto.states) : auto.states[i] = auto.states[j] => i = j
  PROVE  SingleTargets(auto)
<1> SUFFICES ASSUME NEW s, NEW x, NEW a \in TargetsOf(auto, s, x), NEW b \in TargetsOf(auto, s, x)
             PROVE  a = b
  BY DEF SingleTargets, Single
<1>1. PICK e \in auto.edges : e[1] = s /\ e[2] = x /\ e[3] = a
  BY DEF TargetsOf
<1>2. PICK f \in auto.edges : f[1] = s /\ f[2] = x /\ f[3] = b
  BY DEF TargetsOf
<1>3. auto.states[a + 1] = auto.states[b + 1]
  BY <1>1, <1>2 DEF Exact
<1>4. a \in Numbers(auto) /\ b \in Numbers(auto)
  BY <1>1, <1>2 DEF AutomatonOK, EdgesOK
<1>5. a + 1 \in 1..Len(auto.states) /\ b + 1 \in 1..Len(auto.states) /\ a \in Nat /\ b \in Nat
  BY <1>4, StateFacts DEF AutomatonOK
<1>6. a + 1 = b + 1
  BY <1>3, <1>5
<1> QED  BY <1>5, <1>6

\* and still so for merged states: the first edge wins.
LEMMA MergedTargets ==
  ASSUME NEW g, NEW auto, AutomatonOK(g, auto), SingleTargets(auto), NEW p, PartitionOK(auto, p)
  PROVE  SingleTargets(Merged(auto, p))
<1> DEFINE M == Merged(auto, p)  grp == [m \in Numbers(auto) |-> GroupOf(p, m)]
           wins(e) == \A d \in auto.edges : grp[d[1]] = grp[e[1]] /\ d[2] = e[2] => e[1] <= d[1]
<1>1. M.edges = {<<grp[e[1]], e[2], grp[e[3]]>> : e \in {d \in auto.edges : wins(d)}}
  BY DEF Merged
<1>2. \A d \in auto.edges : d[1] \in Numbers(auto) /\ d[1] \in Nat
  <2>1. Numbers(auto) \subseteq Nat
    BY StateFacts DEF AutomatonOK
  <2> QED  BY <2>1 DEF AutomatonOK, EdgesOK
<1> HIDE DEF M, grp
<1> SUFFICES ASSUME NEW s, NEW x, NEW a \in TargetsOf(M, s, x), NEW b \in TargetsOf(M, s, x)
             PROVE  a = b
  BY DEF SingleTargets, Single, M
<1>3. PICK e \in auto.edges : wins(e) /\ grp[e[1]] = s /\ e[2] = x /\ grp[e[3]] = a
  BY <1>1 DEF TargetsOf
<1>4. PICK f \in auto.edges : wins(f) /\ grp[f[1]] = s /\ f[2] = x /\ grp[f[3]] = b
  BY <1>1 DEF TargetsOf
<1>5. e[1] <= f[1] /\ f[1] <= e[1]
  BY <1>3, <1>4
<1>6. e[1] = f[1]
  BY <1>2, <1>5
<1>7. e[3] \in TargetsOf(auto, e[1], x) /\ f[3] \in TargetsOf(auto, e[1], x)
  BY <1>3, <1>4, <1>6 DEF TargetsOf
<1>8. e[3] = f[3]
  BY <1>7 DEF SingleTargets, Single
<1> QED  BY <1>3, <1>4, <1>8

\* A merged table is without conflicts if every group can be one state.
LEMMA MergedClean ==
  ASSUME NEW g, GrammarOK(g), NEW auto, AutomatonOK(g, auto), SingleTargets(auto),
         NEW p, PartitionOK(auto, p)
  PROVE  TableFor(g, NoFollow, Merged(auto, p)).conflicts = {} <=>
           \A i \in 1..Len(p) : MergeConflicts(g, auto, p[i]) = {}
<1> DEFINE M == Merged(auto, p)
<1>1. AutomatonOK(g, M) /\ SingleTargets(M)
  BY MergedOK, MergedTargets
<1>2. /\ Numbers(M) = 0..(Len(p) - 1) /\ \A i \in 1..Len(p) : M.states[i] = MembersUnion(auto, p[i])
      /\ \A e \in M.edges : \E d \in auto.edges : e = <<GroupOf(p, d[1]), d[2], GroupOf(p, d[3])>>
      /\ \A d \in auto.edges : Leaves(M, GroupOf(p, d[1]), d[2])
  BY MergedFacts
<1> HIDE DEF M
<1>3. Apart(p) /\ Members(p) = Numbers(auto) /\ Len(p) \in Nat
  BY GroupFacts DEF PartitionOK, Apart
<1>4. /\ \A m \in Numbers(auto) : GroupOf(p, m) + 1 \in 1..Len(p) /\ m \in ToSet(p[GroupOf(p, m) + 1])
      /\ \A i \in 1..Len(p) : \A m \in ToSet(p[i]) : GroupOf(p, m) = i - 1 /\ m \in Numbers(auto)
  BY <1>3, GroupOfFacts
<1>5. ASSUME NEW i \in 1..Len(p), NEW t
      PROVE  Shifts(M, i - 1, t) # {} <=> SomeShift(auto, p[i], t) # {}
  <2>1. ASSUME Leaves(M, i - 1, t)
        PROVE  \E m \in ToSet(p[i]) : Leaves(auto, m, t)
    <3>1. PICK e \in M.edges : e[1] = i - 1 /\ e[2] = t
      BY <2>1 DEF Leaves, TargetsOf
    <3>2. PICK d \in auto.edges : e = <<GroupOf(p, d[1]), d[2], GroupOf(p, d[3])>>
      BY <1>2
    <3>3. d[1] \in Numbers(auto) /\ GroupOf(p, d[1]) = i - 1 /\ d[2] = t
      BY <3>1, <3>2 DEF AutomatonOK, EdgesOK
    <3>4. d[1] \in ToSet(p[i])
      <4>1. (i - 1) + 1 = i
        BY <1>3
      <4> QED  BY <1>4, <3>3, <4>1
    <3>5. d[3] \in TargetsOf(auto, d[1], t)
      BY <3>3 DEF TargetsOf
    <3> QED  BY <3>4, <3>5 DEF Leaves
  <2>2. ASSUME NEW m \in ToSet(p[i]), Leaves(auto, m, t)
        PROVE  Leaves(M, i - 1, t)
    <3>1. PICK d \in auto.edges : d[1] = m /\ d[2] = t
      BY <2>2 DEF Leaves, TargetsOf
    <3>2. GroupOf(p, m) = i - 1
      BY <1>4
    <3> QED  BY <1>2, <3>1, <3>2
  <2>3. SomeShift(auto, p[i], t) # {} <=> t # EOF /\ \E m \in ToSet(p[i]) : Leaves(auto, m, t)
    BY DEF SomeShift
  <2>4. Shifts(M, i - 1, t) # {} <=> t # EOF /\ Leaves(M, i - 1, t)
    BY DEF Shifts, Leaves
  <2> QED  BY <2>1, <2>2, <2>3, <2>4
<1>6. ASSUME NEW i \in 1..Len(p), NEW t
      PROVE  Contested(g, NoFollow, M.states[i], Shifts(M, i - 1, t), t)
               <=> Contested(g, NoFollow, MembersUnion(auto, p[i]), SomeShift(auto, p[i], t), t)
  <2> DEFINE items == MembersUnion(auto, p[i])  some == Shifts(M, i - 1, t)  other == SomeShift(auto, p[i], t)
  <2>1. M.states[i] = items
    BY <1>2
  <2>2. Single(some) /\ Single(other)
    BY <1>1 DEF SingleTargets, Single, Shifts, SomeShift
  <2>3. some # {} <=> other # {}
    BY <1>5
  <2> HIDE DEF items, some, other
  <2>4. \A it \in items : IsComplete(g, it) => \E o \in items :
          /\ o[1] = it[1] /\ o[2] = it[2]
          /\ t \in ReduceOn(g, NoFollow, it) => t \in ReduceOn(g, NoFollow, o)
    OBVIOUS
  <2>5. Contested(g, NoFollow, items, some, t) => Contested(g, NoFollow, items, other, t)
    BY <2>2, <2>3, <2>4, ContestedMore
  <2>6. Contested(g, NoFollow, items, other, t) => Contested(g, NoFollow, items, some, t)
    BY <2>2, <2>3, <2>4, ContestedMore
  <2> QED  BY <2>1, <2>5, <2>6 DEF items, some, other
<1>7. TableFor(g, NoFollow, M).conflicts = {} <=>
        \A i \in 1..Len(p), t \in g.terminals : ~Contested(g, NoFollow, M.states[i], Shifts(M, i - 1, t), t)
  <2>1. TableFor(g, NoFollow, M).conflicts = {} <=>
          \A s \in Numbers(M), t \in g.terminals : ~Contested(g, NoFollow, M.states[s + 1], Shifts(M, s, t), t)
    BY <1>1, CleanFacts
  <2>2. \A s \in Numbers(M) : s + 1 \in 1..Len(p) /\ (s + 1) - 1 = s
    BY <1>2, <1>3
  <2>3. \A i \in 1..Len(p) : i - 1 \in Numbers(M) /\ (i - 1) + 1 = i
    BY <1>2, <1>3
  <2> DEFINE Bad(i, s, t) == Contested(g, NoFollow, M.states[i], Shifts(M, s, t), t)
  <2>4. \A s \in Numbers(M) : \A t : Bad(s + 1, s, t) => \E i \in 1..Len(p) : Bad(i, i - 1, t)
    <3> HIDE DEF Bad
    <3> QED  BY <2>2
  <2>5. \A i \in 1..Len(p) : \A t : Bad(i, i - 1, t) => \E s \in Numbers(M) : Bad(s + 1, s, t)
    <3> HIDE DEF Bad
    <3> QED  BY <2>3
  <2>6. TableFor(g, NoFollow, M).conflicts = {} <=> \A s \in Numbers(M), t \in g.terminals : ~Bad(s + 1, s, t)
    BY <2>1
  <2> HIDE DEF Bad
  <2>7. TableFor(g, NoFollow, M).conflicts = {} <=> \A i \in 1..Len(p), t \in g.terminals : ~Bad(i, i - 1, t)
    BY <2>4, <2>5, <2>6
  <2> QED  BY <2>7 DEF Bad
<1>8. \A i \in 1..Len(p) :
        MergeConflicts(g, auto, p[i]) = {} <=>
          \A t \in g.terminals : ~Contested(g, NoFollow, MembersUnion(auto, p[i]), SomeShift(auto, p[i], t), t)
  <2>1. \A i \in 1..Len(p) : ToSet(p[i]) \subseteq Numbers(auto)
    BY <1>4
  <2> QED  BY <2>1, MergeConflictsFacts
<1> QED  BY <1>6, <1>7, <1>8 DEF M

\* A state of its own is as contested as in its table.
LEMMA CanonicalClean ==
  ASSUME NEW g, GrammarOK(g), NEW auto, AutomatonOK(g, auto), SingleTargets(auto)
  PROVE  TableFor(g, NoFollow, auto).conflicts = {} <=>
           \A m \in Numbers(auto) : \A s : ToSet(s) = {m} => MergeConflicts(g, auto, s) = {}
<1>1. ASSUME NEW m \in Numbers(auto), NEW s, ToSet(s) = {m}, NEW t
      PROVE  Contested(g, NoFollow, auto.states[m + 1], Shifts(auto, m, t), t)
               <=> Contested(g, NoFollow, MembersUnion(auto, s), SomeShift(auto, s, t), t)
  <2> DEFINE items == auto.states[m + 1]  some == Shifts(auto, m, t)  other == SomeShift(auto, s, t)
  <2>1. MembersUnion(auto, s) = items
    BY <1>1 DEF MembersUnion
  <2>2. Single(some) /\ Single(other)
    BY DEF SingleTargets, Single, Shifts, SomeShift
  <2>3. some # {} <=> other # {}
    BY <1>1 DEF Shifts, SomeShift, Leaves
  <2> HIDE DEF items, some, other
  <2>4. \A it \in items : IsComplete(g, it) => \E o \in items :
          /\ o[1] = it[1] /\ o[2] = it[2]
          /\ t \in ReduceOn(g, NoFollow, it) => t \in ReduceOn(g, NoFollow, o)
    OBVIOUS
  <2>5. Contested(g, NoFollow, items, some, t) => Contested(g, NoFollow, items, other, t)
    BY <2>2, <2>3, <2>4, ContestedMore
  <2>6. Contested(g, NoFollow, items, other, t) => Contested(g, NoFollow, items, some, t)
    BY <2>2, <2>3, <2>4, ContestedMore
  <2> QED  BY <2>1, <2>5, <2>6 DEF items, some, other
<1>2. ASSUME NEW m \in Numbers(auto), NEW s, ToSet(s) = {m}
      PROVE  MergeConflicts(g, auto, s) = {} <=>
               \A t \in g.terminals : ~Contested(g, NoFollow, auto.states[m + 1], Shifts(auto, m, t), t)
  <2>1. ToSet(s) \subseteq Numbers(auto)
    BY <1>2
  <2>2. MergeConflicts(g, auto, s) = {} <=>
          \A t \in g.terminals : ~Contested(g, NoFollow, MembersUnion(auto, s), SomeShift(auto, s, t), t)
    BY <2>1, MergeConflictsFacts
  <2> QED  BY <1>1, <1>2, <2>2
<1>3. TableFor(g, NoFollow, auto).conflicts = {} <=>
        \A m \in Numbers(auto), t \in g.terminals :
          ~Contested(g, NoFollow, auto.states[m + 1], Shifts(auto, m, t), t)
  BY CleanFacts
<1>4. \A m \in Numbers(auto) : \E s : ToSet(s) = {m}
  <2> SUFFICES ASSUME NEW m \in Numbers(auto)
               PROVE  \E s : ToSet(s) = {m}
    OBVIOUS
  <2> DEFINE s == [i \in {1} |-> m]
  <2>1. ToSet(s) = {m}
    BY DEF ToSet
  <2> QED  BY <2>1
<1> QED  BY <1>2, <1>3, <1>4

\* Joining adequate lists of groups gives one.
LEMMA FlattenAdequate ==
  ASSUME NEW g, NEW auto, NEW d \in Seq(Partitions), \A i \in 1..Len(d) : Adequate(g, auto, d[i])
  PROVE  Adequate(g, auto, FlattenSeq(d))
<1> DEFINE S == Seq(Nat)  Good == [n \in Nat |-> {q \in Seq(S) : Adequate(g, auto, q)}]
<1>1. Partitions = Seq(S) /\ Good \in [Nat -> SUBSET Seq(S)]
  BY DEF Partitions
<1>2. Len(d) \in Nat /\ \A n \in 1..Len(d) : d[n] \in Seq(S)
  BY <1>1, LenProperties, ElementOfSeq
<1>3. \A n \in Nat : \A q : q \in Good[n] <=> q \in Seq(S) /\ Adequate(g, auto, q)
  OBVIOUS
<1>4. <<>> \in Good[0]
  <2> DEFINE none == <<>>
  <2>1. none \in Seq(S) /\ Len(none) = 0
    BY EmptySeq
  <2> HIDE DEF none, S
  <2>2. Adequate(g, auto, none)
    BY <2>1 DEF Adequate
  <2>3. none \in Good[0]
    BY <2>1, <2>2
  <2> QED  BY <2>3 DEF none
<1> HIDE DEF S, Good
<1>5. \A n \in 1..Len(d) : \A l \in Good[n - 1] : l \o d[n] \in Good[n]
  <2> SUFFICES ASSUME NEW n \in 1..Len(d), NEW l \in Good[n - 1]
               PROVE  l \o d[n] \in Good[n]
    OBVIOUS
  <2>1. n \in Nat /\ n - 1 \in Nat
    BY <1>2
  <2> DEFINE more == d[n]  all == l \o more
  <2>2. l \in Seq(S) /\ more \in Seq(S) /\ Adequate(g, auto, l) /\ Adequate(g, auto, more)
    BY <1>2, <1>3, <2>1
  <2> HIDE DEF more
  <2>3. /\ all \in Seq(S) /\ Len(l) \in Nat /\ Len(more) \in Nat /\ Len(all) = Len(l) + Len(more)
        /\ \A i \in 1..Len(l) : all[i] = l[i]
        /\ \A i \in 1..Len(more) : all[Len(l) + i] = more[i]
    BY <2>2, JoinFacts, LenProperties
  <2> HIDE DEF all
  <2>4. ASSUME NEW i \in 1..Len(all)
        PROVE  Len(all[i]) <= 1 \/ MergeConflicts(g, auto, all[i]) = {}
    <3>1. CASE i \in 1..Len(l)
      BY <2>2, <2>3, <3>1 DEF Adequate
    <3>2. CASE i \notin 1..Len(l)
      <4> DEFINE j == i - Len(l)
      <4>1. j \in 1..Len(more) /\ Len(l) + j = i
        BY <2>3, <3>2
      <4> HIDE DEF j
      <4> QED  BY <2>2, <2>3, <4>1 DEF Adequate
    <3> QED  BY <3>1, <3>2
  <2>5. Adequate(g, auto, all)
    BY <2>4 DEF Adequate
  <2> QED  BY <1>3, <2>1, <2>3, <2>5 DEF all, more
<1>6. FlattenSeq(d) \in Good[Len(d)]
  <2>1. d \in Seq(Seq(S))
    BY <1>1
  <2> QED  BY <1>1, <1>4, <1>5, <2>1, FlattenInduction
<1> QED  BY <1>2, <1>3, <1>6

\* Splitting leaves no group of several states with a conflict,
LEMMA SplitAdequate ==
  ASSUME NEW g, NEW auto, NEW p \in Partitions
  PROVE  Adequate(g, auto, SplitInadequate(g, auto, p))
<1> DEFINE part(i) == IF Len(p[i]) <= 1 \/ MergeConflicts(g, auto, p[i]) = {} THEN <<p[i]>>
                      ELSE SplitByCompatibility(g, auto, p[i])
           d == [i \in 1..Len(p) |-> part(i)]
<1>1. Len(p) \in Nat /\ \A i \in 1..Len(p) : p[i] \in Seq(Nat)
  BY GroupFacts
<1>2. ASSUME NEW i \in 1..Len(p)
      PROVE  part(i) \in Partitions /\ Adequate(g, auto, part(i))
  <2> DEFINE s == p[i]  one == <<s>>  many == SplitByCompatibility(g, auto, s)
  <2>1. s \in Seq(Nat)
    BY <1>1
  <2>2. IF Len(s) <= 1 \/ MergeConflicts(g, auto, s) = {} THEN part(i) = one ELSE part(i) = many
    OBVIOUS
  <2> HIDE DEF s, part
  <2>3. one \in Seq(Seq(Nat)) /\ Len(one) = 1 /\ one[1] = s
    BY <2>1, SingletonFacts
  <2>4. many \in Partitions /\ Adequate(g, auto, many)
    BY <2>1, SplitFacts
  <2> HIDE DEF one, many
  <2>5. Len(s) <= 1 \/ MergeConflicts(g, auto, s) = {} => Adequate(g, auto, one)
    <3>1. \A k \in 1..Len(one) : k = 1
      BY <2>3
    <3> QED  BY <2>3, <3>1 DEF Adequate
  <2>6. one \in Partitions
    BY <2>3 DEF Partitions
  <2> QED  BY <2>2, <2>4, <2>5, <2>6
<1>3. SplitInadequate(g, auto, p) = FlattenSeq(d)
  BY DEF SplitInadequate
<1>4. d \in Seq(Partitions) /\ Len(d) = Len(p) /\ \A i \in 1..Len(p) : d[i] = part(i)
  <2>1. \A i \in 1..Len(p) : d[i] = part(i)
    OBVIOUS
  <2>2. d = [i \in 1..Len(p) |-> d[i]]
    OBVIOUS
  <2> HIDE DEF d, part
  <2>3. \A i \in 1..Len(p) : d[i] \in Partitions
    BY <1>2, <2>1
  <2> QED  BY <1>1, <2>1, <2>2, <2>3, IsASeq
<1> HIDE DEF d, part
<1>5. \A i \in 1..Len(d) : Adequate(g, auto, d[i])
  BY <1>2, <1>4
<1> QED  BY <1>3, <1>4, <1>5, FlattenAdequate

\* and IELR ends with such a partition.
LEMMA IELRAdequate ==
  ASSUME NEW g, NEW auto, NEW p, Apart(p), IsFiniteSet(Members(p))
  PROVE  Adequate(g, auto, IELRPartition(g, auto, p))
<1> DEFINE q == IELRPartition(g, auto, p)  mid == SplitInadequate(g, auto, q)
<1>1. Refines(q, p) /\ RefineByTransitions(auto, mid) = q
  BY IELRFacts
<1> HIDE DEF q
<1>2. q \in Partitions /\ Apart(q)
  BY <1>1 DEF Refines, Apart
<1>3. mid \in Partitions /\ Refines(mid, q) /\ Adequate(g, auto, mid)
  BY <1>2, SplitInadequateFacts, SplitAdequate
<1>4. Apart(mid)
  BY <1>3 DEF Refines
<1> HIDE DEF mid
<1>5. Refines(q, mid)
  BY <1>1, <1>3, <1>4, RefineByTransitionsFacts
<1>6. Len(q) \in Nat /\ Len(mid) \in Nat
  BY <1>2, <1>3, GroupFacts
<1>7. Len(q) <= Len(mid) /\ Len(mid) <= Len(q) /\ (Len(q) = Len(mid) => q = mid)
  BY <1>3, <1>5 DEF Refines
<1>8. q = mid
  BY <1>6, <1>7
<1> QED  BY <1>3, <1>8 DEF q

\* Joining the single groups of a partition gives it back.
LEMMA FlattenSingles ==
  ASSUME NEW p \in Partitions, NEW d \in Seq(Partitions), Len(d) = Len(p),
         \A i \in 1..Len(p) : Len(d[i]) = 1 /\ d[i][1] = p[i]
  PROVE  FlattenSeq(d) = p
<1> DEFINE S == Seq(Nat)  N == Len(p)  upTo(n) == SubSeq(p, 1, n)
           Good == [n \in Nat |-> {q \in Seq(S) : n \in 0..N => q = upTo(n)}]
<1>1. p \in Seq(S) /\ Partitions = Seq(S) /\ N \in Nat /\ \A i \in 1..N : p[i] \in S
  BY GroupFacts DEF Partitions
<1>2. Len(d) = N /\ \A n \in 1..N : d[n] \in Seq(S)
  BY <1>1, ElementOfSeq
<1>3. \A n \in 1..N : upTo(n) = Append(upTo(n - 1), p[n])
  <2> HIDE DEF S
  <2> QED  BY <1>1, PrefixGrows
<1>4. upTo(N) = p /\ upTo(0) = <<>> /\ \A n \in 0..N : upTo(n) \in Seq(S)
  <2> HIDE DEF S
  <2>1. upTo(N) = p
    BY <1>1, SubSeqFull
  <2>2. \A n \in 0..N : upTo(n) \in Seq(S) /\ Len(upTo(n)) = n
    BY <1>1, PrefixFacts
  <2>3. upTo(0) \in Seq(S) /\ Len(upTo(0)) = 0
    BY <1>1, <2>2
  <2> HIDE DEF upTo
  <2>4. upTo(0) = <<>>
    BY <2>3, EmptySeq
  <2> QED  BY <2>1, <2>2, <2>4
<1> HIDE DEF upTo
<1>5. Good \in [Nat -> SUBSET Seq(S)] /\ \A n \in Nat : \A q : q \in Good[n] <=> q \in Seq(S) /\ (n \in 0..N => q = upTo(n))
  OBVIOUS
<1>6. <<>> \in Good[0]
  <2> DEFINE none == <<>>
  <2>1. none \in Seq(S) /\ upTo(0) = none
    BY <1>4, EmptySeq
  <2> HIDE DEF none, S
  <2> QED  BY <2>1 DEF none
<1> HIDE DEF Good, S
<1>7. ASSUME NEW n \in 1..N, NEW q \in Good[n - 1]
      PROVE  q \o d[n] \in Good[n]
  <2>1. n \in Nat /\ n - 1 \in Nat /\ n - 1 \in 0..N /\ n \in 0..N
    BY <1>1
  <2> DEFINE more == d[n]  s == p[n]  before == upTo(n - 1)
  <2>2. q \in Seq(S) /\ q = before
    BY <1>5, <2>1
  <2>3. more \in Seq(S) /\ Len(more) = 1 /\ more[1] = s /\ s \in S
    BY <1>1, <1>2
  <2>4. upTo(n) = Append(before, s)
    BY <1>3
  <2> HIDE DEF more, s, before
  <2>5. more = <<s>>
    <3>1. <<s>> \in Seq(S) /\ Len(<<s>>) = 1 /\ <<s>>[1] = s
      BY <2>3, SingletonFacts
    <3> DEFINE one == <<s>>
    <3>2. one \in Seq(S) /\ Len(one) = 1 /\ one[1] = s
      BY <3>1
    <3> HIDE DEF one
    <3>3. \A k \in 1..Len(more) : more[k] = one[k]
      <4>1. \A k \in 1..Len(more) : k = 1
        BY <2>3
      <4> QED  BY <2>3, <3>2, <4>1
    <3>4. more = one
      BY <2>3, <3>2, <3>3, SeqEqual
    <3> QED  BY <3>4 DEF one
  <2>6. q \o more = Append(before, s)
    BY <2>2, <2>3, <2>5, AppendIsConcat
  <2>7. q \o more \in Seq(S)
    BY <2>2, <2>3, JoinFacts
  <2>8. q \o more \in Good[n]
    BY <1>5, <2>1, <2>4, <2>6, <2>7
  <2> QED  BY <2>8 DEF more
<1>8. FlattenSeq(d) \in Good[Len(d)]
  <2>1. d \in Seq(Seq(S))
    BY <1>1
  <2> HIDE DEF N
  <2> QED  BY <1>2, <1>5, <1>6, <1>7, <2>1, FlattenInduction
<1> QED  BY <1>1, <1>2, <1>4, <1>5, <1>8

\* A group of states that have the same key is not divided.
LEMMA GroupBySame ==
  ASSUME NEW key, NEW members \in Seq(Nat), OnceEach(members), members # <<>>,
         \A m, n \in ToSet(members) : key[m] = key[n]
  PROVE  Len(GroupBy(key, members)) = 1 /\ GroupBy(key, members)[1] = members
<1> DEFINE q == GroupBy(key, members)
<1>1. q \in Partitions /\ Differ(key, q) /\ Divides(q, members)
  BY GroupByFacts
<1> HIDE DEF q
<1>2. Apart(q) /\ Members(q) = ToSet(members) /\ Len(q) > 0 /\ (Len(q) = 1 => q[1] = members)
  BY <1>1 DEF Divides
<1>3. Len(q) \in Nat /\ \A i \in 1..Len(q) : q[i] \in Seq(Nat) /\ q[i] # <<>>
  BY <1>1, <1>2, GroupFacts DEF Apart
<1>4. ASSUME NEW i \in 1..Len(q)
      PROVE  q[i][1] \in ToSet(members)
  <2> DEFINE u == q[i]
  <2>1. u \in Seq(Nat) /\ u # <<>>
    BY <1>3
  <2>2. ToSet(u) \subseteq Members(q)
    BY DEF Members
  <2> HIDE DEF u
  <2>3. Len(u) \in Nat /\ (u # <<>> <=> Len(u) >= 1) /\ \A a \in 1..Len(u) : u[a] \in ToSet(u)
    BY <2>1, ToSetFacts
  <2>4. 1 \in 1..Len(u)
    BY <2>1, <2>3
  <2>5. u[1] \in ToSet(members)
    BY <1>2, <2>2, <2>3, <2>4
  <2> QED  BY <2>5 DEF u
<1>5. Len(q) = 1
  <2>1. 1 \in 1..Len(q) /\ Len(q) \in 1..Len(q)
    BY <1>2, <1>3
  <2>2. key[q[1][1]] = key[q[Len(q)][1]]
    BY <1>4, <2>1
  <2> QED  BY <1>1, <2>1, <2>2 DEF Differ
<1> QED  BY <1>2, <1>5 DEF q

\* IELR does not split groups that can be states, if their members leave alike.
LEMMA IELRStays ==
  ASSUME NEW g, NEW auto, EdgesOK(g, auto), NEW p, PartitionOK(auto, p),
         \A i \in 1..Len(p) : MergeConflicts(g, auto, p[i]) = {},
         \A m, n \in Numbers(auto) : GroupOf(p, m) = GroupOf(p, n) =>
           \A e \in auto.edges : e[1] = m =>
             \E f \in auto.edges : f[1] = n /\ f[2] = e[2] /\ GroupOf(p, f[3]) = GroupOf(p, e[3])
  PROVE  IELRPartition(g, auto, p) = p
<1>1. Apart(p) /\ p \in Partitions /\ Members(p) = Numbers(auto)
  BY DEF PartitionOK, Apart
<1>2. Len(p) \in Nat /\ \A i \in 1..Len(p) : p[i] \in Seq(Nat) /\ p[i] # <<>> /\ OnceEach(p[i])
  BY <1>1, GroupFacts DEF Apart
<1>3. SplitInadequate(g, auto, p) = p
  <2> DEFINE part(i) == IF Len(p[i]) <= 1 \/ MergeConflicts(g, auto, p[i]) = {} THEN <<p[i]>>
                        ELSE SplitByCompatibility(g, auto, p[i])
             d == [i \in 1..Len(p) |-> part(i)]
  <2>1. SplitInadequate(g, auto, p) = FlattenSeq(d)
    BY DEF SplitInadequate
  <2>2. \A i \in 1..Len(p) : part(i) = <<p[i]>>
    OBVIOUS
  <2> HIDE DEF part
  <2>3. \A i \in 1..Len(p) : d[i] \in Partitions /\ Len(d[i]) = 1 /\ d[i][1] = p[i]
    <3> SUFFICES ASSUME NEW i \in 1..Len(p)
                 PROVE  d[i] \in Partitions /\ Len(d[i]) = 1 /\ d[i][1] = p[i]
      OBVIOUS
    <3> DEFINE s == p[i]  one == <<s>>
    <3>1. s \in Seq(Nat) /\ d[i] = one
      BY <1>2, <2>2
    <3> HIDE DEF s, d
    <3>2. one \in Seq(Seq(Nat)) /\ Len(one) = 1 /\ one[1] = s
      BY <3>1, SingletonFacts
    <3> QED  BY <3>1, <3>2 DEF Partitions, s
  <2>4. d = [i \in 1..Len(p) |-> d[i]]
    OBVIOUS
  <2> HIDE DEF d
  <2>5. d \in Seq(Partitions) /\ Len(d) = Len(p)
    BY <1>2, <2>3, <2>4, IsASeq
  <2> QED  BY <1>1, <2>1, <2>3, <2>5, FlattenSingles
<1>4. RefineByTransitions(auto, p) = p
  <2> DEFINE grp == [m \in Numbers(auto) |-> GroupOf(p, m)]
             out(m) == {<<e[2], grp[e[3]]>> : e \in {d \in auto.edges : d[1] = m}}
             signature == [m \in Numbers(auto) |-> out(m)]
             d == [i \in 1..Len(p) |-> GroupBy(signature, p[i])]
  <2>1. RefineByTransitions(auto, p) = FlattenSeq(d)
    BY DEF RefineByTransitions
  <2>2. \A e \in auto.edges : grp[e[3]] = GroupOf(p, e[3])
    BY DEF EdgesOK
  <2> HIDE DEF grp
  <2>3. ASSUME NEW m \in Numbers(auto), NEW n \in Numbers(auto), GroupOf(p, m) = GroupOf(p, n)
        PROVE  out(m) \subseteq out(n)
    <3> SUFFICES ASSUME NEW e \in auto.edges, e[1] = m
                 PROVE  <<e[2], grp[e[3]]>> \in out(n)
      OBVIOUS
    <3>1. PICK f \in auto.edges : f[1] = n /\ f[2] = e[2] /\ GroupOf(p, f[3]) = GroupOf(p, e[3])
      BY <2>3
    <3>2. grp[f[3]] = grp[e[3]]
      BY <2>2, <3>1
    <3>3. <<f[2], grp[f[3]]>> \in out(n)
      BY <3>1
    <3> QED  BY <3>1, <3>2, <3>3
  <2>4. ASSUME NEW i \in 1..Len(p), NEW m \in ToSet(p[i]), NEW n \in ToSet(p[i])
        PROVE  signature[m] = signature[n]
    <3>1. m \in Numbers(auto) /\ n \in Numbers(auto) /\ GroupOf(p, m) = GroupOf(p, n)
      BY <1>1, GroupOfFacts
    <3>2. signature[m] = out(m) /\ signature[n] = out(n)
      BY <3>1
    <3> HIDE DEF signature, out
    <3>3. out(m) \subseteq out(n) /\ out(n) \subseteq out(m)
      BY <2>3, <3>1
    <3>4. out(m) = out(n)
      BY <3>3
    <3> QED  BY <3>2, <3>4
  <2>5. \A i \in 1..Len(p) : d[i] = GroupBy(signature, p[i])
    OBVIOUS
  <2>6. d = [i \in 1..Len(p) |-> d[i]]
    OBVIOUS
  <2> HIDE DEF d, signature
  <2>7. ASSUME NEW i \in 1..Len(p)
        PROVE  d[i] \in Partitions /\ Len(d[i]) = 1 /\ d[i][1] = p[i]
    <3> DEFINE s == p[i]
    <3>1. s \in Seq(Nat) /\ OnceEach(s) /\ s # <<>> /\ \A m, n \in ToSet(s) : signature[m] = signature[n]
      BY <1>2, <2>4
    <3>2. d[i] = GroupBy(signature, s)
      BY <2>5
    <3> HIDE DEF s
    <3>3. GroupBy(signature, s) \in Partitions
      BY <3>1, GroupByFacts
    <3>4. Len(GroupBy(signature, s)) = 1 /\ GroupBy(signature, s)[1] = s
      BY <3>1, GroupBySame
    <3> QED  BY <3>2, <3>3, <3>4 DEF s
  <2>8. d \in Seq(Partitions) /\ Len(d) = Len(p)
    BY <1>2, <2>6, <2>7, IsASeq
  <2> QED  BY <1>1, <2>1, <2>7, <2>8, FlattenSingles
<1> DEFINE A == Partitions  I == {p}  m == [q \in I |-> 0]
           step == [q \in A |-> RefineByTransitions(auto, SplitInadequate(g, auto, q))]
<1>5. step \in [A -> A]
  BY SplitInadequateFacts, RefineByTransitionsFacts
<1>6. I \in SUBSET A /\ m \in [I -> Nat] /\ p \in I
  BY <1>1
<1>7. \A q \in I : step[q] = q
  BY <1>1, <1>3, <1>4
<1>8. \A q \in I : step[q] \in I /\ (step[q] # q => m[step[q]] < m[q])
  BY <1>7
<1>9. IELRPartition(g, auto, p) = Fixpoint(step, p)
  BY DEF IELRPartition
<1>10. Fixpoint(step, p) \in I
  <2> HIDE DEF A, I, m, step
  <2> QED  BY <1>5, <1>6, <1>8, FixpointFacts
<1> QED  BY <1>9, <1>10

-----------------------------------------------------------------------------
(* FOLLOW. *)

\* Items of the same rules and dots await the same.
LEMMA AwaitsCore ==
  ASSUME NEW g, NEW some, NEW others, Core(some) \subseteq Core(others), NEW x, Awaits(g, some, x)
  PROVE  Awaits(g, others, x)
<1>1. PICK it \in some : ~IsComplete(g, it) /\ AfterDot(g, it) = x
  BY DEF Awaits
<1>2. <<it[1], it[2]>> \in Core(others)
  BY CoreFacts
<1>3. PICK like \in others : like[1] = it[1] /\ like[2] = it[2]
  BY <1>2, CoreFacts
<1> QED  BY <1>1, <1>3 DEF Awaits, IsComplete, AfterDot

\* There is an edge because an item awaits its symbol.
LEMMA EdgeAwaits ==
  ASSUME NEW g, GrammarOK(g), NEW first \in Firsts(g), NEW nullable, NEW auto, AutomatonOK(g, auto),
         Exact(g, first, nullable, auto), NEW e \in auto.edges
  PROVE  Awaits(g, auto.states[e[1] + 1], e[2])
<1> DEFINE from == auto.states[e[1] + 1]  to == Goto(g, first, nullable, from, e[2])
<1>1. /\ e[1] \in Numbers(auto) /\ e[3] \in Numbers(auto) \ {0} /\ StatesOK(g, auto)
      /\ auto.states[e[3] + 1] = to
  BY DEF AutomatonOK, EdgesOK, Exact
<1>2. from \in SUBSET GoodItems(g) /\ Inner(to)
  BY <1>1, StateFacts
<1>3. to # {}
  BY <1>2 DEF Inner
<1> HIDE DEF from
<1> QED  BY <1>2, <1>3, GotoFacts DEF from

\* The end of a rule.
LEMMA RestFacts ==
  ASSUME NEW g, GrammarOK(g), NEW r \in RulesOf(g), NEW i \in 1..Len(Rhs(g, r))
  PROVE  Suffix(Rhs(g, r), i + 1) \in Seq(Alphabet(g))
<1> DEFINE rhs == Rhs(g, r)
<1>1. rhs \in Seq(Alphabet(g)) /\ Len(rhs) \in Nat /\ \A k \in 1..Len(rhs) : rhs[k] \in Alphabet(g)
  BY RhsFacts
<1>2. i \in 1..Len(rhs)
  OBVIOUS
<1> HIDE DEF rhs
<1>3. i + 1 \in Int /\ Len(rhs) \in Int /\ \A k \in i + 1..Len(rhs) : rhs[k] \in Alphabet(g)
  BY <1>1, <1>2
<1>4. Suffix(rhs, i + 1) \in Seq(Alphabet(g))
  BY <1>3, SubSeqProperties DEF Suffix
<1> QED  BY <1>4 DEF rhs

\* A round adds terminals to the sets,
LEMMA GrowFollowTyped ==
  ASSUME NEW g, GrammarOK(g), NEW first \in Firsts(g), NEW nullable,
         NEW follow \in [g.nonterminals -> SUBSET g.terminals]
  PROVE  /\ GrowFollow(g, nullable, first, follow) \in [g.nonterminals -> SUBSET g.terminals]
         /\ \A x \in g.nonterminals : follow[x] \subseteq GrowFollow(g, nullable, first, follow)[x]
<1>1. ASSUME NEW r \in RulesOf(g), NEW x
      PROVE  Trailers(g, nullable, first, follow, r, x) \subseteq g.terminals
  <2> SUFFICES ASSUME NEW i \in 1..Len(Rhs(g, r))
               PROVE  Trail(nullable, first, Suffix(Rhs(g, r), i + 1), follow[g.rules[r].lhs]) \subseteq g.terminals
    BY DEF Trailers
  <2> DEFINE rest == Suffix(Rhs(g, r), i + 1)
  <2>1. rest \in Seq(Alphabet(g))
    BY RestFacts
  <2> HIDE DEF rest
  <2>2. FirstSequence(first, nullable, rest) \subseteq g.terminals
    BY <2>1, FirstSequenceTyped
  <2>3. follow[g.rules[r].lhs] \subseteq g.terminals
    BY DEF GrammarOK
  <2>4. Trail(nullable, first, rest, follow[g.rules[r].lhs]) \subseteq g.terminals
    BY <2>2, <2>3 DEF Trail
  <2> QED  BY <2>4 DEF rest
<1>2. \A x \in g.nonterminals : GrowFollow(g, nullable, first, follow)[x] \subseteq g.terminals
  BY <1>1 DEF GrowFollow
<1>3. GrowFollow(g, nullable, first, follow) \in [g.nonterminals -> SUBSET g.terminals]
  BY <1>2 DEF GrowFollow
<1> QED  BY <1>3 DEF GrowFollow

\* and rounds are made until none does.
LEMMA FollowFacts ==
  ASSUME NEW g, GrammarOK(g), NEW first \in Firsts(g), NEW nullable
  PROVE  LET follow == FollowFrom(g, nullable, first)
         IN  /\ follow \in [g.nonterminals -> SUBSET g.terminals] /\ EOF \in follow[g.start]
             /\ GrowFollow(g, nullable, first, follow) = follow
<1> DEFINE A == [g.nonterminals -> SUBSET g.terminals]
           step == [follow \in A |-> GrowFollow(g, nullable, first, follow)]
           start == [x \in g.nonterminals |-> IF x = g.start THEN {EOF} ELSE {}]
           U == g.nonterminals \X g.terminals
           Pairs(follow) == {p \in U : p[2] \in follow[p[1]]}
           I == {follow \in A : EOF \in follow[g.start]}
           m == [follow \in I |-> Cardinality(U) - Cardinality(Pairs(follow))]
<1>1. IsFiniteSet(U)
  BY FS_Product DEF GrammarOK
<1>2. step \in [A -> A] /\ I \in SUBSET A
  BY GrowFollowTyped
<1>3. start \in I
  <2>1. 0 \in RulesOf(g) /\ EOF \in g.terminals /\ g.rules[0].lhs = g.start
    BY DEF GrammarOK
  <2>2. g.start \in g.nonterminals
    BY <2>1 DEF GrammarOK
  <2> QED  BY <2>1, <2>2
<1>4. ASSUME NEW follow \in I
      PROVE  /\ m[follow] \in Nat /\ step[follow] \in I
             /\ step[follow] # follow => m[step[follow]] < m[follow]
  <2> DEFINE next == GrowFollow(g, nullable, first, follow)
  <2>1. next \in A /\ \A x \in g.nonterminals : follow[x] \subseteq next[x]
    BY GrowFollowTyped
  <2>2. step[follow] = next
    OBVIOUS
  <2>3. g.start \in g.nonterminals
    BY DEF GrammarOK
  <2> HIDE DEF next, step
  <2>4. next \in I
    BY <2>1, <2>3
  <2>5. Pairs(follow) \subseteq Pairs(next) /\ Pairs(next) \subseteq U
    BY <2>1
  <2>6. Pairs(follow) = Pairs(next) => follow = next
    <3> SUFFICES ASSUME Pairs(follow) = Pairs(next)
                 PROVE  follow = next
      OBVIOUS
    <3>1. \A x \in g.nonterminals, t \in g.terminals : t \in follow[x] <=> t \in next[x]
      <4> SUFFICES ASSUME NEW x \in g.nonterminals, NEW t \in g.terminals
                   PROVE  t \in follow[x] <=> t \in next[x]
        OBVIOUS
      <4>1. <<x, t>> \in U
        OBVIOUS
      <4>2. <<x, t>> \in Pairs(follow) <=> <<x, t>> \in Pairs(next)
        OBVIOUS
      <4> QED  BY <4>1, <4>2
    <3>2. \A x \in g.nonterminals : follow[x] = next[x]
      BY <2>1, <3>1
    <3> QED  BY <2>1, <3>2
  <2>7. m[follow] = Cardinality(U) - Cardinality(Pairs(follow)) /\ m[next] = Cardinality(U) - Cardinality(Pairs(next))
    BY <2>4
  <2> HIDE DEF m, Pairs, U, I
  <2>8. Cardinality(U) - Cardinality(Pairs(follow)) \in Nat
    BY <1>1, <2>5, GrowthMeasure
  <2>9. follow # next => Cardinality(U) - Cardinality(Pairs(next)) < Cardinality(U) - Cardinality(Pairs(follow))
    BY <1>1, <2>5, <2>6, GrowthMeasure
  <2> QED  BY <2>2, <2>4, <2>7, <2>8, <2>9
<1>5. m \in [I -> Nat]
  <2>1. m = [follow \in I |-> m[follow]]
    OBVIOUS
  <2> HIDE DEF m, I
  <2> QED  BY <1>4, <2>1
<1>6. FollowFrom(g, nullable, first) = Fixpoint(step, start)
  BY DEF FollowFrom
<1>7. Fixpoint(step, start) \in I /\ step[Fixpoint(step, start)] = Fixpoint(step, start)
  <2> HIDE DEF A, I, step, start, m
  <2> QED  BY <1>2, <1>3, <1>4, <1>5, FixpointFacts
<1> HIDE DEF start
<1> QED  BY <1>6, <1>7

\* What closing over its items and moving their dots keeps, transitions keep.
LEMMA ItemsKept ==
  ASSUME NEW g, GrammarOK(g), NEW first \in Firsts(g), NEW nullable, NEW K \in SUBSET GoodItems(g),
         \A it \in K, r \in RulesOf(g), la \in LookaheadsOf(g) :
           /\ ~IsComplete(g, it) /\ AfterDot(g, it) = g.rules[r].lhs
           /\ la \in Lookaheads(g, first, nullable, it)
           => <<r, 0, la>> \in K,
         \A it \in K : ~IsComplete(g, it) => <<it[1], it[2] + 1, it[3]>> \in K
  PROVE  /\ \A kernel \in SUBSET K : Closure(g, first, nullable, kernel) \in SUBSET K
         /\ KeptByGoto(g, first, nullable, SUBSET K)
<1> DEFINE P == SUBSET K
<1>1. P \in SUBSET SUBSET Items(g)
  BY DEF GoodItems
<1>2. ASSUME NEW set \in P
      PROVE  GrowItems(g, first, nullable, set) \in P
  <2>1. set \in SUBSET Items(g)
    BY <1>1
  <2> SUFFICES ASSUME NEW it \in GrowItems(g, first, nullable, set), it \notin set
               PROVE  it \in K
    OBVIOUS
  <2>2. PICK by \in set, r \in RulesOf(g), la \in LookaheadsOf(g) :
          /\ it = <<r, 0, la>> /\ la \in Lookaheads(g, first, nullable, by)
          /\ ~IsComplete(g, by) /\ AfterDot(g, by) = g.rules[r].lhs
    BY <2>1, GrowItemsFacts
  <2> QED  BY <2>2
<1> HIDE DEF P
<1>3. \A kernel \in P : Closure(g, first, nullable, kernel) \in P
  BY <1>1, <1>2, ClosureInduction
<1>4. ASSUME NEW items \in P, NEW x
      PROVE  Goto(g, first, nullable, items, x) \in P
  <2> DEFINE more == {<<it[1], it[2] + 1, it[3]>> :
                        it \in {i \in items : ~IsComplete(g, i) /\ AfterDot(g, i) = x}}
  <2>1. more \in P
    BY DEF P
  <2>2. Goto(g, first, nullable, items, x) = Closure(g, first, nullable, more)
    BY DEF Goto
  <2> HIDE DEF more
  <2> QED  BY <1>3, <2>1, <2>2
<1> QED  BY <1>3, <1>4 DEF P, KeptByGoto

\* The items that look ahead to what can follow what they derive,
Tracked(g, follow) ==
  {it \in Ahead(g, g.terminals) : it[3] \in follow[g.rules[it[1]].lhs]}

\* of which all items of the canonical LR(1) states are.
LEMMA LookaheadsFollow ==
  ASSUME NEW g, GrammarOK(g), NEW first \in Firsts(g), \A t \in g.terminals : first[t] = {t}, NEW nullable
  PROVE  LET auto == AutomatonFrom(g, first, nullable, EOF)
         IN  \A i \in 1..Len(auto.states) :
               auto.states[i] \in SUBSET Tracked(g, FollowFrom(g, nullable, first))
<1> DEFINE auto == AutomatonFrom(g, first, nullable, EOF)  follow == FollowFrom(g, nullable, first)
           K == Tracked(g, follow)  from == Closure(g, first, nullable, {<<0, 0, EOF>>})
<1>1. /\ follow \in [g.nonterminals -> SUBSET g.terminals] /\ EOF \in follow[g.start]
      /\ GrowFollow(g, nullable, first, follow) = follow
  BY FollowFacts
<1> HIDE DEF follow
<1>2. K \in SUBSET GoodItems(g)
  BY DEF Tracked, Ahead
<1>3. ASSUME NEW it \in K, NEW r \in RulesOf(g), NEW la \in LookaheadsOf(g),
             ~IsComplete(g, it), AfterDot(g, it) = g.rules[r].lhs, la \in Lookaheads(g, first, nullable, it)
      PROVE  <<r, 0, la>> \in K
  <2> DEFINE q == it[1]  i == it[2] + 1  x == g.rules[r].lhs  rest == Suffix(Rhs(g, q), i + 1)
  <2>1. it \in Ahead(g, g.terminals) /\ it[3] \in follow[g.rules[q].lhs] /\ it[3] \in g.terminals /\ it \in GoodItems(g)
    BY DEF Tracked, Ahead
  <2>2. q \in RulesOf(g) /\ it[2] \in Nat /\ i \in 1..Len(Rhs(g, q)) /\ Rhs(g, q)[i] = x
    BY <1>3, <2>1, GoodItemFacts DEF AfterDot
  <2>3. i + 1 = it[2] + 2
    BY <2>2
  <2>4. /\ Lookaheads(g, first, nullable, it) = Trail(nullable, first, rest, first[it[3]])
        /\ Lookaheads(g, first, nullable, it) \subseteq g.terminals
    BY <1>3, <2>1, <2>3, LookaheadFacts
  <2>5. la \in g.terminals /\ first[it[3]] = {it[3]}
    BY <1>3, <2>1, <2>4
  <2>6. la \in Trail(nullable, first, rest, follow[g.rules[q].lhs])
    <3> HIDE DEF rest, q
    <3> QED  BY <1>3, <2>1, <2>4, <2>5 DEF Trail
  <2>7. la \in Trailers(g, nullable, first, follow, q, x)
    <3> HIDE DEF i, x, q
    <3> QED  BY <2>2, <2>6 DEF Trailers
  <2>8. x \in g.nonterminals
    BY DEF GrammarOK
  <2>9. la \in follow[x]
    <3> HIDE DEF x, q
    <3>1. la \in GrowFollow(g, nullable, first, follow)[x]
      BY <2>2, <2>7, <2>8 DEF GrowFollow
    <3> QED  BY <1>1, <3>1
  <2>10. <<r, 0, la>> \in GoodItems(g)
    BY StartItems
  <2> QED  BY <2>5, <2>9, <2>10 DEF Tracked, Ahead
<1>4. ASSUME NEW it \in K, ~IsComplete(g, it)
      PROVE  <<it[1], it[2] + 1, it[3]>> \in K
  <2>1. it \in GoodItems(g) /\ it[3] \in g.terminals /\ it[3] \in follow[g.rules[it[1]].lhs]
    BY DEF Tracked, Ahead
  <2>2. it \in Items(g) /\ it[2] + 1 \in 1..Len(Rhs(g, it[1]))
    BY <1>4, <2>1, GoodItemFacts
  <2>3. it[1] \in RulesOf(g) /\ it[2] \in Nat /\ it[3] \in LookaheadsOf(g)
    BY <2>2, ItemFacts
  <2> QED  BY <2>1, <2>2, <2>3 DEF Tracked, Ahead, GoodItems, Items, LookaheadsOf
<1>5. EOF \in LookaheadsOf(g) /\ <<0, 0, EOF>> \in K
  <2>1. EOF \in g.terminals /\ 0 \in RulesOf(g) /\ g.rules[0].lhs = g.start
    BY DEF GrammarOK
  <2>2. EOF \in LookaheadsOf(g)
    BY <2>1 DEF LookaheadsOf
  <2>3. <<0, 0, EOF>> \in GoodItems(g)
    BY <2>1, <2>2, StartItems
  <2> QED  BY <1>1, <2>1, <2>2, <2>3 DEF Tracked, Ahead
<1> HIDE DEF K
<1>6. /\ \A kernel \in SUBSET K : Closure(g, first, nullable, kernel) \in SUBSET K
      /\ KeptByGoto(g, first, nullable, SUBSET K)
  BY <1>2, <1>3, <1>4, ItemsKept
<1> DEFINE P == SUBSET K
<1>7. from \in P /\ KeptByGoto(g, first, nullable, P)
  BY <1>5, <1>6
<1> HIDE DEF P
<1>8. auto \in Growing(g, first, nullable, from, P)
  BY <1>5, <1>7, AutomatonFromFacts
<1> HIDE DEF auto, from
<1>9. \A i \in 1..Len(auto.states) : auto.states[i] \in P
  BY <1>8 DEF Growing
<1> QED  BY <1>9 DEF P, K, auto, follow

-----------------------------------------------------------------------------
(* The algorithms compared. *)

\* If the table of the LR(0) automaton has no conflicts with FOLLOW, the
\* canonical states of a core can be one state.
LEMMA SimpleClean ==
  ASSUME NEW g, GrammarOK(g),
         TableFor(g, FollowSets(g, Nullable(g)), CanonicalLR0(g, Nullable(g))).conflicts = {}
  PROVE  LET auto == CanonicalLR1(g, Nullable(g))  p == InitialCorePartitions(auto)
         IN  \A i \in 1..Len(p) : MergeConflicts(g, auto, p[i]) = {}
<1> DEFINE nullable == Nullable(g)  first == FirstSets(g, nullable)  T == g.terminals  N == {NoLookahead}
           auto == AutomatonFrom(g, first, nullable, EOF)
           simple == AutomatonFrom(g, first, nullable, NoLookahead)
           follow == FollowFrom(g, nullable, first)
           p == InitialCorePartitions(auto)
<1>1. /\ CanonicalLR1(g, nullable) = auto /\ CanonicalLR0(g, nullable) = simple
      /\ FollowSets(g, nullable) = follow
  BY DEF CanonicalLR1, CanonicalLR0, Automaton, FollowSets
<1>2. TableFor(g, follow, simple).conflicts = {}
  BY <1>1
<1>3. first \in Firsts(g) /\ \A t \in g.terminals : first[t] = {t}
  <2> HIDE DEF nullable
  <2> QED  BY FirstFacts
<1> HIDE DEF nullable, first
<1>4. Sustains(g, first, nullable, T) /\ Sustains(g, first, nullable, N) /\ Carries(g, first, nullable, T, N)
  BY <1>3, KindFacts
<1>5. EOF \in LookaheadsOf(g) /\ EOF \in T /\ NoLookahead \in LookaheadsOf(g) /\ NoLookahead \in N
      /\ NoLookahead \notin T
  BY DEF LookaheadsOf, GrammarOK
<1> HIDE DEF N
<1>6. AutomatonOK(g, auto) /\ Exact(g, first, nullable, auto)
  BY <1>3, <1>4, <1>5, AutomatonAhead
<1>7. /\ AutomatonOK(g, simple)
      /\ \A i \in 1..Len(simple.states) : simple.states[i] \in SUBSET Ahead(g, N)
      /\ \A s \in Numbers(simple), x \in ToSet(g.symbols) :
           Awaits(g, simple.states[s + 1], x) => Leaves(simple, s, x)
  BY <1>3, <1>4, <1>5, AutomatonAhead
<1>8. \A i \in 1..Len(auto.states) : auto.states[i] \in SUBSET Tracked(g, follow)
  BY <1>3, LookaheadsFollow
<1>9. \A a \in StatesOf(auto) : \E b \in StatesOf(simple) : Core(a) \subseteq Core(b)
  <2>1. /\ GrammarOK(g) /\ first \in Firsts(g) /\ Carries(g, first, nullable, T, N)
        /\ Sustains(g, first, nullable, T) /\ Sustains(g, first, nullable, N)
        /\ EOF \in LookaheadsOf(g) /\ EOF \in T /\ NoLookahead \in LookaheadsOf(g) /\ NoLookahead \in N
    BY <1>3, <1>4, <1>5
  <2> HIDE DEF T
  <2> QED  BY ONLY <2>1, CoresReached
<1> HIDE DEF auto, simple, follow
<1>10. StatesOK(g, auto) /\ StatesOK(g, simple) /\ PartitionOK(auto, p)
  BY <1>6, <1>7, CorePartitionsFacts DEF AutomatonOK
<1> HIDE DEF p
<1>11. /\ \A i \in 1..Len(p) : p[i] \in Seq(Nat) /\ p[i] # <<>>
       /\ \A i \in 1..Len(p) : \A m \in ToSet(p[i]) : m \in Numbers(auto)
       /\ \A i \in 1..Len(p) : \A m, n \in ToSet(p[i]) : Core(auto.states[m + 1]) = Core(auto.states[n + 1])
  <2>1. /\ Apart(p) /\ Members(p) = Numbers(auto)
        /\ \A i \in 1..Len(p) : \A m, n \in ToSet(p[i]) : Core(auto.states[m + 1]) = Core(auto.states[n + 1])
    BY <1>10 DEF PartitionOK
  <2>2. \A i \in 1..Len(p) : p[i] \in Seq(Nat) /\ p[i] # <<>>
    BY <2>1, GroupFacts DEF Apart
  <2>3. \A i \in 1..Len(p) : \A m \in ToSet(p[i]) : m \in Numbers(auto)
    BY <2>1, GroupOfFacts
  <2> QED  BY <2>1, <2>2, <2>3
<1>12. \A m \in Numbers(auto) : m + 1 \in 1..Len(auto.states)
  BY <1>10, StateFacts
<1>13. \A s \in Numbers(simple), t \in g.terminals :
         ~Contested(g, follow, simple.states[s + 1], Shifts(simple, s, t), t)
  BY <1>2, <1>7, CleanFacts
<1>14. ASSUME NEW i \in 1..Len(p), NEW t \in g.terminals,
              Contested(g, NoFollow, MembersUnion(auto, p[i]), SomeShift(auto, p[i], t), t)
       PROVE  FALSE
  <2> DEFINE u == p[i]
  <2>1. \E m \in ToSet(u) : TRUE
    <3>1. u \in Seq(Nat) /\ u # <<>>
      BY <1>11
    <3> HIDE DEF u
    <3>2. Len(u) \in Nat /\ (u # <<>> <=> Len(u) >= 1) /\ \A a \in 1..Len(u) : u[a] \in ToSet(u)
      BY <3>1, ToSetFacts
    <3>3. 1 \in 1..Len(u)
      BY <3>1, <3>2
    <3> QED  BY <3>2, <3>3
  <2>2. PICK m \in ToSet(u) : TRUE
    BY <2>1
  <2> DEFINE here == auto.states[m + 1]
  <2>3. PICK b \in StatesOf(simple) : Core(here) \subseteq Core(b)
    <3>1. here \in StatesOf(auto)
      BY <1>11, <1>12, <2>2 DEF StatesOf
    <3> QED  BY <1>9, <3>1
  <2>4. PICK s \in Numbers(simple) : b = simple.states[s + 1]
    <3>1. PICK j \in 1..Len(simple.states) : b = simple.states[j]
      BY DEF StatesOf
    <3>2. Len(simple.states) \in Nat
      BY <1>10, StateFacts
    <3>3. j - 1 \in Numbers(simple) /\ (j - 1) + 1 = j
      BY <3>2 DEF Numbers
    <3> QED  BY <3>1, <3>3
  <2>5. \A n \in ToSet(u) : Core(auto.states[n + 1]) \subseteq Core(b)
    BY <1>11, <2>2, <2>3
  <2> DEFINE items == MembersUnion(auto, u)  targets == SomeShift(auto, u, t)  more == Shifts(simple, s, t)
  <2>6. ASSUME targets # {}
        PROVE  more # {}
    <3>1. t # EOF /\ \E n \in ToSet(u) : Leaves(auto, n, t)
      BY <2>6 DEF SomeShift
    <3>2. PICK n \in ToSet(u) : Leaves(auto, n, t)
      BY <3>1
    <3>3. PICK e \in auto.edges : e[1] = n /\ e[2] = t
      BY <3>2 DEF Leaves, TargetsOf
    <3>4. Awaits(g, auto.states[n + 1], t) /\ t \in ToSet(g.symbols)
      <4>1. Awaits(g, auto.states[e[1] + 1], e[2])
        BY <1>3, <1>6, EdgeAwaits
      <4> QED  BY <1>6, <3>3, <4>1 DEF Exact
    <3>5. Awaits(g, b, t)
      BY <2>5, <3>4, AwaitsCore
    <3>6. Leaves(simple, s, t)
      BY <1>7, <2>4, <3>4, <3>5
    <3> QED  BY <3>1, <3>6 DEF Shifts, Leaves
  <2>7. ASSUME NEW it \in items
        PROVE  \E o \in b : /\ o[1] = it[1] /\ o[2] = it[2]
                            /\ t \in ReduceOn(g, NoFollow, it) => t \in ReduceOn(g, follow, o)
    <3>1. PICK n \in ToSet(u) : it \in auto.states[n + 1]
      BY DEF MembersUnion
    <3>2. <<it[1], it[2]>> \in Core(b)
      BY <2>5, <3>1, CoreFacts
    <3>3. PICK o \in b : o[1] = it[1] /\ o[2] = it[2]
      BY <3>2, CoreFacts
    <3>4. it[3] \in T /\ it[3] \in follow[g.rules[it[1]].lhs]
      <4>1. it \in Tracked(g, follow)
        BY <1>8, <1>11, <1>12, <3>1
      <4> QED  BY <4>1 DEF Tracked, Ahead
    <3>5. o[3] = NoLookahead
      <4>1. b \in SUBSET Ahead(g, N)
        BY <1>7 DEF StatesOf
      <4> QED  BY <3>3, <4>1 DEF Ahead, N
    <3>6. ReduceOn(g, NoFollow, it) = {it[3]}
      BY <1>5, <3>4 DEF ReduceOn
    <3>7. ReduceOn(g, follow, o) = follow[g.rules[it[1]].lhs]
      BY <3>3, <3>5 DEF ReduceOn
    <3> QED  BY <3>3, <3>4, <3>6, <3>7
  <2>8. Single(targets) /\ Contested(g, NoFollow, items, targets, t)
    BY <1>14 DEF Single, SomeShift
  <2> HIDE DEF items, targets, more
  <2>9. Contested(g, follow, b, more, t)
    BY <2>6, <2>7, <2>8, ContestedMore
  <2> QED  BY <1>13, <2>4, <2>9 DEF more
<1>15. ASSUME NEW i \in 1..Len(p)
       PROVE  MergeConflicts(g, auto, p[i]) = {}
  <2>1. ToSet(p[i]) \subseteq Numbers(auto)
    BY <1>11
  <2> QED  BY <1>6, <1>14, <2>1, MergeConflictsFacts
<1> QED  BY <1>1, <1>15 DEF nullable, p

\* What the automata and their partitions are.
LEMMA CanonicalFacts ==
  ASSUME NEW g, GrammarOK(g)
  PROVE  LET auto == CanonicalLR1(g, Nullable(g))  p == InitialCorePartitions(auto)
         IN  /\ AutomatonOK(g, auto) /\ SingleTargets(auto) /\ PartitionOK(auto, p)
             /\ \A m, n \in Numbers(auto) : GroupOf(p, m) = GroupOf(p, n) =>
                  \A e \in auto.edges : e[1] = m =>
                    \E f \in auto.edges : f[1] = n /\ f[2] = e[2] /\ GroupOf(p, f[3]) = GroupOf(p, e[3])
<1> DEFINE nullable == Nullable(g)  first == FirstSets(g, nullable)  T == g.terminals
           auto == AutomatonFrom(g, first, nullable, EOF)  p == InitialCorePartitions(auto)
<1>1. CanonicalLR1(g, nullable) = auto
  BY DEF CanonicalLR1, Automaton
<1>2. \A e, f \in auto.edges :
        GroupOf(p, e[1]) = GroupOf(p, f[1]) /\ e[2] = f[2] => GroupOf(p, e[3]) = GroupOf(p, f[3])
  <2> DEFINE A == CanonicalLR1(g, nullable)  q == InitialCorePartitions(A)
  <2>1. \A e, f \in A.edges :
          GroupOf(q, e[1]) = GroupOf(q, f[1]) /\ e[2] = f[2] => GroupOf(q, e[3]) = GroupOf(q, f[3])
    BY CoresMerge
  <2> HIDE DEF auto
  <2> QED  BY <1>1, <2>1
<1>3. first \in Firsts(g) /\ \A t \in g.terminals : first[t] = {t}
  <2> HIDE DEF nullable
  <2> QED  BY FirstFacts
<1> HIDE DEF nullable, first
<1>4. Sustains(g, first, nullable, T) /\ EOF \in LookaheadsOf(g) /\ EOF \in T
  BY <1>3, KindFacts DEF LookaheadsOf, GrammarOK
<1>5. /\ AutomatonOK(g, auto) /\ Exact(g, first, nullable, auto)
      /\ \A i, j \in 1..Len(auto.states) : auto.states[i] = auto.states[j] => i = j
      /\ \A s \in Numbers(auto), x \in ToSet(g.symbols) :
           Awaits(g, auto.states[s + 1], x) => Leaves(auto, s, x)
  BY <1>3, <1>4, AutomatonAhead
<1> HIDE DEF auto
<1>6. SingleTargets(auto)
  BY <1>5, ExactTargets
<1>7. PartitionOK(auto, p)
  BY <1>5, CorePartitionsFacts DEF AutomatonOK
<1> HIDE DEF p
<1>8. ASSUME NEW m \in Numbers(auto), NEW n \in Numbers(auto), GroupOf(p, m) = GroupOf(p, n),
             NEW e \in auto.edges, e[1] = m
      PROVE  \E f \in auto.edges : f[1] = n /\ f[2] = e[2] /\ GroupOf(p, f[3]) = GroupOf(p, e[3])
  <2> DEFINE here == auto.states[m + 1]  there == auto.states[n + 1]
  <2>1. Core(here) \subseteq Core(there)
    <3> DEFINE i == GroupOf(p, m) + 1
    <3>1. i \in 1..Len(p) /\ m \in ToSet(p[i]) /\ n \in ToSet(p[i])
      BY <1>7, <1>8, GroupOfFacts DEF PartitionOK
    <3> HIDE DEF i
    <3>2. Core(here) = Core(there)
      BY <1>7, <3>1 DEF PartitionOK
    <3> QED  BY <3>2
  <2>2. Awaits(g, here, e[2]) /\ e[2] \in ToSet(g.symbols)
    <3>1. Awaits(g, auto.states[e[1] + 1], e[2])
      BY <1>3, <1>5, EdgeAwaits
    <3> QED  BY <1>5, <1>8, <3>1 DEF Exact
  <2> HIDE DEF here, there
  <2>3. Awaits(g, there, e[2])
    BY <2>1, <2>2, AwaitsCore
  <2>4. Leaves(auto, n, e[2])
    BY <1>5, <2>2, <2>3 DEF there
  <2>5. PICK f \in auto.edges : f[1] = n /\ f[2] = e[2]
    BY <2>4 DEF Leaves, TargetsOf
  <2> QED  BY <1>2, <1>8, <2>5
<1> QED  BY <1>1, <1>5, <1>6, <1>7, <1>8 DEF nullable, p

\* A table without conflicts.
Smooth(g, follow, auto) == TableFor(g, follow, auto).conflicts = {}

\* A weaker algorithm without conflicts leaves a stronger one none; splitting
\* what merging broke, and no more, loses none of what canonical LR(1) accepts.
LEMMA AlgorithmsCompared ==
  ASSUME NEW g, GrammarOK(g)
  PROVE  LET nullable == Nullable(g)  auto == CanonicalLR1(g, nullable)  p == InitialCorePartitions(auto)
             lalr == Merged(auto, p)  ielr == Merged(auto, IELRPartition(g, auto, p))
         IN  /\ Smooth(g, FollowSets(g, nullable), CanonicalLR0(g, nullable)) => Smooth(g, NoFollow, lalr)
             /\ Smooth(g, NoFollow, lalr) => Smooth(g, NoFollow, ielr)
             /\ Smooth(g, NoFollow, ielr) <=> Smooth(g, NoFollow, auto)
             /\ Len(lalr.states) \in Nat /\ Len(ielr.states) \in Nat /\ Len(auto.states) \in Nat
             /\ Len(lalr.states) <= Len(ielr.states) /\ Len(ielr.states) <= Len(auto.states)
             /\ Smooth(g, NoFollow, lalr) => Len(ielr.states) = Len(lalr.states)
<1> DEFINE nullable == Nullable(g)  auto == CanonicalLR1(g, nullable)  p == InitialCorePartitions(auto)
           q == IELRPartition(g, auto, p)  lalr == Merged(auto, p)  ielr == Merged(auto, q)
           simple == CanonicalLR0(g, nullable)  follow == FollowSets(g, nullable)
           Whole(r) == \A i \in 1..Len(r) : MergeConflicts(g, auto, r[i]) = {}
<1>1. /\ AutomatonOK(g, auto) /\ SingleTargets(auto) /\ PartitionOK(auto, p)
      /\ \A m, n \in Numbers(auto) : GroupOf(p, m) = GroupOf(p, n) =>
           \A e \in auto.edges : e[1] = m =>
             \E f \in auto.edges : f[1] = n /\ f[2] = e[2] /\ GroupOf(p, f[3]) = GroupOf(p, e[3])
  BY CanonicalFacts
<1>2. Smooth(g, follow, simple) => Whole(p)
  BY SimpleClean DEF Smooth
<1> HIDE DEF nullable, auto, p, simple, follow
<1>3. StatesOK(g, auto) /\ EdgesOK(g, auto) /\ Apart(p) /\ Members(p) = Numbers(auto)
  BY <1>1 DEF AutomatonOK, PartitionOK
<1>4. IsFiniteSet(Numbers(auto)) /\ Cardinality(Numbers(auto)) = Len(auto.states) /\ Len(auto.states) \in Nat
  <2> DEFINE n == Len(auto.states)
  <2>1. n \in Nat
    BY <1>3, StateFacts
  <2> HIDE DEF n
  <2>2. 0 \in Int /\ n - 1 \in Int
    BY <2>1
  <2>3. IsFiniteSet(0..(n - 1)) /\ Cardinality(0..(n - 1)) = IF 0 > n - 1 THEN 0 ELSE (n - 1) - 0 + 1
    BY <2>2, FS_Interval
  <2> QED  BY <2>1, <2>3 DEF Numbers, n
<1>5. Refines(q, p) /\ Adequate(g, auto, q)
  <2>1. IsFiniteSet(Members(p))
    BY <1>3, <1>4
  <2> QED  BY <1>3, <2>1, IELRFacts, IELRAdequate
<1>6. ASSUME Whole(p)
      PROVE  q = p
  <2>1. /\ EdgesOK(g, auto) /\ PartitionOK(auto, p) /\ \A i \in 1..Len(p) : MergeConflicts(g, auto, p[i]) = {}
        /\ \A m, n \in Numbers(auto) : GroupOf(p, m) = GroupOf(p, n) =>
             \A e \in auto.edges : e[1] = m =>
               \E f \in auto.edges : f[1] = n /\ f[2] = e[2] /\ GroupOf(p, f[3]) = GroupOf(p, e[3])
    BY <1>1, <1>3, <1>6
  <2> QED  BY ONLY <2>1, IELRStays
<1> HIDE DEF q
<1>7. PartitionOK(auto, q)
  BY <1>1, <1>5, RefinedPartition
<1>8. Apart(q) /\ Members(q) = Numbers(auto)
  BY <1>7 DEF PartitionOK
<1>9. Len(lalr.states) = Len(p) /\ Len(ielr.states) = Len(q)
  BY <1>1, <1>7, MergedFacts
<1>10. /\ Smooth(g, NoFollow, lalr) <=> Whole(p)
       /\ Smooth(g, NoFollow, ielr) <=> Whole(q)
       /\ Smooth(g, NoFollow, auto) <=>
            \A m \in Numbers(auto) : \A s : ToSet(s) = {m} => MergeConflicts(g, auto, s) = {}
  BY <1>1, <1>7, MergedClean, CanonicalClean DEF Smooth
<1> HIDE DEF lalr, ielr
<1>11. \A r : Apart(r) /\ Members(r) = Numbers(auto) =>
         \A i \in 1..Len(r) : ToSet(r[i]) \subseteq Numbers(auto)
  BY DEF Members
<1>12. ASSUME Whole(p), NEW i \in 1..Len(q)
       PROVE  MergeConflicts(g, auto, q[i]) = {}
  <2>1. PICK j \in 1..Len(p) : ToSet(q[i]) \subseteq ToSet(p[j])
    BY <1>5 DEF Refines
  <2>2. MergeConflicts(g, auto, p[j]) = {} /\ ToSet(p[j]) \subseteq Numbers(auto)
    BY <1>3, <1>11, <1>12
  <2> QED  BY <1>1, <2>1, <2>2, FewerConflicts
<1>13. ASSUME Whole(q), NEW m \in Numbers(auto), NEW s, ToSet(s) = {m}
       PROVE  MergeConflicts(g, auto, s) = {}
  <2>1. PICK i \in 1..Len(q) : m \in ToSet(q[i])
    BY <1>8 DEF Members
  <2>2. MergeConflicts(g, auto, q[i]) = {} /\ ToSet(q[i]) \subseteq Numbers(auto)
    BY <1>8, <1>11, <1>13
  <2>3. ToSet(s) \subseteq ToSet(q[i])
    BY <1>13, <2>1
  <2> QED  BY <1>1, <2>2, <2>3, FewerConflicts
<1>14. ASSUME \A m \in Numbers(auto) : \A s : ToSet(s) = {m} => MergeConflicts(g, auto, s) = {},
              NEW i \in 1..Len(q)
       PROVE  MergeConflicts(g, auto, q[i]) = {}
  <2> DEFINE u == q[i]
  <2>1. u \in Seq(Nat) /\ u # <<>> /\ ToSet(u) \subseteq Numbers(auto)
    BY <1>8, <1>11, GroupFacts DEF Apart
  <2>2. Len(u) <= 1 \/ MergeConflicts(g, auto, u) = {}
    BY <1>5 DEF Adequate
  <2> HIDE DEF u
  <2>3. /\ Len(u) \in Nat /\ (u # <<>> <=> Len(u) >= 1) /\ \A a \in 1..Len(u) : u[a] \in ToSet(u)
        /\ \A e \in ToSet(u) : \E a \in 1..Len(u) : u[a] = e
    BY <2>1, ToSetFacts
  <2>4. CASE Len(u) <= 1
    <3>1. 1 \in 1..Len(u) /\ \A a \in 1..Len(u) : a = 1
      BY <2>1, <2>3, <2>4
    <3>2. ToSet(u) = {u[1]}
      BY <2>3, <3>1
    <3>3. u[1] \in Numbers(auto)
      BY <2>1, <3>2
    <3> QED  BY <1>14, <3>2, <3>3 DEF u
  <2> QED  BY <2>2, <2>4 DEF u
<1>15. Len(p) \in Nat /\ Len(q) \in Nat /\ Len(p) <= Len(q)
  BY <1>3, <1>5, <1>8, GroupFacts DEF Apart, Refines
<1>16. Len(q) <= Len(auto.states)
  <2>1. Cardinality(Numbers(auto)) - Len(q) \in Nat
    BY <1>4, <1>8, GroupsBounded
  <2> QED  BY <1>4, <1>15, <2>1
<1>17. Smooth(g, follow, simple) => Smooth(g, NoFollow, lalr)
  BY <1>2, <1>10
<1>18. Smooth(g, NoFollow, lalr) => Smooth(g, NoFollow, ielr)
  BY <1>10, <1>12
<1>19. Smooth(g, NoFollow, ielr) <=> Smooth(g, NoFollow, auto)
  BY <1>10, <1>13, <1>14
<1>20. Smooth(g, NoFollow, lalr) => Len(ielr.states) = Len(lalr.states)
  BY <1>6, <1>9, <1>10
<1> QED  BY <1>4, <1>9, <1>15, <1>16, <1>17, <1>18, <1>19, <1>20
           DEF nullable, auto, p, q, simple, follow, lalr, ielr

-----------------------------------------------------------------------------
(* Specifications. *)

\* The elements that are picked stand in the places picked.
LEMMA PickedFacts ==
  ASSUME NEW S, NEW seq \in Seq(S), NEW places
  PROVE  /\ Picked(seq, places) \in Seq(ToSet(seq))
         /\ \A e \in ToSet(Picked(seq, places)) : \E i \in 1..Len(seq) : i \in places /\ e = seq[i]
<1> DEFINE N == Len(seq)  R == ToSet(seq)  A == Seq(R)
           steps == [i \in DOMAIN seq |->
                       [picked \in A |-> IF i \in places THEN Append(picked, seq[i]) ELSE picked]]
           Here(e) == \E i \in 1..N : i \in places /\ e = seq[i]
           Fit == {q \in A : \A e \in ToSet(q) : Here(e)}
           Good == [n \in Nat |-> Fit]
<1>1. N \in Nat /\ DOMAIN seq = 1..N /\ \A i \in 1..N : seq[i] \in R
  BY LenProperties, ToSetFacts
<1>2. Picked(seq, places) = Applied(steps, <<>>)
  BY DEF Picked
<1>3. ASSUME NEW i \in 1..N, NEW q \in A
      PROVE  (IF i \in places THEN Append(q, seq[i]) ELSE q) \in A
  <2>1. q \in Seq(R) /\ seq[i] \in R
    BY <1>1
  <2> HIDE DEF R
  <2>2. Append(q, seq[i]) \in Seq(R)
    BY ONLY <2>1, AppendProperties
  <2> QED  BY <2>1, <2>2
<1>4. \A i \in 1..N : steps[i] = [q \in A |-> IF i \in places THEN Append(q, seq[i]) ELSE q]
  BY <1>1
<1>5. steps = [i \in 1..N |-> steps[i]]
  BY <1>1
<1> HIDE DEF steps, A
<1>6. \A i \in 1..N : steps[i] \in [A -> A]
  <2> SUFFICES ASSUME NEW i \in 1..N
               PROVE  steps[i] \in [A -> A]
    OBVIOUS
  <2>1. \A q \in A : (IF i \in places THEN Append(q, seq[i]) ELSE q) \in A
    BY <1>3
  <2>2. steps[i] = [q \in A |-> IF i \in places THEN Append(q, seq[i]) ELSE q]
    BY <1>4
  <2> QED  BY ONLY <2>1, <2>2
<1> HIDE DEF N, R
<1>7. steps \in Seq([A -> A]) /\ Len(steps) = N
  BY <1>1, <1>5, <1>6, IsASeq, SMTT(30)
<1>8. <<>> \in A /\ <<>> \in Good[0] /\ Good \in [Nat -> SUBSET A]
  <2>1. <<>> \in A /\ ToSet(<<>>) = {}
    BY DEF A, ToSet
  <2> HIDE DEF Here
  <2> QED  BY <2>1
<1>9. ASSUME NEW n \in 1..N, NEW q \in Good[n - 1]
      PROVE  steps[n][q] \in Good[n]
  <2>1. n \in Nat /\ n - 1 \in Nat
    BY <1>1
  <2>2. q \in A /\ \A e \in ToSet(q) : Here(e)
    BY <2>1
  <2>3. steps[n][q] = IF n \in places THEN Append(q, seq[n]) ELSE q
    <3>1. steps[n] = [x \in A |-> IF n \in places THEN Append(x, seq[n]) ELSE x]
      BY <1>4
    <3> QED  BY ONLY <2>2, <3>1
  <2>4. Here(seq[n]) \/ n \notin places
    OBVIOUS
  <2> HIDE DEF Here
  <2>5. steps[n][q] \in A
    BY <1>3, <2>2, <2>3
  <2>6. n \in places => ToSet(steps[n][q]) = ToSet(q) \cup {seq[n]}
    BY <1>1, <2>2, <2>3, ToSetFacts DEF A
  <2>7. \A e \in ToSet(steps[n][q]) : Here(e)
    BY <2>2, <2>3, <2>4, <2>6
  <2> QED  BY <2>1, <2>5, <2>7
<1>10. Applied(steps, <<>>) \in Good[N]
  <2> HIDE DEF Good
  <2> DEFINE start == <<>>
  <2>1. start \in A /\ start \in Good[0]
    BY <1>8
  <2> HIDE DEF start
  <2>2. \A n \in 1..Len(steps) : \A a \in Good[n - 1] : steps[n][a] \in Good[n]
    BY <1>7, <1>9
  <2>3. Applied(steps, start) \in Good[Len(steps)]
    BY <1>7, <1>8, <2>1, <2>2, AppliedFacts
  <2> QED  BY <1>7, <2>3 DEF start
<1>11. Applied(steps, <<>>) \in Fit
  BY <1>1, <1>10
<1> HIDE DEF Here
<1>12. Picked(seq, places) \in A /\ \A e \in ToSet(Picked(seq, places)) : Here(e)
  BY <1>2, <1>11
<1> QED  BY <1>12 DEF A, R, N, Here

\* What a specification is: its alternatives are some of its family's.
Written ==
  family \in DOMAIN Families /\ alternatives \in Seq(ToSet(Family.alternatives))

\* A specification without errors is a grammar, once augmented.
LEMMA ValidGrammar ==
  ASSUME Written, SpecErrors = {}
  PROVE  GrammarOK(Augment(Normalized)) /\ Kept = alternatives
<1> DEFINE g == Augment(Normalized)  from == Families[family]
           all == from.tokens \cup {EOF, Error} \cup {a.lhs : a \in ToSet(from.alternatives)}
           N == Len(alternatives)
<1>1. /\ IsFiniteSet(from.tokens) /\ all \subseteq STRING \ {""}
      /\ from.symbols \in Seq(STRING) /\ all \subseteq ToSet(from.symbols)
      /\ \A a \in ToSet(from.alternatives) : a.rhs \in Seq(STRING) /\ a.lhs \o "'" \in STRING \ all
  BY FamiliesAssumption DEF Written
<1>2. /\ N \in Nat /\ DOMAIN alternatives = 1..N
      /\ \A i \in 1..N : alternatives[i] \in ToSet(from.alternatives)
  <2> DEFINE S == ToSet(Family.alternatives)
  <2>1. alternatives \in Seq(S)
    BY DEF Written
  <2> HIDE DEF S
  <2>2. N \in Nat /\ DOMAIN alternatives = 1..N /\ \A i \in 1..N : alternatives[i] \in S
    BY <2>1, LenProperties, ElementOfSeq
  <2> QED  BY <2>2 DEF S, Family
\* What the diagnostics would have said.
<1>3. /\ Start # "" /\ Start \in Nonterminals /\ Nonterminals \cap Terminals = {}
      /\ Error \notin from.tokens /\ Error \notin Names
  <2>1. DeclarationErrors = {}
    BY DEF SpecErrors
  <2>2. \A c \in {"LF300", "LF301", "LF303", "LF307", "LF308"} :
          /\ c = "LF300" => Start # ""
          /\ c = "LF301" => Start \in Nonterminals \cup {""}
          /\ c = "LF303" => Nonterminals \cap Terminals = {}
          /\ c = "LF307" => Error \notin Family.tokens
          /\ c = "LF308" => Error \notin Names
    BY <2>1 DEF DeclarationErrors
  <2> QED  BY <2>2 DEF Family
<1>4. Kept = alternatives
  BY <1>3 DEF Kept
<1>5. \A i \in 1..N : ToSet(alternatives[i].rhs) \subseteq Terminals \cup Nonterminals
  <2> SUFFICES ASSUME NEW i \in 1..N
               PROVE  ToSet(alternatives[i].rhs) \subseteq Terminals \cup Nonterminals
    OBVIOUS
  <2>1. AlternativeErrors(alternatives[i]) = {}
    BY <1>2, <1>3, <1>4 DEF SpecErrors
  <2>2. "LF302" \notin AlternativeErrors(alternatives[i])
    BY <2>1
  <2> QED  BY <2>2 DEF AlternativeErrors
<1>6. Terminals = from.tokens \cup {EOF, Error} /\ Nonterminals = Names
  BY <1>3 DEF Terminals, Nonterminals, Family
<1>7. /\ Names = {alternatives[i].lhs : i \in 1..N}
      /\ Names \subseteq {a.lhs : a \in ToSet(from.alternatives)} /\ IsFiniteSet(Names)
  <2>1. Names = {alternatives[i].lhs : i \in 1..N}
    BY DEF Names
  <2>2. Names \subseteq {a.lhs : a \in ToSet(from.alternatives)}
    BY <1>2, <2>1
  <2> DEFINE f == [i \in 1..N |-> alternatives[i].lhs]
  <2>3. f \in [1..N -> Names] /\ Names = {f[i] : i \in 1..N}
    BY <2>1
  <2> HIDE DEF f
  <2>4. 1 \in Int /\ N \in Int
    BY <1>2
  <2> DEFINE I == 1..N
  <2>5. IsFiniteSet(I)
    BY <2>4, FS_Interval
  <2>6. f \in [I -> Names]
    BY <2>3
  <2> HIDE DEF I
  <2>7. IsFiniteSet({f[i] : i \in I})
    BY <2>5, <2>6, ImageFinite
  <2> QED  BY <2>1, <2>2, <2>3, <2>7 DEF I
<1>8. Terminals \subseteq all /\ Names \subseteq all
  BY <1>6, <1>7
<1> DEFINE quoted == Start \o "'"
<1>9. quoted \in STRING \ all
  <2>1. PICK a \in ToSet(from.alternatives) : Start = a.lhs
    BY <1>3, <1>6, <1>7
  <2> QED  BY <1>1, <2>1
<1> HIDE DEF all, from
<1>10. /\ g.start = quoted /\ g.terminals = Terminals /\ g.nonterminals = Names \cup {quoted}
       /\ g.symbols = from.symbols
       /\ g.rules = [r \in 0..N |-> IF r = 0 THEN [lhs |-> quoted, rhs |-> <<Start>>, hook |-> FALSE]
                                              ELSE Normalized.rules[r]]
       /\ \A r \in 1..N : /\ Normalized.rules[r].lhs = alternatives[r].lhs
                          /\ Normalized.rules[r].rhs = alternatives[r].rhs
  <2>1. Normalized.rules =
          [i \in 1..N |-> [lhs |-> alternatives[i].lhs, rhs |-> alternatives[i].rhs, hook |-> alternatives[i].hook]]
    BY <1>4 DEF Normalized
  <2>2. Len(Normalized.rules) = N
    BY <1>2, <2>1
  <2>3. /\ Normalized.start = Start /\ Normalized.terminals = Terminals
        /\ Normalized.nonterminals = Names /\ Normalized.symbols = from.symbols
    BY <1>6 DEF Normalized, Family, from
  <2>4. \A r \in 1..N : /\ Normalized.rules[r].lhs = alternatives[r].lhs
                        /\ Normalized.rules[r].rhs = alternatives[r].rhs
    BY <2>1
  <2> DEFINE n == Normalized
  <2>5. /\ g.start = n.start \o "'" /\ g.terminals = n.terminals
        /\ g.nonterminals = n.nonterminals \cup {n.start \o "'"} /\ g.symbols = n.symbols
        /\ g.rules = [r \in 0..Len(n.rules) |->
                        IF r = 0 THEN [lhs |-> n.start \o "'", rhs |-> <<n.start>>, hook |-> FALSE]
                                 ELSE n.rules[r]]
    <3> HIDE DEF n
    <3> QED  BY DEF Augment, AugmentedStart, n
  <2> HIDE DEF n, g
  <2> QED  BY <2>2, <2>3, <2>4, <2>5 DEF n
<1> HIDE DEF g, quoted
<1> DEFINE symbols == Terminals \cup Names \cup {quoted}
<1>11. Alphabet(g) = symbols /\ RulesOf(g) = 0..N /\ g.rules[0].lhs = quoted /\ Rhs(g, 0) = <<Start>>
  BY <1>2, <1>10 DEF Alphabet, RulesOf, Rhs
<1>12. \A r \in 1..N : g.rules[r].lhs = alternatives[r].lhs /\ Rhs(g, r) = alternatives[r].rhs
  BY <1>2, <1>10 DEF Rhs
<1>13. IsFiniteSet(g.terminals) /\ IsFiniteSet(g.nonterminals)
  <2>1. IsFiniteSet({EOF, Error}) /\ IsFiniteSet({quoted})
    <3>1. {EOF, Error} = {EOF} \cup {Error}
      OBVIOUS
    <3>2. IsFiniteSet({EOF}) /\ IsFiniteSet({quoted})
      BY FS_Singleton
    <3> QED  BY <3>1, <3>2, FS_AddElement
  <2>2. IsFiniteSet(Terminals)
    BY <1>1, <1>6, <2>1, FS_Union
  <2>3. IsFiniteSet(Names \cup {quoted})
    BY <1>7, <2>1, FS_Union
  <2> QED  BY <1>10, <2>2, <2>3
<1>14. quoted \notin Terminals /\ quoted \notin Names /\ symbols \subseteq STRING
  BY <1>1, <1>8, <1>9
<1>15. \A r \in 0..N : /\ g.rules[r].lhs \in g.nonterminals
                       /\ Rhs(g, r) \in Seq(symbols \ {quoted})
  <2> SUFFICES ASSUME NEW r \in 0..N
               PROVE  g.rules[r].lhs \in g.nonterminals /\ Rhs(g, r) \in Seq(symbols \ {quoted})
    OBVIOUS
  <2> DEFINE kept == symbols \ {quoted}
  <2>1. CASE r = 0
    <3>1. Start \in kept
      BY <1>3, <1>6, <1>14
    <3> HIDE DEF kept
    <3>2. <<Start>> \in Seq(kept)
      BY <3>1
    <3> QED  BY <1>10, <1>11, <2>1, <3>2 DEF kept
  <2>2. CASE r # 0
    <3>1. r \in 1..N
      BY <1>2, <2>2
    <3> DEFINE rhs == alternatives[r].rhs
    <3>2. rhs \in Seq(STRING) /\ ToSet(rhs) \subseteq kept
      <4>1. rhs \in Seq(STRING)
        BY <1>1, <1>2, <3>1
      <4>2. ToSet(rhs) \subseteq Terminals \cup Names
        BY <1>5, <1>6, <3>1
      <4> QED  BY <1>14, <4>1, <4>2
    <3> HIDE DEF rhs, kept
    <3>3. rhs \in Seq(kept)
      <4>1. Len(rhs) \in Nat /\ \A i \in 1..Len(rhs) : rhs[i] \in kept
        BY <3>2, ToSetFacts
      <4>2. rhs = [i \in 1..Len(rhs) |-> rhs[i]]
        BY <3>2
      <4> QED  BY <4>1, <4>2, IsASeq
    <3>4. alternatives[r].lhs \in Names
      BY <1>7, <3>1
    <3> QED  BY <1>10, <1>12, <3>1, <3>3, <3>4 DEF rhs, kept
  <2> QED  BY <2>1, <2>2
<1>16. \A r \in 0..N : r # 0 => g.rules[r].lhs \in ToSet(g.symbols)
  <2> SUFFICES ASSUME NEW r \in 1..N
               PROVE  g.rules[r].lhs \in ToSet(g.symbols)
    BY <1>2
  <2>1. alternatives[r].lhs \in Names
    BY <1>7
  <2> QED  BY <1>1, <1>8, <1>10, <1>12, <2>1
<1>17. EOF \in g.terminals /\ Error \in g.terminals /\ NoLookahead \notin g.terminals
  BY <1>1, <1>6, <1>8, <1>10 DEF NoLookahead
<1>18. g.terminals \cap g.nonterminals = {}
  BY <1>3, <1>6, <1>10, <1>14
<1> HIDE DEF symbols
<1>19. GrammarOK(g)
  <2>1. g.rules[0].lhs = g.start /\ Len(Rhs(g, 0)) = 1
    BY <1>10, <1>11
  <2>2. g.symbols \in Seq(STRING)
    BY <1>1, <1>10
  <2> QED  BY <1>2, <1>11, <1>13, <1>14, <1>15, <1>16, <1>17, <1>18, <2>1, <2>2 DEF GrammarOK
<1> QED  BY <1>4, <1>19 DEF g

-----------------------------------------------------------------------------
(* The specifications of behaviours. *)

\* Tables are built for specifications without errors, by each algorithm.
FromGrammar ==
  phase \in {"built", "generated"} =>
    SpecErrors = {} /\ tables = [a \in Algorithms |-> Build(Normalized, a)]
TablesInv == Written /\ FromGrammar

\* The tables of such a specification are sound.
LEMMA TablesInvSound ==
  ASSUME TablesInv
  PROVE  TablesAreSound
<1> SUFFICES ASSUME Built, NEW a \in Algorithms
             PROVE  SoundTables(tables[a])
  BY DEF TablesAreSound
<1>1. SpecErrors = {} /\ tables[a] = Build(Normalized, a)
  BY DEF TablesInv, FromGrammar, Built
<1>2. GrammarOK(Augment(Normalized))
  BY <1>1, ValidGrammar DEF TablesInv
<1> QED  BY <1>1, <1>2, BuildSound DEF Build

\* A specification that is written is a sub-list of its family's alternatives.
LEMMA TablesInvInit ==
  ASSUME Init
  PROVE  TablesInv
<1>1. family \in DOMAIN Families
  BY DEF Init
<1> DEFINE all == Family.alternatives
<1>2. all \in Seq(ToSet(all))
  BY <1>1, FamiliesAssumption DEF Family
<1>3. PICK taken : alternatives = Picked(all, taken)
  BY DEF Init
<1> HIDE DEF all
<1>4. alternatives \in Seq(ToSet(all))
  BY <1>2, <1>3, PickedFacts
<1> QED  BY <1>1, <1>4 DEF Init, TablesInv, Written, FromGrammar, all

\* A specification that is not written anew is the same grammar and has the same errors.
LEMMA SpecificationStays ==
  ASSUME UNCHANGED <<family, alternatives>>
  PROVE  /\ SpecErrors' = SpecErrors /\ Normalized' = Normalized /\ Kept' = Kept /\ Terminals' = Terminals
         /\ Written => Written'
<1>1. Family' = Family /\ Names' = Names
  BY DEF Family, Names
<1>2. Start' = Start /\ Terminals' = Terminals /\ Nonterminals' = Nonterminals
  BY <1>1 DEF Start, Terminals, Nonterminals
<1>3. Kept' = Kept
  BY <1>1 DEF Kept
<1>4. Normalized' = Normalized
  BY <1>1, <1>2, <1>3 DEF Normalized
<1>5. DeclarationErrors' = DeclarationErrors
  BY <1>1, <1>2 DEF DeclarationErrors
<1>6. \A a : AlternativeErrors(a)' = AlternativeErrors(a)
  BY <1>2 DEF AlternativeErrors, SynchronizesAfter, ErrorPositions, LastErrorPosition
<1>7. SpecErrors' = SpecErrors
  BY <1>2, <1>3, <1>5, <1>6 DEF SpecErrors
<1>8. Written => Written'
  BY <1>1 DEF Written
<1> QED  BY <1>2, <1>3, <1>4, <1>7, <1>8

\* The specification stays as it is written, and tables are built once.
LEMMA TablesInvNext ==
  ASSUME TablesInv, [Next]_vars
  PROVE  TablesInv'
<1>1. CASE Reject
  <2>1. UNCHANGED <<family, alternatives>> /\ phase' = "rejected"
    BY <1>1 DEF Reject
  <2>2. Written'
    BY <2>1, SpecificationStays DEF TablesInv
  <2> QED  BY <2>1, <2>2 DEF TablesInv, FromGrammar
<1>2. CASE BuildTables
  <2>1. /\ UNCHANGED <<family, alternatives>> /\ SpecErrors = {}
        /\ tables' = [a \in Algorithms |-> Build(Normalized, a)]
    BY <1>2 DEF BuildTables
  <2>2. SpecErrors' = SpecErrors /\ Normalized' = Normalized /\ Written'
    BY <2>1, SpecificationStays DEF TablesInv
  <2>3. tables' = [a \in Algorithms |-> Build(Normalized', a)]
    BY <2>1, <2>2
  <2> QED  BY <2>1, <2>2, <2>3 DEF TablesInv, FromGrammar
<1>3. CASE UNCHANGED vars
  <2>1. UNCHANGED <<family, alternatives>> /\ UNCHANGED phase /\ UNCHANGED tables
    BY <1>3 DEF vars
  <2>2. SpecErrors' = SpecErrors /\ Normalized' = Normalized /\ Written'
    BY <2>1, SpecificationStays DEF TablesInv
  <2> QED  BY <2>1, <2>2 DEF TablesInv, FromGrammar
<1> QED  BY <1>1, <1>2, <1>3 DEF Next

\* Neither reductions nor the choice of types build tables.
LEMMA TablesInvTypedNext ==
  ASSUME TablesInv, [TypedNext]_tvars
  PROVE  TablesInv'
<1>1. CASE Next
  BY <1>1, TablesInvNext
<1>2. CASE Generate
  <2>1. UNCHANGED <<family, alternatives>> /\ UNCHANGED tables /\ Built
    BY <1>2 DEF Generate
  <2>2. SpecErrors' = SpecErrors /\ Normalized' = Normalized /\ Written'
    BY <2>1, SpecificationStays DEF TablesInv
  <2> QED  BY <2>1, <2>2 DEF TablesInv, FromGrammar, Built
<1>3. CASE Reduce
  <2>1. UNCHANGED vars
    BY <1>3 DEF Reduce
  <2> QED  BY <2>1, TablesInvNext
<1>4. CASE UNCHANGED tvars
  <2>1. UNCHANGED vars
    BY <1>4 DEF tvars
  <2> QED  BY <2>1, TablesInvNext
<1> QED  BY <1>1, <1>2, <1>3, <1>4 DEF TypedNext

\* The tables of every specification without errors, by every algorithm and with
\* conflicts or without, are ones a generated parser can be driven by.
THEOREM TablesAreAlwaysSound == Spec => []TablesAreSound
<1>1. Init => TablesInv
  BY TablesInvInit
<1>2. TablesInv /\ [Next]_vars => TablesInv'
  BY TablesInvNext
<1>3. TablesInv => TablesAreSound
  BY TablesInvSound
<1> QED  BY <1>1, <1>2, <1>3, PTL DEF Spec

\* So they are while a parser with typed reducers is generated from them and runs.
THEOREM TypedTablesAreSound == TypedSpec => []TablesAreSound
<1>1. TypedInit => TablesInv
  BY TablesInvInit DEF TypedInit
<1>2. TablesInv /\ [TypedNext]_tvars => TablesInv'
  BY TablesInvTypedNext
<1>3. TablesInv => TablesAreSound
  BY TablesInvSound
<1> QED  BY <1>1, <1>2, <1>3, PTL DEF TypedSpec

\* The tables of a specification without errors merge states safely.
LEMMA TablesInvMerges ==
  ASSUME TablesInv
  PROVE  MergesAreSafe
<1> SUFFICES ASSUME Built
             PROVE  CoresMergeToLR0 /\ MergesInventNoShift
  BY DEF MergesAreSafe, CoresMergeToLR0, MergesInventNoShift
<1> DEFINE g == Augment(Normalized)  nullable == Nullable(g)
           auto == CanonicalLR1(g, nullable)  simple == CanonicalLR0(g, nullable)
           part(a) == MergePartition(g, auto, InitialCorePartitions(auto), a)
           p == InitialCorePartitions(auto)
<1>1. SpecErrors = {} /\ tables = [a \in Algorithms |-> Build(Normalized, a)]
  BY DEF TablesInv, FromGrammar, Built
<1>2. GrammarOK(g)
  BY <1>1, ValidGrammar DEF TablesInv
<1>3. /\ tables["slr"] = TableFor(g, FollowSets(g, nullable), simple)
      /\ tables["canonical"] = TableFor(g, NoFollow, auto)
      /\ \A a \in {"lalr", "ielr"} : tables[a] = TableFor(g, NoFollow, Merged(auto, part(a)))
  <2>1. \A a \in Algorithms : tables[a] = Build(Normalized, a)
    BY <1>1
  <2> QED  BY <2>1 DEF Algorithms, Build, BuildTable, BuildAugmented, BuildSLR, BuildLR1
<1>4. AutomatonOK(g, auto) /\ AutomatonOK(g, simple)
  <2>1. NoLookahead \in LookaheadsOf(g) /\ EOF \in LookaheadsOf(g)
    BY <1>2 DEF LookaheadsOf, GrammarOK
  <2> HIDE DEF g, nullable
  <2> QED  BY <1>2, <2>1, AutomataOK DEF CanonicalLR0, CanonicalLR1
<1>5. part("lalr") = p
  BY DEF MergePartition
<1>6. CoresMergeToLR0
  <2>1. AllProductive(g) => Len(p) = Len(simple.states)
    <3> HIDE DEF g
    <3> QED  BY <1>2, CoresMerge
  <2>2. \A e, f \in auto.edges :
          GroupOf(p, e[1]) = GroupOf(p, f[1]) /\ e[2] = f[2] => GroupOf(p, e[3]) = GroupOf(p, f[3])
    <3> HIDE DEF g
    <3> QED  BY <1>2, CoresMerge
  <2>3. AllProductive(g) => Size("lalr") = Size("slr")
    <3>1. tables["slr"].states = 0..(Len(simple.states) - 1)
      BY <1>3, TableForFacts DEF Numbers
    <3>2. tables["lalr"].states = 0..(Len(p) - 1)
      <4>1. PartitionOK(auto, p)
        BY <1>4, CorePartitionsFacts DEF AutomatonOK
      <4> HIDE DEF g, auto, p
      <4>2. Numbers(Merged(auto, p)) = 0..(Len(p) - 1)
        BY <1>4, <4>1, MergedFacts
      <4>3. tables["lalr"] = TableFor(g, NoFollow, Merged(auto, p))
        BY <1>3, <1>5
      <4> QED  BY <4>2, <4>3, TableForFacts
    <3> QED  BY <2>1, <3>1, <3>2 DEF Size
  <2> HIDE DEF auto, p, simple
  <2> QED  BY <2>2, <2>3 DEF CoresMergeToLR0, auto, p
<1> HIDE DEF g, auto, simple, part
<1>7. ASSUME NEW a \in {"lalr", "ielr"}, NEW s \in tables[a].states, NEW t \in DOMAIN tables[a].actions[s],
             tables[a].actions[s][t].kind # "reduce"
      PROVE  \E c \in tables["canonical"].states :
               /\ tables["canonical"].items[c] = tables[a].items[s]
               /\ t \in DOMAIN tables["canonical"].actions[c]
  <2> DEFINE q == part(a)  M == Merged(auto, q)  offers == OfferedIn(g, NoFollow, M, s, t)
  <2>1. PartitionOK(auto, q)
    BY <1>4, MergePartitionFacts DEF AutomatonOK, part
  <2> HIDE DEF q
  <2>2. AutomatonOK(g, M)
    BY <1>4, <2>1, MergedOK
  <2>3. tables[a] = TableFor(g, NoFollow, M)
    BY <1>3 DEF q
  <2> HIDE DEF M
  <2>4. /\ s \in Numbers(M) /\ tables[a].items[s] = Core(M.states[s + 1])
        /\ t \in g.terminals /\ offers # {} /\ tables[a].actions[s][t] = Preferred(offers)
    BY <2>3, TableForFacts
  <2>5. Preferred(offers) \in offers
    BY <1>2, <2>2, <2>4, PreferredOffer DEF AutomatonOK
  <2>6. PICK c \in Numbers(auto) : Core(auto.states[c + 1]) = Core(M.states[s + 1])
                                   /\ OfferedIn(g, NoFollow, auto, c, t) # {}
    <3>1. Preferred(offers) \in OfferedIn(g, NoFollow, M, s, t) /\ Preferred(offers).kind # "reduce"
      BY <1>7, <2>4, <2>5
    <3> HIDE DEF offers
    <3> QED  BY <1>2, <1>4, <2>1, <2>4, <3>1, FromMember DEF M
  <2>7. /\ c \in tables["canonical"].states /\ tables["canonical"].items[c] = Core(auto.states[c + 1])
        /\ t \in DOMAIN tables["canonical"].actions[c]
    BY <1>3, <2>4, <2>6, TableForFacts
  <2> QED  BY <2>4, <2>6, <2>7
<1>8. MergesInventNoShift
  BY <1>7 DEF MergesInventNoShift
<1> QED  BY <1>6, <1>8

\* Merging states never drops an edge nor invents a shift, whatever the
\* specification, and merging them by core gives back the states of LR(0).
THEOREM MergesAreAlwaysSafe == Spec => []MergesAreSafe
<1>1. Init => TablesInv
  BY TablesInvInit
<1>2. TablesInv /\ [Next]_vars => TablesInv'
  BY TablesInvNext
<1>3. TablesInv => MergesAreSafe
  BY TablesInvMerges
<1> QED  BY <1>1, <1>2, <1>3, PTL DEF Spec

\* The tables of a specification without errors are in the order of the algorithms.
LEMMA TablesInvHierarchy ==
  ASSUME TablesInv
  PROVE  Hierarchy
<1> SUFFICES ASSUME Built
             PROVE  /\ Clean("slr") => Clean("lalr")
                    /\ Clean("lalr") => Clean("ielr")
                    /\ Clean("ielr") <=> Clean("canonical")
                    /\ Size("lalr") <= Size("ielr") /\ Size("ielr") <= Size("canonical")
                    /\ Clean("lalr") => Size("ielr") = Size("lalr")
  BY DEF Hierarchy
<1> DEFINE g == Augment(Normalized)  nullable == Nullable(g)  auto == CanonicalLR1(g, nullable)
           p == InitialCorePartitions(auto)  simple == CanonicalLR0(g, nullable)
           follow == FollowSets(g, nullable)
           lalr == Merged(auto, p)  ielr == Merged(auto, IELRPartition(g, auto, p))
<1>1. SpecErrors = {} /\ tables = [a \in Algorithms |-> Build(Normalized, a)]
  BY DEF TablesInv, FromGrammar, Built
<1>2. GrammarOK(g)
  BY <1>1, ValidGrammar DEF TablesInv
<1>3. /\ tables["slr"] = TableFor(g, follow, simple) /\ tables["canonical"] = TableFor(g, NoFollow, auto)
      /\ tables["lalr"] = TableFor(g, NoFollow, lalr) /\ tables["ielr"] = TableFor(g, NoFollow, ielr)
  <2>1. \A a \in Algorithms : tables[a] = Build(Normalized, a)
    BY <1>1
  <2> QED  BY <2>1 DEF Algorithms, Build, BuildTable, BuildAugmented, BuildSLR, BuildLR1, MergePartition
<1> HIDE DEF g
<1>4. /\ Smooth(g, follow, simple) => Smooth(g, NoFollow, lalr)
      /\ Smooth(g, NoFollow, lalr) => Smooth(g, NoFollow, ielr)
      /\ Smooth(g, NoFollow, ielr) <=> Smooth(g, NoFollow, auto)
      /\ Len(lalr.states) \in Nat /\ Len(ielr.states) \in Nat /\ Len(auto.states) \in Nat
      /\ Len(lalr.states) <= Len(ielr.states) /\ Len(ielr.states) <= Len(auto.states)
      /\ Smooth(g, NoFollow, lalr) => Len(ielr.states) = Len(lalr.states)
  BY <1>2, AlgorithmsCompared
<1> HIDE DEF nullable, auto, simple, follow, lalr, ielr
<1>5. /\ Clean("slr") <=> Smooth(g, follow, simple)
      /\ Clean("lalr") <=> Smooth(g, NoFollow, lalr)
      /\ Clean("ielr") <=> Smooth(g, NoFollow, ielr)
      /\ Clean("canonical") <=> Smooth(g, NoFollow, auto)
  BY <1>3 DEF Clean, Smooth
<1>6. ASSUME NEW A, Len(A.states) \in Nat
      PROVE  Cardinality(TableFor(g, NoFollow, A).states) = Len(A.states)
  <2> DEFINE n == Len(A.states)
  <2>1. TableFor(g, NoFollow, A).states = 0..(n - 1)
    BY DEF TableFor
  <2> HIDE DEF n
  <2>2. n \in Nat
    BY <1>6 DEF n
  <2>3. 0 \in Int /\ n - 1 \in Int
    BY <2>2
  <2>4. Cardinality(0..(n - 1)) = IF 0 > n - 1 THEN 0 ELSE (n - 1) - 0 + 1
    BY <2>3, FS_Interval
  <2>5. Cardinality(0..(n - 1)) = n
    BY <2>2, <2>4
  <2> QED  BY <2>1, <2>5 DEF n
<1>7. /\ Size("lalr") = Len(lalr.states) /\ Size("ielr") = Len(ielr.states)
      /\ Size("canonical") = Len(auto.states)
  BY <1>3, <1>4, <1>6 DEF Size
<1> QED  BY <1>4, <1>5, <1>7

\* Whatever the specification, the algorithms form a hierarchy: no conflicts under a
\* weaker one, none under a stronger one; IELR has conflicts only where
\* canonical LR(1) has, and its states are between those of LALR and of LR(1).
THEOREM HierarchyAlwaysHolds == Spec => []Hierarchy
<1>1. Init => TablesInv
  BY TablesInvInit
<1>2. TablesInv /\ [Next]_vars => TablesInv'
  BY TablesInvNext
<1>3. TablesInv => Hierarchy
  BY TablesInvHierarchy
<1> QED  BY <1>1, <1>2, <1>3, PTL DEF Spec

-----------------------------------------------------------------------------
(* Typed reducers. *)

\* An alternative of the specification, with its labels, as it is parsed.
LEMMA AlternativeFacts ==
  ASSUME TablesInv, phase = "generated", NEW r \in DOMAIN Kept
  PROVE  /\ Kept[r].rhs \in Seq(STRING) /\ Len(Kept[r].rhs) \in Nat
         /\ DOMAIN Kept[r].names = 1..Len(Kept[r].rhs) /\ "nil" \notin Family.types
         /\ \A i, j \in 1..Len(Kept[r].rhs) :
              Kept[r].names[i] = Kept[r].names[j] => i = j \/ Kept[r].names[i] = ""
<1> DEFINE S == ToSet(Family.alternatives)  a == Kept[r]
<1>1. Written /\ SpecErrors = {}
  BY DEF TablesInv, FromGrammar
<1>2. Kept = alternatives /\ family \in DOMAIN Families /\ alternatives \in Seq(S)
  BY <1>1, ValidGrammar DEF Written
<1>3. a \in S
  <2> HIDE DEF S
  <2>1. DOMAIN alternatives = 1..Len(alternatives)
    BY <1>2, LenProperties
  <2> QED  BY <1>2, <2>1, ElementOfSeq
<1>4. a.rhs \in Seq(STRING)
  BY <1>2, <1>3, FamiliesAssumption DEF Family
<1>5. /\ "nil" \notin Family.types /\ DOMAIN a.names = DOMAIN a.rhs
      /\ \A i, j \in DOMAIN a.rhs : a.names[i] = a.names[j] => i = j \/ a.names[i] = ""
  BY <1>2, <1>3, ActionsAssumption DEF Family
<1> HIDE DEF a
<1>6. DOMAIN a.rhs = 1..Len(a.rhs) /\ Len(a.rhs) \in Nat
  BY <1>4, LenProperties
<1> QED  BY <1>4, <1>5, <1>6 DEF a

\* What the i-th operand of a rule gives to its context.
OperandAt(types, r, i) == [label |-> Kept[r].names[i], type |-> TypeFor(types, Kept[r].rhs[i])]

\* A field of a rule's context has the label of one of its operands, and its type.
LEMMA OperandsFacts ==
  ASSUME NEW types, NEW r, Kept[r].rhs \in Seq(STRING), NEW field \in ToSet(Operands(types, r))
  PROVE  \E i \in 1..Len(Kept[r].rhs) : Kept[r].names[i] # "" /\ field = OperandAt(types, r, i)
<1> DEFINE N == Len(Kept[r].rhs)  all == [i \in 1..N |-> i]
           labels == {i \in DOMAIN all : Kept[r].names[i] # ""}
           labelled == Picked(all, labels)
<1>1. N \in Nat
  BY LenProperties
<1>2. all \in Seq(1..N) /\ Len(all) = N /\ \A i \in 1..N : all[i] = i
  <2> HIDE DEF N
  <2>1. all \in [1..N -> 1..N]
    OBVIOUS
  <2>2. DOMAIN all = 1..N /\ \A i \in 1..N : all[i] = i
    OBVIOUS
  <2> HIDE DEF all
  <2>3. all \in Seq(1..N)
    BY <1>1, <2>1, IsASeq
  <2>4. Len(all) \in Nat /\ DOMAIN all = 1..Len(all)
    BY <2>3, LenProperties
  <2> QED  BY <1>1, <2>2, <2>3, <2>4
<1>3. \A i \in labels : Kept[r].names[i] # ""
  OBVIOUS
<1>4. Operands(types, r) =
        [k \in DOMAIN labelled |->
           [label |-> Kept[r].names[labelled[k]], type |-> TypeFor(types, Kept[r].rhs[labelled[k]])]]
  BY DEF Operands
<1> HIDE DEF all, labels
<1>5. \A e \in ToSet(labelled) : \E i \in 1..N : i \in labels /\ e = i
  BY <1>2, PickedFacts
<1> HIDE DEF labelled, N
<1>6. PICK k \in DOMAIN labelled :
        field = [label |-> Kept[r].names[labelled[k]], type |-> TypeFor(types, Kept[r].rhs[labelled[k]])]
  BY <1>4 DEF ToSet
<1>7. labelled[k] \in 1..N /\ labelled[k] \in labels
  <2>1. labelled[k] \in ToSet(labelled)
    BY <1>6 DEF ToSet
  <2> QED  BY <1>5, <2>1
<1> QED  BY <1>3, <1>6, <1>7 DEF N, OperandAt

\* The manifest for the types declared.
ManifestOf(types) == [name \in ActionNames |-> ActionOf(types, name)]

\* What is known of an action with a typed context, and of its rules.
LEMMA ActionFacts ==
  ASSUME NEW types, manifest = ManifestOf(types),
         NEW r \in DOMAIN Kept, HasContext(r)
  PROVE  /\ manifest[Kept[r].action].returnType = TypeFor(types, Kept[r].lhs)
         /\ FieldsOf(r) = ToSet(Operands(types, r))
<1> DEFINE name == Kept[r].action
           rules == {q \in DOMAIN Kept : Kept[q].action = name}
           first == CHOOSE q \in rules : \A u \in rules : q <= u
<1>1. name # "" /\ manifest[name].typed
  BY DEF HasContext
<1>2. name \in ActionNames
  BY <1>1 DEF ActionNames
<1>3. manifest[name] = ActionOf(types, name)
  BY <1>2 DEF ManifestOf
<1>4. ActionOf(types, name) =
        [typed |-> \A q \in rules : /\ RuleIsTyped(types, q)
                                    /\ ContextSignature(types, q) = ContextSignature(types, first),
         returnType |-> TypeFor(types, Kept[first].lhs),
         fields     |-> Operands(types, first)]
  BY DEF ActionOf
<1>5. r \in rules
  OBVIOUS
<1> HIDE DEF rules, first, name
<1>6. ContextSignature(types, r) = ContextSignature(types, first)
  <2> DEFINE all == \A q \in rules : /\ RuleIsTyped(types, q)
                                    /\ ContextSignature(types, q) = ContextSignature(types, first)
  <2>1. manifest[name].typed = all
    BY <1>3, <1>4
  <2>2. all
    <3> HIDE DEF all
    <3> QED  BY <1>1, <2>1
  <2> QED  BY <1>5, <2>2
<1>7. manifest[name].returnType = TypeFor(types, Kept[first].lhs) /\ manifest[name].fields = Operands(types, first)
  BY <1>3, <1>4
<1>8. /\ TypeFor(types, Kept[r].lhs) = TypeFor(types, Kept[first].lhs)
      /\ Operands(types, r) = Operands(types, first)
  BY <1>6 DEF ContextSignature
<1> QED  BY <1>7, <1>8 DEF FieldsOf, name

\* While the parser runs: the manifest is that of some declared types, and the
\* lexemes and the results of typed handlers have the types of their symbols.
Declares(types) == \E typed \in SUBSET Nonterminals : types \in [typed -> Family.types]
SoundValues(types) == \A v \in values : v.sound => v.type = TypeFor(types, v.symbol)
ValuesInv ==
  phase = "generated" =>
    \E types : /\ Declares(types) /\ SoundValues(types)
               /\ manifest = ManifestOf(types)

\* No symbol has the type "nil".
LEMMA NoNilType ==
  ASSUME NEW types, Declares(types), "nil" \notin Family.types, NEW x
  PROVE  TypeFor(types, x) # "nil"
BY DEF TypeFor, Declares

\* A typed handler is given what its context promises, and is refused no value
\* that was made in the same way.
LEMMA ValuesInvSound ==
  ASSUME TablesInv, ValuesInv
  PROVE  TypedContextsAreSound
<1>1. ASSUME NEW r \in TypedRules, NEW h \in Handles(r),
             \A k \in DOMAIN h : Kept[r].names[k] = "" \/ h[k].sound
      PROVE  Converts(r, h)
  <2> DEFINE rhs == Kept[r].rhs  names == Kept[r].names
  <2>1. phase = "generated" /\ r \in DOMAIN Kept /\ HasContext(r)
    BY DEF TypedRules
  <2>2. PICK types : /\ Declares(types) /\ SoundValues(types)
                     /\ manifest = ManifestOf(types)
    BY <2>1 DEF ValuesInv
  <2>3. /\ rhs \in Seq(STRING) /\ DOMAIN names = 1..Len(rhs) /\ "nil" \notin Family.types
        /\ \A i, j \in 1..Len(rhs) : names[i] = names[j] => i = j \/ names[i] = ""
    BY <2>1, AlternativeFacts
  <2>4. h \in [1..Len(rhs) -> values] /\ \A k \in 1..Len(rhs) : h[k].symbol = rhs[k]
    BY DEF Handles
  <2>5. FieldsOf(r) = ToSet(Operands(types, r))
    BY <2>1, <2>2, ActionFacts
  <2> SUFFICES ASSUME NEW field \in FieldsOf(r)
               PROVE  field.label \in Labels(r) /\ ConvertsTo(field.type, ValueFor(r, h, field.label))
    BY DEF Converts
  <2>6. PICK i \in 1..Len(rhs) : /\ names[i] # "" /\ field.label = names[i]
                                 /\ field.type = TypeFor(types, rhs[i])
    <3>1. Kept[r].rhs \in Seq(STRING) /\ field \in ToSet(Operands(types, r))
      BY <2>3, <2>5
    <3>2. PICK i \in 1..Len(Kept[r].rhs) : Kept[r].names[i] # "" /\ field = OperandAt(types, r, i)
      BY ONLY <3>1, OperandsFacts
    <3>3. field.label = names[i] /\ field.type = TypeFor(types, rhs[i])
      BY <3>2 DEF OperandAt
    <3> QED  BY <3>2, <3>3
  <2>7. field.label \in Labels(r)
    BY <2>3, <2>6 DEF Labels
  <2>8. ValueFor(r, h, field.label) = h[i]
    <3>1. ValueFor(r, h, field.label) = h[CHOOSE j \in DOMAIN h : names[j] = names[i]]
      BY <2>6 DEF ValueFor
    <3>2. DOMAIN h = 1..Len(rhs)
      BY <2>4
    <3>3. \A j \in DOMAIN h : names[j] = names[i] => j = i
      BY <2>3, <2>6, <3>2
    <3>4. (CHOOSE j \in DOMAIN h : names[j] = names[i]) = i
      BY <2>6, <3>2, <3>3
    <3> QED  BY <3>1, <3>4
  <2>9. h[i].sound /\ h[i] \in values /\ h[i].symbol = rhs[i]
    BY <1>1, <2>4, <2>6
  <2>10. h[i].type = field.type
    BY <2>2, <2>6, <2>9 DEF SoundValues
  <2>11. field.type # "nil"
    BY <2>2, <2>3, <2>6, NoNilType
  <2>12. ConvertsTo(field.type, h[i])
    BY <2>10, <2>11 DEF ConvertsTo
  <2> QED  BY <2>7, <2>8, <2>12
<1>2. RefusalsAreExplained
  BY <1>1 DEF RefusalsAreExplained
<1>3. target # "c" => TypedFieldsAreTyped
  BY DEF TypedFieldsAreTyped, Converts, ConvertsTo
<1> QED  BY <1>2, <1>3 DEF TypedContextsAreSound

\* A reduction's value has the type of its symbol if it is a typed handler's.
LEMMA ResultsFacts ==
  ASSUME NEW types, manifest = ManifestOf(types),
         NEW r \in DOMAIN Kept, NEW h, NEW v \in Results(r, h), v.sound
  PROVE  v.type = TypeFor(types, v.symbol)
<1>1. CASE Kept[r].action = ""
  <2>1. v = Value(r, DefaultType(h), FALSE)
    <3>1. ~HasContext(r)
      BY <1>1 DEF HasContext
    <3> QED  BY <1>1, <3>1 DEF Results
  <2> QED  BY <2>1 DEF Value
<1>2. CASE HasContext(r) /\ Converts(r, h)
  <2>1. Kept[r].action # ""
    BY <1>2 DEF HasContext
  <2>2. v = Value(r, manifest[Kept[r].action].returnType, TRUE)
    BY <1>2, <2>1 DEF Results
  <2>3. v.type = manifest[Kept[r].action].returnType /\ v.symbol = Kept[r].lhs
    BY <2>2 DEF Value
  <2>4. manifest[Kept[r].action].returnType = TypeFor(types, Kept[r].lhs)
    BY <1>2, ActionFacts
  <2> QED  BY <2>3, <2>4
<1>3. CASE HasContext(r) /\ ~Converts(r, h)
  <2>1. Kept[r].action # ""
    BY <1>3 DEF HasContext
  <2>2. v = Value(r, "nil", FALSE)
    BY <1>3, <2>1 DEF Results
  <2> QED  BY <2>2 DEF Value
<1>4. CASE Kept[r].action # "" /\ ~HasContext(r)
  <2>1. Results(r, h) = {Value(r, t, FALSE) : t \in Family.types \cup {"nil", "Lexeme"}}
    BY <1>4 DEF Results
  <2>2. PICK t : v = Value(r, t, FALSE)
    BY <2>1
  <2> QED  BY <2>2 DEF Value
<1> QED  BY <1>1, <1>2, <1>3, <1>4

\* A parser starts with lexemes, and goes on with the values of reductions.
LEMMA ValuesInvNext ==
  ASSUME TablesInv, ValuesInv, [TypedNext]_tvars
  PROVE  ValuesInv'
<1>1. ASSUME NEW types, UNCHANGED <<family, alternatives>>
      PROVE  /\ Declares(types)' <=> Declares(types)
             /\ \A x : TypeFor(types, x)' = TypeFor(types, x)
             /\ ManifestOf(types)' = ManifestOf(types)
  <2>1. Kept' = Kept /\ Terminals' = Terminals /\ Nonterminals' = Nonterminals /\ Family' = Family
    BY <1>1, SpecificationStays DEF Nonterminals, Names, Family
  <2>2. \A x : TypeFor(types, x)' = TypeFor(types, x)
    BY <2>1 DEF TypeFor
  <2>3. \A q : Operands(types, q)' = Operands(types, q)
    BY <2>1, <2>2 DEF Operands
  <2>4. \A q : RuleIsTyped(types, q)' <=> RuleIsTyped(types, q)
    <3> SUFFICES ASSUME NEW q
                 PROVE  RuleIsTyped(types, q)' <=> RuleIsTyped(types, q)
      OBVIOUS
    <3>1. TypeFor(types, Kept[q].lhs)' = TypeFor(types, Kept[q].lhs)
      BY <2>1, <2>2
    <3>2. Operands(types, q)' = Operands(types, q)
      BY <2>3
    <3> QED  BY <3>1, <3>2 DEF RuleIsTyped
  <2>5. \A q : ContextSignature(types, q)' = ContextSignature(types, q)
    BY <2>1, <2>2, <2>3 DEF ContextSignature
  <2>6. \A name : ActionOf(types, name)' = ActionOf(types, name)
    BY <2>1, <2>2, <2>3, <2>4, <2>5 DEF ActionOf
  <2>7. ActionNames' = ActionNames
    BY <2>1 DEF ActionNames
  <2>8. ManifestOf(types)' = ManifestOf(types)
    BY <2>6, <2>7 DEF ManifestOf
  <2>9. Declares(types)' <=> Declares(types)
    BY <2>1 DEF Declares
  <2> QED  BY <2>2, <2>9, <2>8
<1>2. CASE Next /\ UNCHANGED <<target, manifest, values>>
  BY <1>2 DEF Next, Reject, BuildTables, ValuesInv
<1>3. CASE Generate
  <2>1. UNCHANGED <<family, alternatives>>
    BY <1>3 DEF Generate
  <2>2. PICK types \in UNION {[typed -> Family.types] : typed \in SUBSET Nonterminals} :
          manifest' = ManifestOf(types)
    BY <1>3 DEF Generate, ManifestOf
  <2>3. Declares(types)
    BY <2>2 DEF Declares
  <2>4. values' = {[symbol |-> t, type |-> "Lexeme", sound |-> TRUE] : t \in Terminals}
    BY <1>3 DEF Generate
  <2>5. \A v \in values' : v.type = TypeFor(types, v.symbol)
    <3> SUFFICES ASSUME NEW t \in Terminals
                 PROVE  [symbol |-> t, type |-> "Lexeme", sound |-> TRUE].type
                          = TypeFor(types, [symbol |-> t, type |-> "Lexeme", sound |-> TRUE].symbol)
      BY <2>4
    <3> QED  BY DEF TypeFor
  <2>6. SoundValues(types)'
    BY <1>1, <2>1, <2>5 DEF SoundValues
  <2>7. manifest' = ManifestOf(types)'
    BY <1>1, <2>1, <2>2
  <2> QED  BY <1>1, <2>1, <2>3, <2>6, <2>7 DEF ValuesInv
<1>4. CASE Reduce
  <2>1. /\ phase = "generated" /\ UNCHANGED <<vars, target, manifest>>
        /\ values' = values \cup
             UNION {UNION {Results(r, h) : h \in Handles(r)} : r \in {q \in DOMAIN Kept : IsReducedBy(q)}}
    BY <1>4 DEF Reduce
  <2>2. PICK types : /\ Declares(types) /\ SoundValues(types)
                     /\ manifest = ManifestOf(types)
    BY <2>1 DEF ValuesInv
  <2>3. UNCHANGED <<family, alternatives>> /\ manifest' = manifest
    BY <2>1 DEF vars
  <2>4. ASSUME NEW v \in values', v.sound
        PROVE  v.type = TypeFor(types, v.symbol)
    <3>1. CASE v \in values
      BY <2>2, <2>4, <3>1 DEF SoundValues
    <3>2. CASE v \notin values
      <4>1. PICK r \in DOMAIN Kept : \E h \in Handles(r) : v \in Results(r, h)
        BY <2>1, <3>2
      <4> QED  BY <2>2, <2>4, <4>1, ResultsFacts
    <3> QED  BY <3>1, <3>2
  <2>5. SoundValues(types)'
    BY <1>1, <2>3, <2>4 DEF SoundValues
  <2>6. manifest' = ManifestOf(types)'
    BY <1>1, <2>2, <2>3
  <2> QED  BY <1>1, <2>2, <2>3, <2>5, <2>6 DEF ValuesInv
<1>5. CASE UNCHANGED tvars
  <2>1. UNCHANGED <<family, alternatives>> /\ UNCHANGED phase /\ UNCHANGED manifest /\ UNCHANGED values
    BY <1>5 DEF tvars, vars
  <2> SUFFICES ASSUME phase = "generated"
               PROVE  ValuesInv'
    BY <2>1 DEF ValuesInv
  <2>2. PICK types : /\ Declares(types) /\ SoundValues(types)
                     /\ manifest = ManifestOf(types)
    BY DEF ValuesInv
  <2>3. SoundValues(types)'
    BY <1>1, <2>1, <2>2 DEF SoundValues
  <2>4. manifest' = ManifestOf(types)'
    BY <1>1, <2>1, <2>2
  <2> QED  BY <1>1, <2>1, <2>2, <2>3, <2>4 DEF ValuesInv
<1> QED  BY <1>2, <1>3, <1>4, <1>5 DEF TypedNext

\* Labels and types carry values from typed handlers to typed handlers, whatever
\* the grammar, the types declared and the reductions.
THEOREM TypedContextsAreAlwaysSound == TypedSpec => []TypedContextsAreSound
<1>1. TypedInit => TablesInv /\ ValuesInv
  BY TablesInvInit DEF TypedInit, Init, ValuesInv
<1>2. TablesInv /\ ValuesInv /\ [TypedNext]_tvars => TablesInv' /\ ValuesInv'
  BY TablesInvTypedNext, ValuesInvNext
<1>3. TablesInv /\ ValuesInv => TypedContextsAreSound
  BY ValuesInvSound
<1> QED  BY <1>1, <1>2, <1>3, PTL DEF TypedSpec
=============================================================================
