------------------------------ MODULE LRTables ------------------------------
(***************************************************************************)
(* Table construction (package internal/parse): from a grammar to the      *)
(* action and goto tables the generated parsers run on, by each of the     *)
(* four algorithms lang-forge offers.                                      *)
(*                                                                         *)
(* A grammar is a record                                                   *)
(*   start, terminals, nonterminals, symbols, rules                        *)
(* with terminals including "$" and "error" (FromSpec always adds both),   *)
(* symbols the sequence Grammar.Symbols() iterates over, and rules the     *)
(* sequence of [lhs, rhs, hook] whose n-th element is the rule with ID n;  *)
(* hook says that the alternative carries a semantic action.  An item is   *)
(* <<rule, dot, lookahead>>; LR(0) items all have the lookahead NoLookahead. *)
(* States are numbered from 0, in the order the worklist finds them.       *)
(*                                                                         *)
(* The loops of the code are functions on sets of values, applied one after *)
(* the other or until nothing changes.                                     *)
(***************************************************************************)
EXTENDS TableSoundness, FiniteSets, SequencesExt

NoLookahead == ""  \* no symbol's name

\* The steps of a loop over a sequence, one after the other.
Applied(steps, start) ==
  LET After[n \in 0..Len(steps)] == IF n = 0 THEN start ELSE steps[n][After[n - 1]]
  IN  After[Len(steps)]

\* A loop that ends with the first round that changes nothing.
Fixpoint(step, start) ==
  LET Settled[a \in DOMAIN step] ==
        LET next == step[a] IN IF next = a THEN a ELSE Settled[next]
  IN  Settled[start]

-----------------------------------------------------------------------------
(* Nullable, FIRST and FOLLOW. *)

\* Rule 0 is the internal S' -> S.
AugmentedStart(g) == g.start \o "'"
Augment(g) ==
  [start |-> AugmentedStart(g), terminals |-> g.terminals,
   nonterminals |-> g.nonterminals \cup {AugmentedStart(g)},
   symbols |-> g.symbols,
   rules |-> [r \in 0..Len(g.rules) |->
                IF r = 0 THEN [lhs |-> AugmentedStart(g), rhs |-> <<g.start>>, hook |-> FALSE]
                         ELSE g.rules[r]]]

RulesOf(g)  == DOMAIN g.rules
Rhs(g, r)   == g.rules[r].rhs
Suffix(s, i) == SubSeq(s, i, Len(s))
Alphabet(g) == g.terminals \cup g.nonterminals

GrowNullable(g, known) ==
  known \cup {g.rules[r].lhs : r \in {q \in RulesOf(g) : ToSet(Rhs(g, q)) \subseteq known}}

\* What the rules derive from known symbols alone.
DerivedFrom(g, known) == Fixpoint([set \in SUBSET Alphabet(g) |-> GrowNullable(g, set)], known)
Nullable(g) == DerivedFrom(g, {})

\* Mutant: stops at the first symbol, nullable or not.
FirstOfHead(first, nullable, seq) == IF seq = <<>> THEN {} ELSE first[seq[1]]

\* firstSequence: the terminals that can begin what seq derives.
FirstSequence(first, nullable, seq) ==
  UNION {first[seq[i]] : i \in {j \in 1..Len(seq) : ToSet(SubSeq(seq, 1, j - 1)) \subseteq nullable}}

GrowFirst(g, nullable, first) ==
  [x \in Alphabet(g) |-> first[x] \cup
     UNION {FirstSequence(first, nullable, Rhs(g, r)) : r \in {q \in RulesOf(g) : g.rules[q].lhs = x}}]

FirstSets(g, nullable) ==
  Fixpoint([first \in [Alphabet(g) -> SUBSET g.terminals] |-> GrowFirst(g, nullable, first)],
           [x \in Alphabet(g) |-> IF x \in g.terminals THEN {x} ELSE {}])

\* What rule r contributes to FOLLOW(x): the lookaheads of each occurrence.
Trail(nullable, first, rest, after) ==
  FirstSequence(first, nullable, rest) \cup (IF ToSet(rest) \subseteq nullable THEN after ELSE {})
Trailers(g, nullable, first, follow, r, x) ==
  UNION {Trail(nullable, first, Suffix(Rhs(g, r), i + 1), follow[g.rules[r].lhs])
         : i \in {j \in 1..Len(Rhs(g, r)) : Rhs(g, r)[j] = x}}

GrowFollow(g, nullable, first, follow) ==
  [x \in g.nonterminals |-> follow[x] \cup
     UNION {Trailers(g, nullable, first, follow, r, x) : r \in RulesOf(g)}]

FollowFrom(g, nullable, first) ==
  Fixpoint([follow \in [g.nonterminals -> SUBSET g.terminals] |-> GrowFollow(g, nullable, first, follow)],
           [x \in g.nonterminals |-> IF x = g.start THEN {EOF} ELSE {}])
FollowSets(g, nullable) == FollowFrom(g, nullable, FirstSets(g, nullable))

-----------------------------------------------------------------------------
(* Item sets, their closures and the automata. *)

Items(g) == RulesOf(g) \X Nat \X (g.terminals \cup {NoLookahead})

AfterDot(g, item)   == Rhs(g, item[1])[item[2] + 1]
IsComplete(g, item) == item[2] = Len(Rhs(g, item[1]))

\* Lookaheads of the items that closing over item adds.
Lookaheads(g, first, nullable, item) ==
  IF item[3] = NoLookahead THEN {NoLookahead}
  ELSE FirstSequence(first, nullable, Append(Suffix(Rhs(g, item[1]), item[2] + 2), item[3]))

Opened(g, items) == {it \in items : ~IsComplete(g, it) /\ AfterDot(g, it) \in g.nonterminals}
GrowItems(g, first, nullable, items) ==
  items \cup UNION
    {{<<r, 0, la>> : r \in {q \in RulesOf(g) : g.rules[q].lhs = AfterDot(g, it)},
                     la \in Lookaheads(g, first, nullable, it)} : it \in Opened(g, items)}

Closure(g, first, nullable, items) ==
  Fixpoint([set \in SUBSET Items(g) |-> GrowItems(g, first, nullable, set)], items)

Goto(g, first, nullable, items, sym) ==
  Closure(g, first, nullable,
          {<<it[1], it[2] + 1, it[3]>> :
             it \in {i \in items : ~IsComplete(g, i) /\ AfterDot(g, i) = sym}})

\* An automaton under construction: states below next have their edges.
Automata(g) ==
  {auto \in [states : Seq(SUBSET Items(g)), edges : SUBSET (Nat \X STRING \X Nat), next : Nat] :
     auto.next <= Len(auto.states)}

\* One transition of state next: its target is reused or gets the next number.
Visit(auto, sym, target) ==
  IF target = {} THEN auto
  ELSE IF target \in ToSet(auto.states)
    THEN [auto EXCEPT !.edges = @ \cup
            {<<auto.next, sym, SelectInSeq(auto.states, LAMBDA s : s = target) - 1>>}]
    ELSE [auto EXCEPT !.states = Append(@, target),
                      !.edges  = @ \cup {<<auto.next, sym, Len(auto.states)>>}]

\* Those of a state with these items, in the order of the symbols.
Visits(g, first, nullable, items) ==
  [i \in DOMAIN g.symbols |->
     [auto \in Automata(g) |->
        Visit(auto, g.symbols[i], Goto(g, first, nullable, items, g.symbols[i]))]]

Expand(g, first, nullable, auto) ==
  IF auto.next = Len(auto.states) THEN auto
  ELSE [Applied(Visits(g, first, nullable, auto.states[auto.next + 1]), auto) EXCEPT !.next = @ + 1]

Initial(g, first, nullable, lookahead) ==
  [states |-> <<Closure(g, first, nullable, {<<0, 0, lookahead>>})>>, edges |-> {}, next |-> 0]
AutomatonFrom(g, first, nullable, lookahead) ==
  Fixpoint([auto \in Automata(g) |-> Expand(g, first, nullable, auto)],
           Initial(g, first, nullable, lookahead))

Automaton(g, nullable, lookahead) == AutomatonFrom(g, FirstSets(g, nullable), nullable, lookahead)
CanonicalLR0(g, nullable) == Automaton(g, nullable, NoLookahead)
CanonicalLR1(g, nullable) == Automaton(g, nullable, EOF)

Core(items) == {<<it[1], it[2]>> : it \in items}

-----------------------------------------------------------------------------
(* From an automaton to its table. *)

ShiftTo(s)   == [kind |-> "shift",  state |-> s, rule |-> 0]
ReduceBy(r)  == [kind |-> "reduce", state |-> 0, rule |-> r]
AcceptAction == [kind |-> "accept", state |-> 0, rule |-> 0]

\* The terminals a completed item reduces on: its lookahead, or FOLLOW for SLR.
\* (No other builder's items are without lookahead: they pass NoFollow.)
ReduceOn(g, follow, item) ==
  IF item[3] = NoLookahead THEN follow[g.rules[item[1]].lhs] ELSE {item[3]}
NoFollow == <<>>

\* The actions on terminal t that setAction is offered for a state with these items.
Offered(g, follow, items, shiftTargets, t) ==
  LET done == {it \in items : IsComplete(g, it)}
  IN  {ShiftTo(s) : s \in shiftTargets}
      \cup {AcceptAction : it \in {i \in done : i[1] = 0 /\ t = EOF}}
      \cup {ReduceBy(it[1]) : it \in {i \in done : i[1] # 0 /\ t \in ReduceOn(g, follow, i)}}

\* setAction keeps the shift if there is one, else the earliest rule: shifts
\* are offered first and completed items in the order of their rules.
Preferred(offers) ==
  CHOOSE a \in offers :
    IF \E b \in offers : b.kind = "shift" THEN a.kind = "shift"
    ELSE \A b \in offers : a.rule <= b.rule

TargetsOf(auto, s, x) == {e[3] : e \in {d \in auto.edges : d[1] = s /\ d[2] = x}}

\* What is offered in state s of an automaton: no shift is on the end of input.
OfferedIn(g, follow, auto, s, t) ==
  Offered(g, follow, auto.states[s + 1], IF t = EOF THEN {} ELSE TargetsOf(auto, s, t), t)

\* The table for an augmented grammar, with the conflicts that setAction records.
TableFor(g, follow, auto) ==
  LET ids    == 0..(Len(auto.states) - 1)
      offers == [s \in ids |-> [t \in g.terminals |-> OfferedIn(g, follow, auto, s, t)]]
  IN  [states  |-> ids,
       actions |-> [s \in ids |-> [t \in {u \in g.terminals : offers[s][u] # {}} |->
                                     Preferred(offers[s][t])]],
       gotos   |-> [s \in ids |->
                     [x \in {y \in g.nonterminals \ (g.terminals \ {EOF}) : TargetsOf(auto, s, y) # {}} |->
                        CHOOSE to \in TargetsOf(auto, s, x) : TRUE]],
       items   |-> [s \in ids |-> Core(auto.states[s + 1])],
       rules   |-> g.rules,
       terminals |-> g.terminals \ {EOF, Error},
       conflicts |-> {p \in ids \X g.terminals : Cardinality(offers[p[1]][p[2]]) > 1}]

-----------------------------------------------------------------------------
(* Merging canonical LR(1) states.  A partition is a sequence of groups and a *)
(* group the sequence of its canonical states, both in the code's order.     *)

Partitions == Seq(Seq(Nat))

\* A member joins the i-th group, or a new one after them.
JoinAt(groups, i, m) ==
  IF i = 0 THEN Append(groups, <<m>>) ELSE [groups EXCEPT ![i] = Append(@, m)]

\* Groups members by key[member], each group where its first member stands.
PlaceByKey(key, groups, m) ==
  JoinAt(groups, SelectInSeq(groups, LAMBDA grp : key[grp[1]] = key[m]), m)
GroupBy(key, members) ==
  Applied([i \in DOMAIN members |-> [groups \in Partitions |-> PlaceByKey(key, groups, members[i])]],
          <<>>)

Numbers(auto) == 0..(Len(auto.states) - 1)
MembersUnion(auto, members) == UNION {auto.states[m + 1] : m \in ToSet(members)}
GroupOf(partition, m) == SelectInSeq(partition, LAMBDA grp : m \in ToSet(grp)) - 1

\* Mutant: the key of the core forgets the dots.
PartitionsByRules(auto) ==
  LET rules == [m \in Numbers(auto) |-> {it[1] : it \in auto.states[m + 1]}]
  IN  GroupBy(rules, [i \in 1..Len(auto.states) |-> i - 1])

InitialCorePartitions(auto) ==
  LET core == [m \in Numbers(auto) |-> Core(auto.states[m + 1])]
  IN  GroupBy(core, [i \in 1..Len(auto.states) |-> i - 1])

\* The first edge wins when two members disagree on a target.
Merged(auto, partition) ==
  LET grp == [m \in Numbers(auto) |-> GroupOf(partition, m)]
      wins(e) == \A d \in auto.edges : grp[d[1]] = grp[e[1]] /\ d[2] = e[2] => e[1] <= d[1]
  IN  [states |-> [i \in 1..Len(partition) |-> MembersUnion(auto, partition[i])],
       edges  |-> {<<grp[e[1]], e[2], grp[e[3]]>> : e \in {d \in auto.edges : wins(d)}}]

\* Mutant: conflicts are looked for on shifted terminals only.
MergeConflictsWithShifts(g, auto, members) ==
  LET items  == MembersUnion(auto, members)
      shifts == {e[2] : e \in {d \in auto.edges : d[1] \in ToSet(members)}} \cap (g.terminals \ {EOF})
  IN  {t \in shifts : Cardinality(Offered(g, NoFollow, items, {1}, t)) > 1}

\* Would one state made of these members have an action conflict?  The target
\* of a shift does not matter.
MergeConflicts(g, auto, members) ==
  LET items  == MembersUnion(auto, members)
      shifts == {e[2] : e \in {d \in auto.edges : d[1] \in ToSet(members)}} \cap (g.terminals \ {EOF})
      target(t) == IF t \in shifts THEN {1} ELSE {}
  IN  {t \in g.terminals : Cardinality(Offered(g, NoFollow, items, target(t), t)) > 1}

\* Each member joins the first group it is compatible with.
PlaceByFit(g, auto, groups, m) ==
  JoinAt(groups, SelectInSeq(groups, LAMBDA grp : MergeConflicts(g, auto, Append(grp, m)) = {}), m)
SplitByCompatibility(g, auto, members) ==
  Applied([i \in DOMAIN members |->
             [groups \in Partitions |-> PlaceByFit(g, auto, groups, members[i])]],
          <<>>)

SplitInadequate(g, auto, partition) ==
  FlattenSeq([i \in 1..Len(partition) |->
    IF Len(partition[i]) <= 1 \/ MergeConflicts(g, auto, partition[i]) = {}
      THEN <<partition[i]>>
      ELSE SplitByCompatibility(g, auto, partition[i])])

\* Members stay together only while all their transitions agree.
RefineByTransitions(auto, partition) ==
  LET grp == [m \in Numbers(auto) |-> GroupOf(partition, m)]
      signature == [m \in Numbers(auto) |-> {<<e[2], grp[e[3]]>> : e \in {d \in auto.edges : d[1] = m}}]
  IN  FlattenSeq([i \in 1..Len(partition) |-> GroupBy(signature, partition[i])])

IELRPartition(g, auto, partition) ==
  Fixpoint([p \in Partitions |-> RefineByTransitions(auto, SplitInadequate(g, auto, p))], partition)

-----------------------------------------------------------------------------
(* The four algorithms. *)

BuildSLR(g, nullable) == TableFor(g, FollowSets(g, nullable), CanonicalLR0(g, nullable))

\* LALR merges the canonical states by core; IELR splits what that broke.
MergePartition(g, auto, cores, algorithm) ==
  IF algorithm = "ielr" THEN IELRPartition(g, auto, cores) ELSE cores

\* The table of an LR(1) algorithm from the canonical automaton.
BuildLR1(g, auto, algorithm) ==
  TableFor(g, NoFollow,
           IF algorithm = "canonical" THEN auto
           ELSE Merged(auto, MergePartition(g, auto, InitialCorePartitions(auto), algorithm)))

BuildAugmented(g, nullable, algorithm) ==
  IF algorithm = "slr" THEN BuildSLR(g, nullable)
                       ELSE BuildLR1(g, CanonicalLR1(g, nullable), algorithm)

BuildTable(g, algorithm) == BuildAugmented(g, Nullable(g), algorithm)
Build(grammar, algorithm) == BuildTable(Augment(grammar), algorithm)

=============================================================================
