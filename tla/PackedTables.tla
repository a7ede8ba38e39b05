---------------------------- MODULE PackedTables ----------------------------
(***************************************************************************)
(* The arrays the C and C++ generators write for a table, and how the      *)
(* generated parsers look things up in them.  C walks a row from its start *)
(* and C++ calls std::lower_bound on it, so C++ alone depends on the order *)
(* of the symbols: theirs is the order of the sequence symbols.            *)
(*                                                                         *)
(* The array elements are numbered from 1 here, rows and states from 0.    *)
(***************************************************************************)
EXTENDS LRTables

Before(symbols, x, y) ==
  SelectInSeq(symbols, LAMBDA s : s = x) < SelectInSeq(symbols, LAMBDA s : s = y)
Ordered(symbols, set) == SelectSeq(symbols, LAMBDA x : x \in set)

\* The states are rendered from 0 up.
InOrder(T) == [i \in 1..Cardinality(T.states) |-> i - 1]

-----------------------------------------------------------------------------
(* Actions and gotos: the rows of all states in one array. *)

\* A reduction is written with a comment in front of it, which counts in the
\* length of the array although it is no element of it.
Lines(value) == IF "kind" \in DOMAIN value /\ value.kind = "reduce" THEN 2 ELSE 1

Empty == [elements |-> <<>>, rows |-> <<>>, lines |-> 0]
RowOf(symbols, row) ==
  LET keys == Ordered(symbols, DOMAIN row)
  IN  [i \in DOMAIN keys |-> [symbol |-> keys[i], value |-> row[keys[i]]]]
AddRow(packed, row, start) ==
  [elements |-> packed.elements \o row,
   rows     |-> Append(packed.rows, [start |-> start, count |-> Len(row)]),
   lines    |-> FoldLeft(LAMBDA n, e : n + Lines(e.value), packed.lines, row)]

\* Mutant: rows start where the lines do, comments included.
PackByLines(T, symbols, rows) ==
  FoldLeft(LAMBDA p, s : AddRow(p, RowOf(symbols, rows[s]), p.lines), Empty, InOrder(T))

Pack(T, symbols, rows) ==
  FoldLeft(LAMBDA p, s : AddRow(p, RowOf(symbols, rows[s]), Len(p.elements)), Empty, InOrder(T))

PackedActions(T, symbols) == Pack(T, symbols, T.actions)
PackedGotos(T, symbols) ==
  Pack(T, symbols, [s \in T.states |-> [x \in DOMAIN T.gotos[s] |-> [state |-> T.gotos[s][x]]]])

\* The std::array of C++ is as long as the lines and ends in zero elements.
Padding == [symbol |-> "", value |-> [kind |-> "shift", state |-> 0, rule |-> 0]]
Padded(packed) ==
  [packed EXCEPT !.elements = @ \o [i \in 1..packed.lines - Len(@) |-> Padding]]

\* The first element of the count from first on whose symbol is not before x.
LowerBound(symbols, elements, first, count, x) ==
  LET Bound[at \in Nat, left \in Nat] ==
        LET half == left \div 2
        IN  IF left = 0 THEN at
            ELSE IF Before(symbols, elements[at + half].symbol, x)
              THEN Bound[at + half + 1, left - half - 1]
              ELSE Bound[at, half]
  IN  Bound[first, count]

\* What a lookup finds, as a set of at most one value.
FoundBySearch(symbols, packed, state, x) ==
  IF state \notin 0..Len(packed.rows) - 1 THEN {}
  ELSE LET row == packed.rows[state + 1]
           it  == LowerBound(symbols, packed.elements, row.start + 1, row.count, x)
       IN  IF it # row.start + 1 + row.count /\ packed.elements[it].symbol = x
             THEN {packed.elements[it].value} ELSE {}
FoundByScan(packed, state, x) ==
  IF state \notin 0..Len(packed.rows) - 1 THEN {}
  ELSE LET row  == packed.rows[state + 1]
           seen == SubSeq(packed.elements, row.start + 1, row.start + row.count)
           hit  == SelectInSeq(seen, LAMBDA e : e.symbol = x)
       IN  IF hit = 0 THEN {} ELSE {seen[hit].value}

\* Rules are written in their order by C, and at the index of their ID by C++,
\* which marks an ID without a rule by -1.  A reduction indexes either array.
RuleIds(T) == [i \in 1..Cardinality(DOMAIN T.rules) |-> i - 1]
RuleOf(T, r) == [id |-> r, lhs |-> T.rules[r].lhs, count |-> Len(T.rules[r].rhs)]
RulesInOrder(T) == LET ids == RuleIds(T) IN [i \in DOMAIN ids |-> RuleOf(T, ids[i])]
RulesByID(T) ==
  LET ids == RuleIds(T)
  IN  [i \in 1..Last(ids) + 1 |->
         IF i - 1 \in ToSet(ids) THEN RuleOf(T, i - 1) ELSE [id |-> -1, lhs |-> "", count |-> 0]]

-----------------------------------------------------------------------------
(* What a diagnostic says was expected.  A specification's reporting is      *)
(*   [groups |-> <<[name, tokens]>>, hidden, aliases |-> <<[symbol, display]>>]. *)

Aliased(aliases, x) == SelectInSeq(aliases, LAMBDA a : a.symbol = x)
Shown(aliases, x) ==
  IF Aliased(aliases, x) # 0 THEN aliases[Aliased(aliases, x)].display
  ELSE IF x = EOF THEN "end of input" ELSE x

\* finalizeTable: the terminals state s acts on, but for `error' and the hidden.
Available(T, reporting, s) == (DOMAIN T.actions[s] \ {Error}) \ reporting.hidden

\* A group stands for its tokens once two of them are available.
MembersOf(group, available) == SelectSeq(group.tokens, LAMBDA x : x \in available)
Standing(groups, available) ==
  SelectSeq(groups, LAMBDA grp : Len(MembersOf(grp, available)) >= 2)
ExpectedOf(symbols, reporting, available) ==
  LET groups == Standing(reporting.groups, available)
      alone  == Ordered(symbols, available \ UNION {ToSet(groups[i].tokens) : i \in DOMAIN groups})
  IN  [i \in DOMAIN groups |->
         [symbol |-> "", display |-> groups[i].name, members |-> MembersOf(groups[i], available)]]
      \o [i \in DOMAIN alone |->
            [symbol |-> alone[i], display |-> Shown(reporting.aliases, alone[i]), members |-> <<>>]]
Expected(T, symbols, reporting) ==
  [s \in T.states |-> ExpectedOf(symbols, reporting, Available(T, reporting, s))]

\* C has a row for each state and an array for each group's members; C++ tags
\* each element with its state and has one array for all members.
ExpectedRows(T, expected) ==
  FoldLeft(LAMBDA p, s :
             [elements |-> p.elements \o expected[s],
              rows |-> Append(p.rows, [start |-> Len(p.elements), count |-> Len(expected[s])])],
           [elements |-> <<>>, rows |-> <<>>], InOrder(T))
AddTagged(packed, s, e) ==
  [elements |-> Append(packed.elements,
                  [state |-> s, symbol |-> e.symbol, display |-> e.display,
                   start |-> Len(packed.members), count |-> Len(e.members)]),
   members |-> packed.members \o e.members]
ExpectedTagged(T, expected) ==
  FoldLeft(LAMBDA p, s : FoldLeft(LAMBDA q, e : AddTagged(q, s, e), p, expected[s]),
           [elements |-> <<>>, members |-> <<>>], InOrder(T))

ReportedByRows(packed, s) ==
  LET row == packed.rows[s + 1] IN SubSeq(packed.elements, row.start + 1, row.start + row.count)
ReportedByTags(packed, s) ==
  LET own == SelectSeq(packed.elements, LAMBDA e : e.state = s)
  IN  [i \in DOMAIN own |->
         [symbol |-> own[i].symbol, display |-> own[i].display,
          members |-> SubSeq(packed.members, own[i].start + 1, own[i].start + own[i].count)]]

\* The name of the unexpected symbol: C walks the aliases, C++ searches them.
SortedAliases(symbols, aliases) ==
  SortSeq(aliases, LAMBDA a, b : Before(symbols, a.symbol, b.symbol))
UnexpectedByScan(aliases, x) ==
  IF x = EOF THEN "end of input"
  ELSE IF Aliased(aliases, x) # 0 THEN aliases[Aliased(aliases, x)].display ELSE x
UnexpectedBySearch(symbols, sorted, x) ==
  LET it == LowerBound(symbols, sorted, 1, Len(sorted), x)
  IN  IF x = EOF THEN "end of input"
      ELSE IF it <= Len(sorted) /\ sorted[it].symbol = x THEN sorted[it].display ELSE x

=============================================================================
