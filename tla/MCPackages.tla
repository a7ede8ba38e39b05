----------------------------- MODULE MCPackages -----------------------------
(* Small grammars, and the packages (grammar, algorithm) that lang-forge     *)
(* generates from them.                                                      *)
EXTENDS TableSoundness

T == INSTANCE LRTables

R(lhs, rhs)      == [lhs |-> lhs, rhs |-> rhs, hook |-> FALSE]
Hooked(lhs, rhs) == [lhs |-> lhs, rhs |-> rhs, hook |-> TRUE]

Make(start, terminals, nonterminals, symbols, rules) ==
  [start |-> start, terminals |-> terminals \cup {EOF, Error},
   nonterminals |-> nonterminals, symbols |-> symbols, rules |-> rules]

\* The grammar of the recovery demo, its assignment cut to Id Num Semi.
Statements ==
  Make("Program", {"Id", "Num", "Semi"}, {"Program", "Statements", "Statement"},
       <<"$", "Id", "Num", "Program", "Semi", "Statement", "Statements", "error">>,
       << R("Program", <<"Statements">>),
          R("Statements", <<"Statement", "Statements">>),
          R("Statements", <<>>),
          Hooked("Statement", <<"Id", "Num", "Semi">>),
          Hooked("Statement", <<"error", "Semi">>) >>)

\* A left-recursive list with an empty base, and a recovery alternative.
LeftList ==
  Make("List", {"Id", "Semi"}, {"List", "Item"},
       <<"$", "Id", "Item", "List", "Semi", "error">>,
       << R("List", <<"List", "Item">>),
          R("List", <<>>),
          Hooked("Item", <<"Id", "Semi">>),
          R("Item", <<"error", "Semi">>) >>)

\* The test grammar that is LALR(1) but not SLR(1).
Assignments ==
  Make("S", {"Eq", "ID", "Star"}, {"S", "L", "R"},
       <<"$", "Eq", "ID", "L", "R", "S", "Star", "error">>,
       << R("S", <<"L", "Eq", "R">>), R("S", <<"R">>),
          R("L", <<"Star", "R">>), R("L", <<"ID">>), R("R", <<"L">>) >>)

\* The test grammar whose LALR merge has a mysterious conflict.
Mysterious ==
  Make("S", {"a", "b", "c", "d", "e"}, {"S", "A", "B"},
       <<"$", "A", "B", "S", "a", "b", "c", "d", "e", "error">>,
       << R("S", <<"a", "A", "d">>), R("S", <<"b", "B", "d">>),
          R("S", <<"a", "B", "e">>), R("S", <<"b", "A", "e">>),
          R("A", <<"c">>), R("B", <<"c">>) >>)

\* Nested brackets around empty derivations.
Brackets ==
  Make("S", {"lp", "rp"}, {"S"},
       <<"$", "S", "error", "lp", "rp">>,
       << Hooked("S", <<"lp", "S", "rp", "S">>), R("S", <<>>) >>)

AllGrammars ==
  [statements |-> Statements, leftlist |-> LeftList, assignments |-> Assignments,
   mysterious |-> Mysterious, brackets |-> Brackets]

\* Tables are generated only when they have no conflict.
Packages(grammars, algorithms) == {<<g, a>> : g \in grammars, a \in algorithms}
BuiltTables(packages) == [p \in packages |-> T!Build(AllGrammars[p[1]], p[2])]

AllBuilt ==
  BuiltTables(Packages({"assignments", "brackets", "statements"}, {"lalr", "ielr", "canonical"})
              \cup Packages({"mysterious"}, {"ielr", "canonical"})
              \cup Packages({"brackets", "statements"}, {"slr"})
              \cup Packages({"leftlist"}, {"lalr"}))
RecoveryBuilt == BuiltTables(Packages({"statements", "leftlist"}, {"lalr"}))

\* The values the cfg files name.  (TLC evaluates the definition a cfg gives a
\* constant at every use, but the definitions above only once.)
MCTables       == AllBuilt
MCBounds       == [p \in DOMAIN AllBuilt |-> IF p \in DOMAIN RecoveryBuilt THEN 7 ELSE 5]
RecoveryTables == RecoveryBuilt

=============================================================================
