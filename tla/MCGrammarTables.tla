-------------------------- MODULE MCGrammarTables ---------------------------
(* Families of grammars for GrammarTables and TypedActions.                  *)
EXTENDS TypedActions

\* An alternative with the names of its labels and its action.
Act(lhs, rhs, names, action) ==
  [lhs |-> lhs, rhs |-> rhs, hook |-> action # "", labels |-> {i \in DOMAIN rhs : names[i] # ""},
   names |-> names, action |-> action]

Alt(lhs, rhs) == Act(lhs, rhs, [i \in DOMAIN rhs |-> ""], "")

\* What the families' diagnostics group, hide and rename.
Plain == [groups |-> <<>>, hidden |-> {}, aliases |-> <<>>]
Grouped ==
  [groups |-> <<[name |-> "letter", tokens |-> <<"c", "a">>], [name |-> "other", tokens |-> <<"b", "e">>]>>,
   hidden |-> {"b"},
   aliases |-> <<[symbol |-> "d", display |-> "delta"], [symbol |-> "a", display |-> "alpha"],
                 [symbol |-> "c", display |-> "gamma"]>>]

\* Sub-grammars of the "mysterious conflict" shape: which contexts A and B occur
\* in, and what they share, decides which merges of LR(1) states are safe.
Contexts ==
  [start |-> "S", types |-> {}, tokens |-> {"a", "b", "c", "d", "e"}, reporting |-> Grouped,
   symbols |-> <<"$", "A", "B", "S", "a", "b", "c", "d", "e", "error">>,
   alternatives |->
     << Alt("S", <<"a", "A", "d">>), Alt("S", <<"b", "B", "d">>),
        Alt("S", <<"a", "B", "e">>), Alt("S", <<"b", "A", "e">>),
        Alt("S", <<"e", "A", "a">>), Alt("S", <<"e", "B", "b">>),
        Alt("A", <<"c">>), Alt("B", <<"c">>), Alt("B", <<>>) >>]

\* Lists, empty derivations, recursion on both sides and recovery alternatives,
\* well and badly formed, without %start.
Lists ==
  [start |-> "", types |-> {}, tokens |-> {"a", "b"},
   reporting |-> [groups |-> <<[name |-> "letter", tokens |-> <<"b", "a">>]>>, hidden |-> {}, aliases |-> <<>>],
   symbols |-> <<"$", "A", "S", "a", "b", "error">>,
   alternatives |->
     << Alt("S", <<"S", "A">>), Alt("S", <<"A", "S">>), Alt("S", <<>>), Alt("S", <<"A">>),
        Alt("A", <<"a", "b">>), Alt("A", <<"a">>), Alt("A", <<"A", "b", "A">>),
        Alt("A", <<"error", "b">>), Alt("S", <<"error", "A">>),
        Act("A", <<"b", "error", "a">>, <<"", "x", "">>, "") >>]

\* A pair of right-recursive lists: LALR merges whole chains of LR(1) states.
Pairs ==
  [start |-> "S", types |-> {}, tokens |-> {"c", "d"},
   reporting |-> [Plain EXCEPT !.aliases = <<[symbol |-> "d", display |-> "delta"]>>],
   symbols |-> <<"$", "C", "S", "c", "d", "error">>,
   alternatives |->
     << Alt("S", <<"C", "C">>), Alt("C", <<"c", "C">>), Alt("C", <<"d">>),
        Alt("S", <<"C", "error", "d">>), Alt("C", <<"error", "C">>), Alt("C", <<"error", "d">>) >>]

\* A token that is also a rule name, and a rule for `error'.
Clashes ==
  [start |-> "S", types |-> {}, tokens |-> {"a", "A"}, reporting |-> Plain,
   symbols |-> <<"$", "A", "S", "a", "error">>,
   alternatives |->
     << Alt("S", <<"A", "a">>), Alt("S", <<"a">>), Alt("A", <<"a">>), Alt("A", <<>>),
        Alt("error", <<"a">>), Alt("S", <<"error", "error", "a">>) >>]

\* Actions shared by rules with labels in other places, of other names, and of
\* other results; rules without an action; untyped nonterminals.
Typed ==
  [start |-> "S", types |-> {"value", "node"}, tokens |-> {"a", "b", "c"},
   reporting |-> Plain,
   symbols |-> <<"$", "E", "S", "a", "b", "c", "error">>,
   alternatives |->
     << Act("S", <<"E", "b">>, <<"x", "">>, "f"), Act("S", <<"a", "E">>, <<"", "x">>, "f"),
        Act("S", <<"E", "E", "c">>, <<"y", "x", "">>, "f"), Alt("S", <<"E">>),
        Act("E", <<"b", "E", "c">>, <<"", "x", "">>, "f"), Act("E", <<"a">>, <<"x">>, "g"),
        Alt("E", <<"b">>), Alt("E", <<"c", "c">>), Act("E", <<"a", "b">>, <<"", "x">>, "g") >>]

AllFamilies == [contexts |-> Contexts, lists |-> Lists, pairs |-> Pairs, clashes |-> Clashes,
                typed |-> Typed]

MCFamilies    == AllFamilies
TypedFamilies == [typed |-> Typed]

=============================================================================
