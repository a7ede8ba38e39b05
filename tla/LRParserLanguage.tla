-------------------------- MODULE LRParserLanguage --------------------------
(***************************************************************************)
(* The generated parser against the grammar of its rules.  What it accepts *)
(* and what it reports is compared with the derivations of the grammar:    *)
(* which words it derives and which words begin one it derives, found      *)
(* without any automaton or table.                                         *)
(***************************************************************************)
EXTENDS LRParser, SequencesExt

LRT == INSTANCE LRTables

(***************************************************************************)
(* The grammar of the tables T, all of whose nonterminals derive a word.   *)
(***************************************************************************)
RuleSet(T)      == {T.rules[r] : r \in DOMAIN T.rules \ {0}}
StartSymbol(T)  == T.rules[0].rhs[1]
Nonterminals(T) == {r.lhs : r \in RuleSet(T)}

\* The symbols that stand between two places of a word.
Spans(T, word) == (ToSet(word) \cup Nonterminals(T)) \X (0..Len(word)) \X (0..Len(word))

\* Positions reachable from position i by deriving the symbols of seq in turn,
\* when derived holds the known <<symbol, from, to>> over the word.
Onward(derived, x, from) == {d[3] : d \in {e \in derived : e[1] = x /\ e[2] \in from}}
Reach(derived, seq, i) ==
  LRT!Applied([k \in DOMAIN seq |-> [from \in SUBSET Nat |-> Onward(derived, seq[k], from)]], {i})

GrowDerived(T, n, derived) ==
  derived \cup UNION {{<<r.lhs, i, j>> : j \in Reach(derived, r.rhs, i)} : r \in RuleSet(T), i \in 0..n}

\* <<symbol, i, j>>: the symbol derives the lexemes i+1 .. j of word.
Lexemes(word) == {<<word[i], i - 1, i>> : i \in 1..Len(word)}
Derived(T, word) ==
  LRT!Fixpoint([derived \in SUBSET Spans(T, word) |-> GrowDerived(T, Len(word), derived)], Lexemes(word))

Derives(T, word) == <<StartSymbol(T), 0, Len(word)>> \in Derived(T, word)

\* <<symbol, i>>: the symbol derives some word that begins with the lexemes
\* from i+1 to the end of word.
GrowBegins(T, n, derived, begins) ==
  LET some(r, i) == \E d \in 1..Len(r.rhs) :
                      \E k \in Reach(derived, SubSeq(r.rhs, 1, d - 1), i) : <<r.rhs[d], k>> \in begins
  IN  begins \cup {<<q[1].lhs, q[2]>> : q \in {p \in RuleSet(T) \X (0..n) : some(p[1], p[2])}}

Begins(T, word) ==
  LET n == Len(word)
      derived == Derived(T, word)
      atEnd   == (Nonterminals(T) \cup T.terminals) \X {n}
      last    == {<<word[i], i - 1>> : i \in {n} \ {0}}
      some    == (ToSet(word) \cup Nonterminals(T) \cup T.terminals) \X (0..n)
  IN  <<StartSymbol(T), 0>> \in
        LRT!Fixpoint([begins \in SUBSET some |-> GrowBegins(T, n, derived, begins)], atEnd \cup last)

(***************************************************************************)
(* Properties.                                                             *)
(***************************************************************************)
Algorithm == lang[2]

Before(d) == SubSeq(pulled, 1, d.start)

\* Without a syntax error the parser accepts only sentences of the grammar.
AcceptsOnlySentences ==
  status = "accepted" /\ diagnostics = <<>> => Derives(Table, pulled)

\* The first diagnostic is raised at the earliest lexeme that no sentence
\* continues with: what was shifted begins a sentence, and with the reported
\* lookahead it does not.  Together with Terminates: every sentence is accepted.
FirstErrorIsExact ==
  Len(diagnostics) = 1 =>
    LET d == diagnostics[1]
    IN  /\ Begins(Table, Before(d))
        /\ IF d.unexpected = EOF THEN ~Derives(Table, Before(d))
                                 ELSE ~Begins(Table, Append(Before(d), d.unexpected))

\* With canonical LR(1) tables the expected set of the first diagnostic is
\* exactly the set of terminals that continue the input before it.
CanonicalExpectedIsExact ==
  Algorithm = "canonical" /\ Len(diagnostics) = 1 =>
    LET d == diagnostics[1]
    IN  /\ \A t \in Table.terminals :
             HasAction(d.state, t) <=> Begins(Table, Append(Before(d), t))
        /\ HasAction(d.state, EOF) <=> Derives(Table, Before(d))

\* What is reported first is exact: the place, and under canonical LR(1) also
\* the terminals expected there.
ErrorsAreExact == FirstErrorIsExact /\ CanonicalExpectedIsExact

=============================================================================
