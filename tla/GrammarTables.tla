--------------------------- MODULE GrammarTables ----------------------------
(***************************************************************************)
(* From a specification's rules to tables: FromSpec validates the rules    *)
(* and numbers them, and a grammar without errors gets its table from      *)
(* Build.  The specifications are the sub-lists of a family's alternatives.*)
(***************************************************************************)
EXTENDS PackedTables

CONSTANT Families  \* [name -> [start, tokens, symbols, reporting, alternatives]]

\* What a specification is made of, once parsed.  Every name stands in symbols,
\* and the name of a rule is an identifier: with a quote after it, it is no name.
ASSUME FamiliesAssumption ==
  \A name \in DOMAIN Families :
    LET from  == Families[name]
        names == from.tokens \cup {EOF, Error} \cup {a.lhs : a \in ToSet(from.alternatives)}
    IN  /\ IsFiniteSet(from.tokens) /\ names \subseteq STRING \ {""}
        /\ from.symbols \in Seq(STRING) /\ names \subseteq ToSet(from.symbols)
        /\ from.alternatives \in Seq(ToSet(from.alternatives))
        /\ \A a \in ToSet(from.alternatives) : a.rhs \in Seq(STRING) /\ a.lhs \o "'" \in STRING \ names

Algorithms == {"slr", "lalr", "ielr", "canonical"}

VARIABLES
  family,        \* the family the specification is written from
  alternatives,  \* its alternatives, in order: [lhs, rhs, hook, labels]
  phase,         \* "written", "rejected" or "built" (in TypedActions, "generated" after that)
  tables         \* [algorithm -> table] once built

vars == <<family, alternatives, phase, tables>>

-----------------------------------------------------------------------------
(* FromSpec. *)

\* The elements of a sequence at the places picked.
Picked(seq, places) ==
  Applied([i \in DOMAIN seq |->
             [picked \in Seq(ToSet(seq)) |-> IF i \in places THEN Append(picked, seq[i]) ELSE picked]],
          <<>>)

Family == Families[family]
Names  == {alternatives[i].lhs : i \in 1..Len(alternatives)}

\* Without %start the first rule is the start, whatever its name.
Start == IF Family.start = "" /\ alternatives # <<>> THEN alternatives[1].lhs ELSE Family.start

\* `error' is reserved: its rule is reported and contributes nothing.
Kept ==
  IF Error \notin Names THEN alternatives
  ELSE Picked(alternatives, {i \in DOMAIN alternatives : alternatives[i].lhs # Error})

Terminals    == Family.tokens \cup {EOF, Error}
Nonterminals == Names \ {Error}

Normalized ==
  [start |-> Start, terminals |-> Terminals, nonterminals |-> Nonterminals,
   symbols |-> Family.symbols,
   rules |-> [i \in 1..Len(Kept) |-> [lhs |-> Kept[i].lhs, rhs |-> Kept[i].rhs, hook |-> Kept[i].hook]]]

\* Where the reserved `error' stands in an alternative.
ErrorPositions(a) == {i \in 1..Len(a.rhs) : a.rhs[i] = Error}
SynchronizesAfter(a, i) == \E j \in i + 1..Len(a.rhs) : a.rhs[j] \in Terminals \ {Error}
LastErrorPosition(a) == CHOOSE i \in ErrorPositions(a) : \A j \in ErrorPositions(a) : j <= i

\* The diagnostic codes an alternative draws.
AlternativeErrors(a) ==
  {c \in {"LF302", "LF313", "LF314", "LF315"} :
     \/ c = "LF302" /\ ~(ToSet(a.rhs) \subseteq Terminals \cup Nonterminals)
     \/ c = "LF313" /\ ErrorPositions(a) \cap a.labels # {}
     \/ c = "LF314" /\ Cardinality(ErrorPositions(a)) > 1
     \/ c = "LF315" /\ ErrorPositions(a) # {} /\ ~SynchronizesAfter(a, LastErrorPosition(a))}

\* Mutant: a name may be both a token and a rule.
DeclarationErrorsAllowClash ==
  {c \in {"LF300", "LF301", "LF307", "LF308"} :
     \/ c = "LF300" /\ Start = ""
     \/ c = "LF301" /\ Start \notin Nonterminals \cup {""}
     \/ c = "LF307" /\ Error \in Family.tokens
     \/ c = "LF308" /\ Error \in Names}

\* The codes of the declarations; LF300 (no rules and no %start) ends FromSpec.
DeclarationErrors ==
  {c \in {"LF300", "LF301", "LF303", "LF307", "LF308"} :
     \/ c = "LF300" /\ Start = ""
     \/ c = "LF301" /\ Start \notin Nonterminals \cup {""}
     \/ c = "LF303" /\ Nonterminals \cap Terminals # {}
     \/ c = "LF307" /\ Error \in Family.tokens
     \/ c = "LF308" /\ Error \in Names}

SpecErrors ==
  DeclarationErrors \cup
  (IF Start = "" THEN {} ELSE UNION {AlternativeErrors(Kept[i]) : i \in 1..Len(Kept)})

-----------------------------------------------------------------------------

Init ==
  /\ family \in DOMAIN Families
  /\ \E taken \in SUBSET (DOMAIN Family.alternatives) : alternatives = Picked(Family.alternatives, taken)
  /\ phase = "written" /\ tables = <<>>

\* FromSpec reports errors: no table is built.
Reject ==
  /\ phase = "written" /\ SpecErrors # {}
  /\ phase' = "rejected"
  /\ UNCHANGED <<family, alternatives, tables>>

\* The specification is valid: the table each algorithm builds for it.
BuildTables ==
  /\ phase = "written" /\ SpecErrors = {}
  /\ phase' = "built"
  /\ tables' = [a \in Algorithms |-> Build(Normalized, a)]
  /\ UNCHANGED <<family, alternatives>>

Next == Reject \/ BuildTables
Spec == Init /\ [][Next]_vars

-----------------------------------------------------------------------------

Built == phase = "built"
Clean(a) == tables[a].conflicts = {}
Size(a)  == Cardinality(tables[a].states)

\* Every table, conflicts or not, is one the generated parser can be driven by
\* without running into its internal errors: the assumption of LRParser.
TablesAreSound == Built => \A a \in Algorithms : SoundTables(tables[a])

\* The algorithms form a hierarchy: a grammar without conflicts under a weaker
\* one has none under a stronger one, and IELR loses nothing to canonical LR(1).
\* IELR never has more states than canonical LR(1) nor fewer than LALR, and it
\* stays at the size of LALR where merging by core is already safe.
Hierarchy ==
  Built => /\ Clean("slr") => Clean("lalr")
           /\ Clean("lalr") => Clean("ielr")
           /\ Clean("ielr") <=> Clean("canonical")
           /\ Size("lalr") <= Size("ielr") /\ Size("ielr") <= Size("canonical")
           /\ Clean("lalr") => Size("ielr") = Size("lalr")

\* Every nonterminal derives some word.
AllProductive(g) == g.nonterminals \subseteq DerivedFrom(g, g.terminals)

\* Merging canonical states by core never meets two members with transitions on
\* the same symbol to different groups ("keep the first edge" drops nothing),
\* and gives back the LR(0) automaton: as many states as SLR.  The latter needs
\* every nonterminal to derive some word: closing over an item that no terminal
\* can follow adds nothing under LR(1) and the rules all the same under LR(0).
CoresMergeToLR0 ==
  Built =>
    LET g == Augment(Normalized)  auto == CanonicalLR1(g, Nullable(g))
        partition == InitialCorePartitions(auto)
        into(m) == GroupOf(partition, m)
    IN  /\ AllProductive(g) => Size("lalr") = Size("slr")
        /\ \A e, f \in auto.edges :
             into(e[1]) = into(f[1]) /\ e[2] = f[2] => into(e[3]) = into(f[3])

\* A merge may add early reductions to a state but never a shift or an accept:
\* for those some canonical state with the same core acts on the terminal too,
\* so a merged table shifts nothing that canonical LR(1) would have refused.
MergesInventNoShift ==
  Built => \A a \in {"lalr", "ielr"} : \A s \in tables[a].states :
    \A t \in DOMAIN tables[a].actions[s] :
      tables[a].actions[s][t].kind # "reduce" =>
        \E c \in tables["canonical"].states :
          /\ tables["canonical"].items[c] = tables[a].items[s]
          /\ t \in DOMAIN tables["canonical"].actions[c]

\* Merging states is safe: it drops no edge and invents no shift.
MergesAreSafe == CoresMergeToLR0 /\ MergesInventNoShift

RowsFit(packed) ==
  \A i \in DOMAIN packed.rows :
    packed.rows[i].start + packed.rows[i].count <= Len(packed.elements)
LookupsAgree(T) ==
  LET symbols == Family.symbols
      actions == PackedActions(T, symbols)  gotos == PackedGotos(T, symbols)
      actionArray == Padded(actions)  gotoArray == Padded(gotos)
  IN  RowsFit(actions) /\ RowsFit(gotos) /\
      \A s \in T.states \cup {-1, Cardinality(T.states)}, x \in ToSet(symbols) :
        LET action == IF s \in T.states /\ x \in DOMAIN T.actions[s] THEN {T.actions[s][x]} ELSE {}
            goto   == IF s \in T.states /\ x \in DOMAIN T.gotos[s] THEN {[state |-> T.gotos[s][x]]} ELSE {}
        IN  /\ FoundByScan(actions, s, x) = action /\ FoundByScan(gotos, s, x) = goto
            /\ FoundBySearch(symbols, actionArray, s, x) = action
            /\ FoundBySearch(symbols, gotoArray, s, x) = goto

RulesAgree(T) ==
  \A r \in DOMAIN T.rules :
    RulesInOrder(T)[r + 1] = RuleOf(T, r) /\ RulesByID(T)[r + 1] = RuleOf(T, r)

\* How often an expected-token list names terminal x.
Named(list, x) ==
  Cardinality({i \in DOMAIN list : list[i].symbol = x})
  + Cardinality({p \in (DOMAIN list) \X (1..Len(Family.symbols)) :
                   p[2] \in DOMAIN list[p[1]].members /\ list[p[1]].members[p[2]] = x})

ReportsAreExact(T) ==
  LET expected == Expected(T, Family.symbols, Family.reporting)
      rows     == ExpectedRows(T, expected)  tagged == ExpectedTagged(T, expected)
      aliases  == Family.reporting.aliases   sorted == SortedAliases(Family.symbols, aliases)
      reported(s) == DOMAIN T.actions[s] \ ({Error} \cup Family.reporting.hidden)
  IN  \A s \in T.states :
        LET list == ReportedByRows(rows, s)
        IN  /\ ReportedByTags(tagged, s) = list
            /\ \A x \in ToSet(Family.symbols) :
                 /\ Named(list, x) = IF x \in reported(s) THEN 1 ELSE 0
                 /\ UnexpectedByScan(aliases, x) = UnexpectedBySearch(Family.symbols, sorted, x)
            /\ \A i \in DOMAIN list :
                 list[i].members = <<>> => list[i].display = UnexpectedByScan(aliases, list[i].symbol)

\* C and C++ parsers find in their arrays what the Go parser finds in its maps:
\* for any state, and one outside the table, and any symbol the same action and
\* the same goto or none, in a row inside the array, and under a rule's ID that
\* rule.  The list of tokens a diagnostic says were expected names, once each and
\* in both languages alike, the terminals with an action that are not hidden,
\* never `error', and a terminal by the name it has when it is unexpected.
PackedTablesAgree ==
  Built => \A a \in Algorithms :
    LookupsAgree(tables[a]) /\ RulesAgree(tables[a]) /\ ReportsAreExact(tables[a])

=============================================================================
