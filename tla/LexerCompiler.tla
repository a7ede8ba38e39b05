--------------------------- MODULE LexerCompiler ---------------------------
(***************************************************************************)
(* BuildFromSpecWithScanner: parsed lexer definitions and rules become the *)
(* minimal DFA of the generated scanners, or diagnostics.                  *)
(*                                                                         *)
(* Expressions are the AST of the regex parser; sets of runes are sets     *)
(* here (RangeSets models their representation).  NFA states are numbers   *)
(* as in the code; a DFA state is the set of NFA states it stands for, and *)
(* a state of the minimized DFA the block of DFA states it stands for.     *)
(***************************************************************************)
EXTENDS RegexExpr, Integers, Sequences, SequencesExt, FiniteSets, FiniteSetsExt, TLC

CONSTANTS
  Domain,         (* The runes of the scanner domain.                      *)
  Lexers,         (* The specifications to compile.                        *)
  MaxWord         (* Bound on the words the properties look at.            *)

VARIABLES
  lexer,
  phase,          (* spec, compiled, or rejected.                          *)
  dfa,            (* The compiled automaton, or NoDFA.                     *)
  diagnostics     (* The codes of the diagnostics, in order.               *)

vars == <<lexer, phase, dfa, diagnostics>>

NoDFA == "none"

RECURSIVE Nullable(_)
Nullable(e) ==
  CASE e.kind \in {"empty", "star", "optional"} -> TRUE
    [] e.kind \in {"set", "ref"}                -> FALSE
    [] e.kind = "concat" -> Nullable(e.left) /\ Nullable(e.right)
    [] e.kind = "alt"    -> Nullable(e.left) \/ Nullable(e.right)
    [] e.kind = "plus"   -> Nullable(e.child)

(* References replaced by the expressions they name; a name on the stack is  *)
(* recursive, one without a definition undefined.                            *)
RECURSIVE ExpandRefs(_, _, _)
ExpandRefs(e, defs, stack) ==
  CASE e.kind = "ref" ->
         IF e.name \in stack \/ e.name \notin DOMAIN defs THEN Unparsable
         ELSE ExpandRefs(defs[e.name], defs, stack \cup {e.name})
    [] e.kind \in Binary ->
         LET left  == ExpandRefs(e.left, defs, stack)
             right == ExpandRefs(e.right, defs, stack)
         IN  IF Unparsable \in {left, right} THEN Unparsable
             ELSE [e EXCEPT !.left = left, !.right = right]
    [] e.kind \in Unary ->
         LET child == ExpandRefs(e.child, defs, stack)
         IN  IF child = Unparsable THEN Unparsable ELSE [e EXCEPT !.child = child]
    [] OTHER -> e

RECURSIVE Sets(_)
Sets(e) == CASE e.kind = "set"      -> {e.runes}
             [] e.kind \in Binary   -> Sets(e.left) \cup Sets(e.right)
             [] e.kind \in Unary    -> Sets(e.child)
             [] OTHER               -> {}

(* Every class has a member, and only members of the scanner domain. *)
validateScannerDomain(e) == \A runes \in Sets(e) : runes # {} /\ runes \subseteq Domain

(***************************************************************************)
(* The NFA of an expression: states from n on, and edges whose empty label *)
(* makes them epsilon edges.                                               *)
(***************************************************************************)
Edge(from, to, label) == [from |-> from, to |-> to, label |-> label]
Epsilon(from, to)     == Edge(from, to, {})

RECURSIVE build(_, _)
build(e, n) ==
  CASE e.kind = "empty" ->
         [start |-> n, end |-> n + 1, next |-> n + 2, edges |-> {Epsilon(n, n + 1)}]
    [] e.kind = "set" ->
         [start |-> n, end |-> n + 1, next |-> n + 2, edges |-> {Edge(n, n + 1, e.runes)}]
    [] e.kind = "concat" ->
         LET left  == build(e.left, n)
             right == build(e.right, left.next)
         IN  [start |-> left.start, end |-> right.end, next |-> right.next,
              edges |-> left.edges \cup right.edges \cup {Epsilon(left.end, right.start)}]
    [] e.kind = "alt" ->
         LET left  == build(e.left, n + 2)
             right == build(e.right, left.next)
         IN  [start |-> n, end |-> n + 1, next |-> right.next,
              edges |-> left.edges \cup right.edges \cup
                        {Epsilon(n, left.start), Epsilon(n, right.start),
                         Epsilon(left.end, n + 1), Epsilon(right.end, n + 1)}]
    [] e.kind \in Unary ->
         LET child == build(e.child, n + 2)
         IN  [start |-> n, end |-> n + 1, next |-> child.next,
              edges |-> child.edges
                \cup {Epsilon(n, child.start), Epsilon(child.end, n + 1)}
                \cup (IF e.kind # "plus" THEN {Epsilon(n, n + 1)} ELSE {})
                \cup (IF e.kind # "optional" THEN {Epsilon(child.end, child.start)} ELSE {})]

(* One NFA for all rules: state 0 leads to each of them. *)
BuildNFA(rules) ==
  LET Add(nfa, rule) ==
        LET fragment == build(rule.expr, nfa.next)
        IN  [next |-> fragment.next,
             edges |-> nfa.edges \cup fragment.edges \cup {Epsilon(0, fragment.start)},
             accepts |-> nfa.accepts \cup {[state |-> fragment.end, rule |-> rule.index]}]
  IN  FoldLeft(Add, [next |-> 1, edges |-> {}, accepts |-> {}], rules)

(***************************************************************************)
(* The subset construction.                                                *)
(***************************************************************************)
RECURSIVE epsilonClosure(_, _)
epsilonClosure(nfa, states) ==
  LET next == {edge.to : edge \in {x \in nfa.edges : x.from \in states /\ x.label = {}}}
  IN  IF next \subseteq states THEN states ELSE epsilonClosure(nfa, states \cup next)

move(nfa, states, part) ==
  {edge.to : edge \in {x \in nfa.edges : x.from \in states /\ x.label \cap part # {}}}

\* Mutant: the last rule wins.
bestAcceptLast(nfa, states) ==
  LET accepted == {a.rule : a \in {x \in nfa.accepts : x.state \in states}}
  IN  IF accepted = {} THEN 0 ELSE Max(accepted)

(* The first rule wins; 0 accepts nothing. *)
bestAccept(nfa, states) ==
  LET accepted == {a.rule : a \in {x \in nfa.accepts : x.state \in states}}
  IN  IF accepted = {} THEN 0 ELSE Min(accepted)

(* Runes that no label tells apart. *)
Partition(nfa) ==
  LET labels == {edge.label : edge \in nfa.edges}
      Alike(x) == {y \in Domain : \A label \in labels : x \in label <=> y \in label}
  IN  {Alike(x) : x \in Domain}

(* The moves of a state: for each part that leads anywhere, the state it    *)
(* leads to.                                                                 *)
MovesOf(nfa, parts, states) ==
  [part \in {p \in parts : move(nfa, states, p) # {}} |->
     epsilonClosure(nfa, move(nfa, states, part))]

(* The moves of all states reached from the new ones. *)
RECURSIVE Explore(_, _, _, _)
Explore(nfa, parts, next, new) ==
  LET moves == [s \in new |-> MovesOf(nfa, parts, s)]
      found == UNION {{moves[s][part] : part \in DOMAIN moves[s]} : s \in new}
  IN  IF new = {} THEN next
      ELSE Explore(nfa, parts, next @@ moves, found \ (DOMAIN next \cup new))

(* The states found from the start set, with their rules and moves. *)
BuildDFA(rules) ==
  LET nfa   == BuildNFA(rules)
      start == epsilonClosure(nfa, {0})
      next  == Explore(nfa, Partition(nfa), <<>>, {start})
  IN  [start |-> start, accept |-> [s \in DOMAIN next |-> bestAccept(nfa, s)], next |-> next]

(***************************************************************************)
(* Minimize: classes of states by acceptance, split by the classes their   *)
(* transitions lead to until nothing splits.                               *)
(***************************************************************************)
(* A class is a block of states; a state's signature is its rule and, for    *)
(* every part of the alphabet, the class that part leads to.                 *)
RECURSIVE Refine(_, _)
Refine(d, classOf) ==
  LET Signature(s) == [part \in DOMAIN d.next[s] |-> classOf[d.next[s][part]]]
      signatures == [s \in DOMAIN classOf |-> <<d.accept[s], Signature(s)>>]
      refined == [s \in DOMAIN classOf |-> {t \in DOMAIN classOf : signatures[t] = signatures[s]}]
  IN  IF refined = classOf THEN classOf ELSE Refine(d, refined)

Minimize(d) ==
  LET states == DOMAIN d.accept
      block  == Refine(d, [s \in states |-> {t \in states : d.accept[t] = d.accept[s]}])
  IN  [start |-> block[d.start],
       accept |-> [b \in {block[s] : s \in states} |-> d.accept[CHOOSE s \in b : TRUE]],
       next |-> [b \in {block[s] : s \in states} |->
                   LET rep == CHOOSE s \in b : TRUE
                   IN  [part \in DOMAIN d.next[rep] |-> block[d.next[rep][part]]]]]

(***************************************************************************)
(* BuildFromSpecWithScanner.                                               *)
(***************************************************************************)
(* A definition is kept unless it does not parse or repeats a name. *)
CompileDefinitions(definitions) ==
  LET Add(state, def) ==
        IF def.expr.kind = "error" THEN [state EXCEPT !.codes = Append(@, "LF200")]
        ELSE IF def.name \in DOMAIN state.defs THEN [state EXCEPT !.codes = Append(@, "LF201")]
        ELSE [state EXCEPT !.defs = [n \in DOMAIN @ \cup {def.name} |->
                                       IF n = def.name THEN def.expr ELSE @[n]]]
  IN  FoldLeft(Add, [defs |-> <<>>, codes |-> <<>>], definitions)

\* Mutant: the scanner domain is checked before references are expanded.
CompileRuleChecksFirst(expr, defs) ==
  LET expanded == ExpandRefs(expr, defs, {})
  IN  CASE expr.kind = "error" -> "LF202"
        [] expr.kind # "error" /\ expanded = Unparsable -> "LF203"
        [] expr.kind # "error" /\ expanded # Unparsable /\ ~validateScannerDomain(expr) -> "LF205"
        [] OTHER -> IF Nullable(expanded) THEN "LF206" ELSE "compiled"

(* The code of a rule's first error, or that it goes to the NFA. *)
CompileRule(expr, defs) ==
  LET expanded == ExpandRefs(expr, defs, {})
  IN  IF expr.kind = "error" THEN "LF202"
      ELSE IF expanded = Unparsable THEN "LF203"
      ELSE IF ~validateScannerDomain(expanded) THEN "LF205"
      ELSE IF Nullable(expanded) THEN "LF206"
      ELSE "compiled"

Compiled(result, rules) ==
  LET outcome == [i \in DOMAIN rules |-> CompileRule(rules[i], result.defs)]
  IN  [codes |-> result.codes \o SelectSeq(outcome, LAMBDA code : code # "compiled"),
       rules |-> [i \in DOMAIN rules |->
                    [index |-> i, expr |-> IF outcome[i] # "compiled" THEN Unparsable
                                           ELSE ExpandRefs(rules[i], result.defs, {})]]]

BuildFromSpec ==
  /\ phase = "spec"
  /\ LET result == Compiled(CompileDefinitions(lexer.definitions), lexer.rules)
     IN  /\ diagnostics' = result.codes
         /\ IF result.codes = <<>>
            THEN phase' = "compiled" /\ dfa' = Minimize(BuildDFA(result.rules))
            ELSE phase' = "rejected" /\ dfa' = NoDFA
  /\ UNCHANGED lexer

Init == lexer \in Lexers /\ phase = "spec" /\ dfa = NoDFA /\ diagnostics = <<>>

Next == BuildFromSpec

Spec == Init /\ [][Next]_vars

(* Match: the best rule and its end over a word. *)
Match(word) ==
  LET Scan[pos \in 0 .. Len(word), state \in DOMAIN dfa.accept, best \in [rule : Nat, end : Nat]] ==
        LET parts == IF pos = Len(word) THEN {}
                     ELSE {p \in DOMAIN dfa.next[state] : word[pos + 1] \in p}
            next == dfa.next[state][CHOOSE p \in parts : TRUE]
        IN  IF parts = {} THEN best
            ELSE Scan[pos + 1, next, IF dfa.accept[next] > 0
                                     THEN [rule |-> dfa.accept[next], end |-> pos + 1] ELSE best]
  IN  Scan[0, dfa.start, [rule |-> dfa.accept[dfa.start], end |-> 0]]

(***************************************************************************)
(* The meaning of a specification, from the expressions alone.             *)
(***************************************************************************)
Words == UNION {[1 .. n -> Domain] : n \in 0 .. MaxWord}

Defs == [name \in {lexer.definitions[i].name : i \in DOMAIN lexer.definitions} |->
           lexer.definitions[CHOOSE i \in DOMAIN lexer.definitions :
                               lexer.definitions[i].name = name].expr]

(* The words of an expression, up to the bound. *)
Short(words) == {w \in words : Len(w) <= MaxWord}
Joined(a, b) == Short({x \o y : x \in a, y \in b})
Repeated(a) ==
  LET Times[n \in 0 .. MaxWord] == IF n = 0 THEN {<<>>} ELSE Times[n - 1] \cup Joined(Times[n - 1], a)
  IN  Times[MaxWord]

RECURSIVE Language(_)
Language(e) ==
  CASE e.kind = "empty"    -> {<<>>}
    [] e.kind = "set"      -> {<<rune>> : rune \in e.runes}
    [] e.kind = "ref"      -> Language(Defs[e.name])
    [] e.kind = "concat"   -> Joined(Language(e.left), Language(e.right))
    [] e.kind = "alt"      -> Language(e.left) \cup Language(e.right)
    [] e.kind = "star"     -> Repeated(Language(e.child))
    [] e.kind = "plus"     -> Joined(Language(e.child), Repeated(Language(e.child)))
    [] e.kind = "optional" -> {<<>>} \cup Language(e.child)

RECURSIVE Mentions(_)
Mentions(e) == CASE e.kind = "ref"    -> {e.name}
                 [] e.kind \in Binary -> Mentions(e.left) \cup Mentions(e.right)
                 [] e.kind \in Unary  -> Mentions(e.child)
                 [] OTHER             -> {}

(* The names an expression depends on, through any number of definitions. *)
DependsOn(e) ==
  LET Known(names) == names \cap DOMAIN Defs
      Reached[n \in 0 .. Cardinality(DOMAIN Defs)] ==
        IF n = 0 THEN Mentions(e)
        ELSE Reached[n - 1] \cup UNION {Mentions(Defs[name]) : name \in Known(Reached[n - 1])}
  IN  Reached[Cardinality(DOMAIN Defs)]

WellDefined(e) ==
  \A name \in DependsOn(e) :
    name \in DOMAIN Defs /\ Defs[name].kind # "error" /\ name \notin DependsOn(Defs[name])

AllSets(e) == Sets(e) \cup UNION {Sets(Defs[name]) : name \in DependsOn(e)}

(***************************************************************************)
(* Properties.                                                             *)
(***************************************************************************)
(* A specification is accepted exactly when every definition parses under a  *)
(* name of its own and every rule parses, refers only to definitions that    *)
(* exist and do not depend on themselves, uses only runes of the domain, and *)
(* does not match the empty text.                                            *)
RejectsExactly ==
  phase \in {"compiled", "rejected"} =>
    (phase = "compiled" <=>
       /\ \A i \in DOMAIN lexer.definitions :
            /\ lexer.definitions[i].expr.kind # "error"
            /\ \A j \in 1 .. i - 1 : lexer.definitions[j].name # lexer.definitions[i].name
       /\ \A i \in DOMAIN lexer.rules :
            LET e == lexer.rules[i]
            IN  /\ e.kind # "error"
                /\ WellDefined(e)
                /\ \A runes \in AllSets(e) : runes # {} /\ runes \subseteq Domain
                /\ <<>> \notin Language(e))

(* The automaton matches what the rules say: the longest prefix that is a    *)
(* word of some rule, for the first rule that has it.                        *)
LongestThenFirstRule ==
  phase = "compiled" =>
    LET language == [i \in DOMAIN lexer.rules |-> Language(lexer.rules[i])]
    IN  \A word \in Words :
          LET Ends == {n \in 1 .. Len(word) : \E i \in DOMAIN language : SubSeq(word, 1, n) \in language[i]}
              first == Min({i \in DOMAIN language : SubSeq(word, 1, Max(Ends)) \in language[i]})
          IN  Match(word) = IF Ends = {} THEN [rule |-> 0, end |-> 0]
                            ELSE [rule |-> first, end |-> Max(Ends)]

(* From the state where a word ends, the rule it accepts; 0 when there is    *)
(* no such state.                                                            *)
AcceptedFrom(state, word) ==
  LET Run[pos \in 0 .. Len(word), at \in DOMAIN dfa.accept] ==
        LET parts == IF pos = Len(word) THEN {} ELSE {p \in DOMAIN dfa.next[at] : word[pos + 1] \in p}
        IN  IF pos = Len(word) THEN dfa.accept[at]
            ELSE IF parts = {} THEN 0
            ELSE Run[pos + 1, dfa.next[at][CHOOSE p \in parts : TRUE]]
  IN  Run[0, state]

(* No two states accept the same continuations, and every state leads to an  *)
(* accepting one: a scanner that stops at a state without transitions, or    *)
(* reads on at one with transitions, does not do it in vain.                 *)
StatesAreMinimal ==
  phase = "compiled" =>
    /\ \A s, t \in DOMAIN dfa.accept :
         s # t => \E word \in Words : AcceptedFrom(s, word) # AcceptedFrom(t, word)
    /\ \A s \in DOMAIN dfa.accept : \E word \in Words : AcceptedFrom(s, word) > 0

(* What the generated scanners assume of their tables: the start state       *)
(* accepts nothing, every transition leads to a state, and no rune has two.  *)
TablesFitTheScanners ==
  phase = "compiled" =>
    /\ dfa.accept[dfa.start] = 0
    /\ \A s \in DOMAIN dfa.next :
         /\ \A part \in DOMAIN dfa.next[s] : dfa.next[s][part] \in DOMAIN dfa.accept
         /\ \A p, q \in DOMAIN dfa.next[s] : p # q => p \cap q = {}

(* The generated tables are exact, and fit for the scanners that use them. *)
AutomatonIsExact == LongestThenFirstRule /\ StatesAreMinimal /\ TablesFitTheScanners

=============================================================================
