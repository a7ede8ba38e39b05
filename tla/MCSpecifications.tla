-------------------------- MODULE MCSpecifications --------------------------
(***************************************************************************)
(* Small specifications whose patterns and actions hold every delimiter    *)
(* the reader looks for, with every kind of gap between their lines; and   *)
(* lines of every directive, in their legal and their malformed forms.     *)
(***************************************************************************)
EXTENDS Specifications

MCIdents      == {"S", "E", "A", "B", "D", "g", "h", "left", "go", "cs", "error", "e"}
MCLowerOf     == [w \in {"Lexer", "Go", "UTF8", "Inline", "LALR"} |->
                    CASE w = "Lexer" -> "lexer" [] w = "Go" -> "go" [] w = "UTF8" -> "utf8"
                      [] w = "Inline" -> "inline" [] w = "LALR" -> "lalr"]
MCCharacters  == {"S", "E", "A", "B", "D", "g", "h", "e", "x", "y", "1"}
MCYaccTokenOf == [w \in {"YACC_A", "YACC_B"} |-> IF w = "YACC_A" THEN "A" ELSE "B"]

(* Quoted delimiters, escaped ones, classes of them, and operators. *)
Delimiters == {<<"%", "%">>, <<"/", "*">>, <<"*", "/">>, <<":">>, <<";">>, <<"'">>, <<"(">>, <<"[">>, <<"]">>,
               <<"=">>, <<"\\", "\"">>, <<"}">>, <<"|">>}

Patterns ==
  {<<"\"">> \o d \o <<"\"">> : d \in Delimiters}
  \cup {<<"\\", c, "x">> : c \in {":", ";", "'", "[", "]", "(", "/"}}
  \cup {<<"[">> \o c \o <<"]">> : c \in {<<"/", "*">>, <<"%", "%">>, <<":">>, <<";">>, <<"\\", "]">>}}
  \cup {<<"(", "D", "|", "E", ")", "*">>, <<"D", "+", " ", "D">>}

Token(name) == [kind |-> "token", name |-> name]
Skip        == [kind |-> "skip", name |-> ""]

Gaps == {<<>>, <<Newline, "/", "*", ";", "'", "%", "%", Newline, "*", "/", Newline>>,
         <<" ", "/", "*", "*", "/", " ">>}

(* Actions that hold the delimiters of rules, alternatives and blocks. *)
Bodies == {<<"left">>, <<"\"", "|", ";", "\"">>, <<"\"", "}", "\"">>, <<"A", "(", "B", ";", "|", ")">>,
           <<"'", "\\", "'", ";", "'">>}

Actions == {NoActions} \cup {[t \in {<<"go">>} |-> b] : b \in Bodies}
           \cup {[t \in {<<"go">>, <<"cs">>} |-> IF t = <<"go">> THEN b ELSE <<"left">>] : b \in Bodies}

Alternatives ==
  {[symbols |-> s, labels |-> [k \in DOMAIN s |-> IF k = 1 /\ l THEN <<"left">> ELSE <<>>], actions |-> a] :
     s \in {<<>>, <<"A">>, <<"E", "B">>}, l \in BOOLEAN, a \in Actions}

Rule(name, alternatives) == [name |-> name, alternatives |-> alternatives]

Plain == [symbols |-> <<"A">>, labels |-> <<(<<>>)>>, actions |-> NoActions]

Spec2(definitions, lexRules, rules, gap) ==
  [definitions |-> definitions, lexRules |-> lexRules, rules |-> rules, gap |-> gap, tokens |-> <<"A", "B">>]

Definition(pattern)      == [name |-> "D", pattern |-> pattern]
LexRule(pattern, action) == [pattern |-> pattern, action |-> action]

Lexers ==
  {Spec2(<<Definition(p), Definition(<<"D">>)>>, <<LexRule(q, Token("B")), LexRule(p, Skip)>>,
         <<Rule("S", <<Plain>>)>>, gap) : p \in Patterns, q \in Patterns, gap \in Gaps}

SecondAlternatives ==
  {b \in Alternatives : b.symbols = <<"E", "B">> /\ b.labels[1] = <<>> /\ <<"cs">> \notin DOMAIN b.actions}

Grammars ==
  {Spec2(<<>>, <<LexRule(<<"D">>, Token("A"))>>, <<Rule("S", <<a, b>>), Rule("E", <<b>>)>>, gap) :
     a \in Alternatives, b \in SecondAlternatives, gap \in Gaps}

MCWritten == {w \in Lexers : w.lexRules[1].pattern = <<"(", "D", "|", "E", ")", "*">>
                              \/ w.lexRules[1].pattern \in {<<"\"">> \o d \o <<"\"">> : d \in Delimiters}}
             \cup Grammars

(* The words of a line, with a blank between them. *)
Words(list) == accumulate(LAMBDA line, w : IF line = <<>> THEN w ELSE line \o <<" ">> \o w, <<>>, list)

D(name, rest) == Words(<<(<<"%", name>>)>> \o [k \in DOMAIN rest |-> <<rest[k]>>])

Label(word) == <<"\"", word, " ", word, "\"">>

MCLines ==
  {D("token", <<"A">>), D("token", <<"A", "B">>), D("token", <<"error">>), D("token", <<"1">>), D("token", <<>>),
   D("start", <<"S">>), D("start", <<>>), D("type", <<"LALR">>), D("type", <<"glr">>), D("target", <<"Go">>),
   D("package", <<"A", "B">>), D("unknown", <<"A">>),
   Words(<<(<<"%", "alias">>), <<"A">>, Label("x")>>), Words(<<(<<"%", "alias">>), <<"A">>, Label("y")>>),
   Words(<<(<<"%", "alias">>), <<"A">>, <<"\"", "\"">>>>), D("alias", <<"A">>),
   Words(<<(<<"%", "alias">>), <<"A">>, <<"'", "x", "'">>>>), Words(<<(<<"%", "alias">>), <<"B">>, <<"'", "left", "'">>>>),
   D("group", <<"g", "A", "B">>), D("group", <<"g", "B", "e">>), D("group", <<"h", "A", "A">>),
   D("group", <<"h", "B", "A">>), D("group", <<"h", "1", "A">>), D("group", <<"g">>),
   D("hide-expected", <<"A">>), D("hide-expected", <<"B", "B">>), D("hide-expected", <<>>),
   D("semantic", <<"go", "type", "S", "int">>), D("semantic", <<"Go", "type", "S", "string">>),
   D("semantic", <<"go", "type", "A", "int">>), D("semantic", <<"go", "type", "h", "int">>),
   D("semantic", <<"Go", "mode", "Inline">>), D("semantic", <<"go", "mode", "reducer">>),
   D("semantic", <<"go", "mode", "table">>), D("semantic", <<"go", "import", "_", "A">>),
   D("semantic", <<"go", "import", "1", "A">>), D("semantic", <<"go", "import", "A", "A", "A">>),
   D("scanner", <<"UTF8">>), D("scanner", <<"ascii">>), D("scanner", <<>>),
   Words(<<(<<"%", "scanner">>), <<"invalid", "=", "error">>, <<"newline", "=", "lf">>>>),
   Words(<<(<<"%", "scanner">>), <<"newline", "=", "crlf">>>>),
   Words(<<(<<"%", "scanner">>), <<"encoding", "=">>, <<"newline", "=", "lf">>>>),
   <<"%", "%">>, <<"%", "%", " ", "lexer">>, <<"%", "%", " ", "rules">>, <<"#", "A">>}

=============================================================================
