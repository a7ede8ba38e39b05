---------------------------- MODULE MCGeneration ----------------------------
(***************************************************************************)
(* Command lines with every input and target, right and wrong.             *)
(***************************************************************************)
EXTENDS Generation

Command(name, given) ==
  [name |-> name, given |-> given, usable |-> TRUE, format |-> "", target |-> ""]

Given == {{"spec"}, {"lex", "yacc"}}

MCCommands ==
  {Command("validate", given) : given \in Given \cup {{"lex"}}}
  \cup {[Command("inspect", given) EXCEPT !.format = f] : given \in Given, f \in {"json", "dot"}}
  \cup {[Command("generate", {"spec"}) EXCEPT !.target = t] : t \in {"csharp", "cpp", "java"}}
  \cup {[Command("generate", {"lex", "yacc"}) EXCEPT !.target = t] : t \in {"go", "c"}}
  \cup {[Command("generate", {"spec", "lex", "yacc"}) EXCEPT !.target = "go"],
        [Command("generate", {"spec"}) EXCEPT !.usable = FALSE]}

MCFaults ==
  [spec |-> {"none", "syntax", "conflict", "package", "code"},
   lex  |-> {"none", "lexer"},
   yacc |-> {"none", "grammar", "type"}]

(* Two of the files of the C and C++ targets. *)
MCSourcesOf ==
  [go     |-> <<{"tokens.go"}, {"scanner.go"}, {"parser.go"}>>,
   csharp |-> <<{"Tokens.g.cs"}, {"Scanner.g.cs"}, {"Parser.g.cs"}>>,
   c      |-> <<{"scanner.c", "parser.c"}>>,
   cpp    |-> <<{"scanner.cpp", "parser.cpp"}>>]

MCLegacy == <<{"Tokens.cs"}, {"Scanner.cs"}, {"Parser.cs"}>>

=============================================================================
