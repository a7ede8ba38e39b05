--------------------------- MODULE Specifications ---------------------------
(***************************************************************************)
(* The specification reader, in two kinds of behaviours.  A specification  *)
(* is written down, as one combined file or as a lexer and a grammar file, *)
(* with comments and blank lines in between, and read back: what the       *)
(* reader finds is what was written.  Or a file of directives grows by a   *)
(* line at a time and is then validated.                                   *)
(***************************************************************************)
EXTENDS SpecParser, FiniteSets

CONSTANTS
  Written,                      (* Specifications, with the gap between    *)
                                (* lines.                                  *)
  Lines, MaxLines, RuleNames    (* Of SpecDirectives.                      *)

VARIABLES
  written,
  outcome,                (* Unread, or what reading gives, with its text. *)
  lines, reader, verdict  (* Of SpecDirectives.                            *)

vars == <<written, outcome>>

Unread == [form |-> "unread"]

(***************************************************************************)
(* How a specification is written.                                         *)
(***************************************************************************)
concat(parts) == accumulate(LAMBDA text, part : text \o part, <<>>, parts)

Line(text) == Append(text, Newline)

writeSymbol(symbol, label) == IF label = <<>> THEN <<" ", symbol>> ELSE <<" ">> \o label \o <<"=", symbol>>

writeAlternative(alternative) ==
  LET symbols == [k \in DOMAIN alternative.symbols |-> writeSymbol(alternative.symbols[k], alternative.labels[k])]
      tags    == SetToSeq(DOMAIN alternative.actions)
      actions == [k \in DOMAIN tags |-> <<" ", "{">> \o tags[k] \o <<":", " ">> \o alternative.actions[tags[k]] \o <<"}">>]
  IN  concat(symbols) \o concat(actions)

(* Code of a grammar file that is no target-tagged action. *)
PascalBlock == <<" ", "#", "{", "A", ":", "=", ";", Newline, "#", "}">>

writeRule(rule, form) ==
  LET alternatives == [k \in DOMAIN rule.alternatives |->
                         (IF k = 1 THEN <<rule.name, " ", ":">> ELSE <<Newline, "|">>)
                         \o writeAlternative(rule.alternatives[k])]
  IN  concat(alternatives) \o (IF form = "split" THEN PascalBlock ELSE <<>>) \o <<";">>

(* Only combined files have line comments. *)
Note == Line(<<"#", " ", "A", ";">>)

between(w, form) == IF form = "combined" THEN Note \o w.gap ELSE w.gap

writeRules(w, form) == concat([k \in DOMAIN w.rules |-> between(w, form) \o Line(writeRule(w.rules[k], form))])

writeDefinition(definition) == <<definition.name, " ", "=", " ">> \o definition.pattern \o <<";">>

writeDefinitions(w, form) ==
  concat([k \in DOMAIN w.definitions |-> between(w, form) \o Line(writeDefinition(w.definitions[k]))])

(* In a combined file a rule is pattern => action; in a lexer file the     *)
(* action is code that names the token or skips.                           *)
writeAction(action, form) ==
  CASE form = "combined" /\ action.kind = "token" -> <<" ", "=", ">", " ", "token", "(", action.name, ")", ";">>
    [] form = "combined" /\ action.kind = "skip"  -> <<" ", "=", ">", " ", "skip", ";">>
    [] form = "split" /\ action.kind = "token"    -> <<" ", ":", " ", "#", "{", "YACC_" \o action.name, "#", "}">>
    [] form = "split" /\ action.kind = "skip"     -> <<" ", ":", " ", "#", "{", "LEX_Skip", "#", "}">>

writeLexRules(w, form) ==
  concat([k \in DOMAIN w.lexRules |->
            between(w, form) \o Line(w.lexRules[k].pattern \o writeAction(w.lexRules[k].action, form))])

Section(words) == Line(<<"%", "%">> \o words)

writeTokens(w) == Line(<<"%", "token">> \o concat([k \in DOMAIN w.tokens |-> <<" ", w.tokens[k]>>]))

combinedText(w) ==
  writeTokens(w) \o w.gap
  \o Section(<<" ", "lexer">>) \o writeDefinitions(w, "combined") \o writeLexRules(w, "combined") \o w.gap
  \o Section(<<" ", "parser">>) \o writeRules(w, "combined")

lexText(w)  == writeDefinitions(w, "split") \o Section(<<>>) \o writeLexRules(w, "split") \o w.gap \o Section(<<>>)
yaccText(w) == writeTokens(w) \o Section(<<>>) \o writeRules(w, "split")

(***************************************************************************)
(* Reading it back.                                                        *)
(***************************************************************************)
Init == written \in Written /\ outcome = Unread

Outcome(form, text, spec, diags) == [form |-> form, text |-> text, spec |-> spec, diags |-> diags]

combinedOutcome(text, read) == Outcome("combined", text, read.spec, read.diags)

splitOutcome(text, lexed, grammar) ==
  Outcome("split", text, MergeSplit(lexed.spec, grammar.spec), lexed.diags \o grammar.diags)

ReadCombined ==
  /\ outcome = Unread
  /\ outcome' = combinedOutcome(combinedText(written), ParseCombined(combinedText(written)))
  /\ UNCHANGED written

ReadSplit ==
  /\ outcome = Unread
  /\ outcome' = splitOutcome(yaccText(written), ParseLex(lexText(written)), ParseYacc(yaccText(written)))
  /\ UNCHANGED written

Next == ReadCombined \/ ReadSplit

Read == outcome # Unread

(***************************************************************************)
(* The two kinds of behaviours.                                            *)
(***************************************************************************)
Directives == INSTANCE SpecDirectives WITH outcome <- verdict

ReadsDirectives == verdict # "none"

SpecsInit ==
  \/ Init /\ lines = <<>> /\ reader = Directives!CombinedReader /\ verdict = "none"
  \/ Directives!Init /\ written = Unread /\ outcome = Unread

SpecsNext ==
  \/ ~ReadsDirectives /\ Next /\ UNCHANGED <<lines, reader, verdict>>
  \/ ReadsDirectives /\ Directives!Next /\ UNCHANGED vars

Specs == SpecsInit /\ [][SpecsNext]_<<vars, lines, reader, verdict>>

(***************************************************************************)
(* Properties.                                                             *)
(***************************************************************************)
unspanned(rule) == [name |-> rule.name, alternatives |-> rule.alternatives]

(* The rules without their spans, of which SpansHoldRules and               *)
(* RulesAreLocated speak.                                                   *)
sameRules(spec, w) ==
  /\ Len(spec.rules) = Len(w.rules)
  /\ \A k \in DOMAIN w.rules : unspanned(spec.rules[k]) = w.rules[k]

(* Definitions and lexer rules are read back, in either form: no delimiter  *)
(* that a pattern quotes, escapes or has in a class, and nothing in a       *)
(* comment between them, is taken for a separator.  Two delimiters are not  *)
(* so protected and are not written here: an arrow in quotes in a combined  *)
(* file, and a quote in a class in a lexer file.                            *)
LexerReadsBack ==
  Read => outcome.spec.definitions = written.definitions /\ outcome.spec.lexRules = written.lexRules

(* Grammar rules are read back, in either form: every alternative with its  *)
(* symbols, labels and actions, whatever delimiters an action quotes.       *)
GrammarReadsBack ==
  Read => /\ outcome.diags = <<>>
          /\ sameRules(outcome.spec, written)
          /\ outcome.spec.start = <<written.rules[1].name>>
          /\ TokenNames(outcome.spec) = written.tokens

ruleText(k) == Front(writeRule(written.rules[k], outcome.form))

(* The span of a rule of a grammar file, and of the first rule of a         *)
(* combined one, holds the rule and nothing else but the line end and the   *)
(* gap before it.                                                           *)
SpansHoldRules ==
  Read => \A k \in DOMAIN written.rules : outcome.form = "split" \/ k = 1 =>
            LET span == outcome.spec.rules[k].span
                held == SubSeq(outcome.text, span.start.offset + 1, span.end.offset)
            IN  IsSuffix(ruleText(k), held) /\ IsSuffix(held, <<Newline>> \o written.gap \o ruleText(k))

(* The line recorded for a rule, which the generated comments name as its   *)
(* source, is the line the rule starts on.                                  *)
RulesAreLocated ==
  Read => \A k \in DOMAIN written.rules : \E at \in occurrences(outcome.text, ruleText(k)) :
            outcome.spec.rules[k].span.start.line = Pos(outcome.text, at - 1).line

(* The line reported for a position is the one it is on, counting line ends. *)
LinesAreCounted ==
  Read => \A offset \in 0 .. Len(outcome.text) :
            LET pos   == Pos(outcome.text, offset)
                ends  == {i \in 1 .. offset : outcome.text[i] = Newline}
            IN  pos.line = Cardinality(ends) + 1 /\ pos.column = offset - Max(ends \cup {0}) + 1

(* Comments and action blocks leave every other symbol at its offset. *)
BlanksKeepOffsets ==
  Read => \A strip \in {stripBlockComments(outcome.text), stripHashBlocks(outcome.text)} :
            /\ Len(strip) = Len(outcome.text)
            /\ \A i \in DOMAIN strip : strip[i] # outcome.text[i] => strip[i] = " " /\ outcome.text[i] # Newline

(* What was written is read back, whole; offsets into the text survive the  *)
(* removal of comments and actions, and become the lines they are on.       *)
ReadsBack == LexerReadsBack /\ GrammarReadsBack /\ SpansHoldRules /\ LinesAreCounted /\ BlanksKeepOffsets

(* Whatever directives were refused on the way, the declarations that are   *)
(* left are ones the later stages can work from.                            *)
DeclarationsAreSound == ReadsDirectives => Directives!DeclarationsAreSound

(* Declarations may come in any order: whether a file is accepted does not  *)
(* depend on which of its lines is first.                                   *)
AcceptanceIgnoresOrder == ReadsDirectives => Directives!AcceptanceIgnoresOrder

(* No line of the directives goes unheard: it stands, or is reported.       *)
NothingIsSilent == [][ReadsDirectives => Directives!NoLineIsSilent]_<<lines, reader, verdict>>

=============================================================================
