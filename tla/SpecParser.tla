----------------------------- MODULE SpecParser -----------------------------
(***************************************************************************)
(* The specification reader: ParseCombined, ParseLex, ParseYacc and        *)
(* MergeSplit, from the text of a file to the Spec and the diagnostics.    *)
(*                                                                         *)
(* A reader accumulates a Spec and the diagnostics reported so far; of a   *)
(* diagnostic its code and its span are kept.  A name is a word; a pattern,*)
(* a label or an action is a text.                                         *)
(***************************************************************************)
EXTENDS SpecText

CONSTANTS
  Idents,           (* The words that identRE accepts.                     *)
  Characters,       (* The words of one character.                         *)
  LowerOf,          (* The lower case of the words that have capitals.     *)
  YaccTokenOf       (* The token each word YACC_<name> refers to.          *)

Lower(word) == IF word \in DOMAIN LowerOf THEN LowerOf[word] ELSE word
lowerText(text) == [i \in DOMAIN text |-> Lower(text[i])]

isIdent(text) == Len(text) = 1 /\ text[1] \in Idents

Algorithms == {"slr", "lalr", "ielr", "canonical"}

DefaultScanner == [encoding |-> <<"utf8">>, invalid |-> <<"error">>, newline |-> <<>>]

EmptySpec(mode) ==
  [mode |-> mode, target |-> <<>>, package |-> <<>>, scanner |-> DefaultScanner,
   includes |-> <<>>, modes |-> [t \in {} |-> <<>>], types |-> <<>>, tokens |-> <<>>,
   definitions |-> <<>>, lexRules |-> <<>>, start |-> <<>>, algorithm |-> <<>>,
   aliases |-> <<>>, groups |-> <<>>, hidden |-> <<>>, rules |-> <<>>]

Reading(spec) == [spec |-> spec, diags |-> <<>>]

Report(acc, code, span) == [acc EXCEPT !.diags = Append(@, [code |-> code, span |-> span])]

(* What a step that reads one item returns. *)
Item(value)   == [ok |-> TRUE, value |-> value]
Refused(code) == [ok |-> FALSE, code |-> code]

(* Goes on with an item, unless it was refused. *)
Then(item, continue(_)) == IF item.ok THEN continue(item.value) ELSE item

(* An item is added to the Spec, or its refusal reported. *)
Take(acc, item, span, add(_)) == IF item.ok THEN add(item.value) ELSE Report(acc, item.code, span)

(***************************************************************************)
(* Directives.                                                             *)
(***************************************************************************)
tokenDirective(acc, names, span) ==
  accumulate(LAMBDA a, name : IF isIdent(name) THEN [a EXCEPT !.spec.tokens = Append(@, name[1])]
                            ELSE Report(a, "LF105", span), acc, names)

(* strconv.Unquote, for labels and paths without escapes: a string, a raw  *)
(* string, or one character between single quotes.                         *)
unquote(text) ==
  LET quote == text[1]
      inner == SubSeq(text, 2, Len(text) - 1)
  IN  IF /\ Len(text) >= 2 /\ quote = Last(text) /\ quote \notin ToSet(inner)
         /\ \/ quote = "backquote"
            \/ quote = "\"" /\ {Newline, "\\"} \cap ToSet(inner) = {}
            \/ quote = "'" /\ Len(inner) = 1 /\ inner[1] \in Characters
      THEN Item(inner) ELSE Refused("LF145")

\* Mutant: an alias is accepted only for a token declared so far.
AliasNeedsToken(acc, line, span) ==
  LET token == fields(line)[2]
      label == SubSeq(line, Len(line) - 3, Len(line) - 1)
  IN  IF Len(fields(line)) < 3 \/ token[1] \notin ToSet(acc.spec.tokens) THEN Report(acc, "LF150", span)
      ELSE [acc EXCEPT !.spec.aliases = Append(@, [token |-> token[1], label |-> label])]

\* Mutant: a later alias replaces the first.
AliasReplaces(acc, line, span) ==
  LET token == fields(line)[2][1]
      label == SubSeq(line, Len(line) - 3, Len(line) - 1)
  IN  IF Len(fields(line)) < 3 THEN Report(acc, "LF150", span)
      ELSE [acc EXCEPT !.spec.aliases = Append(SelectSeq(@, LAMBDA a : a.token # token), [token |-> token, label |-> label])]

addAlias(acc, token, quoted, span) ==
  LET label == unquote(quoted)
  IN  CASE ~isIdent(token) \/ quoted = <<>> -> Report(acc, "LF150", span)
        [] isIdent(token) /\ quoted # <<>> /\ (~label.ok \/ trim(label.value) = <<>>) ->
             Report(acc, "LF151", span)
        [] OTHER ->
             IF \E k \in DOMAIN acc.spec.aliases : acc.spec.aliases[k].token = token[1]
             THEN Report(acc, "LF152", span)
             ELSE [acc EXCEPT !.spec.aliases = Append(@, [token |-> token[1], label |-> label.value])]

aliasAt(acc, rest, separator, span) ==
  addAlias(acc, trim(SubSeq(rest, 1, separator - 1)), trim(SubSeq(rest, separator, Len(rest))), span)

splitAlias(acc, rest, span) ==
  aliasAt(acc, rest, Min({Len(rest) + 1} \cup {i \in 1 .. Len(rest) : rest[i] \in Blanks}), span)

parseExpectedAliasDirective(acc, line, span) ==
  splitAlias(acc, trim(SubSeq(line, Len(fields(line)[1]) + 1, Len(line))), span)

(* The first token of a group that is refused, in order, decides. *)
parseExpectedGroupDirective(acc, args, span) ==
  LET name     == args[1]
      members  == Tail(args)
      invalid  == {k \in DOMAIN members : ~isIdent(members[k])}
      repeated == {k \in DOMAIN members : \E j \in 1 .. k - 1 : members[j] = members[k]}
      refused  == Min(invalid \cup repeated)
  IN  CASE Len(args) < 3 -> Report(acc, "LF153", span)
        [] Len(args) >= 3 /\ ~isIdent(name) -> Report(acc, "LF154", span)
        [] OTHER ->
             IF \E k \in DOMAIN acc.spec.groups : acc.spec.groups[k].name = name[1]
             THEN Report(acc, "LF155", span)
             ELSE IF invalid \cup repeated # {}
             THEN Report(acc, IF refused \in invalid THEN "LF156" ELSE "LF157", span)
             ELSE [acc EXCEPT !.spec.groups =
                     Append(@, [name |-> name[1], tokens |-> [k \in DOMAIN members |-> members[k][1]]])]

\* Mutant: tokens hidden before are not looked up.
HideAgain(acc, token, span) ==
  IF ~isIdent(token) THEN Report(acc, "LF159", span) ELSE [acc EXCEPT !.spec.hidden = Append(@, token[1])]

hideToken(acc, token, span) ==
  CASE ~isIdent(token) -> Report(acc, "LF159", span)
    [] isIdent(token) /\ token[1] \in ToSet(acc.spec.hidden) -> Report(acc, "LF160", span)
    [] OTHER -> [acc EXCEPT !.spec.hidden = Append(@, token[1])]

parseHiddenExpectedDirective(acc, args, span) ==
  IF args = <<>> THEN Report(acc, "LF158", span)
  ELSE accumulate(LAMBDA a, token : hideToken(a, token, span), acc, args)

parseSemanticMode(acc, target, args, span) ==
  LET mode == lowerText(args[1])
  IN  CASE Len(args) # 1 -> Report(acc, "LF140", span)
        [] Len(args) = 1 /\ mode \notin {<<"reducer">>, <<"inline">>} -> Report(acc, "LF142", span)
        [] OTHER -> [acc EXCEPT !.spec.modes = [t \in DOMAIN @ \cup {target} |-> IF t = target THEN mode ELSE @[t]]]

unquoteSemanticPath(value) ==
  Then(IF value # <<>> /\ value[1] \in {"\"", "backquote"} THEN unquote(value) ELSE Item(value), LAMBDA path :
    IF trim(path) = <<>> THEN Refused("LF145") ELSE Item(path))

addInclude(acc, target, alias, path, span) ==
  IF alias # <<>> /\ ~isIdent(alias) /\ alias \notin {<<"_">>, <<".">>} THEN Report(acc, "LF144", span)
  ELSE Take(acc, unquoteSemanticPath(path), span, LAMBDA value :
         [acc EXCEPT !.spec.includes = Append(@, [target |-> target, alias |-> alias, path |-> value])])

parseSemanticInclude(acc, target, args, span) ==
  IF Len(args) \notin {1, 2} THEN Report(acc, "LF143", span)
  ELSE addInclude(acc, target, IF Len(args) = 2 THEN args[1] ELSE <<>>, Last(args), span)

(* strings.Join with blanks. *)
joined(args) == accumulate(LAMBDA text, f : IF text = <<>> THEN f ELSE text \o <<" ">> \o f, <<>>, args)

parseSemanticType(acc, target, args, span) ==
  LET symbol == args[1]
      type   == joined(Tail(args))
  IN  CASE Len(args) < 2 -> Report(acc, "LF146", span)
        [] Len(args) >= 2 /\ ~isIdent(symbol) -> Report(acc, "LF147", span)
        [] OTHER ->
             IF \E k \in DOMAIN acc.spec.types :
                  acc.spec.types[k].target = target /\ acc.spec.types[k].symbol = symbol[1]
             THEN Report(acc, "LF149", span)
             ELSE [acc EXCEPT !.spec.types = Append(@, [target |-> target, symbol |-> symbol[1], type |-> type])]

parseSemanticDirective(acc, args, span) ==
  LET target  == lowerText(args[1])
      command == lowerText(args[2])
      rest    == SubSeq(args, 3, Len(args))
  IN  CASE Len(args) < 3 -> Report(acc, "LF140", span)
        [] Len(args) >= 3 /\ ~isIdent(target) -> Report(acc, "LF141", span)
        [] OTHER ->
             CASE command = <<"mode">> -> parseSemanticMode(acc, target[1], rest, span)
               [] command \in {<<"import">>, <<"include">>, <<"use">>} ->
                    parseSemanticInclude(acc, target[1], rest, span)
               [] command = <<"type">> -> parseSemanticType(acc, target[1], rest, span)
               [] OTHER -> Report(acc, "LF140", span)

(* key=value settings, each over the defaults; the first that is not one   *)
(* decides.                                                                *)
setKey(scanner, key, value) ==
  CASE key = <<"encoding">> -> Item([scanner EXCEPT !.encoding = value])
    [] key = <<"invalid">>  -> Item([scanner EXCEPT !.invalid = value])
    [] key = <<"newline">>  -> Item([scanner EXCEPT !.newline = value])
    [] OTHER -> Refused("LF108")

scannerSetting(scanner, field) ==
  LET at    == indexOf(field, "=")
      value == lowerText(SubSeq(field, at + 1, Len(field)))
  IN  IF value = <<>> THEN Refused("LF108")
      ELSE Then(scanner, LAMBDA s : setKey(s, lowerText(SubSeq(field, 1, at - 1)), value))

(* The supported settings: an absent newline policy, or lf. *)
validateScannerDirective(scanner) ==
  IF scanner.encoding = <<"utf8">> /\ scanner.invalid = <<"error">> /\ scanner.newline \in {<<>>, <<"lf">>}
  THEN Item(scanner) ELSE Refused("LF109")

parseScannerDirective(args) ==
  IF args = <<>> THEN Refused("LF108")
  ELSE Then(IF Len(args) = 1 /\ ~contains(args[1], <<"=">>)
            THEN Item([DefaultScanner EXCEPT !.encoding = lowerText(args[1])])
            ELSE accumulate(scannerSetting, Item(DefaultScanner), args), validateScannerDirective)

(* A directive with one value. *)
setting(acc, args, code, span, set) == IF Len(args) = 1 THEN set ELSE Report(acc, code, span)

directive(acc, line, keyword, args, span) ==
  LET value == args[1]
  IN  CASE keyword = <<"%", "target">>  -> setting(acc, args, "LF101", span, [acc EXCEPT !.spec.target = value])
        [] keyword = <<"%", "package">> -> setting(acc, args, "LF102", span, [acc EXCEPT !.spec.package = value])
        [] keyword = <<"%", "start">>   -> setting(acc, args, "LF103", span, [acc EXCEPT !.spec.start = value])
        [] keyword = <<"%", "token">>   ->
             IF args = <<>> THEN Report(acc, "LF104", span) ELSE tokenDirective(acc, args, span)
        [] keyword = <<"%", "type">>    ->
             setting(acc, args, "LF106", span,
                     IF Len(value) = 1 /\ Lower(value[1]) \in Algorithms
                     THEN [acc EXCEPT !.spec.algorithm = lowerText(value)] ELSE Report(acc, "LF107", span))
        [] keyword = <<"%", "scanner">> ->
             Take(acc, parseScannerDirective(args), span, LAMBDA s : [acc EXCEPT !.spec.scanner = s])
        [] keyword = <<"%", "semantic">> -> parseSemanticDirective(acc, args, span)
        [] keyword = <<"%", "alias">>    -> parseExpectedAliasDirective(acc, line, span)
        [] keyword = <<"%", "group">>    -> parseExpectedGroupDirective(acc, args, span)
        [] keyword = <<"%", "hide-expected">> -> parseHiddenExpectedDirective(acc, args, span)
        [] OTHER -> Report(acc, "LF100", span)

directiveWords(acc, line, words, span) == directive(acc, line, lowerText(words[1]), Tail(words), span)
parseDirective(acc, line, span) == directiveWords(acc, line, fields(line), span)

(***************************************************************************)
(* The lexer section.                                                      *)
(***************************************************************************)
lexDefinition(name, pattern) ==
  CASE ~isIdent(name) -> Refused("LF112")
    [] isIdent(name) /\ pattern = <<>> -> Refused("LF113")
    [] OTHER -> Item([name |-> name[1], pattern |-> pattern])

lexDefinitionAt(text, at) ==
  IF at > Len(text) THEN Refused("LF111")
  ELSE lexDefinition(trim(SubSeq(text, 1, at - 1)), trim(SubSeq(text, at + 1, Len(text))))

lexDefinitionText(text) == lexDefinitionAt(text, indexOf(text, "="))
parseLexDefinitionLine(line) == lexDefinitionText(trimSuffix(trim(line), ";"))

addDefinition(acc, line, span) ==
  Take(acc, parseLexDefinitionLine(line), span, LAMBDA d : [acc EXCEPT !.spec.definitions = Append(@, d)])

LexAction(kind, name) == [kind |-> kind, name |-> name]

parseLexAction(text) ==
  LET call(f) == Len(text) > 2 /\ SubSeq(text, 1, 2) = <<f, "(">> /\ Last(text) = ")"
      name    == trim(SubSeq(text, 3, Len(text) - 1))
      named(kind, code) == IF isIdent(name) THEN Item(LexAction(kind, name[1])) ELSE Refused(code)
  IN  CASE text = <<"skip">> -> Item(LexAction("skip", ""))
        [] call("token")     -> named("token", "LF124")
        [] call("channel")   -> named("channel", "LF125")
        [] text # <<>> /\ text[1] = "{" -> Item(LexAction("raw", ""))
        [] OTHER -> Refused("LF126")

(* A rule is cut at its first arrow. *)
modernLexRule(pattern, action) ==
  IF pattern = <<>> THEN Refused("LF121") ELSE Item([pattern |-> pattern, action |-> action])

modernLexRuleAt(line, arrow) ==
  Then(parseLexAction(trim(trimSuffix(SubSeq(line, arrow + 2, Len(line)), ";"))), LAMBDA action :
    modernLexRule(trim(SubSeq(line, 1, arrow - 1)), action))

parseModernLexRule(line) == modernLexRuleAt(line, Min(occurrences(line, <<"=", ">">>)))

lexerText(acc, text, span) ==
  CASE contains(text, <<"=", ">">>) ->
         Take(acc, parseModernLexRule(text), span, LAMBDA r : [acc EXCEPT !.spec.lexRules = Append(@, r)])
    [] ~contains(text, <<"=", ">">>) /\ contains(text, <<"=">>) -> addDefinition(acc, text, span)
    [] OTHER -> Report(acc, "LF110", span)

lexerLine(acc, line, span) == lexerText(acc, trim(line), span)

partSpan(text, base, part) == Span(text, base + part.offset, base + part.offset + Len(part.text))

parseLexerLines(acc, text, lines) ==
  accumulate(LAMBDA a, line : lexerLine(a, line.text, partSpan(text, 0, line)), acc, lines)

parseLexDefinitions(acc, text, section) ==
  LET read(a, statement) ==
        IF trim(statement.text) = <<>> THEN a
        ELSE addDefinition(a, trim(statement.text) \o <<";">>, partSpan(text, section.offset, statement))
  IN  accumulate(read, acc, splitStatements(section.text, ";"))

(* A skip marker anywhere, else the first YACC_ name. *)
legacyLexAction(raw) ==
  LET names == {i \in DOMAIN raw : raw[i] \in DOMAIN YaccTokenOf}
  IN  CASE \/ contains(raw, <<"LEX_Skip">>)
           \/ contains(raw, <<"AReturn", " ", ":", "=", " ", "False">>)
           \/ contains(raw, <<"AReturn", ":", "=", "False">>) -> LexAction("skip", "")
        [] OTHER -> IF names = {} THEN LexAction("raw", "") ELSE LexAction("token", YaccTokenOf[raw[Min(names)]])

legacyLexRule(acc, pattern, action, span) ==
  IF pattern = <<>> THEN Report(acc, "LF123", span)
  ELSE [acc EXCEPT !.spec.lexRules = Append(@, [pattern |-> pattern, action |-> legacyLexAction(action)])]

legacyLexRuleAt(acc, rule, colon, span) ==
  CASE rule = <<>> -> acc
    [] rule # <<>> /\ colon = 0 -> Report(acc, "LF122", span)
    [] OTHER -> legacyLexRule(acc, trim(SubSeq(rule, 1, colon - 1)), trim(SubSeq(rule, colon + 1, Len(rule))), span)

parseLegacyLexRules(acc, text, section) ==
  LET read(a, block) ==
        legacyLexRuleAt(a, trim(block.text), indexLegacyLexRuleColon(trim(block.text)),
                        partSpan(text, section.offset, block))
  IN  accumulate(read, acc, splitLegacyRuleBlocks(section.text))

(***************************************************************************)
(* The parser section.                                                     *)
(***************************************************************************)
EmptyMarks == {"e", "epsilon", "%empty"}

(* One symbol of an alternative: [label=]Symbol. *)
addSymbol(read, label, symbol) ==
  CASE label # <<>> /\ label \in ToSet(read.labels) -> Refused("LF135")
    [] ~(label # <<>> /\ label \in ToSet(read.labels)) ->
         IF ~isIdent(symbol) /\ symbol \notin {<<"epsilon">>, <<"%", "empty">>} THEN Refused("LF133")
         ELSE Item([symbols |-> Append(read.symbols, IF symbol = <<"%", "empty">> THEN "%empty" ELSE symbol[1]),
                    labels  |-> Append(read.labels, label)])

labeledSymbolAt(read, field, at) ==
  LET label  == SubSeq(field, 1, at - 1)
      symbol == SubSeq(field, at + 1, Len(field))
  IN  CASE at > Len(field) -> addSymbol(read, <<>>, field)
        [] at =< Len(field) ->
             IF ~isIdent(label) \/ symbol = <<>> \/ contains(symbol, <<"=">>) THEN Refused("LF134")
             ELSE addSymbol(read, label, symbol)

labeledSymbol(item, field) == Then(item, LAMBDA read : labeledSymbolAt(read, field, indexOf(field, "=")))

NoSymbols == [symbols |-> <<>>, labels |-> <<>>]

parseAlternativeSymbols(text) == accumulate(labeledSymbol, Item(NoSymbols), fields(text))

isEmpty(symbols) == Len(symbols) = 1 /\ symbols[1] \in EmptyMarks

alternativeOf(blocks) ==
  Then(parseAlternativeSymbols(blocks.text), LAMBDA read :
    Item([symbols |-> IF isEmpty(read.symbols) THEN <<>> ELSE read.symbols,
          labels  |-> IF isEmpty(read.symbols) THEN <<>> ELSE read.labels,
          actions |-> blocks.actions]))

parseAlternative(part) == alternativeOf(extractActionBlocks(trim(part)))

(* The first alternative that is refused decides. *)
ruleOf(name, alternatives, span) ==
  LET refused == {k \in DOMAIN alternatives : ~alternatives[k].ok}
  IN  CASE ~isIdent(name) -> Refused("LF131")
        [] isIdent(name) /\ refused # {} -> alternatives[Min(refused)]
        [] OTHER -> Item([name |-> name[1], span |-> span,
                          alternatives |-> each(LAMBDA alternative : alternative.value, alternatives)])

ruleAt(statement, colon, span) ==
  IF colon = 0 THEN Refused("LF130")
  ELSE ruleOf(trim(SubSeq(statement, 1, colon - 1)),
              each(parseAlternative, splitTopLevel(trim(SubSeq(statement, colon + 1, Len(statement))), "|")), span)

parseRuleStatement(statement, span) == ruleAt(statement, indexTopLevel(statement, ":"), span)

addRule(acc, statement, span) ==
  IF statement = <<>> THEN acc
  ELSE Take(acc, parseRuleStatement(statement, span), span, LAMBDA rule :
         [acc EXCEPT !.spec.rules = Append(@, rule)])

parseGrammarText(acc, text, source, base) ==
  accumulate(LAMBDA a, statement : addRule(a, trim(statement.text), partSpan(source, base, statement)),
             acc, splitStatements(text, ";"))

(* The lines kept for the parser section are joined and read as one text   *)
(* that starts where the first of them does.                               *)
parseGrammarLines(acc, text, lines) ==
  IF lines = <<>> THEN acc
  ELSE parseGrammarText(acc, accumulate(LAMBDA t, line : t \o Append(line.text, Newline), <<>>, lines),
                        text, lines[1].offset)

(* Without %start, the first rule's name. *)
defaultStart(acc) ==
  IF acc.spec.start = <<>> /\ acc.spec.rules # <<>>
  THEN [acc EXCEPT !.spec.start = <<acc.spec.rules[1].name>>] ELSE acc

(***************************************************************************)
(* Files.                                                                  *)
(***************************************************************************)
SectionOf(word) ==
  CASE word \in {"lexer", "lex"} -> "lexer"
    [] word \in {"parser", "grammar", "yacc"} -> "parser"
    [] OTHER -> "unknown"

isComment(line) == line = <<>> \/ line[1] = "#" \/ (Len(line) >= 2 /\ SubSeq(line, 1, 2) = <<"/", "/">>)

(* An unknown marker does not change the section. *)
sectionMarker(reader, words, span) ==
  LET section == IF Len(words[2]) # 1 THEN "unknown" ELSE SectionOf(Lower(words[2][1]))
  IN  CASE Len(words) < 2 -> [reader EXCEPT !.acc = Report(@, "LF001", span)]
        [] Len(words) >= 2 /\ section = "unknown" -> [reader EXCEPT !.acc = Report(@, "LF002", span)]
        [] OTHER -> [reader EXCEPT !.section = section]

(* One line of a combined file: ignored, a section marker, a directive, or *)
(* kept for its section.                                                   *)
lineOf(reader, line, trimmed, span) ==
  CASE isComment(trimmed) -> reader
    [] ~isComment(trimmed) /\ Len(trimmed) >= 2 /\ SubSeq(trimmed, 1, 2) = <<"%", "%">> ->
         sectionMarker(reader, fields(trimmed), span)
    [] OTHER ->
         CASE reader.section = ""       -> [reader EXCEPT !.acc = parseDirective(@, trimmed, span)]
           [] reader.section = "lexer"  -> [reader EXCEPT !.lexerLines = Append(@, line)]
           [] reader.section = "parser" -> [reader EXCEPT !.parserLines = Append(@, line)]

combinedLine(reader, text, line) == lineOf(reader, line, trim(line.text), partSpan(text, 0, line))

CombinedReader == [acc |-> Reading(EmptySpec("combined")), section |-> "", lexerLines |-> <<>>, parserLines |-> <<>>]

sections(reader, text) ==
  defaultStart(parseGrammarLines(parseLexerLines(reader.acc, text, reader.lexerLines),
                                 text, reader.parserLines))

ParseCombined(text) ==
  sections(accumulate(LAMBDA r, line : combinedLine(r, text, line), CombinedReader,
                      splitLinesWithOffsets(stripBlockComments(text))), text)

lexSections(text, parts) ==
  LET empty == Reading(EmptySpec("lex-only"))
  IN  IF Len(parts) < 2 THEN Report(empty, "LF010", Span(text, 0, 0))
      ELSE parseLegacyLexRules(parseLexDefinitions(empty, text, parts[1]), text, parts[2])

ParseLex(text) == lexSections(text, splitPercentSections(stripBlockComments(text)))

yaccSections(text, parts) ==
  LET empty == Reading(EmptySpec("yacc-only"))
      read(a, line) == IF trim(line.text) = <<>> THEN a
                       ELSE parseDirective(a, trim(line.text), partSpan(text, parts[1].offset, line))
  IN  IF Len(parts) < 2 THEN Report(empty, "LF020", Span(text, 0, 0))
      ELSE defaultStart(parseGrammarText(accumulate(read, empty, splitLinesWithOffsets(parts[1].text)),
                                         stripHashBlocks(parts[2].text), text, parts[2].offset))

ParseYacc(text) == yaccSections(text, splitPercentSections(stripBlockComments(text)))

mergeModes(lexModes, yaccModes) ==
  [t \in DOMAIN lexModes \cup DOMAIN yaccModes |-> IF t \in DOMAIN yaccModes THEN yaccModes[t] ELSE lexModes[t]]

(* The lexer of one file, everything else of the other: a parsed file      *)
(* always has an encoding, so the scanner settings are the yacc file's.    *)
MergeSplit(lexSpec, yaccSpec) ==
  [yaccSpec EXCEPT !.mode = "split", !.definitions = lexSpec.definitions, !.lexRules = lexSpec.lexRules,
                   !.includes = lexSpec.includes \o @, !.types = lexSpec.types \o @,
                   !.modes = mergeModes(lexSpec.modes, @)]

(* Declared tokens, then those of the lexer rules, each once. *)
TokenNames(spec) ==
  LET produced == SelectSeq(spec.lexRules, LAMBDA r : r.action.kind = "token")
      names    == spec.tokens \o [k \in DOMAIN produced |-> produced[k].action.name]
  IN  accumulate(LAMBDA out, name : IF name \in ToSet(out) THEN out ELSE Append(out, name), <<>>, names)
=============================================================================
