------------------------------ MODULE SpecText ------------------------------
(***************************************************************************)
(* How the specification reader cuts a text into comments, sections,       *)
(* lines, statements and alternatives, and names its positions.            *)
(*                                                                         *)
(* A text is a sequence of symbols: punctuation is one symbol, and so is a *)
(* whole word, which no operation here looks into.  Positions are 1-based, *)
(* offsets 0-based as in the code.                                         *)
(***************************************************************************)
EXTENDS Integers, Sequences, SequencesExt, FiniteSetsExt

Newline == "\n"
Blanks  == {" ", "\r", Newline}
Quotes  == {"'", "\""}

(* A left fold.  It halves the sequence, and the test makes TLC evaluate    *)
(* the left half first: texts are long, and its stack is not.               *)
accumulate(op(_, _), base, seq) ==
  LET RECURSIVE over(_, _, _)
      over(acc, lo, hi) ==
        LET mid  == (lo + hi) \div 2
            left == over(acc, lo, mid)
        IN  CASE lo > hi -> acc
              [] lo = hi -> op(acc, seq[lo])
              [] lo < hi -> IF left \notin {} THEN over(left, mid + 1, hi) ELSE left
  IN  over(base, 1, Len(seq))

each(op(_), seq) == [k \in DOMAIN seq |-> op(seq[k])]

Part(text, offset) == [text |-> text, offset |-> offset]

(* The part of a text between two positions, with its offset. *)
cut(text, from, to) == Part(SubSeq(text, from, to), from - 1)

positions(text) == [i \in 1 .. Len(text) |-> i]

(* A set of positions, in order. *)
inOrder(text, chosen) == SelectSeq(positions(text), LAMBDA i : i \in chosen)

(* The positions of a sequence of symbols in a text. *)
occurrences(text, symbols) ==
  {i \in 1 .. Len(text) + 1 - Len(symbols) : SubSeq(text, i, i + Len(symbols) - 1) = symbols}

contains(text, symbols) == occurrences(text, symbols) # {}

trim(text) ==
  LET solid == {i \in 1 .. Len(text) : text[i] \notin Blanks}
  IN  IF solid = {} THEN <<>> ELSE SubSeq(text, Min(solid), Max(solid))

trimSuffix(text, symbol) == IF text # <<>> /\ Last(text) = symbol THEN Front(text) ELSE text

(* The first position of a symbol, or one after the text. *)
indexOf(text, c) == Min({Len(text) + 1} \cup {i \in 1 .. Len(text) : text[i] = c})

(* strings.Fields: the maximal runs of symbols that are not blank. *)
fields(text) ==
  LET solid(i) == i \in 1 .. Len(text) /\ text[i] \notin Blanks
      end(i)   == Min({j \in i .. Len(text) : ~solid(j + 1)})
  IN  each(LAMBDA i : SubSeq(text, i, end(i)),
           inOrder(text, {i \in 1 .. Len(text) : solid(i) /\ ~solid(i - 1)}))

(***************************************************************************)
(* Quotes, escapes and nesting: what surrounds each position.              *)
(***************************************************************************)
Outside == [quote |-> "", escaped |-> FALSE, paren |-> 0, brace |-> 0, class |-> 0]

(* The readers differ: whether a backslash escapes outside quotes, and     *)
(* whether a quote opens inside a character class.                         *)
Style(escapes, quotesInClasses) == [escapes |-> escapes, quotesInClasses |-> quotesInClasses]

nest(context, c) ==
  CASE c = "(" -> [context EXCEPT !.paren = @ + 1]
    [] c = ")" -> [context EXCEPT !.paren = @ - 1]
    [] c = "{" -> [context EXCEPT !.brace = @ + 1]
    [] c = "}" -> [context EXCEPT !.brace = @ - 1]
    [] c = "[" -> [context EXCEPT !.class = @ + 1]
    [] c = "]" -> [context EXCEPT !.class = @ - 1]
    [] OTHER   -> context

advance(style, context, c) ==
  CASE context.escaped -> [context EXCEPT !.escaped = FALSE]
    [] ~context.escaped /\ c = "\\" /\ (style.escapes \/ context.quote # "") ->
         [context EXCEPT !.escaped = TRUE]
    [] ~context.escaped /\ context.quote # "" /\ c # "\\" ->
         [context EXCEPT !.quote = IF c = @ THEN "" ELSE @]
    [] ~context.escaped /\ context.quote = "" /\ c \in Quotes ->
         [context EXCEPT !.quote = IF style.quotesInClasses \/ context.class = 0 THEN c ELSE @]
    [] OTHER -> nest(context, c)

(* The context before each position, and after the last. *)
contexts(style, text) ==
  accumulate(LAMBDA before, c : Append(before, advance(style, Last(before), c)), <<Outside>>, text)

Unquoted(context) == context.quote = "" /\ ~context.escaped
InText(context)   == Unquoted(context) /\ context.class = 0
TopLevel(context) == context = Outside

positionsAt(text, c, before) == {i \in 1 .. Len(text) : text[i] = c /\ TopLevel(before[i])}
topLevelPositions(style, text, c) == positionsAt(text, c, contexts(style, text))

(* The parts between separators of a width, in order. *)
splitAt(text, ordered, width) ==
  [k \in 1 .. Len(ordered) + 1 |->
     cut(text, IF k = 1 THEN 1 ELSE ordered[k - 1] + width,
               IF k > Len(ordered) THEN Len(text) ELSE ordered[k] - 1)]
split(text, separators, width) == splitAt(text, inOrder(text, separators), width)

StatementStyle == Style(TRUE, FALSE)

splitStatements(text, delim) == split(text, topLevelPositions(StatementStyle, text, delim), 1)

splitTopLevel(text, delim) == each(LAMBDA part : trim(part.text), splitStatements(text, delim))

firstOrNone(found) == IF found = {} THEN 0 ELSE Min(found)

(* The first target at the top level, or 0. *)
indexTopLevel(text, target) == firstOrNone(topLevelPositions(Style(FALSE, TRUE), text, target))

\* Mutant: a colon after a backslash ends the pattern.
EscapedColonEnds(text) == firstOrNone(topLevelPositions(Style(FALSE, TRUE), text, ":"))

indexLegacyLexRuleColon(text) == firstOrNone(topLevelPositions(Style(TRUE, TRUE), text, ":"))

(* The depth of brackets in the scans for sections and comments. *)
floored(context) == [context EXCEPT !.class = Max({0, @})]

(* Sections end at %% outside quotes and classes; a third % belongs to the *)
(* next section.                                                           *)
sectionMarks(text, before) == {i \in occurrences(text, <<"%", "%">>) : InText(before[i])}
splitPercentSections(text) ==
  LET marks == sectionMarks(text,
        accumulate(LAMBDA seen, c : Append(seen, floored(advance(StatementStyle, Last(seen), c))),
                   <<Outside>>, text))
  IN  split(text, accumulate(LAMBDA taken, i : IF i - 1 \in taken THEN taken ELSE taken \cup {i},
                             {}, inOrder(text, marks)), 2)

(* Lines, without their ends; no line after a final end. *)
endedLine(line) == [line EXCEPT !.text = trimSuffix(@, "\r")]
endedLines(lines) ==
  each(endedLine, Front(lines)) \o (IF Last(lines).text = <<>> THEN <<>> ELSE <<Last(lines)>>)
splitLinesWithOffsets(text) ==
  endedLines(split(text, {i \in 1 .. Len(text) : text[i] = Newline}, 1))

(***************************************************************************)
(* Comments become blanks.                                                 *)
(***************************************************************************)
blank(c) == IF c = Newline THEN Newline ELSE " "

(* One symbol of a text with block comments: in a comment, between its     *)
(* delimiters' two symbols, or in the text proper.                         *)
stripSymbol(text, scan, i) ==
  LET c       == text[i]
      next    == IF i < Len(text) THEN text[i + 1] ELSE ""
      keep    == [scan EXCEPT !.out = Append(@, c), !.context = floored(advance(StatementStyle, @, c))]
      erase(part) == [scan EXCEPT !.out = Append(@, blank(c)), !.comment = part]
  IN  CASE scan.comment = "opening" -> erase("inside")
        [] scan.comment = "closing" -> erase("none")
        [] scan.comment = "inside"  -> erase(IF c = "*" /\ next = "/" THEN "closing" ELSE "inside")
        [] scan.comment = "none" ->
             IF InText(scan.context) /\ c = "/" /\ next = "*"
             THEN erase("opening") ELSE keep

stripBlockComments(text) ==
  accumulate(LAMBDA scan, i : stripSymbol(text, scan, i),
           [out |-> <<>>, context |-> Outside, comment |-> "none"], positions(text)).out

(* Action blocks #{ ... #}, wherever they are. *)
hashSymbol(text, scan, i) ==
  LET c    == text[i]
      pair == IF i < Len(text) THEN <<c, text[i + 1]>> ELSE <<c>>
      erase(part) == [out |-> Append(scan.out, blank(c)), block |-> part]
  IN  CASE scan.block = "opening" -> erase("inside")
        [] scan.block = "closing" -> erase("none")
        [] scan.block = "inside"  -> erase(IF pair = <<"#", "}">> THEN "closing" ELSE "inside")
        [] scan.block = "none" ->
             IF pair = <<"#", "{">> THEN erase("opening") ELSE [scan EXCEPT !.out = Append(@, c)]

stripHashBlocks(text) ==
  accumulate(LAMBDA scan, i : hashSymbol(text, scan, i), [out |-> <<>>, block |-> "none"], positions(text)).out

(***************************************************************************)
(* Rules of a legacy lexer file end at an action block, at a semicolon or  *)
(* at a blank line; lines of an action belong to its rule.                 *)
(***************************************************************************)
NoBlock == [text |-> <<>>, offset |-> -1]

finishBlock(scan, block) == [out |-> Append(scan.out, block), block |-> NoBlock, inAction |-> FALSE]

addLine(block, line) ==
  Part(block.text \o Append(line.text, Newline), IF block.offset < 0 THEN line.offset ELSE block.offset)

legacyLine(scan, line) ==
  LET trimmed == trim(line.text)
      opened  == scan.inAction \/ contains(trimmed, <<"#", "{">>)
  IN  CASE trimmed = <<>> ->
             IF scan.block.text # <<>> /\ ~scan.inAction THEN finishBlock(scan, scan.block) ELSE scan
        [] trimmed # <<>> /\ (contains(trimmed, <<"#", "}">>) \/ (~opened /\ Last(trimmed) = ";")) ->
             finishBlock(scan, addLine(scan.block, line))
        [] OTHER -> [scan EXCEPT !.block = addLine(@, line), !.inAction = opened]

lastBlock(scan) == IF scan.block.text = <<>> THEN scan.out ELSE Append(scan.out, scan.block)

splitLegacyRuleBlocks(text) ==
  lastBlock(accumulate(legacyLine, [out |-> <<>>, block |-> NoBlock, inAction |-> FALSE],
                       splitLinesWithOffsets(text)))

(***************************************************************************)
(* The target-tagged actions of an alternative, from the last block back.  *)
(***************************************************************************)
lastOf(text, c) == Max({0} \cup {i \in 1 .. Len(text) : text[i] = c})

addAction(actions, lang, code) ==
  [l \in DOMAIN actions \cup {lang} |-> IF l = lang THEN code ELSE actions[l]]

RECURSIVE extractActions(_, _)

(* A block without a tag ends the list. *)
extractBlock(text, start, end, body, actions) ==
  LET colon == indexOf(body, ":")
  IN  IF colon \in {1, Len(body) + 1} THEN [text |-> trim(text), actions |-> actions]
      ELSE extractActions(trim(SubSeq(text, 1, start - 1) \o <<" ">> \o SubSeq(text, end + 1, Len(text))),
                          addAction(actions, trim(SubSeq(body, 1, colon - 1)),
                                             trim(SubSeq(body, colon + 1, Len(body)))))

extractBetween(text, start, end, actions) ==
  IF start = 0 \/ end < start THEN [text |-> trim(text), actions |-> actions]
  ELSE extractBlock(text, start, end, trim(SubSeq(text, start + 1, end - 1)), actions)

extractActions(text, actions) == extractBetween(text, lastOf(text, "{"), lastOf(text, "}"), actions)

NoActions == [l \in {} |-> <<>>]

extractActionBlocks(text) == extractActions(text, NoActions)

(***************************************************************************)
(* Lines and columns of offsets: the line that starts last at or before an *)
(* offset, found by halving.                                               *)
(***************************************************************************)
lineStarts(text) == <<0>> \o inOrder(text, {i \in 1 .. Len(text) : text[i] = Newline})

RECURSIVE findLine(_, _, _, _, _)
findLine(starts, offset, lo, hi, line) ==
  LET mid == (lo + hi) \div 2
  IN  IF lo >= hi THEN line
      ELSE IF starts[mid + 1] =< offset THEN findLine(starts, offset, mid + 1, hi, mid)
      ELSE findLine(starts, offset, lo, mid, line)

onLine(starts, offset, line) ==
  [line |-> line + 1, column |-> offset - starts[line + 1] + 1, offset |-> offset]
posAmong(starts, offset, last) == onLine(starts, offset, findLine(starts, offset, 0, last, 0))

within(text, offset) == Max({0, Min({offset, Len(text)})})

Pos(text, offset) ==
  LET starts == lineStarts(text) IN posAmong(starts, within(text, offset), Len(starts))

Span(text, start, end) == [start |-> Pos(text, start), end |-> Pos(text, Max({start, end}))]
=============================================================================
