---------------------------- MODULE RegexParser ----------------------------
(***************************************************************************)
(* ParseRegexWithDomain: the text of a lexical rule becomes an expression. *)
(*                                                                         *)
(* A text is a sequence of characters, and a parse position the index of   *)
(* the next one.  Runes are numbers of a scaled-down scanner domain;       *)
(* rune(n) keeps RuneBits bits of a decimal number, as a Go conversion to  *)
(* int32 does.  Blanks stand for all Unicode white space, and a property   *)
(* name for the set its tables give.                                       *)
(***************************************************************************)
EXTENDS RegexExpr, Integers, Sequences, SequencesExt, FiniteSets, FiniteSetsExt

CONSTANTS
  Texts,            (* The texts to parse.                                 *)
  Scalars,          (* IsUnicodeScalar: the valid runes.                   *)
  ScannerDomain,    (* The runes of the scanner domain.                    *)
  RuneBits,         (* The width of a rune.                                *)
  RuneOf,           (* The rune of each character.                         *)
  PropertySets      (* The runes of each Unicode property, by name.        *)

VARIABLES
  text,
  outcome           (* The expression, Unparsable, or Unread.              *)

textVars == <<text, outcome>>

Unread == [kind |-> "unread"]

(***************************************************************************)
(* Characters.                                                             *)
(***************************************************************************)
Letters     == {"a", "b", "p", "P", "x", "u", "U", "n", "_"}
AsciiDigits == {"0", "1", "2"}
Digits      == AsciiDigits \cup {"arabic3"}
Quotes      == {"'", "\""}
DigitValue  == [c \in AsciiDigits |-> CASE c = "0" -> 0 [] c = "1" -> 1 [] c = "2" -> 2]
HexValue    == [c \in AsciiDigits \cup {"a", "b"} |->
                  CASE c = "a" -> 10 [] c = "b" -> 11 [] OTHER -> DigitValue[c]]

(* The character at a position, or none at the end. *)
peek(pos) == IF pos <= Len(text) THEN text[pos] ELSE "eof"

RECURSIVE skip(_, _)
skip(chars, pos) == IF peek(pos) \in chars THEN skip(chars, pos + 1) ELSE pos

skipSpace(pos)           == skip({" "}, pos)
skipClassSeparators(pos) == skip({" ", ","}, pos)

(* What a step of the parser returns: its value and the next position. *)
Read(value, pos) == [ok |-> TRUE, value |-> value, pos |-> pos]
Fail             == [ok |-> FALSE]

(* Goes on with what was read, unless reading it failed. *)
Then(result, Continue(_, _)) == IF result.ok THEN Continue(result.value, result.pos) ELSE Fail

(***************************************************************************)
(* Escapes.                                                                *)
(***************************************************************************)
(* ParseInt in base 16: an optional sign and at least one digit. *)
hexNumber(sign, digits) ==
  IF digits = <<>> \/ ~(ToSet(digits) \subseteq DOMAIN HexValue) THEN Fail
  ELSE Read(sign * FoldLeft(LAMBDA n, c : 16 * n + HexValue[c], 0, digits), 0)
ParseInt(raw) ==
  IF raw # <<>> /\ raw[1] \in {"+", "-"}
  THEN hexNumber(IF raw[1] = "-" THEN -1 ELSE 1, Tail(raw)) ELSE hexNumber(1, raw)

(* A number is a rune only as a Unicode scalar value. *)
Scalar(raw, next) ==
  Then(ParseInt(raw), LAMBDA n, end : IF n \in Scalars THEN Read(n, next) ELSE Fail)

parseFixedHex(width, pos) ==
  IF pos + width - 1 > Len(text) THEN Fail
  ELSE Scalar(SubSeq(text, pos, pos + width - 1), pos + width)

(* Everything up to a closing brace, at most 8 characters for a number. *)
Braced(pos) ==
  LET closing == {i \in pos .. Len(text) : text[i] = "}"}
  IN  IF closing = {} THEN Fail ELSE Read(SubSeq(text, pos, Min(closing) - 1), Min(closing) + 1)

parseBracedHex(pos) ==
  Then(Braced(pos), LAMBDA raw, next : IF Len(raw) \in 1 .. 8 THEN Scalar(raw, next) ELSE Fail)

parseEscape(pos) ==
  LET c == peek(pos + 1)
  IN  CASE c = "eof"  -> Fail
        [] c = "u" /\ peek(pos + 2) = "{" -> parseBracedHex(pos + 3)
        [] c = "x" \/ c = "U" \/ (c = "u" /\ peek(pos + 2) # "{") ->
             parseFixedHex(CASE c = "x" -> 2 [] c = "u" -> 4 [] c = "U" -> 8, pos + 2)
        [] c = "n"    -> Read(RuneOf["newline"], pos + 2)
        [] OTHER      -> Read(RuneOf[c], pos + 2)

hasPropertyEscape(pos) == peek(pos) = "\\" /\ peek(pos + 1) \in {"p", "P"}

(* The runes of a property, or of its complement, within the domain. *)
parsePropertyEscape(pos) ==
  IF peek(pos + 2) # "{" THEN Fail
  ELSE Then(Braced(pos + 3), LAMBDA name, next :
         IF name \notin DOMAIN PropertySets THEN Fail
         ELSE Read(IF peek(pos + 1) = "p" THEN PropertySets[name] \cap ScannerDomain
                   ELSE ScannerDomain \ PropertySets[name], next))

(***************************************************************************)
(* Character classes.                                                      *)
(***************************************************************************)
(* The conversion of an int to a rune. *)
rune(n) == LET half == 2 ^ (RuneBits - 1) IN ((n + half) % (2 * half)) - half

Element(r, numeric, escaped) == [rune |-> r, numeric |-> numeric, escaped |-> escaped]

(* Digits are the decimal number of a rune, but for a single byte. *)
digitsElement(token, next) ==
  CASE Len(token) = 1 /\ token[1] \in AsciiDigits -> Read(Element(RuneOf[token[1]], FALSE, FALSE), next)
    [] ToSet(token) \subseteq AsciiDigits /\ Len(token) > 1 ->
         Read(Element(rune(FoldLeft(LAMBDA n, c : 10 * n + DigitValue[c], 0, token)), TRUE, FALSE), next)
    [] ~(ToSet(token) \subseteq AsciiDigits) -> Fail

(* An escape, a number, or one character. *)
parseClassElement(pos) ==
  CASE peek(pos) = "eof" -> Fail
    [] peek(pos) = "\\" ->
         Then(parseEscape(pos), LAMBDA r, next : Read(Element(r, FALSE, TRUE), next))
    [] peek(pos) \in Digits ->
         digitsElement(SubSeq(text, pos, skip(Digits, pos) - 1), skip(Digits, pos))
    [] OTHER -> Read(Element(RuneOf[peek(pos)], FALSE, FALSE), pos + 1)

IsDigit(r) == r \in {RuneOf[c] : c \in Digits}

(* A single digit at the end of a numeric range stands for its value. *)
numericClassRune(element) ==
  IF ~element.numeric /\ element.rune \in {RuneOf[c] : c \in AsciiDigits}
  THEN element.rune - RuneOf["0"] ELSE element.rune

legacyByteRange(left, right) ==
  ~left.escaped /\ IsDigit(left.rune) /\ right.escaped /\ ~IsDigit(right.rune)

(* The runes of a range, none when it descends. *)
ClassRange(left, right) ==
  IF left.numeric \/ right.numeric \/ legacyByteRange(left, right)
  THEN numericClassRune(left) .. numericClassRune(right)
  ELSE left.rune .. right.rune

RECURSIVE ClassItems(_, _)

(* The right end of a range; a range that descends is an error. *)
rangeTo(at, left, set) ==
  IF hasPropertyEscape(at) THEN Fail
  ELSE Then(parseClassElement(at), LAMBDA right, next :
         IF ClassRange(left, right) = {} THEN Fail ELSE ClassItems(next, set \cup ClassRange(left, right)))

dashOrItem(at, left, set) ==
  IF peek(at) = "-" THEN rangeTo(skipClassSeparators(at + 1), left, set)
  ELSE ClassItems(at, set \cup {left.rune})

\* Mutant: no blanks before the dash of a range.
afterElementTightDash(pos, left, set) == dashOrItem(pos, left, set)

afterElement(pos, left, set) == dashOrItem(skipClassSeparators(pos), left, set)

classItemAt(at, set) ==
  CASE peek(at) = "]" -> Read(set, at + 1)
    [] hasPropertyEscape(at) ->
         Then(parsePropertyEscape(at), LAMBDA runes, next :
           IF peek(skipClassSeparators(next)) = "-" THEN Fail ELSE ClassItems(next, set \cup runes))
    [] OTHER -> Then(parseClassElement(at), LAMBDA left, next : afterElement(next, left, set))

(* The items of a class up to its closing bracket. *)
ClassItems(pos, set) == classItemAt(skipClassSeparators(pos), set)

parseClass(pos) ==
  LET negated == peek(pos + 1) = "^"
  IN  Then(ClassItems(IF negated THEN pos + 2 ELSE pos + 1, {}), LAMBDA runes, next :
        Read(SetOf(IF negated THEN ScannerDomain \ runes ELSE runes), next))

(***************************************************************************)
(* Expressions.                                                            *)
(***************************************************************************)
LiteralRunes(runes) ==
  IF runes = <<>> THEN Empty
  ELSE FoldLeft(LAMBDA e, r : Concat(e, SetOf({r})), SetOf({Head(runes)}), Tail(runes))

RECURSIVE Quoted(_, _, _)
Quoted(quote, pos, out) ==
  CASE peek(pos) = "eof" -> Fail
    [] peek(pos) = quote -> Read(LiteralRunes(out), pos + 1)
    [] peek(pos) = "\\"  -> Then(parseEscape(pos), LAMBDA r, next : Quoted(quote, next, Append(out, r)))
    [] OTHER             -> Quoted(quote, pos + 1, Append(out, RuneOf[peek(pos)]))

parseQuoted(pos) == Quoted(peek(pos), pos + 1, <<>>)

RECURSIVE parseAlt(_), AltRest(_, _), parseConcat(_), ConcatRest(_, _), RepeatRest(_, _)

closeGroup(inner, at) == IF peek(at) = ")" THEN Read(inner, at + 1) ELSE Fail

(* An escape outside classes: a property or a single rune. *)
escapeAtom(pos) ==
  IF hasPropertyEscape(pos)
  THEN Then(parsePropertyEscape(pos), LAMBDA runes, next : Read(SetOf(runes), next))
  ELSE Then(parseEscape(pos), LAMBDA r, next : Read(SetOf({r}), next))

atomAt(c, pos) ==
  CASE c = "eof" -> Fail
    [] c = "("   -> Then(parseAlt(pos + 1), LAMBDA inner, next : closeGroup(inner, skipSpace(next)))
    [] c = "["   -> parseClass(pos)
    [] c \in Quotes -> parseQuoted(pos)
    [] c = "."   -> Read(SetOf(ScannerDomain), pos + 1)
    [] c = "\\"  -> escapeAtom(pos)
    [] c \in Letters ->
         LET end == skip(Letters \cup Digits, pos) IN Read(Ref(SubSeq(text, pos, end - 1)), end)
    [] OTHER     -> Read(SetOf({RuneOf[c]}), pos + 1)

parseAtom(pos) == atomAt(peek(skipSpace(pos)), skipSpace(pos))

repeatAt(atom, at) ==
  CASE peek(at) = "*" -> RepeatRest(Star(atom), at + 1)
    [] peek(at) = "+" -> RepeatRest(Plus(atom), at + 1)
    [] peek(at) = "?" -> RepeatRest(Optional(atom), at + 1)
    [] OTHER          -> Read(atom, at)
RepeatRest(atom, pos) == repeatAt(atom, skipSpace(pos))

\* Mutant: a repetition takes one operator.
parseRepeatOnce(pos) ==
  Then(parseAtom(pos), LAMBDA atom, next :
    IF peek(skipSpace(next)) = "*" THEN Read(Star(atom), skipSpace(next) + 1) ELSE Read(atom, next))

parseRepeat(pos) == Then(parseAtom(pos), LAMBDA atom, next : RepeatRest(atom, next))

EndsConcat(pos) == peek(pos) \in {"eof", ")", "|"}

concatAt(left, at) ==
  IF EndsConcat(at) THEN Read(left, at)
  ELSE Then(parseRepeat(at), LAMBDA part, next : ConcatRest(Concat(left, part), next))
ConcatRest(left, pos) == concatAt(left, skipSpace(pos))

parseConcat(pos) ==
  IF EndsConcat(skipSpace(pos)) THEN Read(Empty, skipSpace(pos))
  ELSE Then(parseRepeat(skipSpace(pos)), LAMBDA part, next : ConcatRest(part, next))

altAt(left, at) ==
  IF peek(at) # "|" THEN Read(left, at)
  ELSE Then(parseConcat(at + 1), LAMBDA right, next : AltRest(Alt(left, right), next))
AltRest(left, pos) == altAt(left, skipSpace(pos))

parseAlt(pos) == Then(parseConcat(pos), LAMBDA left, next : AltRest(left, next))

(* The expression of the whole text. *)
Whole(result) ==
  IF result.ok /\ peek(skipSpace(result.pos)) = "eof" THEN result.value ELSE Unparsable
Parsed == Whole(parseAlt(1))

ParseRegex == outcome = Unread /\ outcome' = Parsed /\ UNCHANGED text

TextInit == text \in Texts /\ outcome = Unread

(***************************************************************************)
(* The syntax of expressions, as a grammar over the spans of the text.     *)
(***************************************************************************)
Blank(i, j) == \A k \in i .. j : text[k] = " "

(* A span without the blanks around it. *)
FirstSolid(i, j) == Min({k \in i .. j : text[k] # " "})
LastSolid(i, j)  == Max({k \in i .. j : text[k] # " "})

(* An operator is a plain character where there is nothing to repeat. *)
NothingBefore(i) == Blank(1, i - 1) \/ text[LastSolid(1, i - 1)] \in {"(", "|"}

RECURSIVE AltTrees(_, _), ConcatTrees(_, _), RepeatTrees(_, _), AtomTrees(_, _)

AtomTrees(i, j) ==
  LET IsName    == /\ text[i] \in Letters /\ peek(j + 1) \notin Letters \cup Digits
                   /\ \A k \in i .. j : text[k] \in Letters \cup Digits
      IsLiteral == /\ j > i /\ text[i] \in Quotes /\ text[j] = text[i]
                   /\ \A k \in i + 1 .. j - 1 : text[k] # text[i]
      IsRune    == /\ i = j
                   /\ text[i] \notin Letters \cup Quotes \cup {"(", ")", "|", "."}
                   /\ text[i] \in {"*", "+", "?"} => NothingBefore(i)
  IN  (IF IsName THEN {Ref(SubSeq(text, i, j))} ELSE {}) \cup
      (IF IsLiteral THEN {LiteralRunes([k \in 1 .. j - i - 1 |-> RuneOf[text[i + k]]])} ELSE {}) \cup
      (IF IsRune THEN {SetOf({RuneOf[text[i]]})} ELSE {}) \cup
      (IF i = j /\ text[i] = "." THEN {SetOf(ScannerDomain)} ELSE {}) \cup
      (IF text[i] = "(" /\ text[j] = ")" THEN AltTrees(i + 1, j - 1) ELSE {})

RepeatTrees(i, j) ==
  IF Blank(i, j) THEN {}
  ELSE LET lo == FirstSolid(i, j)
           hi == LastSolid(i, j)
       IN  AtomTrees(lo, hi) \cup
           CASE text[hi] = "*" -> {Star(e) : e \in RepeatTrees(lo, hi - 1)}
             [] text[hi] = "+" -> {Plus(e) : e \in RepeatTrees(lo, hi - 1)}
             [] text[hi] = "?" -> {Optional(e) : e \in RepeatTrees(lo, hi - 1)}
             [] OTHER          -> {}

ConcatTrees(i, j) ==
  IF Blank(i, j) THEN {Empty}
  ELSE RepeatTrees(i, j) \cup
       UNION {{Concat(l, r) : l \in ConcatTrees(i, k), r \in RepeatTrees(k + 1, j)} :
                k \in {n \in i .. j - 1 : ~Blank(i, n)}}

AltTrees(i, j) ==
  ConcatTrees(i, j) \cup
  UNION {{Alt(l, r) : l \in AltTrees(i, k - 1), r \in ConcatTrees(k + 1, j)} :
           k \in {n \in i .. j : text[n] = "|"}}

(***************************************************************************)
(* Properties.                                                             *)
(***************************************************************************)
(* A text without classes and escapes parses exactly when the grammar has a  *)
(* tree for it, and then there is one tree: alternation binds weaker than    *)
(* concatenation and that weaker than repetition, both group to the left,    *)
(* names are as long as they can be and quotes hide everything else.         *)
ParsesTheGrammar ==
  (outcome # Unread /\ ToSet(text) \cap {"[", "\\"} = {}) =>
    LET trees == AltTrees(1, Len(text))
    IN  IF trees = {} THEN outcome = Unparsable ELSE trees = {outcome}

(* A class that is a decimal number names a rune, so one above every rune is *)
(* not accepted: it does not parse or is outside the scanner domain.         *)
LargeNumbersAreRejected ==
  LET digits == SubSeq(text, 2, Len(text) - 1)
      number == FoldLeft(LAMBDA n, c : 10 * n + DigitValue[c], 0, digits)
  IN  ( /\ outcome # Unread /\ text = <<"[">> \o digits \o <<"]">>
        /\ Len(digits) > 1 /\ ToSet(digits) \subseteq AsciiDigits
        /\ number > Max(Scalars) ) =>
      outcome = Unparsable \/ ~(outcome.runes \subseteq ScannerDomain)

=============================================================================
