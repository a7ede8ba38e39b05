------------------------------- MODULE Lexer -------------------------------
(***************************************************************************)
(* The lexer compiler beside the parser of lexical expressions and the     *)
(* algebra of rune ranges it is built on.  A behaviour compiles a          *)
(* specification, whose expressions are parsed and whose sets are sets, or *)
(* splits the domain by the labels of one state, as ranges, or parses the  *)
(* text of one expression.                                                 *)
(***************************************************************************)
EXTENDS LexerCompiler, RegexParser

CONSTANTS MaxRune, Labels, domain, MaxLabels      (* Of RangeSets. *)

VARIABLES sets, parts

Ranges == INSTANCE RangeSets

(* The parser on another text. *)
Of(t) == INSTANCE RegexParser WITH text <- t

(* The phases in which nothing is compiled. *)
Splitting == phase = "ranges"
Reading   == phase = "text"

NoLexer  == lexer = [definitions |-> <<>>, rules |-> <<>>] /\ dfa = NoDFA /\ diagnostics = <<>>
NoRanges == sets = <<>> /\ parts = <<>>
NoText   == text = <<>> /\ outcome = Unread

LexerInit ==
  \/ Init /\ NoRanges /\ NoText
  \/ Splitting /\ Ranges!Init /\ NoLexer /\ NoText
  \/ Reading /\ TextInit /\ NoLexer /\ NoRanges

LexerNext ==
  \/ Next /\ UNCHANGED <<sets, parts, textVars>>
  \/ Splitting /\ Ranges!Next /\ UNCHANGED <<vars, textVars>>
  \/ Reading /\ ParseRegex /\ UNCHANGED <<vars, sets, parts>>

LexerSpec == LexerInit /\ [][LexerNext]_<<vars, sets, parts, textVars>>

(* What the compiler takes for granted of its sets: the operations on ranges *)
(* are those of sets, a set has one normal form, by which sets are compared, *)
(* and the classes the domain is split into are disjoint, cover it, and are  *)
(* as large as the labels allow.                                             *)
RangesAreSets ==
  Splitting => Ranges!OperationsAreExact /\ Ranges!NormalForms /\ Ranges!PartitionIsCoarsest

-----------------------------------------------------------------------------
(* Where blanks in a lexical expression mean nothing. *)

(* What the first k characters open: nothing, a quoted literal, or a class. *)
Open[k \in 0 .. Len(text)] ==
  IF k = 0 THEN "nothing"
  ELSE CASE Open[k - 1] = "nothing" /\ text[k] = "["      -> "class"
         [] Open[k - 1] = "nothing" /\ text[k] \in Quotes -> text[k]
         [] Open[k - 1] = "class" /\ text[k] = "]"        -> "nothing"
         [] Open[k - 1] \in Quotes /\ text[k] = Open[k - 1] -> "nothing"
         [] OTHER -> Open[k - 1]

Word == Letters \cup Digits

(* A blank after the first k characters splits nothing that belongs        *)
(* together: no name, no number, no literal, no negation of a class.       *)
Splits(k) ==
  \/ Open[k] \in Quotes
  \/ Open[k] = "nothing" /\ k \in 1 .. Len(text) - 1 /\ text[k] \in Word /\ text[k + 1] \in Word
  \/ /\ Open[k] = "class" /\ k < Len(text)
     /\ \/ text[k] \in Digits /\ text[k + 1] \in Digits
        \/ text[k] = "[" /\ text[k + 1] = "^"

(* Blanks change nothing: the expression of a text without escapes is the    *)
(* same when a blank is put anywhere but inside a name, a number, a quoted   *)
(* literal or the opening of a negated class.                                *)
BlanksAreFree ==
  (outcome # Unread /\ "\\" \notin ToSet(text)) =>
    \A k \in 0 .. Len(text) :
      ~Splits(k) => Of(SubSeq(text, 1, k) \o <<" ">> \o SubSeq(text, k + 1, Len(text)))!Parsed = outcome

=============================================================================
