--------------------------- MODULE ScannerTables ---------------------------
(***************************************************************************)
(* The tables the generators write for a lexer (scannerStates, ruleActions)*)
(* and what they mean, independently of any scanner loop: the longest      *)
(* prefix of the remaining text that leads from the start state to an      *)
(* accepting one, and the line and column of a byte offset.                *)
(*                                                                         *)
(* Text is a sequence of units (bytes of UTF-8, or UTF-16 code units in    *)
(* C#), and a rune is spelled by one or more of them: a chunk, a lexeme or *)
(* the text itself can end in the middle of a rune, and units can spell no *)
(* rune at all.  State 0 is the start state, rule 0 is "no rule".          *)
(***************************************************************************)
EXTENDS Integers, Sequences, SequencesExt, FiniteSetsExt

CONSTANTS
  Spelling,     (* The units that spell each rune.                         *)
  Newline       (* The rune that starts a line.                            *)

Runes == DOMAIN Spelling
Leads == {Spelling[rune][1] : rune \in Runes}

ASSUME RunesAreSelfDelimiting ==
  /\ "none" \notin Runes
  /\ Newline \in Runes /\ Len(Spelling[Newline]) = 1
  /\ \A rune, other \in Runes :
       rune # other => ~IsPrefix(Spelling[rune], Spelling[other])
  /\ \A rune \in Runes : /\ Spelling[rune] \in Seq(ToSet(Spelling[rune]))
                          /\ Spelling[rune] # <<>>
                          /\ \A i \in 2 .. Len(Spelling[rune]) : Spelling[rune][i] \notin Leads

Rest(units, p) == SubSeq(units, p + 1, Len(units))

(* The units at offset p spell this rune. *)
Fits(rune, units, p) == IsPrefix(Spelling[rune], Rest(units, p))

(***************************************************************************)
(* A lexer: its DFA (accepting rule and transitions of every state) and,   *)
(* for every rule, whether its lexemes are tokens, skipped, or hidden on a *)
(* channel.                                                                *)
(***************************************************************************)
LexerOK(lexer) ==
  /\ DOMAIN lexer.accept = DOMAIN lexer.next
  /\ 0 \in DOMAIN lexer.accept
  /\ lexer.accept[0] = 0
  /\ \A state \in DOMAIN lexer.next :
       /\ DOMAIN lexer.next[state] \subseteq Runes
       /\ \A rune \in DOMAIN lexer.next[state] :
            lexer.next[state][rune] \in DOMAIN lexer.next
       /\ lexer.accept[state] \in {0} \cup DOMAIN lexer.kind
  /\ \A rule \in DOMAIN lexer.kind :
       rule \in Nat \ {0} /\ lexer.kind[rule] \in {"token", "skip", "hidden"}

(***************************************************************************)
(* Decoding at offset p: the rune there, or NoRune where the units spell   *)
(* none.  A rune may be cut off by the end of the units: they are a proper *)
(* part of its spelling, or at least its first unit asks for more than     *)
(* there are.                                                              *)
(***************************************************************************)
NoRune == [rune |-> "none", size |-> 0]

Decode(units, p) ==
  LET here == {rune \in Runes : Fits(rune, units, p)}
  IN  IF here = {} THEN NoRune
      ELSE LET rune == CHOOSE r \in here : TRUE
           IN  [rune |-> rune, size |-> Len(Spelling[rune])]

CutOff(units, p) ==
  \E rune \in Runes : IsStrictPrefix(Rest(units, p), Spelling[rune])

AsksForMore(units, p) ==
  \E rune \in Runes : /\ Spelling[rune][1] = units[p + 1]
                      /\ Len(Spelling[rune]) > Len(units) - p

(* Line and column after units that spell whole runes. *)
Advanced(at, unit) ==
  IF <<unit>> = Spelling[Newline] THEN [line |-> at.line + 1, column |-> 1]
  ELSE [line |-> at.line, column |-> IF unit \in Leads THEN at.column + 1 ELSE at.column]

AdvancePosition(units, from) ==
  LET At[n \in Nat] == IF n = 0 THEN from ELSE Advanced(At[n - 1], units[n])
  IN  At[Len(units)]

(***************************************************************************)
(* The meaning of the tables.                                              *)
(***************************************************************************)
(* The places one transition away: an offset and a state each. *)
Transitions(lexer, text, places) ==
  UNION {{[end |-> place.end + Len(Spelling[rune]), state |-> lexer.next[place.state][rune]] :
            rune \in {r \in DOMAIN lexer.next[place.state] : Fits(r, text, place.end)}} :
         place \in places}

(* The places n transitions away from an offset, for every n. *)
Places(lexer, text, from) ==
  LET Place[n \in Nat] == IF n = 0 THEN {[end |-> from, state |-> 0]}
                          ELSE Transitions(lexer, text, Place[n - 1])
  IN  Place

(* The offsets the tables lead to from an offset, with the rule accepted there. *)
Reached(lexer, text, from) ==
  {[end |-> place.end, rule |-> lexer.accept[place.state]] :
     place \in UNION {Places(lexer, text, from)[n] : n \in 0 .. Len(text)}}

(* The ends, with their rules, of the matches that start at an offset. *)
Matches(lexer, text, from) ==
  {match \in Reached(lexer, text, from) : match.rule > 0}

(* Bytes that start no rune stop the tables at an offset they lead to. *)
MeetsInvalidText(lexer, text, from) ==
  \E match \in Reached(lexer, text, from) :
    match.end < Len(text) /\ Decode(text, match.end) = NoRune

HasMatch(lexer, text, from) == Matches(lexer, text, from) # {}

Longest(lexer, text, from) ==
  LET matches == Matches(lexer, text, from)
  IN  CHOOSE match \in matches : \A other \in matches : other.end <= match.end

Visible(lexer, rule, includeHidden) ==
  \/ lexer.kind[rule] = "token"
  \/ lexer.kind[rule] = "hidden" /\ includeHidden

(* Line and column of an offset: newlines before it, and runes since. *)
LineAt(text, p) == 1 + Cardinality({i \in 1 .. p : <<text[i]>> = Spelling[Newline]})
ColumnAt(text, p) ==
  1 + Cardinality({i \in 1 .. p : /\ text[i] \in Leads
                                  /\ \A j \in i .. p : <<text[j]>> # Spelling[Newline]})
PositionAt(text, p) == [line |-> LineAt(text, p), column |-> ColumnAt(text, p)]

(* The lexeme a match stands for, as a call returns it. *)
LexemeOf(text, from, match) ==
  [kind |-> "lexeme", rule |-> match.rule, start |-> from, end |-> match.end,
   text |-> SubSeq(text, from + 1, match.end),
   startAt |-> PositionAt(text, from), endAt |-> PositionAt(text, match.end)]
EndLexeme(text) == [kind |-> "end", start |-> Len(text), at |-> PositionAt(text, Len(text))]
Rejected(from) == [kind |-> "rejected", at |-> from]

=============================================================================
