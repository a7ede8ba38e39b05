----------------------------- MODULE Tokenizer -----------------------------
(***************************************************************************)
(* The generated C scanner over a string, and lf_tokenize, which collects  *)
(* its lexemes in an array that grows by doubling.  One thread; every      *)
(* allocation may fail.  The string ends at its first NUL.                 *)
(***************************************************************************)
EXTENDS ScannerTables

CONSTANTS
  Lexers, Texts,
  Nul,             (* The unit that ends a C string.                       *)
  FirstCapacity    (* Of the array of lexemes: 16 in the code.             *)

VARIABLES
  lexer, input,
  length,          (* strlen of the input, once the scanner is initialised. *)
  pos, position,
  match,           (* Locals of lf_match_at, or NotMatching.               *)
  items, capacity,
  state,           (* idle, running, returned or failed.                   *)
  heap             (* Whether the array is allocated.                      *)

vars == <<lexer, input, length, pos, position, match, items, capacity, state, heap>>
constant == <<lexer, input, length>>

NotMatching == [on |-> FALSE]
Text == SubSeq(input, 1, length)

strlen(units) == CHOOSE n \in 0 .. Len(units) :
                   /\ \A i \in 1 .. n : units[i] # Nul
                   /\ n = Len(units) \/ units[n + 1] = Nul

Init ==
  /\ lexer \in Lexers /\ input \in Texts
  /\ length = strlen(input)
  /\ pos = 0 /\ position = [line |-> 1, column |-> 1] /\ match = NotMatching
  /\ items = <<>> /\ capacity = 0 /\ state = "idle" /\ heap = FALSE

Fail == state' = "failed" /\ heap' = FALSE

(* The array is allocated before the first lexeme. *)
Start ==
  /\ state = "idle"
  /\ \/ Fail /\ capacity' = capacity
     \/ state' = "running" /\ heap' = TRUE /\ capacity' = FirstCapacity
  /\ UNCHANGED <<constant, pos, position, match, items>>

(***************************************************************************)
(* lf_match_at.                                                            *)
(***************************************************************************)
StartMatch ==
  /\ state = "running" /\ ~match.on /\ pos < length
  /\ match' = [on |-> TRUE, stateID |-> 0, at |-> pos, bestRule |-> 0, bestEnd |-> pos]
  /\ UNCHANGED <<constant, pos, position, items, capacity, state, heap>>

Transition == lexer.next[match.stateID]
Decoded    == Decode(Text, match.at)
CanAdvance == match.at < length /\ Decoded.rune \in DOMAIN Transition

Advance ==
  /\ state = "running" /\ match.on /\ CanAdvance
  /\ LET next == Transition[Decoded.rune]
         at   == match.at + Decoded.size
         rule == lexer.accept[next]
     IN  match' = [match EXCEPT !.stateID = next, !.at = at,
                                !.bestRule = IF rule > 0 THEN rule ELSE @,
                                !.bestEnd = IF rule > 0 THEN at ELSE @]
  /\ UNCHANGED <<constant, pos, position, items, capacity, state, heap>>

(***************************************************************************)
(* scanner_next after lf_match_at, and the loop of lf_tokenize.            *)
(***************************************************************************)
Matched == state = "running" /\ match.on /\ ~CanAdvance /\ match.bestRule > 0

Consume ==
  /\ pos' = match.bestEnd
  /\ position' = AdvancePosition(SubSeq(Text, pos + 1, match.bestEnd), position)
  /\ match' = NotMatching

SkipLexeme ==
  /\ Matched /\ ~Visible(lexer, match.bestRule, FALSE)
  /\ Consume
  /\ UNCHANGED <<constant, items, capacity, state, heap>>

(* A full array is grown before the lexeme is stored; if it cannot be, the   *)
(* call fails and the lexeme is dropped with the array.                      *)
AppendLexeme ==
  /\ Matched /\ Visible(lexer, match.bestRule, FALSE)
  /\ Consume
  /\ LET lexeme == [kind |-> "lexeme", rule |-> match.bestRule, start |-> pos,
                    end |-> match.bestEnd, text |-> SubSeq(Text, pos + 1, match.bestEnd),
                    startAt |-> position, endAt |-> position']
     IN  \/ Len(items) = capacity /\ Fail /\ capacity' = capacity * 2 /\ items' = items
         \/ /\ capacity' = IF Len(items) = capacity THEN capacity * 2 ELSE capacity
            /\ items' = Append(items, lexeme)
            /\ UNCHANGED <<state, heap>>
  /\ UNCHANGED constant

ReturnError ==
  /\ state = "running" /\ match.on /\ ~CanAdvance /\ match.bestRule = 0
  /\ match' = NotMatching
  /\ Fail
  /\ UNCHANGED <<constant, pos, position, items, capacity>>

ReturnItems ==
  /\ state = "running" /\ ~match.on /\ pos = length
  /\ state' = "returned"
  /\ UNCHANGED <<constant, pos, position, match, items, capacity, heap>>

(* lf_free_lexemes. *)
FreeLexemes ==
  /\ state = "returned" /\ heap
  /\ heap' = FALSE
  /\ UNCHANGED <<constant, pos, position, match, items, capacity, state>>

Step == \/ Start \/ StartMatch \/ Advance \/ SkipLexeme \/ AppendLexeme
        \/ ReturnError \/ ReturnItems

Next == Step \/ FreeLexemes

(* The only thread runs on. *)
Spec == Init /\ [][Next]_vars /\ WF_vars(Step)

(***************************************************************************)
(* Properties.                                                             *)
(***************************************************************************)
(* The lexemes of the text from an offset on, as far as rules match. *)
Lexemes ==
  LET From[p \in 0 .. length] ==
        IF ~HasMatch(lexer, Text, p) THEN <<>>
        ELSE LET longest == Longest(lexer, Text, p)
             IN  (IF Visible(lexer, longest.rule, FALSE) THEN <<LexemeOf(Text, p, longest)>> ELSE <<>>)
                   \o From[longest.end]
  IN  From[0]

(* The output is made of the lexemes of the text before the first NUL, in    *)
(* order, and of all of them when the call succeeds.                         *)
OutputIsTheStream ==
  /\ IsPrefix(items, Lexemes)
  /\ state = "returned" => items = Lexemes /\ pos = length

(* The array is never written past its capacity, a call that fails leaves    *)
(* nothing allocated, and one that returns leaves the array to its caller.   *)
ArraySound ==
  /\ heap => Len(items) <= capacity
  /\ state \in {"idle", "failed"} => ~heap
  /\ state = "running" => heap

=============================================================================
