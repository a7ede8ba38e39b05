---------------------------- MODULE LexemeStream ----------------------------
(***************************************************************************)
(* What a scanner promises its callers, however its text arrives: the      *)
(* calls that share it are served one at a time, and together they receive *)
(* the lexemes of the text, each once and in order, then the end of the    *)
(* text.  A call that meets text no rule matches fails and leaves the      *)
(* cursor where it is.  Where the text comes from outside, a call may also *)
(* be interrupted by its source; the cursor then stays before the next     *)
(* lexeme, so that a later call can resume.                                *)
(*                                                                         *)
(* Scanner (a string), ReaderScanner, InputStreamScanner,                  *)
(* TextReaderScanner and StreamScanner (chunks) implement this module.     *)
(***************************************************************************)
EXTENDS ScannerTables

CONSTANTS
  Callers,        (* The goroutines or threads that share the scanner.     *)
  NoCaller        (* Holder of the mutex when no call is running.          *)

VARIABLES
  lexer,          (* The tables; never changes.                            *)
  text,           (* The whole source text; never changes.                 *)
  invalidText,    (* What a match that stops at invalid text is worth: it  *)
                  (* is "returned", it is "refused", or either may happen; *)
                  (* never changes.                                        *)
  causes,         (* Why a call can be interrupted: nothing interrupts it  *)
                  (* over a string; never changes.                         *)
  pos,            (* Bytes consumed by the lexemes so far.                 *)
  includeHidden,  (* Whether lexemes on a channel are returned.            *)
  holder,         (* The caller whose call is running.                     *)
  log             (* What the calls returned, in order.                    *)

fixed == <<lexer, text, invalidText, causes>>
vars == <<lexer, text, invalidText, causes, pos, includeHidden, holder, log>>

Interrupted(cause) == [kind |-> "interrupted", cause |-> cause]

Return(result) ==
  /\ log' = Append(log, [caller |-> holder, result |-> result])
  /\ holder' = NoCaller

Enter(c) ==
  /\ holder = NoCaller
  /\ holder' = c
  /\ UNCHANGED <<fixed, pos, includeHidden, log>>

SetIncludeHidden(include) ==
  /\ holder = NoCaller
  /\ includeHidden' = include
  /\ UNCHANGED <<fixed, pos, holder, log>>

(* The next lexeme may be returned; the text may be refused. *)
MayReturn ==
  /\ HasMatch(lexer, text, pos)
  /\ MeetsInvalidText(lexer, text, pos) => invalidText # "refused"

MayRefuse ==
  \/ ~HasMatch(lexer, text, pos)
  \/ MeetsInvalidText(lexer, text, pos) /\ invalidText # "returned"

(* A lexeme no caller sees is consumed within the call. *)
Pass ==
  /\ holder # NoCaller
  /\ MayReturn
  /\ LET match == Longest(lexer, text, pos)
     IN  /\ ~Visible(lexer, match.rule, includeHidden)
         /\ pos' = match.end
  /\ UNCHANGED <<fixed, includeHidden, holder, log>>

Deliver ==
  /\ holder # NoCaller
  /\ MayReturn
  /\ LET match == Longest(lexer, text, pos)
     IN  /\ Visible(lexer, match.rule, includeHidden)
         /\ pos' = match.end
         /\ Return(LexemeOf(text, pos, match))
  /\ UNCHANGED <<fixed, includeHidden>>

End ==
  /\ holder # NoCaller
  /\ pos = Len(text)
  /\ Return(EndLexeme(text))
  /\ UNCHANGED <<fixed, pos, includeHidden>>

Reject ==
  /\ holder # NoCaller
  /\ pos < Len(text)
  /\ MayRefuse
  /\ Return(Rejected(pos))
  /\ UNCHANGED <<fixed, pos, includeHidden>>

Interrupt ==
  /\ holder # NoCaller
  /\ \E cause \in causes : Return(Interrupted(cause))
  /\ UNCHANGED <<fixed, pos, includeHidden>>

Next ==
  \/ \E c \in Callers : Enter(c)
  \/ \E include \in BOOLEAN : SetIncludeHidden(include)
  \/ Pass \/ Deliver \/ End \/ Reject \/ Interrupt

Init ==
  /\ pos = 0
  /\ includeHidden = FALSE
  /\ holder = NoCaller
  /\ log = <<>>

Spec == Init /\ [][Next]_vars

=============================================================================
