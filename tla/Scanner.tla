------------------------------ MODULE Scanner ------------------------------
(***************************************************************************)
(* The generated Go, C++ and C# scanners over a text in memory: Next, All  *)
(* and the switch for lexemes on a channel.  They hold a mutex for one     *)
(* Next call, and All calls Next once for every lexeme: the calls of       *)
(* several threads interleave between lexemes.                             *)
(*                                                                         *)
(* The targets differ in one thing: where a text turns invalid after a     *)
(* complete match, the C# loop fails and the others return the match.      *)
(***************************************************************************)
EXTENDS ScannerTables

CONSTANTS
  Callers, NoCaller,
  Lexers, Texts,
  Targets,        (* The generators to choose from.                        *)
  MaxCalls        (* Bound on the Next calls outside All.                  *)

VARIABLES
  lexer, text, target,
  pos, position, includeHidden,
  mu,             (* The caller inside Next.                               *)
  all,            (* Per caller: how its All call stands, and its output.  *)
  calls,          (* How many Next calls outside All were made.            *)
  log             (* History: what the Next calls returned.                *)

fixed == <<lexer, text, target>>
vars  == <<lexer, text, target, pos, position, includeHidden, mu, all, calls, log>>

Init ==
  /\ lexer \in Lexers /\ text \in Texts /\ target \in Targets
  /\ pos = 0 /\ position = [line |-> 1, column |-> 1]
  /\ includeHidden = FALSE
  /\ mu = NoCaller
  /\ all = [c \in Callers |-> [state |-> "none", out |-> <<>>]]
  /\ calls = 0
  /\ log = <<>>

(***************************************************************************)
(* matchAt: the rule and the end of the longest match, rule 0 for none,    *)
(* and where its loop stopped.  A round of the loop follows one transition, *)
(* or stays where the loop has stopped.                                    *)
(***************************************************************************)
Loop == [p : Nat, stateID : DOMAIN lexer.next, bestRule : Nat, bestEnd : Nat]

Round[at \in Loop] ==
  LET decoded == Decode(text, at.p)
      next    == lexer.next[at.stateID][decoded.rune]
      rule    == lexer.accept[next]
      p       == at.p + decoded.size
  IN  IF decoded.rune \notin DOMAIN lexer.next[at.stateID] THEN at
      ELSE [p |-> p, stateID |-> next,
            bestRule |-> IF rule > 0 THEN rule ELSE at.bestRule,
            bestEnd |-> IF rule > 0 THEN p ELSE at.bestEnd]

MatchAt(from) ==
  LET After[n \in Nat] ==
        IF n = 0 THEN [p |-> from, stateID |-> 0, bestRule |-> lexer.accept[0], bestEnd |-> from]
        ELSE Round[After[n - 1]]
  IN  After[Len(text) - from]

(* The C# loop lets the decoding error out of MatchAt whatever matched before. *)
MatchFails(match) ==
  \/ match.bestRule = 0
  \/ match.bestEnd = pos
  \/ target = "csharp" /\ match.p < Len(text) /\ Decode(text, match.p) = NoRune

(***************************************************************************)
(* One Next call of caller c, and what All does with its result.           *)
(***************************************************************************)
Running(c) == all[c].state = "running"

Lock(c) ==
  /\ mu = NoCaller
  /\ \/ Running(c) /\ calls' = calls
     \/ all[c].state = "none" /\ calls < MaxCalls /\ calls' = calls + 1
  /\ mu' = c
  /\ UNCHANGED <<fixed, pos, position, includeHidden, all, log>>

IncludeHidden(include) ==
  /\ mu = NoCaller
  /\ includeHidden' = include
  /\ UNCHANGED <<fixed, pos, position, mu, all, calls, log>>

(* An All call keeps the lexemes it receives until its text ends or fails. *)
Received(call, result) ==
  CASE result.kind = "lexeme" -> [call EXCEPT !.out = Append(@, result)]
    [] result.kind = "end"    -> [call EXCEPT !.state = "returned"]
    [] OTHER                  -> [state |-> "failed", out |-> <<>>]

Return(result) ==
  /\ log' = Append(log, [caller |-> mu, result |-> result])
  /\ mu' = NoCaller
  /\ all' = IF Running(mu) THEN [all EXCEPT ![mu] = Received(@, result)] ELSE all

Consume(match) ==
  /\ ~MatchFails(match)
  /\ pos' = match.bestEnd
  /\ position' = AdvancePosition(SubSeq(text, pos + 1, match.bestEnd), position)
  /\ UNCHANGED <<fixed, includeHidden, calls>>

SkipLexeme(match) ==
  /\ Consume(match)
  /\ ~Visible(lexer, match.bestRule, includeHidden)
  /\ UNCHANGED <<mu, all, log>>

ReturnLexeme(match) ==
  /\ Consume(match)
  /\ Visible(lexer, match.bestRule, includeHidden)
  /\ Return([kind |-> "lexeme", rule |-> match.bestRule, start |-> pos, end |-> match.bestEnd,
             text |-> SubSeq(text, pos + 1, match.bestEnd),
             startAt |-> position, endAt |-> position'])

ReturnError(match) ==
  /\ MatchFails(match)
  /\ Return(Rejected(pos))
  /\ UNCHANGED <<fixed, pos, position, includeHidden, calls>>

ReturnEOF ==
  /\ mu # NoCaller /\ pos >= Len(text)
  /\ Return([kind |-> "end", start |-> pos, at |-> position])
  /\ UNCHANGED <<fixed, pos, position, includeHidden, calls>>

Step ==
  \/ /\ mu # NoCaller /\ pos < Len(text)
     /\ \E match \in {MatchAt(pos)} :
          SkipLexeme(match) \/ ReturnLexeme(match) \/ ReturnError(match)
  \/ ReturnEOF

(* All: Next until the end of the text or an error. *)
StartAll(c) ==
  /\ mu # c /\ all[c].state = "none"
  /\ all' = [all EXCEPT ![c].state = "running"]
  /\ UNCHANGED <<fixed, pos, position, includeHidden, mu, calls, log>>

Next ==
  \/ \E c \in Callers : Lock(c) \/ StartAll(c)
  \/ \E include \in BOOLEAN : IncludeHidden(include)
  \/ Step

(* Whoever holds the mutex runs on, and a free mutex is taken by some caller *)
(* that waits for it; nothing says which.                                    *)
Spec ==
  /\ Init /\ [][Next]_vars
  /\ WF_vars(Step)
  /\ WF_vars(\E c \in Callers : Running(c) /\ Lock(c))

(***************************************************************************)
(* Properties.                                                             *)
(***************************************************************************)
(* When the All calls alone have consumed the text, what they returned is    *)
(* the whole of its lexemes: the calls split the text, they do not lose or   *)
(* repeat any part of it.                                                    *)
AllsSplitTheText ==
  (calls = 0 /\ pos = Len(text) /\ \A c \in Callers : all[c].state # "failed")
  => \A i \in DOMAIN log : log[i].result.kind = "lexeme" =>
       Cardinality({c \in Callers : \E k \in DOMAIN all[c].out :
                      all[c].out[k] = log[i].result}) = 1

=============================================================================
