---------------------------- MODULE ChunkScanner ----------------------------
(***************************************************************************)
(* The part that the reader-backed scanners of all targets share: one Next *)
(* call at a time, longest-match scanning over the text buffered so far,   *)
(* and the cursor.  The local variables of matchBuffered are variables     *)
(* here, because they live across reads.  How more text is read, and which *)
(* end of the buffer counts as cut off, is left to the modules that extend *)
(* this one: they pass cut.                                                *)
(***************************************************************************)
EXTENDS ScannerTables

CONSTANTS
  Callers, NoCaller,
  Lexers,                  (* The tables to choose from.                   *)
  Texts,                   (* The texts the reader may deliver.            *)
  readBufferSize,          (* Units asked for in one read.                 *)
  maxBufferedLexemeBytes,  (* The limit of the options.                    *)
  MaxCalls                 (* Bound on the Next calls of a behaviour.      *)

ASSUME OptionsArePositive ==
  /\ readBufferSize \in Nat \ {0}
  /\ maxBufferedLexemeBytes \in Nat \ {0}
  /\ Callers # {} /\ NoCaller \notin Callers

ASSUME LexersAreSound == \A tables \in Lexers : LexerOK(tables)

ASSUME TextsAreSequences == \A units \in Texts : units \in Seq(ToSet(units))

VARIABLES
  lexer, text,
  unread,         (* What the reader has not delivered yet.                *)
  buffer, base, position, includeHidden, eof,
  mu,             (* The caller inside Next.                               *)
  match,          (* Locals of matchBuffered, or NotMatching.              *)
  log             (* History: what the Next calls returned.                *)

chunkVars == <<lexer, text, unread, buffer, base, position, includeHidden,
               eof, mu, match, log>>
source == <<lexer, text, unread>>
cursor == <<buffer, base, position, includeHidden>>

NotMatching == [on |-> FALSE]
MatchStart  == [on |-> TRUE, stateID |-> 0, pos |-> 0, bestRule |-> 0, bestEnd |-> 0]
Interrupted(cause) == [kind |-> "interrupted", cause |-> cause]

ChunkInit ==
  /\ lexer \in Lexers /\ text \in Texts /\ unread = text
  /\ buffer = <<>> /\ base = 0 /\ position = [line |-> 1, column |-> 1]
  /\ includeHidden = FALSE /\ eof = FALSE
  /\ mu = NoCaller /\ match = NotMatching /\ log = <<>>

Return(result) ==
  /\ log' = Append(log, [caller |-> mu, result |-> result])
  /\ mu' = NoCaller
  /\ match' = NotMatching

Lock(c) ==
  /\ mu = NoCaller
  /\ Len(log) < MaxCalls
  /\ mu' = c
  /\ UNCHANGED <<source, cursor, eof, match, log>>

IncludeHidden(include) ==
  /\ mu = NoCaller
  /\ Len(log) < MaxCalls
  /\ includeHidden' = include
  /\ UNCHANGED <<source, buffer, base, position, eof, mu, match, log>>

(* Between two lexemes of a call. *)
Idle == mu # NoCaller /\ ~match.on

ReturnEOF ==
  /\ Idle
  /\ buffer = <<>> /\ eof
  /\ Return([kind |-> "end", start |-> base, at |-> position])
  /\ UNCHANGED <<source, cursor, eof>>

StartMatch ==
  /\ Idle
  /\ buffer # <<>>
  /\ match' = MatchStart
  /\ UNCHANGED <<source, cursor, eof, mu, log>>

(***************************************************************************)
(* More text is needed when the buffer is empty, when the match has used   *)
(* it up in a state with transitions, or when it is cut off at the next    *)
(* rune.                                                                   *)
(***************************************************************************)
Transition  == lexer.next[match.stateID]
AtBufferEnd == match.on /\ match.pos >= Len(buffer)
InBuffer    == match.on /\ match.pos < Len(buffer)

\* Mutant: a state without transitions reads on at the end of the buffer.
NeedsMoreAtAnyEnd(cut) ==
  /\ mu # NoCaller /\ ~eof
  /\ \/ Idle /\ buffer = <<>>
     \/ AtBufferEnd
     \/ InBuffer /\ cut

NeedsMore(cut) ==
  /\ mu # NoCaller /\ ~eof
  /\ \/ Idle /\ buffer = <<>>
     \/ AtBufferEnd /\ DOMAIN Transition # {}
     \/ InBuffer /\ cut

(* A read appends n units to the buffer. *)
Receive(n) ==
  /\ n <= Min({readBufferSize, Len(unread)})
  /\ buffer' = buffer \o SubSeq(unread, 1, n)
  /\ unread' = Rest(unread, n)
  /\ UNCHANGED <<lexer, text, base, position, includeHidden>>

OverLimit(n) == n > 0 /\ Len(buffer) + n > maxBufferedLexemeBytes

KeepCalling == UNCHANGED <<mu, match, log>>

(***************************************************************************)
(* matchBuffered on the buffered units, and what Next does with its        *)
(* outcome.                                                                *)
(***************************************************************************)
Decoded == Decode(buffer, match.pos)
CanDecode(cut) == InBuffer /\ (eof \/ ~cut)

\* Mutant: the first accepting state decides.
AdvanceKeepsFirst(cut) ==
  /\ CanDecode(cut)
  /\ Decoded.rune \in DOMAIN Transition
  /\ LET pos  == match.pos + Decoded.size
         next == Transition[Decoded.rune]
         rule == IF match.bestRule > 0 THEN 0 ELSE lexer.accept[next]
     IN  match' = [match EXCEPT !.pos = pos, !.stateID = next,
                                !.bestRule = IF rule > 0 THEN rule ELSE @,
                                !.bestEnd = IF rule > 0 THEN pos ELSE @]
  /\ UNCHANGED <<source, cursor, eof, mu, log>>

Advance(cut) ==
  /\ CanDecode(cut)
  /\ Decoded.rune \in DOMAIN Transition
  /\ LET pos  == match.pos + Decoded.size
         next == Transition[Decoded.rune]
         rule == lexer.accept[next]
     IN  match' = [match EXCEPT !.pos = pos, !.stateID = next,
                                !.bestRule = IF rule > 0 THEN rule ELSE @,
                                !.bestEnd = IF rule > 0 THEN pos ELSE @]
  /\ UNCHANGED <<source, cursor, eof, mu, log>>

Invalid(cut) == CanDecode(cut) /\ Decoded = NoRune

\* Mutant: a state without transitions waits for more text.
DecidedAtEndOnly(cut) ==
  \/ AtBufferEnd /\ eof
  \/ CanDecode(cut) /\ Decoded.rune \notin DOMAIN Transition

Decided(cut) ==
  \/ AtBufferEnd /\ (eof \/ DOMAIN Transition = {})
  \/ CanDecode(cut) /\ Decoded.rune \notin DOMAIN Transition

Matched(cut) == Decided(cut) /\ match.bestRule > 0

Text == SubSeq(buffer, 1, match.bestEnd)

\* Mutant: the cursor moves past the text looked at.
ConsumeLookahead ==
  /\ buffer' = Rest(buffer, match.bestEnd)
  /\ base' = base + match.pos
  /\ position' = AdvancePosition(Text, position)
  /\ UNCHANGED <<source, includeHidden, eof>>

Consume ==
  /\ buffer' = Rest(buffer, match.bestEnd)
  /\ base' = base + match.bestEnd
  /\ position' = AdvancePosition(Text, position)
  /\ UNCHANGED <<source, includeHidden, eof>>

SkipLexeme(cut) ==
  /\ Matched(cut)
  /\ ~Visible(lexer, match.bestRule, includeHidden)
  /\ Consume
  /\ match' = NotMatching
  /\ UNCHANGED <<mu, log>>

ReturnLexeme(cut) ==
  /\ Matched(cut)
  /\ Visible(lexer, match.bestRule, includeHidden)
  /\ Consume
  /\ Return([kind |-> "lexeme", rule |-> match.bestRule,
             start |-> base, end |-> base + match.bestEnd, text |-> Text,
             startAt |-> position, endAt |-> position'])

(* No rule matched, or invalid text where no rule matched yet. *)
ReturnError(cut) ==
  /\ Decided(cut)
  /\ match.bestRule = 0
  /\ Return(Rejected(base))
  /\ UNCHANGED <<source, cursor, eof>>

(***************************************************************************)
(* Properties of every reader-backed scanner.                              *)
(***************************************************************************)
(* Type correctness, with the locals of matchBuffered inside the buffer. *)
TypeOK ==
  /\ base \in 0 .. Len(text)
  /\ Len(buffer) + Len(unread) <= Len(text)
  /\ {eof, includeHidden} \subseteq BOOLEAN
  /\ mu \in Callers \cup {NoCaller}
  /\ match.on => /\ mu # NoCaller
                 /\ match.stateID \in DOMAIN lexer.next
                 /\ match.bestEnd <= match.pos /\ match.pos <= Len(buffer)

(* No unit of the text is lost, duplicated or reordered by chunks, limits    *)
(* and failures: the buffer is the text between the cursor and the reader,   *)
(* and the locals of a running match are those of the buffered text alone.   *)
BytesAccounted ==
  /\ base + Len(buffer) <= Len(text)
  /\ buffer = SubSeq(text, base + 1, base + Len(buffer))
  /\ base + Len(buffer) + Len(unread) = Len(text)
  /\ match.on /\ match.bestRule > 0
     => [end |-> match.bestEnd, rule |-> match.bestRule] \in Matches(lexer, buffer, 0)

Reported(cause) ==
  Cardinality({i \in DOMAIN log : log[i].result = Interrupted(cause)})

=============================================================================
