------------------------------ MODULE LRParser ------------------------------
(***************************************************************************)
(* The table-driven parser that lang-forge writes into every generated Go  *)
(* package (renderParser in codegen/golang/generate.go), and with it the   *)
(* grammar-directed error recovery that the four targets share.            *)
(*                                                                         *)
(* One behaviour is one call of ParseRecoveringFromLexemeSource: lexemes   *)
(* are pulled one at a time from a source the parser does not control, an  *)
(* LR stack is driven by the generated tables, and reductions are handed   *)
(* to a reducer the parser does not control either.  The strict calls      *)
(* (Parse, ParseValue) are this call followed by StrictlySucceeds.         *)
(*                                                                         *)
(* A semantic value is abstracted to the grammar symbol it stands for and  *)
(* the span of lexemes it was built from; lexeme number n of the source    *)
(* occupies the span n-1 .. n.                                             *)
(***************************************************************************)
EXTENDS TableSoundness

CONSTANTS
  Tables,     \* [package name -> the tables generated into that package]
  MaxLexemes  \* [package name -> Nat]: the lexemes its source may still hold

Unknown == "ERROR"  \* terminalName of a lexeme whose token the grammar lacks

SyncShifts == 3     \* real shifts for which further diagnostics are suppressed

InternalErrors == {"shift past end", "stack underflow", "missing goto"}
SourceErrors   == {"source error", "token after EOF"}
Errors         == InternalErrors \cup SourceErrors \cup {"refused", "reducer error"}
Finished       == Errors \cup {"accepted", "aborted"}

VARIABLES
  lang,         \* the generated package whose Parser is running
  status,       \* "new", "running", or how the call returned
  states,       \* LR state stack; states[1] is state 0
  values,       \* semantic values; values[i] was pushed with states[i+1]
  recovering,   \* real shifts left before diagnostics are reported again
  active,       \* index of the diagnostic being recovered from, 0 for none
  diagnostics,  \* result.Diagnostics
  ready,        \* cursor.ready: a lookahead is buffered
  symbol,       \* cursor.symbol, meaningful while ready
  sawEOF,       \* cursor.sawEOF
  pulled,       \* history: terminals of the lexemes the source delivered
  shifted       \* history: how many of them were shifted

cursor == <<ready, symbol, sawEOF, pulled>>
stack  == <<states, values>>
report == <<recovering, active, diagnostics>>
vars   == <<lang, status, stack, report, cursor, shifted>>

-----------------------------------------------------------------------------
(* The tables of the running package, and what the stacks expose. *)

Table   == Tables[lang]
Rule(r) == Table.rules[r]

Top(seq)       == seq[Len(seq)]
Drop(seq, n)   == SubSeq(seq, 1, Len(seq) - n)
TopState       == Top(states)
HasAction(s, t) == t \in DOMAIN Table.actions[s]
Action         == Table.actions[TopState][symbol]

\* Lexemes that left the cursor: shifted ones and discarded ones.
Consumed == Len(pulled) - (IF ready /\ symbol # EOF THEN 1 ELSE 0)

\* What the stack holds for a lexeme, for the synthetic error lexeme (zero
\* width, at the lookahead) and for a reduction over the values in handle.  The
\* spans are history: they say which lexemes a value was built from, as the tree
\* of the default reduction would.  A Reduction carries no position; that of an
\* empty one is where the parser stands, so that the spans on the stack line up.
LexemeValue == [sym |-> symbol, from |-> Consumed, to |-> Consumed + 1]
ErrorValue  == [sym |-> Error,  from |-> Consumed, to |-> Consumed]
Reduced(lhs, handle) ==
  [sym  |-> lhs,
   from |-> IF handle = <<>> THEN Consumed ELSE handle[1].from,
   to   |-> IF handle = <<>> THEN Consumed ELSE Top(handle).to]

-----------------------------------------------------------------------------
(* Before the loop: the reducer's coverage and the source are validated.   *)

Init ==
  /\ lang \in DOMAIN Tables
  /\ status = "new"
  /\ states = <<0>> /\ values = <<>>
  /\ recovering = 0 /\ active = 0 /\ diagnostics = <<>>
  /\ ready = FALSE /\ symbol = EOF /\ sawEOF = FALSE /\ pulled = <<>>
  /\ shifted = 0

Begin ==
  /\ status = "new"
  /\ status' \in {"running", "refused"}
  /\ UNCHANGED <<lang, stack, report, cursor, shifted>>

-----------------------------------------------------------------------------
(* peekSymbol: the cursor asks the source for a lookahead. *)

Peeking == status = "running" /\ ~ready

\* source.Next returns a visible lexeme.
PeekLexeme ==
  /\ Peeking /\ ~sawEOF
  /\ Len(pulled) < MaxLexemes[lang]
  /\ \E t \in Table.terminals \cup {Unknown} :
       symbol' = t /\ pulled' = Append(pulled, t)
  /\ ready' = TRUE
  /\ UNCHANGED <<lang, status, stack, report, sawEOF, shifted>>

\* The source ends, by ok = false or by one explicit EOF lexeme that nothing
\* follows, or it has ended before and "$" is synthesised again.
PeekEnd ==
  /\ Peeking
  /\ ready' = TRUE /\ symbol' = EOF /\ sawEOF' = TRUE
  /\ UNCHANGED <<lang, status, stack, report, pulled, shifted>>

\* source.Next fails, or delivers a lexeme after an explicit EOF lexeme.
PeekFails ==
  /\ Peeking /\ ~sawEOF
  /\ status' \in SourceErrors
  /\ UNCHANGED <<lang, stack, report, cursor, shifted>>

-----------------------------------------------------------------------------
(* One iteration of the loop, for each kind of table entry. *)

Deciding       == status = "running" /\ ready
MissingAction  == Deciding /\ ~HasAction(TopState, symbol)
ActionIs(kind) == Deciding /\ HasAction(TopState, symbol) /\ Action.kind = kind

Fail(why) ==
  /\ status' = why
  /\ UNCHANGED <<stack, report, ready, shifted>>

\* Mutants: the counter is not guarded at zero; the settled diagnostic stays
\* the active one.
CountShiftUnguarded ==
  /\ recovering' = recovering - 1
  /\ UNCHANGED <<diagnostics, active>>
CountShiftStaysActive ==
  /\ recovering' = IF recovering > 0 THEN recovering - 1 ELSE 0
  /\ diagnostics' = IF recovering = 1 /\ active > 0
                      THEN [diagnostics EXCEPT ![active].kind = "recovered"]
                      ELSE diagnostics
  /\ UNCHANGED active

\* The bookkeeping of a real shift: the last of the SyncShifts shifts after a
\* syntax error settles its diagnostic.
CountShift ==
  /\ recovering' = IF recovering > 0 THEN recovering - 1 ELSE 0
  /\ IF recovering = 1 /\ active > 0
       THEN /\ diagnostics' = [diagnostics EXCEPT ![active].kind = "recovered"]
            /\ active' = 0
       ELSE UNCHANGED <<diagnostics, active>>

Shift ==
  /\ ActionIs("shift")
  /\ IF symbol = EOF
       THEN Fail("shift past end")
       ELSE /\ states' = Append(states, Action.state)
            /\ values' = Append(values, LexemeValue)
            /\ ready' = FALSE
            /\ shifted' = shifted + 1
            /\ CountShift
            /\ UNCHANGED status
  /\ UNCHANGED <<lang, symbol, sawEOF, pulled>>

HandleSize == Len(Rule(Action.rule).rhs)
Handle     == SubSeq(values, Len(values) - HandleSize + 1, Len(values))
HandleFits == Len(states) > HandleSize /\ Len(values) >= HandleSize

\* Mutant: the values of the handle stay under the value built from them.
ReduceKeepsValues ==
  /\ ActionIs("reduce") /\ HandleFits
  /\ LET lhs  == Rule(Action.rule).lhs
         kept == Drop(states, HandleSize)
     IN  /\ lhs \in DOMAIN Table.gotos[Top(kept)]
         /\ states' = Append(kept, Table.gotos[Top(kept)][lhs])
         /\ values' = Append(values, Reduced(lhs, Handle))
  /\ UNCHANGED <<lang, status, report, cursor, shifted>>

Reduce ==
  /\ ActionIs("reduce")
  /\ IF HandleFits
       THEN LET lhs  == Rule(Action.rule).lhs
                kept == Drop(states, HandleSize)
            IN  IF lhs \in DOMAIN Table.gotos[Top(kept)]
                  THEN /\ states' = Append(kept, Table.gotos[Top(kept)][lhs])
                       /\ values' = Append(Drop(values, HandleSize), Reduced(lhs, Handle))
                       /\ UNCHANGED <<status, report, ready, shifted>>
                  ELSE /\ status' = "missing goto"
                       /\ states' = kept
                       /\ values' = Drop(values, HandleSize)
                       /\ UNCHANGED <<report, ready, shifted>>
       ELSE Fail("stack underflow")
  /\ UNCHANGED <<lang, symbol, sawEOF, pulled>>

\* The installed reducer rejects the values: they are gone from the value
\* stack, the states are not.
ReducerFails ==
  /\ ActionIs("reduce") /\ HandleFits
  /\ Rule(Action.rule).hook
  /\ status' = "reducer error"
  /\ values' = Drop(values, HandleSize)
  /\ UNCHANGED <<lang, states, report, cursor, shifted>>

Accept ==
  /\ ActionIs("accept")
  /\ status' = "accepted"
  /\ diagnostics' = IF active > 0
                      THEN [diagnostics EXCEPT ![active].kind = "recovered"]
                      ELSE diagnostics
  /\ UNCHANGED <<lang, stack, recovering, active, cursor, shifted>>

-----------------------------------------------------------------------------
(* No table entry: a new syntax error, or one more lexeme to skip. *)

CanShiftError(s) ==
  HasAction(s, Error) /\ Table.actions[s][Error].kind = "shift"

\* Stack heights at which the search for a state that shifts `error' may stop;
\* the search pops from the top, so it stops at the greatest.
RecoveryHeights == {h \in 1..Len(states) : CanShiftError(states[h])}
StopsAt(h)      == h \in RecoveryHeights /\ \A k \in RecoveryHeights : k <= h

Diagnosis(kind) ==
  [state |-> TopState, unexpected |-> symbol, start |-> Consumed,
   kind |-> kind, discarded |-> 0, shifts |-> shifted]

\* Mutants: only the states are popped; only the values are popped; the active
\* index is off by one.
ShiftErrorWith(keptStates(_), keptValues(_), index) ==
  /\ MissingAction /\ recovering = 0
  /\ \E h \in 1..Len(states) :
       /\ StopsAt(h)
       /\ states' = Append(keptStates(h), Table.actions[states[h]][Error].state)
       /\ values' = Append(keptValues(h), ErrorValue)
  /\ recovering' = SyncShifts
  /\ diagnostics' = Append(diagnostics, Diagnosis("shift-error"))
  /\ active' = index
  /\ UNCHANGED <<lang, status, cursor, shifted>>
PoppedStates(h)  == SubSeq(states, 1, h)
PoppedValues(h)  == SubSeq(values, 1, h - 1)
ShiftErrorKeepsValues ==
  LET kept(h) == values IN ShiftErrorWith(PoppedStates, kept, Len(diagnostics) + 1)
ShiftErrorKeepsStates ==
  LET kept(h) == states IN ShiftErrorWith(kept, PoppedValues, Len(diagnostics) + 1)
ShiftErrorWrongIndex ==
  ShiftErrorWith(PoppedStates, PoppedValues, Len(diagnostics))

\* A new syntax error: pop to the nearest state that shifts `error', shift it
\* there, keep the lookahead.
ShiftError ==
  /\ MissingAction /\ recovering = 0
  /\ \E h \in 1..Len(states) :
       /\ StopsAt(h)
       /\ states' = Append(SubSeq(states, 1, h), Table.actions[states[h]][Error].state)
       /\ values' = Append(SubSeq(values, 1, h - 1), ErrorValue)
  /\ recovering' = SyncShifts
  /\ diagnostics' = Append(diagnostics, Diagnosis("shift-error"))
  /\ active' = Len(diagnostics) + 1
  /\ UNCHANGED <<lang, status, cursor, shifted>>

\* Mutant: the abort is not reported.
AbortUnreported ==
  /\ MissingAction /\ recovering = 0
  /\ RecoveryHeights = {}
  /\ status' = "aborted"
  /\ states' = <<states[1]>> /\ values' = <<>>
  /\ UNCHANGED <<lang, report, cursor, shifted>>

\* A new syntax error and no state on the stack shifts `error'.
Abort ==
  /\ MissingAction /\ recovering = 0
  /\ RecoveryHeights = {}
  /\ status' = "aborted"
  /\ states' = <<states[1]>> /\ values' = <<>>
  /\ diagnostics' = Append(diagnostics, Diagnosis("abort"))
  /\ active' = Len(diagnostics) + 1
  /\ UNCHANGED <<lang, recovering, cursor, shifted>>

\* Mutants: discarded lexemes are not counted; a lexeme is discarded although no
\* error is being recovered from.
DiscardUncounted ==
  /\ MissingAction /\ recovering > 0 /\ symbol # EOF
  /\ ready' = FALSE
  /\ UNCHANGED <<lang, status, stack, report, symbol, sawEOF, pulled, shifted>>
DiscardSilently ==
  /\ MissingAction /\ symbol # EOF
  /\ ready' = FALSE
  /\ diagnostics' = IF active > 0
                      THEN [diagnostics EXCEPT ![active].discarded = @ + 1]
                      ELSE diagnostics
  /\ UNCHANGED <<lang, status, stack, recovering, active, symbol, sawEOF, pulled, shifted>>

\* Still recovering: the lookahead fits nothing and is thrown away.
Discard ==
  /\ MissingAction /\ recovering > 0 /\ symbol # EOF
  /\ ready' = FALSE
  /\ diagnostics' = IF active > 0
                      THEN [diagnostics EXCEPT ![active].discarded = @ + 1]
                      ELSE diagnostics
  /\ UNCHANGED <<lang, status, stack, recovering, active, symbol, sawEOF, pulled, shifted>>

\* Mutant: the loop goes on at the end of the input.
AbortAtEndContinues ==
  /\ MissingAction /\ recovering > 0 /\ symbol = EOF
  /\ diagnostics' = [diagnostics EXCEPT ![active].kind = "abort"]
  /\ UNCHANGED <<lang, status, stack, recovering, active, cursor, shifted>>

AbortAtEnd ==
  /\ MissingAction /\ recovering > 0 /\ symbol = EOF
  /\ status' = "aborted"
  /\ diagnostics' = IF active > 0
                      THEN [diagnostics EXCEPT ![active].kind = "abort"]
                      ELSE diagnostics
  /\ UNCHANGED <<lang, stack, recovering, active, cursor, shifted>>

-----------------------------------------------------------------------------

Peek    == PeekLexeme \/ PeekEnd \/ PeekFails
Act     == Shift \/ Reduce \/ ReducerFails \/ Accept
Recover == ShiftError \/ Abort \/ Discard \/ AbortAtEnd

Next == Begin \/ Peek \/ Act \/ Recover

Spec     == Init /\ [][Next]_vars
FairSpec == Spec /\ WF_vars(Next)

\* What ParseValueFromLexemeSource reports as success (a nil error).
StrictlySucceeds == status \in Finished \ Errors /\ diagnostics = <<>>

-----------------------------------------------------------------------------

\* What every table builder guarantees (GrammarTables checks it of each).
ASSUME TablesAreSound ==
  \A l \in DOMAIN Tables : SoundTables(Tables[l]) /\ MaxLexemes[l] \in Nat

-----------------------------------------------------------------------------
(* Type and safety. *)

Lookaheads == Table.terminals \cup {Unknown, EOF}
Symbols    == Lookaheads \cup {Error} \cup {Rule(r).lhs : r \in DOMAIN Table.rules}

Values == [sym : Symbols, from : Nat, to : Nat]
Diagnostics ==
  [state : Nat, unexpected : Lookaheads, start : Nat, discarded : Nat, shifts : Nat,
   kind : {"shift-error", "recovered", "abort"}]

\* The variables hold values of the types the Go code declares for them, and
\* the symbols, states and indices among them exist in the running package.
TypeOK ==
  /\ lang \in DOMAIN Tables
  /\ status \in {"new", "running"} \cup Finished
  /\ states \in Seq(Table.states) /\ states # <<>>
  /\ values \in Seq(Values)
  /\ recovering \in 0..SyncShifts
  /\ diagnostics \in Seq(Diagnostics) /\ active \in 0..Len(diagnostics)
  /\ ready \in BOOLEAN /\ sawEOF \in BOOLEAN
  /\ symbol \in Lookaheads /\ pulled \in Seq(Lookaheads)
  /\ shifted \in Nat

\* The state stack is a path of the automaton from state 0 and the value stack,
\* one shorter, spells it: however far an item of a stacked state has its dot,
\* the values below are that much of its right-hand side.  It holds through
\* every pop of the error search and every synthetic `error' push; a failed
\* reduction is the one exit that has popped values but not states.
StackSound ==
  /\ states[1] = 0
  /\ status # "reducer error" =>
       /\ Len(states) = Len(values) + 1
       /\ \A i \in 1..Len(states) : \A item \in Table.items[states[i]] :
            /\ item[2] < i
            /\ \A k \in 1..item[2] :
                 /\ values[i - k].sym = RhsOf(Table, item)[item[2] - k + 1]
                 /\ <<item[1], item[2] - k>> \in Table.items[states[i - k]]

\* Whenever a reduction is due, the values handed to the reducer are exactly the
\* symbols of the rule's right-hand side, in order: the generated typed contexts
\* convert values[i] by the position in the rule without any check of their own.
ReducerSeesRHS ==
  ActionIs("reduce") => /\ HandleFits
                        /\ \A i \in 1..HandleSize : Handle[i].sym = Rule(Action.rule).rhs[i]

\* The parser's own error returns (stack underflow, missing goto, shift past
\* the end) are dead code for generated tables, recovery included.
NoInternalFailure == status \notin InternalErrors

\* Lexemes are neither lost nor counted twice: those that left the cursor are
\* the shifted ones and the ones some diagnostic reports as Discarded.  Stated
\* per diagnostic: from its position on, and up to the next one's.
LexemesAccounted ==
  /\ diagnostics = <<>> => Consumed = shifted
  /\ diagnostics # <<>> =>
       LET d == Top(diagnostics)
       IN  /\ Consumed = d.start + d.discarded + (shifted - d.shifts)
           /\ diagnostics[1].start = diagnostics[1].shifts
  /\ \A i \in 1..(Len(diagnostics) - 1) :
       LET d == diagnostics[i]  e == diagnostics[i + 1]
       IN  e.start = d.start + d.discarded + (e.shifts - d.shifts)

\* No cascades: while a syntax error is being recovered from it is the last
\* diagnostic and is unsettled, the counter says how many of the three real
\* shifts are still due, and two diagnostics are at least three shifts apart.
RecoveryWindow ==
  /\ recovering > 0 => /\ active = Len(diagnostics) /\ active > 0
                       /\ shifted = diagnostics[active].shifts + (SyncShifts - recovering)
  /\ status = "running" =>
       /\ active > 0 <=> recovering > 0
       /\ \A i \in 1..Len(diagnostics) :
            diagnostics[i].kind = IF i = active THEN "shift-error" ELSE "recovered"
       /\ recovering = 0 /\ diagnostics # <<>> => shifted >= Top(diagnostics).shifts + SyncShifts
  /\ \A i \in 1..(Len(diagnostics) - 1) :
       diagnostics[i + 1].shifts >= diagnostics[i].shifts + SyncShifts

\* The lexemes that the values on the stack were built from cover the input from
\* left to right without overlap, and without a gap while no syntax error was
\* met: pops and pushes of reductions, of the error search and of `error' leave
\* no lexeme in two values, and only recovery leaves one in none.
ValuesInOrder ==
  LET ends == <<0>> \o [i \in 1..Len(values) |-> values[i].to]
  IN  /\ \A i \in 1..Len(values) : ends[i] <= values[i].from /\ values[i].from <= values[i].to
      /\ Top(ends) <= Consumed
      /\ diagnostics = <<>> /\ status # "reducer error" =>
           /\ \A i \in 1..Len(values) : ends[i] = values[i].from
           /\ Top(ends) = Consumed

\* A strict call succeeds only on acceptance, and then its value is one start
\* symbol built from every lexeme of the source: no exit leaves diagnostics
\* empty without having parsed everything.
StrictSuccessIsWholeInput ==
  StrictlySucceeds =>
    /\ status = "accepted" /\ sawEOF
    /\ values = <<[sym |-> Rule(0).rhs[1], from |-> 0, to |-> Len(pulled)]>>

\* Diagnostics are only appended; of those already there only the one being
\* recovered from may change, it keeps its position, and once settled as
\* recovered or aborted it never changes again.
Settles ==
  /\ Len(diagnostics) <= Len(diagnostics')
  /\ \A i \in 1..Len(diagnostics) :
       LET d == diagnostics[i]  e == diagnostics'[i]
       IN  d # e => /\ i = Len(diagnostics) /\ d.kind = "shift-error"
                    /\ e.start = d.start /\ e.discarded >= d.discarded

DiagnosticsSettle == [][Settles]_vars

\* Every call returns, whatever the input: recovery cannot loop.
Terminates == <>(status \in Finished)

=============================================================================
