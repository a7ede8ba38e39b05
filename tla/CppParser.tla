----------------------------- MODULE CppParser -----------------------------
(***************************************************************************)
(* The generated C++ parser (parserRuntime and renderParserImplementation  *)
(* in codegen/cpp/generate.go), in smaller steps than module LRParser,     *)
(* which it implements: the search for a state that shifts `error' pops    *)
(* one state per step, a reduction pops its handle before the reducer is   *)
(* called and pushes after it has returned, and every failure is an        *)
(* exception that loses the result.                                        *)
(*                                                                         *)
(* A ReducerMap is checked once, when a Parser is made from it; the caller *)
(* keeps a reference to its handlers.  Semantic actions are identified     *)
(* with the rules that have one.                                           *)
(***************************************************************************)
EXTENDS TableSoundness

CONSTANTS
  Tables,     \* [package name -> the tables generated into that package]
  MaxLexemes  \* [package name -> Nat]: the lexemes its source may still hold

Unknown    == "ERROR"  \* token_name of a lexeme whose token the grammar lacks
NoAction   == 0        \* a handler for an action that no rule has
NoValue    == [sym |-> "", from |-> 0, to |-> 0]               \* Value{}
NoResult   == [returned |-> FALSE, value |-> NoValue, accepted |-> FALSE]
NoStacks   == [states |-> <<>>, values |-> <<>>]

Returned       == {"accepted", "aborted"}
ReducerErrors  == {"reducer error", "unregistered"}
InternalErrors == {"invalid rule", "stack underflow", "missing goto", "shift past end"}
SourceErrors   == {"source error", "token after EOF"}
Exceptions     == ReducerErrors \cup InternalErrors \cup SourceErrors \cup {"refused"}

VARIABLES
  lang,         \* the generated package
  reducer,      \* what the caller passes: its kind and, of a map, the handlers
  installed,    \* what the Parser has made of it
  pc,           \* where the call is, or how it ended
  states, values, recovering, active_diagnostic, diagnostics, result,
  buffered, ready, saw_eof, last_end,   \* the cursor's lookahead_, ready_, saw_eof_, last_
  rule,         \* the reduction under way
  pulled,       \* history: terminals of the lexemes the source delivered
  shifted,      \* history: how many of them were shifted
  saved         \* history: the stacks before the step of LRParser under way

stacks == <<states, values>>
report == <<recovering, active_diagnostic, diagnostics>>
cursor == <<buffered, ready, saw_eof, last_end, pulled>>
setup  == <<lang, reducer, installed>>
vars   == <<setup, pc, stacks, report, result, cursor, rule, shifted, saved>>

Table           == Tables[lang]
Rule(r)         == Table.rules[r]
Back(seq)       == seq[Len(seq)]
Drop(seq, n)    == SubSeq(seq, 1, Len(seq) - n)
HasAction(s, t) == t \in DOMAIN Table.actions[s]
Action          == Table.actions[Back(states)][buffered.sym]
current_value   == IF values = <<>> THEN NoValue ELSE Back(values)

-----------------------------------------------------------------------------
(* Making a Parser. *)

Required == {r \in DOMAIN Table.rules : Rule(r).hook}

\* validate_coverage; without actions in the grammar nothing is checked.
Covers(handlers) == Required # {} => handlers = Required

Init ==
  /\ lang \in DOMAIN Tables
  /\ reducer \in [kind : {"none", "function"}, handlers : {{}}]
                   \cup [kind : {"map"}, handlers : SUBSET (Required \cup {NoAction})]
  /\ installed = [kind |-> "none", handlers |-> {}]
  /\ pc = "declared"
  /\ states = <<0>> /\ values = <<>> /\ result = NoResult
  /\ recovering = 0 /\ active_diagnostic = -1 /\ diagnostics = <<>>
  /\ buffered = [sym |-> EOF, from |-> 0, to |-> 0] /\ last_end = 0
  /\ ready = FALSE /\ saw_eof = FALSE
  /\ rule = 0 /\ pulled = <<>> /\ shifted = 0 /\ saved = NoStacks

\* Parser::Parser copies what it is given, and throws for a map with gaps.
Construct ==
  /\ pc = "declared"
  /\ installed' = reducer
  /\ pc' = IF reducer.kind = "map" /\ ~Covers(reducer.handlers) THEN "refused" ELSE "constructed"
  /\ UNCHANGED <<lang, reducer, stacks, report, result, cursor, rule, shifted, saved>>

\* Through ReducerMap::handlers() the caller removes a handler, before the call
\* or from within a source or a handler that the parser calls.
CallerRemovesHandler ==
  /\ pc \in {"constructed", "loop", "reducing"}
  /\ \E r \in reducer.handlers : reducer' = [reducer EXCEPT !.handlers = @ \ {r}]
  /\ UNCHANGED <<lang, installed, pc, stacks, report, result, cursor, rule, shifted, saved>>

Call ==
  /\ pc = "constructed"
  /\ pc' = "loop"
  /\ UNCHANGED <<setup, stacks, report, result, cursor, rule, shifted, saved>>

-----------------------------------------------------------------------------
(* LexemeSourceCursor. *)

eof_lexeme == [sym |-> EOF, from |-> last_end, to |-> last_end]

\* Mutant: an explicit EOF lexeme without a position stays at the origin.
eof_at_origin(at) == [sym |-> EOF, from |-> at, to |-> at]

\* An explicit EOF lexeme without a position gets that of the end of input.
normalize_eof(at) == IF at = 0 THEN eof_lexeme ELSE [sym |-> EOF, from |-> at, to |-> at]

Peeking == pc = "loop" /\ ~ready

PeekLexeme ==
  /\ Peeking /\ ~saw_eof
  /\ Len(pulled) < MaxLexemes[lang]
  /\ \E t \in Table.terminals \cup {Unknown} :
       /\ buffered' = [sym |-> t, from |-> Len(pulled), to |-> Len(pulled) + 1]
       /\ pulled' = Append(pulled, t)
  /\ last_end' = Len(pulled) + 1
  /\ ready' = TRUE
  /\ UNCHANGED <<setup, pc, stacks, report, result, saw_eof, rule, shifted, saved>>

\* The source has ended, now or before.
PeekEnd ==
  /\ Peeking
  /\ buffered' = eof_lexeme
  /\ ready' = TRUE /\ saw_eof' = TRUE
  /\ UNCHANGED <<setup, pc, stacks, report, result, last_end, pulled, rule, shifted, saved>>

\* An explicit EOF lexeme, with or without a position, that nothing follows.
PeekExplicitEnd ==
  /\ Peeking /\ ~saw_eof
  /\ \E at \in {0, Len(pulled)} : buffered' = normalize_eof(at)
  /\ ready' = TRUE /\ saw_eof' = TRUE
  /\ UNCHANGED <<setup, pc, stacks, report, result, last_end, pulled, rule, shifted, saved>>

PeekThrows ==
  /\ Peeking /\ ~saw_eof
  /\ pc' \in SourceErrors
  /\ UNCHANGED <<setup, stacks, report, result, cursor, rule, shifted, saved>>

-----------------------------------------------------------------------------
(* A table entry: Parser::parse_recovering, the second half of its loop. *)

Deciding       == pc = "loop" /\ ready
MissingAction  == Deciding /\ ~HasAction(Back(states), buffered.sym)
ActionIs(kind) == Deciding /\ HasAction(Back(states), buffered.sym) /\ Action.kind = kind

Throw(what) ==
  /\ pc' = what
  /\ UNCHANGED <<result, ready, shifted, saved>>

\* The real shifts still due after a syntax error.
CountShift ==
  /\ recovering' = IF recovering > 0 THEN recovering - 1 ELSE 0
  /\ IF recovering = 1 /\ active_diagnostic >= 0
       THEN /\ diagnostics' = [diagnostics EXCEPT ![active_diagnostic + 1].kind = "recovered"]
            /\ active_diagnostic' = -1
       ELSE UNCHANGED <<diagnostics, active_diagnostic>>

\* The state is pushed before advance() is asked for the lexeme.
Shift ==
  /\ ActionIs("shift")
  /\ states' = Append(states, Action.state)
  /\ IF buffered.sym = EOF
       THEN Throw("shift past end") /\ UNCHANGED <<values, report>>
       ELSE /\ values' = Append(values, buffered)
            /\ ready' = FALSE
            /\ shifted' = shifted + 1
            /\ CountShift
            /\ UNCHANGED <<pc, result, saved>>
  /\ UNCHANGED <<setup, buffered, saw_eof, last_end, pulled, rule>>

HandleSize == Len(Rule(Action.rule).rhs)
HandleFits == Len(states) >= HandleSize + 1 /\ Len(values) >= HandleSize

\* Both stacks give up the handle before the reducer sees its values.
PopHandle ==
  /\ ActionIs("reduce")
  /\ IF Action.rule \in DOMAIN Table.rules /\ HandleFits
       THEN /\ rule' = Action.rule
            /\ values' = Drop(values, HandleSize)
            /\ states' = Drop(states, HandleSize)
            /\ saved' = [states |-> states, values |-> values]
            /\ pc' = "reducing"
            /\ UNCHANGED <<result, ready, shifted>>
       ELSE /\ Throw(IF Action.rule \in DOMAIN Table.rules THEN "stack underflow" ELSE "invalid rule")
            /\ UNCHANGED <<stacks, rule>>
  /\ UNCHANGED <<setup, report, buffered, saw_eof, last_end, pulled>>

\* Mutant: the Parser refers to the caller's map.
UnregisteredInCallersMap ==
  reducer.kind = "map" /\ Rule(rule).hook /\ rule \notin reducer.handlers

\* ReducerMap::operator() finds no handler.
Unregistered == installed.kind = "map" /\ Rule(rule).hook /\ rule \notin installed.handlers

ReducerThrows ==
  /\ pc = "reducing"
  /\ installed.kind # "none" /\ Rule(rule).hook
  /\ pc' = IF Unregistered THEN "unregistered" ELSE "reducer error"
  /\ UNCHANGED <<setup, stacks, report, result, cursor, rule, shifted, saved>>

\* The values the reducer was given; an empty handle lies at the lookahead.
rhs_values == SubSeq(saved.values, Len(values) + 1, Len(saved.values))
Reduced ==
  [sym  |-> Rule(rule).lhs,
   from |-> IF rhs_values = <<>> THEN buffered.from ELSE rhs_values[1].from,
   to   |-> IF rhs_values = <<>> THEN buffered.from ELSE Back(rhs_values).to]

\* The reducer, or default_reduce, has returned.
PushReduction ==
  /\ pc = "reducing" /\ ~Unregistered
  /\ IF Rule(rule).lhs \in DOMAIN Table.gotos[Back(states)]
       THEN /\ states' = Append(states, Table.gotos[Back(states)][Rule(rule).lhs])
            /\ values' = Append(values, Reduced)
            /\ pc' = "loop"
       ELSE pc' = "missing goto" /\ UNCHANGED stacks
  /\ rule' = 0 /\ saved' = NoStacks
  /\ UNCHANGED <<setup, report, result, cursor, shifted>>

\* return result; diagnostics go with it.
Return(how, value) ==
  /\ pc' = how
  /\ result' = [returned |-> TRUE, value |-> value, accepted |-> how = "accepted"]

Settle(kind) ==
  diagnostics' = IF active_diagnostic >= 0
                   THEN [diagnostics EXCEPT ![active_diagnostic + 1].kind = kind]
                   ELSE diagnostics

Accept ==
  /\ ActionIs("accept")
  /\ Settle("recovered")
  /\ Return("accepted", current_value)
  /\ UNCHANGED <<setup, stacks, recovering, active_diagnostic, cursor, rule, shifted, saved>>

-----------------------------------------------------------------------------
(* No table entry: the first half of the loop. *)

CanShiftError(s) == HasAction(s, Error) /\ Table.actions[s][Error].kind = "shift"

make_diagnostic ==
  [state |-> Back(states), unexpected |-> buffered.sym, start |-> buffered.from,
   kind |-> "none", discarded |-> 0, shifts |-> shifted]

error_lexeme == [sym |-> Error, from |-> buffered.from, to |-> buffered.from]

\* The diagnostic is recorded before the outcome of the search is known.
SyntaxError ==
  /\ MissingAction /\ recovering = 0
  /\ diagnostics' = Append(diagnostics, make_diagnostic)
  /\ active_diagnostic' = Len(diagnostics)
  /\ saved' = [states |-> states, values |-> values]
  /\ pc' = "search"
  /\ UNCHANGED <<setup, stacks, recovering, result, cursor, rule, shifted>>

Searching == pc = "search"

SearchPops ==
  /\ Searching /\ ~CanShiftError(Back(states)) /\ Len(states) > 1
  /\ states' = Drop(states, 1)
  /\ values' = IF values = <<>> THEN values ELSE Drop(values, 1)
  /\ UNCHANGED <<setup, pc, report, result, cursor, rule, shifted, saved>>

SearchSucceeds ==
  /\ Searching /\ CanShiftError(Back(states))
  /\ states' = Append(states, Table.actions[Back(states)][Error].state)
  /\ values' = Append(values, error_lexeme)
  /\ recovering' = 3
  /\ diagnostics' = [diagnostics EXCEPT ![active_diagnostic + 1].kind = "shift-error"]
  /\ pc' = "loop" /\ saved' = NoStacks
  /\ UNCHANGED <<setup, active_diagnostic, result, cursor, rule, shifted>>

SearchFails ==
  /\ Searching /\ ~CanShiftError(Back(states)) /\ Len(states) = 1
  /\ diagnostics' = [diagnostics EXCEPT ![active_diagnostic + 1].kind = "abort"]
  /\ saved' = NoStacks
  /\ Return("aborted", current_value)
  /\ UNCHANGED <<setup, stacks, recovering, active_diagnostic, cursor, rule, shifted>>

\* Mutant: the lexeme stays in the cursor.
DiscardKeepsLexeme ==
  /\ MissingAction /\ recovering > 0 /\ buffered.sym # EOF
  /\ UNCHANGED <<setup, pc, stacks, report, result, cursor, rule, shifted, saved>>

Discard ==
  /\ MissingAction /\ recovering > 0 /\ buffered.sym # EOF
  /\ ready' = FALSE
  /\ diagnostics' = IF active_diagnostic >= 0
                      THEN [diagnostics EXCEPT ![active_diagnostic + 1].discarded = @ + 1]
                      ELSE diagnostics
  /\ UNCHANGED <<setup, pc, stacks, recovering, active_diagnostic, result,
                 buffered, saw_eof, last_end, pulled, rule, shifted, saved>>

AbortAtEnd ==
  /\ MissingAction /\ recovering > 0 /\ buffered.sym = EOF
  /\ Settle("abort")
  /\ Return("aborted", current_value)
  /\ UNCHANGED <<setup, stacks, recovering, active_diagnostic, cursor, rule, shifted, saved>>

-----------------------------------------------------------------------------

Start   == Construct \/ CallerRemovesHandler \/ Call
Peek    == PeekLexeme \/ PeekEnd \/ PeekExplicitEnd \/ PeekThrows
Act     == Shift \/ PopHandle \/ ReducerThrows \/ PushReduction \/ Accept
Recover == SyntaxError \/ SearchPops \/ SearchSucceeds \/ SearchFails \/ Discard \/ AbortAtEnd

Next     == Start \/ Peek \/ Act \/ Recover
Spec     == Init /\ [][Next]_vars
FairSpec == Spec /\ WF_vars(Next)

\* What parse_value makes of the end of the call: it returns the value of a
\* result without diagnostics and throws in every other case.
ParseValueReturns == result.returned /\ diagnostics = <<>>

ASSUME TablesAreSound ==
  \A l \in DOMAIN Tables : SoundTables(Tables[l]) /\ MaxLexemes[l] \in Nat

-----------------------------------------------------------------------------
(* The parser of LRParser that this one implements: between two of its steps *)
(* the stacks are the saved ones, and the diagnostic of a search under way   *)
(* is not reported yet.                                                      *)

Between == pc \in {"search", "reducing"}

LRStatus ==
  CASE pc \in {"declared", "constructed"} -> "new"
    [] pc = "loop" \/ Between             -> "running"
    [] pc \in ReducerErrors               -> "reducer error"
    [] OTHER                              -> pc

LRStates == IF Between \/ pc \in ReducerErrors THEN saved.states ELSE states
LRValues == IF Between THEN saved.values ELSE values
LRActive == IF pc = "search" THEN 0 ELSE active_diagnostic + 1
LRDiagnostics == IF pc = "search" THEN Drop(diagnostics, 1) ELSE diagnostics

LRP == INSTANCE LRParser
  WITH status      <- LRStatus,
       states      <- LRStates,
       values      <- LRValues,
       active      <- LRActive,
       diagnostics <- LRDiagnostics,
       symbol      <- buffered.sym,
       sawEOF      <- saw_eof

\* The C++ parser implements the one of the Go package: the smaller steps, the
\* exceptions and the positions the cursor hands out make no difference.
ImplementsLRParser == LRP!Spec

\* A map that was checked when the Parser was made suffices for the whole call,
\* whatever the caller does to it later: "missing handlers fail before parsing".
HandlersSuffice == pc # "unregistered"

\* Every call returns or throws.
CallReturns == <>(pc \in Returned \cup Exceptions)

=============================================================================
