--------------------------- MODULE CppParserProofs ---------------------------
(***************************************************************************)
(* The C++ parser implements LRParser, for every set of sound tables and   *)
(* every input, and inherits its theorems.                                 *)
(***************************************************************************)
EXTENDS CppParser, ProofLemmas

-----------------------------------------------------------------------------
(* The inductive invariant. *)

Symbols == Table.terminals \cup {Unknown, EOF, Error} \cup {Rule(r).lhs : r \in DOMAIN Table.rules}
Spans   == [sym : Symbols, from : Nat, to : Nat]
Kinds   == {"none", "shift-error", "recovered", "abort"}
Reports == [state : Nat, unexpected : Symbols, start : Nat, kind : Kinds,
            discarded : Nat, shifts : Nat]

ControlOK ==
  /\ lang \in DOMAIN Tables
  /\ pc \in {"declared", "constructed", "loop", "search", "reducing"} \cup Returned \cup Exceptions
  /\ states \in Seq(Table.states) /\ values \in Seq(Spans) /\ Len(states) >= 1
  /\ recovering \in 0..3 /\ shifted \in Nat
  /\ diagnostics \in Seq(Reports) /\ active_diagnostic \in -1..(Len(diagnostics) - 1)

\* The cursor's end is behind the last lexeme, and a buffered lexeme is the one
\* before it.
CursorOK ==
  /\ buffered \in Spans /\ ready \in BOOLEAN /\ saw_eof \in BOOLEAN
  /\ pulled \in Seq(Symbols) /\ last_end = Len(pulled)
  /\ ready => IF buffered.sym = EOF
                THEN buffered.from = Len(pulled)
                ELSE /\ buffered.from + 1 = Len(pulled)
                     /\ buffered.to = Len(pulled)

\* Between two iterations of the loop.
LoopOK ==
  pc \in {"declared", "constructed", "loop", "reducing"} =>
    active_diagnostic >= 0 <=> recovering > 0
AlignedOK ==
  pc \in {"declared", "constructed", "loop"} => Len(states) = Len(values) + 1

\* While a step of LRParser is under way.
SavedOK ==
  Between => /\ ready
             /\ saved.states \in Seq(Table.states) /\ Len(saved.states) >= 1
             /\ saved.values \in Seq(Spans) /\ Len(saved.states) = Len(saved.values) + 1

\* The states popped so far do not shift `error', and the diagnostic made for
\* this error is the last.
SearchOK ==
  pc = "search" =>
    /\ recovering = 0 /\ ~HasAction(Back(saved.states), buffered.sym)
    /\ Len(states) <= Len(saved.states)
    /\ states = SubSeq(saved.states, 1, Len(states))
    /\ values = SubSeq(saved.values, 1, Len(states) - 1)
    /\ \A k \in (Len(states) + 1)..Len(saved.states) : ~CanShiftError(saved.states[k])
    /\ Len(diagnostics) >= 1 /\ active_diagnostic + 1 = Len(diagnostics)
    /\ Back(diagnostics) =
         [state |-> Back(saved.states), unexpected |-> buffered.sym, start |-> buffered.from,
          kind |-> "none", discarded |-> 0, shifts |-> shifted]

\* The handle of the due reduction has been popped from both stacks.
ReducingOK ==
  pc = "reducing" =>
    LET entry == Table.actions[Back(saved.states)][buffered.sym]
        n     == Len(Rule(rule).rhs)
    IN  /\ HasAction(Back(saved.states), buffered.sym)
        /\ entry.kind = "reduce" /\ entry.rule = rule /\ rule \in DOMAIN Table.rules
        /\ n + 1 <= Len(saved.states)
        /\ states = Drop(saved.states, n) /\ values = Drop(saved.values, n)

\* The map that the Parser copied covers the rules that need a handler.
MapOK ==
  /\ pc = "declared" => installed.kind = "none"
  /\ installed.kind = "map" => pc = "refused" \/ Covers(installed.handlers)
  /\ HandlersSuffice

IInv == /\ ControlOK /\ CursorOK /\ LoopOK /\ AlignedOK
        /\ SavedOK /\ SearchOK /\ ReducingOK /\ MapOK

-----------------------------------------------------------------------------
(* Tables and stacks. *)

\* The running package's tables are sound and the stack's top is a state of it.
LEMMA TableFacts ==
  ASSUME ControlOK
  PROVE  /\ SoundTables(Table) /\ Table.states \subseteq Nat
         /\ Table.terminals \subseteq STRING \ {EOF, Error}
         /\ \A r \in DOMAIN Table.rules : Rule(r).rhs \in Seq(STRING) /\ Rule(r).lhs \in Symbols
         /\ Len(states) \in Nat \ {0} /\ Len(values) \in Nat /\ Len(diagnostics) \in Nat
         /\ Back(states) \in Table.states
<1>1. SoundTables(Table)
  BY TablesAreSound DEF ControlOK, Table
<1>2. Len(states) \in Nat \ {0} /\ Len(values) \in Nat /\ Len(diagnostics) \in Nat
  BY LenProperties DEF ControlOK
<1>3. Back(states) \in Table.states
  <2>1. Len(states) \in 1..Len(states)
    BY <1>2
  <2> QED  BY <2>1, ElementOfSeq DEF ControlOK, Back
<1> QED  BY <1>1, <1>2, <1>3 DEF SoundTables, Rule, Symbols

\* What a table entry may say.
LEMMA EntryFacts ==
  ASSUME ControlOK, NEW s \in Table.states, NEW t, HasAction(s, t)
  PROVE  LET a == Table.actions[s][t]
         IN  /\ a.kind = "shift" => t # EOF /\ a.state \in Table.states
             /\ a.kind = "reduce" => a.rule \in DOMAIN Table.rules
<1>1. SoundAction(Table, s, t, Table.actions[s][t])
  BY TableFacts DEF SoundTables, HasAction
<1> QED  BY <1>1 DEF SoundAction, SoundShift, SoundReduce, Entered

\* Gotos lead to states.
LEMMA GotoFacts ==
  ASSUME ControlOK, NEW s \in Table.states, NEW x \in DOMAIN Table.gotos[s]
  PROVE  Table.gotos[s][x] \in Table.states
BY TableFacts DEF SoundTables, Entered

\* Popping n elements.
LEMMA DropFacts ==
  ASSUME NEW S, NEW seq \in Seq(S), NEW n \in 0..Len(seq)
  PROVE  /\ Drop(seq, n) \in Seq(S) /\ Len(Drop(seq, n)) = Len(seq) - n
         /\ \A i \in 1..(Len(seq) - n) : Drop(seq, n)[i] = seq[i]
<1>1. Len(seq) - n \in 0..Len(seq)
  BY LenProperties
<1> QED  BY <1>1, PrefixFacts DEF Drop

\* The top of a stack is an element.
LEMMA BackFacts ==
  ASSUME NEW S, NEW seq \in Seq(S), Len(seq) >= 1
  PROVE  Back(seq) \in S
<1>1. Len(seq) \in 1..Len(seq)
  BY LenProperties
<1> QED  BY <1>1, ElementOfSeq DEF Back

\* The values of a reduction, and the value made of them.
LEMMA ReducedFacts ==
  ASSUME ControlOK, CursorOK, SavedOK, ReducingOK, pc = "reducing"
  PROVE  /\ Len(Rule(rule).rhs) \in 0..Len(saved.values)
         /\ Len(values) = Len(saved.values) - Len(Rule(rule).rhs)
         /\ Len(states) = Len(saved.states) - Len(Rule(rule).rhs)
         /\ rhs_values = SubSeq(saved.values, Len(saved.values) - Len(Rule(rule).rhs) + 1,
                                Len(saved.values))
         /\ Reduced \in Spans
<1> DEFINE n == Len(Rule(rule).rhs)
<1>1. /\ n \in Nat /\ rule \in DOMAIN Table.rules /\ Rule(rule).lhs \in Symbols
      /\ Len(saved.states) \in Nat /\ Len(saved.values) \in Nat
  BY TableFacts, LenProperties DEF ReducingOK, SavedOK, Between
<1>2. n \in 0..Len(saved.values) /\ n \in 0..Len(saved.states)
  <2>1. n + 1 <= Len(saved.states) /\ Len(saved.states) = Len(saved.values) + 1
    BY DEF ReducingOK, SavedOK, Between
  <2> HIDE DEF n
  <2> QED  BY <1>1, <2>1
<1> HIDE DEF n
<1>3. saved.values \in Seq(Spans) /\ saved.states \in Seq(Table.states)
  BY DEF SavedOK, Between
<1>4. states = Drop(saved.states, n) /\ values = Drop(saved.values, n)
  BY DEF ReducingOK, n
<1>5. Len(values) = Len(saved.values) - n /\ Len(states) = Len(saved.states) - n
  BY <1>2, <1>3, <1>4, DropFacts
<1>6. rhs_values = SubSeq(saved.values, Len(saved.values) - n + 1, Len(saved.values))
  BY <1>5 DEF rhs_values
<1>7. rhs_values \in Seq(Spans)
  BY <1>2, <1>3, <1>6, SuffixFacts
<1>8. ASSUME rhs_values # <<>>
      PROVE  rhs_values[1] \in Spans /\ Back(rhs_values) \in Spans
  <2>1. Len(rhs_values) \in Nat \ {0}
    BY <1>7, <1>8, EmptySeq
  <2>2. 1 \in 1..Len(rhs_values)
    BY <2>1
  <2> QED  BY <1>7, <2>1, <2>2, ElementOfSeq, BackFacts
<1>9. Reduced \in Spans
  BY <1>1, <1>8 DEF Reduced, Spans, CursorOK
<1> QED  BY <1>2, <1>5, <1>6, <1>9 DEF n

\* Settling or charging a diagnostic yields a diagnostic.
LEMMA ReportUpdate ==
  ASSUME NEW seq \in Seq(Reports), NEW i \in 1..Len(seq), NEW kind \in Kinds, NEW new,
         \/ new = [seq EXCEPT ![i].kind = kind]
         \/ new = [seq EXCEPT ![i].discarded = @ + 1]
  PROVE  new \in Seq(Reports) /\ Len(new) = Len(seq)
<1>1. seq[i] \in Reports
  BY ElementOfSeq
<1>2. [seq[i] EXCEPT !.kind = kind] \in Reports
  BY <1>1 DEF Reports
<1>3. [seq[i] EXCEPT !.discarded = @ + 1] \in Reports
  <2>1. seq[i].discarded + 1 \in Nat
    BY <1>1, SMTT(30) DEF Reports
  <2> QED  BY <1>1, <2>1 DEF Reports
<1>4. PICK d \in Reports : new = [seq EXCEPT ![i] = d]
  BY <1>2, <1>3
<1> QED  BY <1>4, ExceptSeq

\* The diagnostic of a syntax error.
LEMMA DiagnosticFacts ==
  ASSUME ControlOK, CursorOK
  PROVE  make_diagnostic \in Reports
<1>1. /\ Back(states) \in Nat /\ buffered.sym \in Symbols /\ buffered.from \in Nat
      /\ shifted \in Nat /\ "none" \in Kinds /\ 0 \in Nat
  BY TableFacts DEF Spans, ControlOK, CursorOK, Kinds
<1> QED  BY <1>1 DEF make_diagnostic, Reports

\* What a search that succeeds pushes.
LEMMA ErrorFacts ==
  ASSUME ControlOK, CursorOK, CanShiftError(Back(states))
  PROVE  /\ Table.actions[Back(states)][Error].state \in Table.states
         /\ error_lexeme \in Spans
<1>1. Table.actions[Back(states)][Error].state \in Table.states
  BY TableFacts, EntryFacts DEF CanShiftError
<1>2. Error \in Symbols /\ buffered.from \in Nat
  BY DEF CursorOK, Symbols, Spans
<1> QED  BY <1>1, <1>2 DEF error_lexeme, Spans

\* A call stays in its package.
LEMMA PackageKept ==
  ASSUME [Next]_vars
  PROVE  /\ lang' = lang /\ Table' = Table /\ Symbols' = Symbols
         /\ Spans' = Spans /\ Reports' = Reports
<1>1. lang' = lang
  BY DEF Next, Start, Peek, Act, Recover, Construct, CallerRemovesHandler, Call, PeekLexeme,
         PeekEnd, PeekExplicitEnd, PeekThrows, Shift, PopHandle, ReducerThrows, PushReduction,
         Accept, SyntaxError, SearchPops, SearchSucceeds, SearchFails, Discard, AbortAtEnd,
         setup, vars
<1> QED  BY <1>1 DEF Table, Spans, Reports, Symbols, Rule

-----------------------------------------------------------------------------
(* The invariant is inductive. *)

\* Every action keeps the control state well-typed.
LEMMA ControlNext == IInv /\ [Next]_vars => ControlOK'
<1> SUFFICES ASSUME IInv, [Next]_vars PROVE ControlOK'
  OBVIOUS
<1> USE DEF setup, stacks, report, cursor
<1>0. /\ ControlOK /\ CursorOK /\ SavedOK /\ SearchOK /\ ReducingOK
      /\ SoundTables(Table) /\ Len(states) \in Nat \ {0} /\ Len(values) \in Nat
      /\ Back(states) \in Table.states /\ Len(diagnostics) \in Nat
      /\ states \in Seq(Table.states) /\ values \in Seq(Spans) /\ buffered \in Spans
      /\ diagnostics \in Seq(Reports)
  BY TableFacts DEF IInv, ControlOK, CursorOK
<1>a. ASSUME NEW kind \in Kinds, NEW new, active_diagnostic >= 0,
             \/ new = [diagnostics EXCEPT ![active_diagnostic + 1].kind = kind]
             \/ new = [diagnostics EXCEPT ![active_diagnostic + 1].discarded = @ + 1]
      PROVE  new \in Seq(Reports) /\ Len(new) = Len(diagnostics)
  <2> DEFINE i == active_diagnostic + 1
  <2>1. i \in 1..Len(diagnostics)
    BY <1>0, <1>a DEF ControlOK
  <2>2. \/ new = [diagnostics EXCEPT ![i].kind = kind]
        \/ new = [diagnostics EXCEPT ![i].discarded = @ + 1]
    BY <1>a
  <2> HIDE DEF i
  <2> QED  BY <1>0, <2>1, <2>2, ReportUpdate
<1>k. "recovered" \in Kinds /\ "abort" \in Kinds /\ "shift-error" \in Kinds /\ "none" \in Kinds
  BY DEF Kinds
<1>b. Table' = Table /\ Spans' = Spans /\ Reports' = Reports /\ lang' = lang
  BY PackageKept
<1>1. CASE Construct \/ CallerRemovesHandler \/ Call
  BY <1>0, <1>b, <1>1 DEF Construct, CallerRemovesHandler, Call, ControlOK, Returned, Exceptions
<1>2. CASE PeekLexeme \/ PeekEnd \/ PeekExplicitEnd
  BY <1>0, <1>b, <1>2 DEF PeekLexeme, PeekEnd, PeekExplicitEnd, ControlOK
<1>3. CASE PeekThrows \/ ReducerThrows
  BY <1>0, <1>b, <1>3 DEF PeekThrows, ReducerThrows, ControlOK, Exceptions, ReducerErrors
<1>4. CASE Shift
  <2>1. buffered.sym # EOF /\ Action.state \in Table.states
    BY <1>0, <1>4, EntryFacts DEF Shift, ActionIs, Action
  <2>2. states' \in Seq(Table.states) /\ values' \in Seq(Spans) /\ Len(states') >= 1
    <3> DEFINE to == Action.state
    <3>1. states' = Append(states, to) /\ values' = Append(values, buffered) /\ to \in Table.states
      BY <1>4, <2>1 DEF Shift
    <3> HIDE DEF to
    <3> QED  BY <1>0, <3>1, PushFacts
  <2>3. /\ diagnostics' \in Seq(Reports) /\ recovering' \in 0..3
        /\ active_diagnostic' \in -1..(Len(diagnostics') - 1)
    <3>1. recovering' \in 0..3
      BY <1>0, <1>4, <2>1 DEF Shift, CountShift, ControlOK
    <3>2. CASE recovering = 1 /\ active_diagnostic >= 0
      <4>1. /\ diagnostics' = [diagnostics EXCEPT ![active_diagnostic + 1].kind = "recovered"]
            /\ active_diagnostic' = -1
        BY <1>4, <2>1, <3>2 DEF Shift, CountShift
      <4>2. diagnostics' \in Seq(Reports) /\ Len(diagnostics') = Len(diagnostics)
        BY <1>a, <1>k, <3>2, <4>1
      <4> QED  BY <1>0, <3>1, <4>1, <4>2
    <3>3. CASE ~(recovering = 1 /\ active_diagnostic >= 0)
      <4>1. UNCHANGED <<diagnostics, active_diagnostic>>
        BY <1>4, <2>1, <3>3 DEF Shift, CountShift
      <4> QED  BY <1>0, <3>1, <4>1 DEF ControlOK
    <3> QED  BY <3>2, <3>3
  <2> QED  BY <1>0, <1>b, <1>4, <2>1, <2>2, <2>3 DEF Shift, ControlOK
<1>5. CASE PopHandle
  <2>1. Action.rule \in DOMAIN Table.rules
    BY <1>0, <1>5, EntryFacts DEF PopHandle, ActionIs, Action
  <2>2. HandleSize \in Nat
    BY <1>0, <2>1, TableFacts, LenProperties DEF HandleSize
  <2>3. CASE HandleFits
    <3>1. HandleSize \in 0..Len(states) /\ HandleSize \in 0..Len(values)
          /\ Len(states) - HandleSize >= 1
      BY <1>0, <2>2, <2>3 DEF HandleFits
    <3>2. states' \in Seq(Table.states) /\ values' \in Seq(Spans) /\ Len(states') >= 1
      BY <1>0, <1>5, <2>1, <2>3, <3>1, DropFacts DEF PopHandle
    <3> QED  BY <1>0, <1>b, <1>5, <2>1, <2>3, <3>2 DEF PopHandle, ControlOK
  <2>4. CASE ~HandleFits
    BY <1>0, <1>b, <1>5, <2>1, <2>4 DEF PopHandle, Throw, ControlOK, Exceptions, InternalErrors
  <2> QED  BY <2>3, <2>4
<1>6. CASE PushReduction
  <2> DEFINE to == Table.gotos[Back(states)][Rule(rule).lhs]
  <2>1. Reduced \in Spans
    BY <1>0, <1>6, ReducedFacts DEF PushReduction
  <2>2. CASE Rule(rule).lhs \in DOMAIN Table.gotos[Back(states)]
    <3>1. to \in Table.states
      BY <1>0, <2>2, GotoFacts
    <3> HIDE DEF to
    <3>2. states' = Append(states, to) /\ values' = Append(values, Reduced) /\ pc' = "loop"
      BY <1>6, <2>2 DEF PushReduction, to
    <3>3. states' \in Seq(Table.states) /\ values' \in Seq(Spans) /\ Len(states') >= 1
      BY <1>0, <2>1, <3>1, <3>2, PushFacts
    <3> QED  BY <1>0, <1>b, <1>6, <3>2, <3>3 DEF PushReduction, ControlOK
  <2>3. CASE Rule(rule).lhs \notin DOMAIN Table.gotos[Back(states)]
    BY <1>0, <1>b, <1>6, <2>3 DEF PushReduction, ControlOK, Exceptions, InternalErrors
  <2> QED  BY <2>2, <2>3
<1>7. CASE Accept \/ AbortAtEnd
  <2>1. diagnostics' \in Seq(Reports) /\ Len(diagnostics') = Len(diagnostics)
    BY <1>0, <1>7, <1>a, <1>k DEF Accept, AbortAtEnd, Settle
  <2> QED  BY <1>0, <1>b, <1>7, <2>1 DEF Accept, AbortAtEnd, Return, ControlOK, Returned
<1>8. CASE SyntaxError
  <2>1. make_diagnostic \in Reports
    BY <1>0, DiagnosticFacts
  <2>2. diagnostics' \in Seq(Reports) /\ Len(diagnostics') = Len(diagnostics) + 1
    BY <1>0, <1>8, <2>1, PushFacts DEF SyntaxError
  <2> QED  BY <1>0, <1>b, <1>8, <2>2 DEF SyntaxError, ControlOK
<1>9. CASE SearchPops
  <2>1. Len(states) > 1 /\ 1 \in 0..Len(states)
    BY <1>0, <1>9 DEF SearchPops
  <2>2. states' \in Seq(Table.states) /\ Len(states') >= 1
    <3>1. states' = Drop(states, 1)
      BY <1>9 DEF SearchPops
    <3>2. states' \in Seq(Table.states) /\ Len(states') = Len(states) - 1
      BY <1>0, <2>1, <3>1, DropFacts
    <3> QED  BY <1>0, <2>1, <3>2
  <2>3. values' \in Seq(Spans)
    <3>1. CASE values = <<>>
      BY <1>0, <1>9, <3>1 DEF SearchPops
    <3>2. CASE values # <<>>
      <4>1. 1 \in 0..Len(values)
        BY <1>0, <3>2, EmptySeq
      <4> QED  BY <1>0, <1>9, <3>2, <4>1, DropFacts DEF SearchPops
    <3> QED  BY <3>1, <3>2
  <2> QED  BY <1>0, <1>b, <1>9, <2>2, <2>3 DEF SearchPops, ControlOK
<1>10. CASE SearchSucceeds
  <2> DEFINE to == Table.actions[Back(states)][Error].state
  <2>1. to \in Table.states /\ error_lexeme \in Spans
    BY <1>0, <1>10, ErrorFacts DEF SearchSucceeds
  <2> HIDE DEF to
  <2>2. states' = Append(states, to) /\ values' = Append(values, error_lexeme)
    BY <1>10 DEF SearchSucceeds, to
  <2>3. states' \in Seq(Table.states) /\ values' \in Seq(Spans) /\ Len(states') >= 1
    BY <1>0, <2>1, <2>2, PushFacts
  <2>4. active_diagnostic >= 0
    BY <1>0, <1>10 DEF SearchSucceeds, Searching, SearchOK, ControlOK
  <2>5. diagnostics' \in Seq(Reports) /\ Len(diagnostics') = Len(diagnostics)
    BY <1>10, <1>a, <1>k, <2>4 DEF SearchSucceeds
  <2> QED  BY <1>0, <1>b, <1>10, <2>3, <2>5 DEF SearchSucceeds, ControlOK
<1>11. CASE SearchFails
  <2>1. active_diagnostic >= 0
    BY <1>0, <1>11 DEF SearchFails, Searching, SearchOK, ControlOK
  <2>2. diagnostics' \in Seq(Reports) /\ Len(diagnostics') = Len(diagnostics)
    BY <1>11, <1>a, <1>k, <2>1 DEF SearchFails
  <2> QED  BY <1>0, <1>b, <1>11, <2>2 DEF SearchFails, Return, ControlOK, Returned
<1>12. CASE Discard
  <2>1. diagnostics' \in Seq(Reports) /\ Len(diagnostics') = Len(diagnostics)
    <3>1. CASE active_diagnostic >= 0
      BY <1>12, <1>a, <1>k, <3>1 DEF Discard
    <3>2. CASE ~(active_diagnostic >= 0)
      BY <1>0, <1>12, <3>2 DEF Discard
    <3> QED  BY <3>1, <3>2
  <2> QED  BY <1>0, <1>b, <1>12, <2>1 DEF Discard, ControlOK
<1>13. CASE UNCHANGED vars
  BY <1>0, <1>b, <1>13 DEF vars, ControlOK
<1> QED
  BY <1>1, <1>2, <1>3, <1>4, <1>5, <1>6, <1>7, <1>8, <1>9, <1>10, <1>11, <1>12, <1>13
     DEF Next, Start, Peek, Act, Recover

\* The cursor's position is the number of lexemes it delivered.
LEMMA CursorNext == IInv /\ [Next]_vars => CursorOK'
<1> SUFFICES ASSUME ControlOK, CursorOK, [Next]_vars PROVE CursorOK'
  BY DEF IInv
<1> USE DEF setup, stacks, report, cursor
<1>0. /\ buffered \in Spans /\ pulled \in Seq(Symbols) /\ last_end = Len(pulled)
      /\ Len(pulled) \in Nat /\ SoundTables(Table) /\ Unknown # EOF
      /\ Table.terminals \subseteq STRING \ {EOF, Error}
  BY TableFacts, LenProperties DEF CursorOK, Unknown, EOF
<1>b. Spans' = Spans /\ Symbols' = Symbols
  BY PackageKept
<1>1. CASE PeekLexeme
  <2>1. PICK t \in Table.terminals \cup {Unknown} :
          /\ buffered' = [sym |-> t, from |-> Len(pulled), to |-> Len(pulled) + 1]
          /\ pulled' = Append(pulled, t)
    BY <1>1 DEF PeekLexeme
  <2>2. t \in Symbols /\ t # EOF
    BY <1>0 DEF Symbols
  <2>3. pulled' \in Seq(Symbols) /\ Len(pulled') = Len(pulled) + 1
    BY <1>0, <2>1, <2>2, PushFacts
  <2>4. buffered' \in Spans /\ buffered'.sym # EOF
        /\ buffered'.from = Len(pulled) /\ buffered'.to = Len(pulled) + 1
    BY <1>0, <2>1, <2>2 DEF Spans
  <2> QED  BY <1>0, <1>1, <1>b, <2>3, <2>4 DEF PeekLexeme, CursorOK
<1>2. CASE PeekEnd \/ PeekExplicitEnd
  <2>1. buffered' = [sym |-> EOF, from |-> Len(pulled), to |-> Len(pulled)]
    BY <1>0, <1>2 DEF PeekEnd, PeekExplicitEnd, eof_lexeme, normalize_eof
  <2>2. buffered' \in Spans
    BY <1>0, <2>1 DEF Spans, Symbols
  <2>3. ready' = TRUE /\ saw_eof' = TRUE /\ UNCHANGED <<last_end, pulled>>
    BY <1>2 DEF PeekEnd, PeekExplicitEnd
  <2> QED  BY <1>0, <1>b, <2>1, <2>2, <2>3 DEF CursorOK
<1>3. ASSUME UNCHANGED <<buffered, saw_eof, last_end, pulled>>, ready' = ready \/ ready' = FALSE
      PROVE  CursorOK'
  <2>1. /\ buffered' = buffered /\ saw_eof' = saw_eof /\ last_end' = last_end /\ pulled' = pulled
    BY <1>3
  <2>2. CASE ready' = FALSE
    BY <1>b, <2>1, <2>2 DEF CursorOK
  <2>3. CASE ready' = ready
    BY <1>b, <2>1, <2>3 DEF CursorOK
  <2> QED  BY <1>3, <2>2, <2>3
<1>4. CASE Start
  BY <1>3, <1>4 DEF Start, Construct, CallerRemovesHandler, Call
<1>5. CASE PeekThrows \/ Act
  BY <1>3, <1>5 DEF PeekThrows, Act, Shift, PopHandle, Throw, ReducerThrows, PushReduction, Accept
<1>6. CASE Recover
  BY <1>3, <1>6 DEF Recover, SyntaxError, SearchPops, SearchSucceeds, SearchFails, Discard, AbortAtEnd
<1>7. CASE UNCHANGED vars
  BY <1>3, <1>7 DEF vars
<1> QED  BY <1>1, <1>2, <1>4, <1>5, <1>6, <1>7 DEF Next, Peek

\* The recovery counter runs exactly while there is an active diagnostic.
LEMMA LoopNext == IInv /\ [Next]_vars => LoopOK'
<1> SUFFICES ASSUME IInv, [Next]_vars PROVE LoopOK'
  OBVIOUS
<1> USE DEF setup, stacks, report, cursor, LoopOK
<1>0. /\ ControlOK /\ LoopOK /\ SearchOK /\ recovering \in 0..3 /\ active_diagnostic \in Int
      /\ Len(diagnostics) \in Nat
  BY TableFacts DEF IInv, ControlOK
<1>1. CASE Start
  BY <1>0, <1>1 DEF Start, Construct, CallerRemovesHandler, Call
<1>2. CASE Peek
  BY <1>0, <1>2 DEF Peek, PeekLexeme, PeekEnd, PeekExplicitEnd, PeekThrows, Peeking, SourceErrors
<1>3. CASE Shift
  <2>1. pc = "loop"
    BY <1>3 DEF Shift, ActionIs, Deciding
  <2>2. CASE buffered.sym = EOF
    BY <1>3, <2>2 DEF Shift, Throw
  <2>3. CASE buffered.sym # EOF
    <3>1. CountShift /\ pc = "loop" /\ pc' = pc
      BY <1>3, <2>1, <2>3 DEF Shift
    <3> QED  BY <1>0, <3>1 DEF CountShift
  <2> QED  BY <2>2, <2>3
<1>4. CASE PopHandle \/ ReducerThrows \/ PushReduction
  BY <1>0, <1>4 DEF PopHandle, ReducerThrows, PushReduction, Throw, ActionIs, Deciding
<1>5. CASE Accept \/ SyntaxError \/ SearchPops \/ SearchFails \/ AbortAtEnd
  BY <1>0, <1>5 DEF Accept, SyntaxError, SearchPops, Searching, SearchFails, AbortAtEnd, Return
<1>6. CASE SearchSucceeds
  BY <1>0, <1>6 DEF SearchSucceeds, Searching, SearchOK
<1>7. CASE Discard
  BY <1>0, <1>7 DEF Discard
<1>8. CASE UNCHANGED vars
  BY <1>0, <1>8 DEF vars
<1> QED  BY <1>1, <1>2, <1>3, <1>4, <1>5, <1>6, <1>7, <1>8 DEF Next, Act, Recover

\* Between two iterations there is one state more than there are values.
LEMMA AlignedNext == IInv /\ [Next]_vars => AlignedOK'
<1> SUFFICES ASSUME IInv, [Next]_vars PROVE AlignedOK'
  OBVIOUS
<1> USE DEF setup, stacks, report, cursor, AlignedOK
<1>0. /\ ControlOK /\ CursorOK /\ SavedOK /\ SearchOK /\ ReducingOK /\ AlignedOK
      /\ Len(states) \in Nat \ {0} /\ Len(values) \in Nat /\ Back(states) \in Table.states
      /\ states \in Seq(Table.states) /\ values \in Seq(Spans)
      /\ buffered \in Spans
  BY TableFacts DEF IInv, ControlOK, CursorOK
<1>p. ASSUME Len(states) = Len(values) + 1, NEW to \in Table.states, NEW v \in Spans,
             states' = Append(states, to), values' = Append(values, v)
      PROVE  Len(states') = Len(values') + 1
  BY <1>0, <1>p, PushFacts
<1>1. CASE Start
  BY <1>0, <1>1 DEF Start, Construct, CallerRemovesHandler, Call
<1>2. CASE Peek
  BY <1>0, <1>2 DEF Peek, PeekLexeme, PeekEnd, PeekExplicitEnd, PeekThrows, Peeking, SourceErrors
<1>3. CASE Shift
  <2> DEFINE to == Action.state
  <2>1. pc = "loop" /\ buffered.sym # EOF /\ to \in Table.states
    BY <1>0, <1>3, EntryFacts DEF Shift, ActionIs, Action, Deciding
  <2>2. states' = Append(states, to) /\ values' = Append(values, buffered)
    BY <1>3, <2>1 DEF Shift
  <2> HIDE DEF to
  <2> QED  BY <1>0, <1>p, <2>1, <2>2
<1>4. CASE PopHandle \/ ReducerThrows
  BY <1>4 DEF PopHandle, ReducerThrows, Throw
<1>5. CASE PushReduction
  <2> DEFINE to == Table.gotos[Back(states)][Rule(rule).lhs]
  <2>1. Len(states) = Len(values) + 1
    <3> DEFINE n == Len(Rule(rule).rhs)
    <3>1. /\ n \in Nat /\ Len(saved.states) = Len(saved.values) + 1
          /\ Len(saved.states) \in Nat /\ Len(saved.values) \in Nat
          /\ Len(values) = Len(saved.values) - n /\ Len(states) = Len(saved.states) - n
      <4>1. pc = "reducing" /\ saved.states \in Seq(Table.states) /\ saved.values \in Seq(Spans)
            /\ Len(saved.states) = Len(saved.values) + 1
        BY <1>0, <1>5 DEF PushReduction, SavedOK, Between
      <4>2. Len(saved.states) \in Nat /\ Len(saved.values) \in Nat
        BY <4>1, LenProperties
      <4>3. /\ n \in 0..Len(saved.values)
            /\ Len(values) = Len(saved.values) - n /\ Len(states) = Len(saved.states) - n
        BY <1>0, <4>1, ReducedFacts
      <4> HIDE DEF n
      <4> QED  BY <4>1, <4>2, <4>3
    <3> HIDE DEF n
    <3> QED  BY <3>1
  <2>2. CASE Rule(rule).lhs \in DOMAIN Table.gotos[Back(states)]
    <3>1. to \in Table.states /\ Reduced \in Spans
      BY <1>0, <1>5, <2>2, GotoFacts, ReducedFacts DEF PushReduction
    <3>2. states' = Append(states, to) /\ values' = Append(values, Reduced)
      BY <1>5, <2>2 DEF PushReduction
    <3> HIDE DEF to
    <3> QED  BY <1>p, <2>1, <3>1, <3>2
  <2>3. CASE Rule(rule).lhs \notin DOMAIN Table.gotos[Back(states)]
    BY <1>5, <2>3 DEF PushReduction
  <2> QED  BY <2>2, <2>3
<1>6. CASE Accept \/ SyntaxError \/ SearchPops \/ SearchFails \/ Discard \/ AbortAtEnd
  BY <1>0, <1>6 DEF Accept, SyntaxError, SearchPops, Searching, SearchFails, Discard, AbortAtEnd,
                    Return, MissingAction, Deciding
<1>7. CASE SearchSucceeds
  <2> DEFINE to == Table.actions[Back(states)][Error].state
  <2>1. to \in Table.states /\ error_lexeme \in Spans
    BY <1>0, <1>7, ErrorFacts DEF SearchSucceeds
  <2>2. Len(states) = Len(values) + 1
    <3> DEFINE h == Len(states)
    <3>1. /\ h \in Nat \ {0} /\ h <= Len(saved.states) /\ values = SubSeq(saved.values, 1, h - 1)
          /\ saved.values \in Seq(Spans) /\ Len(saved.states) = Len(saved.values) + 1
          /\ Len(saved.values) \in Nat
      BY <1>0, <1>7, LenProperties DEF SearchSucceeds, Searching, SearchOK, SavedOK, Between
    <3> HIDE DEF h
    <3>2. h - 1 \in 0..Len(saved.values)
      BY <3>1
    <3>3. Len(values) = h - 1
      BY <3>1, <3>2, PrefixFacts
    <3> QED  BY <3>1, <3>3 DEF h
  <2>3. states' = Append(states, to) /\ values' = Append(values, error_lexeme)
    BY <1>7 DEF SearchSucceeds
  <2> HIDE DEF to
  <2> QED  BY <1>p, <2>1, <2>2, <2>3
<1>8. CASE UNCHANGED vars
  BY <1>0, <1>8 DEF vars
<1> QED  BY <1>1, <1>2, <1>3, <1>4, <1>5, <1>6, <1>7, <1>8 DEF Next, Act, Recover

\* The stacks saved when a step of LRParser begins stay those stacks.
LEMMA SavedNext == IInv /\ [Next]_vars => SavedOK'
<1> SUFFICES ASSUME IInv, [Next]_vars PROVE SavedOK'
  OBVIOUS
<1> USE DEF setup, stacks, report, cursor, SavedOK
<1>0. /\ ControlOK /\ AlignedOK /\ SavedOK /\ Table' = Table /\ Spans' = Spans
      /\ states \in Seq(Table.states) /\ values \in Seq(Spans) /\ Len(states) >= 1
  BY PackageKept DEF IInv, ControlOK
<1>1. CASE Start
  <2>1. Between' => pc' = pc /\ saved' = saved /\ ready' = ready
    BY <1>1 DEF Start, Construct, CallerRemovesHandler, Call, Between
  <2> QED  BY <1>0, <2>1 DEF Between
<1>2. CASE Peek
  <2>1. ~Between'
    BY <1>2 DEF Peek, PeekLexeme, PeekEnd, PeekExplicitEnd, PeekThrows, Peeking, SourceErrors, Between
  <2> QED  BY <2>1
<1>3. CASE Shift \/ ReducerThrows \/ PushReduction \/ Accept
  <2>1. ~Between'
    BY <1>3 DEF Shift, ReducerThrows, PushReduction, Accept, Throw, Return, ActionIs, Deciding, Between
  <2> QED  BY <2>1
<1>4. CASE PopHandle \/ SyntaxError
  <2>1. pc = "loop" /\ ready = TRUE
    BY <1>0, <1>4 DEF PopHandle, SyntaxError, ActionIs, MissingAction, Deciding, IInv, CursorOK
  <2>2. Between' => saved' = [states |-> states, values |-> values] /\ ready' = ready
    BY <1>4 DEF PopHandle, SyntaxError, Throw, Between
  <2> QED  BY <1>0, <2>1, <2>2 DEF AlignedOK
<1>5. CASE SearchPops
  <2>1. Between /\ saved' = saved /\ ready' = ready
    BY <1>5 DEF SearchPops, Searching, Between
  <2> QED  BY <1>0, <2>1
<1>6. CASE SearchSucceeds \/ SearchFails \/ Discard \/ AbortAtEnd
  <2>1. ~Between'
    BY <1>6 DEF SearchSucceeds, SearchFails, Discard, AbortAtEnd, Return, MissingAction, Deciding, Between
  <2> QED  BY <2>1
<1>7. CASE UNCHANGED vars
  BY <1>0, <1>7 DEF vars, Between
<1> QED  BY <1>1, <1>2, <1>3, <1>4, <1>5, <1>6, <1>7 DEF Next, Act, Recover

\* The search for a state that shifts `error' only shortens the stacks.
LEMMA SearchNext == IInv /\ [Next]_vars => SearchOK'
<1> SUFFICES ASSUME IInv, [Next]_vars PROVE SearchOK'
  OBVIOUS
<1> USE DEF setup, stacks, report, cursor
<1>0. /\ ControlOK /\ CursorOK /\ LoopOK /\ AlignedOK /\ SavedOK /\ SearchOK
      /\ Table' = Table /\ lang' = lang
      /\ states \in Seq(Table.states) /\ values \in Seq(Spans) /\ diagnostics \in Seq(Reports)
      /\ Len(states) \in Nat \ {0} /\ Len(values) \in Nat /\ Len(diagnostics) \in Nat
  BY PackageKept, TableFacts DEF IInv, ControlOK
<1>1. ASSUME pc' # "search"
      PROVE  SearchOK'
  BY <1>1 DEF SearchOK
<1>2. CASE Start
  BY <1>1, <1>2 DEF Start, Construct, CallerRemovesHandler, Call
<1>3. CASE Peek
  BY <1>1, <1>3 DEF Peek, PeekLexeme, PeekEnd, PeekExplicitEnd, PeekThrows, Peeking, SourceErrors
<1>4. CASE Act
  BY <1>1, <1>4 DEF Act, Shift, PopHandle, ReducerThrows, PushReduction, Accept, Throw, Return,
                    ActionIs, Deciding
<1>5. CASE SyntaxError
  <2>1. /\ MissingAction /\ recovering = 0
        /\ diagnostics' = Append(diagnostics, make_diagnostic)
        /\ active_diagnostic' = Len(diagnostics)
        /\ saved' = [states |-> states, values |-> values]
        /\ UNCHANGED <<states, values, recovering, buffered, shifted>>
    BY <1>5 DEF SyntaxError
  <2>2. Len(states) = Len(values) + 1 /\ ~HasAction(Back(states), buffered.sym)
    BY <1>0, <2>1 DEF MissingAction, Deciding, AlignedOK
  <2>3. saved'.states = states /\ saved'.values = values
    BY <2>1
  <2>4. /\ states' = SubSeq(saved'.states, 1, Len(states'))
        /\ values' = SubSeq(saved'.values, 1, Len(states') - 1)
    <3>1. Len(states) - 1 = Len(values)
      BY <1>0, <2>2
    <3> QED  BY <1>0, <2>1, <2>3, <3>1, SubSeqFull
  <2>5. \A k \in (Len(states') + 1)..Len(saved'.states) : FALSE
    BY <1>0, <2>1, <2>3
  <2>6. /\ Len(diagnostics') = Len(diagnostics) + 1
        /\ Back(diagnostics') = make_diagnostic
    BY <1>0, <2>1, DiagnosticFacts, PushFacts DEF Back
  <2>7. make_diagnostic = [state |-> Back(saved'.states), unexpected |-> buffered'.sym,
                           start |-> buffered'.from, kind |-> "none", discarded |-> 0,
                           shifts |-> shifted']
    BY <2>1, <2>3 DEF make_diagnostic
  <2>8. recovering' = 0 /\ ~HasAction(Back(saved.states), buffered.sym)'
    BY <1>0, <2>1, <2>2, <2>3 DEF HasAction
  <2> QED  BY <1>0, <2>1, <2>3, <2>4, <2>5, <2>6, <2>7, <2>8 DEF SearchOK
<1>6. CASE SearchPops
  <2> DEFINE h == Len(states)  ss == saved.states  sv == saved.values
  <2>1. /\ pc = "search" /\ ~CanShiftError(Back(states)) /\ h > 1
        /\ states' = Drop(states, 1)
        /\ values' = IF values = <<>> THEN values ELSE Drop(values, 1)
        /\ UNCHANGED <<pc, recovering, active_diagnostic, diagnostics, buffered, shifted, saved>>
    BY <1>6 DEF SearchPops, Searching
  <2>2. /\ ss \in Seq(Table.states) /\ sv \in Seq(Spans) /\ Len(ss) = Len(sv) + 1
        /\ h <= Len(ss) /\ states = SubSeq(ss, 1, h) /\ values = SubSeq(sv, 1, h - 1)
        /\ \A k \in (h + 1)..Len(ss) : ~CanShiftError(ss[k])
    BY <1>0, <2>1 DEF SavedOK, SearchOK, Between
  <2>3. h \in Nat /\ Len(ss) \in Nat /\ Len(sv) \in Nat
    BY <1>0, <2>2, LenProperties
  <2> HIDE DEF h, ss, sv
  <2>4. /\ h \in 0..Len(ss) /\ h - 1 \in 0..h /\ h \in 1..h /\ 1 \in 0..h
        /\ h - 1 \in 0..Len(sv) /\ h - 2 \in 0..(h - 1) /\ h - 1 - 1 = h - 2
    BY <2>1, <2>2, <2>3
  <2>5. states' = SubSeq(ss, 1, h - 1) /\ Len(states') = h - 1
    <3>1. states' = SubSeq(SubSeq(ss, 1, h), 1, h - 1)
      BY <2>1, <2>2 DEF Drop, h
    <3>2. states' = SubSeq(ss, 1, h - 1)
      BY <2>2, <2>4, <3>1, PrefixOfPrefix
    <3>3. h - 1 \in 0..Len(ss)
      BY <2>1, <2>2, <2>3
    <3> QED  BY <2>2, <3>2, <3>3, PrefixFacts
  <2>6. values' = SubSeq(sv, 1, h - 2)
    <3>1. Len(values) = h - 1
      BY <2>2, <2>4, PrefixFacts
    <3>2. values # <<>>
      BY <2>1, <2>3, <3>1
    <3>3. values' = SubSeq(SubSeq(sv, 1, h - 1), 1, h - 2)
      BY <2>1, <2>2, <2>4, <3>1, <3>2 DEF Drop
    <3> QED  BY <2>2, <2>4, <3>3, PrefixOfPrefix
  <2>7. Back(states) = ss[h]
    BY <2>2, <2>4, PrefixFacts DEF Back, h
  <2>8. \A k \in ((h - 1) + 1)..Len(ss) : ~CanShiftError(ss[k])
    <3>1. \A k \in ((h - 1) + 1)..Len(ss) : k = h \/ k \in (h + 1)..Len(ss)
      BY <2>3
    <3> QED  BY <2>1, <2>2, <2>7, <3>1
  <2>9. \A s : CanShiftError(s)' <=> CanShiftError(s)
    BY <1>0 DEF CanShiftError, HasAction
  <2>10. saved' = saved /\ h - 1 <= Len(ss)
    BY <2>1, <2>2, <2>3
  <2> QED  BY <1>0, <2>1, <2>5, <2>6, <2>8, <2>9, <2>10, <2>4 DEF SearchOK, HasAction, ss, sv
<1>7. CASE SearchSucceeds \/ SearchFails \/ Discard \/ AbortAtEnd
  BY <1>1, <1>7 DEF SearchSucceeds, SearchFails, Discard, AbortAtEnd, Return, MissingAction, Deciding
<1>8. CASE UNCHANGED vars
  BY <1>0, <1>8 DEF vars, SearchOK, HasAction, CanShiftError
<1> QED  BY <1>2, <1>3, <1>4, <1>5, <1>6, <1>7, <1>8 DEF Next, Recover

\* A handle is popped for a reduction that the table calls for.
LEMMA ReducingNext == IInv /\ [Next]_vars => ReducingOK'
<1> SUFFICES ASSUME IInv, [Next]_vars PROVE ReducingOK'
  OBVIOUS
<1> USE DEF setup, stacks, report, cursor
<1>0. /\ ControlOK /\ ReducingOK /\ Table' = Table /\ lang' = lang
  BY PackageKept DEF IInv
<1>1. ASSUME pc' # "reducing"
      PROVE  ReducingOK'
  BY <1>1 DEF ReducingOK
<1>2. ASSUME UNCHANGED <<pc, states, values, buffered, rule, saved>>
      PROVE  ReducingOK'
  BY <1>0, <1>2 DEF ReducingOK, HasAction, Rule
<1>3. CASE Start
  BY <1>1, <1>2, <1>3 DEF Start, Construct, CallerRemovesHandler, Call
<1>4. CASE Peek
  BY <1>1, <1>4 DEF Peek, PeekLexeme, PeekEnd, PeekExplicitEnd, PeekThrows, Peeking, SourceErrors
<1>5. CASE Shift \/ ReducerThrows \/ PushReduction \/ Accept
  BY <1>1, <1>5 DEF Shift, ReducerThrows, PushReduction, Accept, Throw, Return, ActionIs, Deciding
<1>6. CASE PopHandle
  <2>1. CASE Action.rule \in DOMAIN Table.rules /\ HandleFits
    <3>1. /\ HasAction(Back(states), buffered.sym) /\ Action.kind = "reduce"
          /\ rule' = Action.rule /\ buffered' = buffered
          /\ values' = Drop(values, HandleSize) /\ states' = Drop(states, HandleSize)
          /\ saved' = [states |-> states, values |-> values]
      BY <1>6, <2>1 DEF PopHandle, ActionIs
    <3>2. saved'.states = states /\ saved'.values = values
      BY <3>1
    <3>3. Len(states) >= HandleSize + 1 /\ HandleSize = Len(Rule(Action.rule).rhs)
      BY <2>1 DEF HandleFits, HandleSize
    <3>4. HandleSize + 1 <= Len(states)
      <4>1. HandleSize \in Nat /\ Len(states) \in Nat
        BY <1>0, <2>1, <3>3, TableFacts, LenProperties
      <4> QED  BY <3>3, <4>1
    <3>5. Rule(Action.rule)' = Rule(Action.rule') /\ \A r : Rule(r)' = Rule(r)
      BY <1>0 DEF Rule
    <3> QED  BY <1>0, <2>1, <3>1, <3>2, <3>3, <3>4, <3>5 DEF ReducingOK, HasAction, Action, Drop
  <2>2. CASE ~(Action.rule \in DOMAIN Table.rules /\ HandleFits)
    BY <1>1, <1>6, <2>2 DEF PopHandle, Throw
  <2> QED  BY <2>1, <2>2
<1>7. CASE Recover
  BY <1>1, <1>7 DEF Recover, SyntaxError, SearchPops, SearchSucceeds, SearchFails, Discard,
                    AbortAtEnd, Searching, Return, MissingAction, Deciding
<1>8. CASE UNCHANGED vars
  BY <1>2, <1>8 DEF vars
<1> QED  BY <1>3, <1>4, <1>5, <1>6, <1>7, <1>8 DEF Next, Act

\* The Parser keeps the map that was checked.
LEMMA MapNext == IInv /\ [Next]_vars => MapOK'
<1> SUFFICES ASSUME IInv, [Next]_vars PROVE MapOK'
  OBVIOUS
<1> USE DEF setup, stacks, report, cursor, MapOK, HandlersSuffice
<1>0. ControlOK /\ ReducingOK /\ MapOK /\ lang' = lang /\ Table' = Table
  BY PackageKept DEF IInv
<1>1. \A handlers : Covers(handlers)' <=> Covers(handlers)
  BY <1>0 DEF Covers, Required, Rule
<1>2. CASE Construct
  BY <1>0, <1>1, <1>2 DEF Construct
<1>3. CASE CallerRemovesHandler \/ Call
  BY <1>0, <1>1, <1>3 DEF CallerRemovesHandler, Call
<1>4. CASE Peek
  BY <1>0, <1>1, <1>4 DEF Peek, PeekLexeme, PeekEnd, PeekExplicitEnd, PeekThrows, Peeking, SourceErrors
<1>5. CASE ReducerThrows
  <2>1. ~Unregistered
    <3>1. rule \in DOMAIN Table.rules /\ pc # "refused"
      BY <1>0, <1>5 DEF ReducerThrows, ReducingOK
    <3> QED  BY <1>0, <3>1 DEF Unregistered, Covers, Required
  <2> QED  BY <1>0, <1>1, <1>5, <2>1 DEF ReducerThrows
<1>6. CASE Shift \/ PopHandle \/ PushReduction \/ Accept
  BY <1>0, <1>1, <1>6 DEF Shift, PopHandle, PushReduction, Accept, Throw, Return, ActionIs, Deciding
<1>7. CASE Recover
  BY <1>0, <1>1, <1>7 DEF Recover, SyntaxError, SearchPops, SearchSucceeds, SearchFails, Discard,
                          AbortAtEnd, Searching, Return, MissingAction, Deciding
<1>8. CASE UNCHANGED vars
  BY <1>0, <1>1, <1>8 DEF vars
<1> QED  BY <1>2, <1>3, <1>4, <1>5, <1>6, <1>7, <1>8 DEF Next, Start, Act

\* The invariant holds when a Parser is declared.
LEMMA InvInit == Init => IInv
<1> SUFFICES ASSUME Init PROVE IInv
  OBVIOUS
<1>1. SoundTables(Table) /\ 0 \in Table.states
  BY TablesAreSound DEF Init, Table, SoundTables
<1>2. ControlOK
  <2>1. states \in Seq(Table.states) /\ Len(states) = 1
    BY <1>1, SingletonFacts DEF Init
  <2>2. values = <<>> /\ diagnostics = <<>> /\ Len(diagnostics) = 0
    BY EmptySeq DEF Init
  <2>3. values \in Seq(Spans) /\ diagnostics \in Seq(Reports)
    BY <2>2, EmptySeq
  <2> QED  BY <2>1, <2>2, <2>3 DEF Init, ControlOK
<1>3. CursorOK
  <2>1. EOF \in Symbols
    BY DEF Symbols
  <2>2. pulled \in Seq(Symbols) /\ Len(pulled) = 0
    BY EmptySeq DEF Init
  <2> QED  BY <2>1, <2>2 DEF Init, CursorOK, Spans
<1>4. LoopOK /\ SavedOK /\ SearchOK /\ ReducingOK /\ MapOK
  BY DEF Init, LoopOK, SavedOK, Between, SearchOK, ReducingOK, MapOK, HandlersSuffice
<1>5. AlignedOK
  <2>1. Len(<<0>>) = 1 /\ Len(<<>>) = 0
    OBVIOUS
  <2> QED  BY <2>1 DEF Init, AlignedOK
<1> QED  BY <1>2, <1>3, <1>4, <1>5 DEF IInv

\* The invariant holds in every reachable state.
LEMMA Invariance == Spec => []IInv
<1>1. IInv /\ [Next]_vars => IInv'
  BY ControlNext, CursorNext, LoopNext, AlignedNext, SavedNext, SearchNext, ReducingNext, MapNext
     DEF IInv
<1> QED  BY InvInit, <1>1, PTL DEF Spec

\* HandlersSuffice: a checked map suffices for the whole call, whatever the
\* caller does to the map it was copied from.
THEOREM CheckedMapsSuffice == Spec => []HandlersSuffice
<1>1. IInv => HandlersSuffice
  BY DEF IInv, MapOK
<1> QED  BY <1>1, Invariance, PTL

-----------------------------------------------------------------------------
(* Every step is a step of LRParser, or none. *)

\* The two modules read the same tables.
LEMMA SameTables ==
  /\ LRP!Table = Table /\ LRP!EOF = EOF /\ LRP!Error = Error /\ LRP!Unknown = Unknown
  /\ \A r : LRP!Rule(r) = Rule(r)
  /\ \A seq : LRP!Top(seq) = Back(seq)
  /\ \A seq, n : LRP!Drop(seq, n) = Drop(seq, n)
  /\ \A s, t : LRP!HasAction(s, t) <=> HasAction(s, t)
  /\ \A s : LRP!CanShiftError(s) <=> CanShiftError(s)
BY DEF LRP!Table, Table, LRP!EOF, EOF, LRP!Error, Error, LRP!Unknown, Unknown, LRP!Rule, Rule,
       LRP!Top, Back, LRP!Drop, Drop, LRP!HasAction, HasAction, LRP!CanShiftError, CanShiftError

\* The lookahead lies where LRParser has consumed the input.
LEMMA SamePosition ==
  ASSUME CursorOK, ready
  PROVE  /\ LRP!Consumed = buffered.from /\ buffered.from \in Nat
         /\ buffered.sym # EOF => LRP!LexemeValue = buffered
         /\ LRP!ErrorValue = error_lexeme
<1>1. /\ buffered.from \in Nat /\ Len(pulled) \in Nat
      /\ buffered = [sym |-> buffered.sym, from |-> buffered.from, to |-> buffered.to]
  BY LenProperties DEF CursorOK, Spans
<1>2. LRP!Consumed = buffered.from
  BY <1>1, SameTables DEF LRP!Consumed, CursorOK
<1>3. ASSUME buffered.sym # EOF
      PROVE  buffered.to = buffered.from + 1
  BY <1>1, <1>3 DEF CursorOK
<1> QED  BY <1>1, <1>2, <1>3, SameTables DEF LRP!LexemeValue, LRP!ErrorValue, error_lexeme

\* Before and after each iteration of the loop LRParser sees the variables.
LEMMA LoopView ==
  ASSUME pc = "loop"
  PROVE  /\ LRStatus = "running" /\ LRStates = states /\ LRValues = values
         /\ LRActive = active_diagnostic + 1 /\ LRDiagnostics = diagnostics
BY DEF LRStatus, LRStates, LRValues, LRActive, LRDiagnostics, Between, ReducerErrors

\* The tables' entry for the lookahead, seen from both sides.
LEMMA SameEntry ==
  ASSUME pc = "loop"
  PROVE  /\ LRP!Deciding <=> Deciding
         /\ LRP!TopState = Back(states) /\ LRP!Action = Action
         /\ LRP!MissingAction <=> MissingAction
         /\ \A kind : LRP!ActionIs(kind) <=> ActionIs(kind)
<1>1. LRP!TopState = Back(states)
  BY LoopView, SameTables DEF LRP!TopState
<1>2. LRP!Action = Action
  BY <1>1, SameTables DEF LRP!Action, Action
<1>3. LRP!Deciding <=> Deciding
  BY LoopView DEF LRP!Deciding, Deciding
<1> QED  BY <1>1, <1>2, <1>3, SameTables DEF LRP!MissingAction, MissingAction, LRP!ActionIs, ActionIs

\* Before the loop.
LEMMA StartStep ==
  ASSUME Start
  PROVE  LRP!Begin \/ UNCHANGED LRP!vars
<1> USE DEF setup, stacks, report, cursor, LRStatus, LRStates, LRValues, LRActive, LRDiagnostics,
            Between, ReducerErrors, LRP!stack, LRP!report, LRP!cursor
<1>1. CASE Construct
  BY <1>1 DEF Construct, LRP!Begin, LRP!vars
<1>2. CASE CallerRemovesHandler
  BY <1>2 DEF CallerRemovesHandler, LRP!vars
<1>3. CASE Call
  BY <1>3 DEF Call, LRP!Begin
<1> QED  BY <1>1, <1>2, <1>3 DEF Start

\* The cursor.
LEMMA PeekStep ==
  ASSUME CursorOK, Peek
  PROVE  LRP!Peek
<1> USE DEF setup, stacks, report, cursor, LRP!stack, LRP!report, LRP!cursor, LRP!Peeking, Peeking
<1>1. pc = "loop" /\ ready = FALSE /\ LRP!EOF = EOF /\ LRP!Table = Table /\ LRP!Unknown = Unknown
      /\ LRStatus = "running"
  BY SameTables, LoopView DEF Peek, PeekLexeme, PeekEnd, PeekExplicitEnd, PeekThrows, CursorOK
<1>2. ASSUME pc' = "loop", UNCHANGED <<states, values, active_diagnostic, diagnostics>>
      PROVE  UNCHANGED <<LRStatus, LRStates, LRValues, LRActive, LRDiagnostics>>
  BY <1>1, <1>2 DEF LRStatus, LRStates, LRValues, LRActive, LRDiagnostics, Between, ReducerErrors
<1>3. CASE PeekLexeme
  BY <1>1, <1>2, <1>3 DEF PeekLexeme, LRP!PeekLexeme, LRP!Peek
<1>4. CASE PeekEnd \/ PeekExplicitEnd
  BY <1>1, <1>2, <1>4 DEF PeekEnd, PeekExplicitEnd, eof_lexeme, normalize_eof, LRP!PeekEnd, LRP!Peek
<1>5. CASE PeekThrows
  <2>1. pc' \in SourceErrors /\ UNCHANGED <<states, values, active_diagnostic, diagnostics>>
    BY <1>5 DEF PeekThrows
  <2>2. LRStatus' \in LRP!SourceErrors
        /\ UNCHANGED <<LRStates, LRValues, LRActive, LRDiagnostics>>
    BY <1>1, <2>1 DEF SourceErrors, LRP!SourceErrors, LRStatus, LRStates, LRValues, LRActive,
                      LRDiagnostics, Between, ReducerErrors
  <2> QED  BY <1>1, <1>5, <2>1, <2>2 DEF PeekThrows, LRP!PeekFails, LRP!Peek
<1> QED  BY <1>3, <1>4, <1>5 DEF Peek

\* Shifting.
LEMMA ShiftStep ==
  ASSUME IInv, Shift
  PROVE  LRP!Shift
<1> USE DEF setup, stacks, report, cursor, LRP!stack, LRP!report, LRP!cursor
<1>1. /\ ControlOK /\ CursorOK /\ pc = "loop" /\ ready /\ ActionIs("shift")
  BY DEF IInv, Shift, ActionIs, Deciding
<1>2. buffered.sym # EOF
  BY <1>1, TableFacts, EntryFacts DEF ActionIs, Action
<1>3. /\ states' = Append(states, Action.state) /\ values' = Append(values, buffered)
      /\ ready' = FALSE /\ shifted' = shifted + 1 /\ CountShift /\ pc' = "loop"
      /\ UNCHANGED <<lang, buffered, saw_eof, pulled>>
  BY <1>1, <1>2 DEF Shift
<1>4. /\ LRStatus' = "running" /\ LRStates' = states' /\ LRValues' = values'
      /\ LRActive' = active_diagnostic' + 1 /\ LRDiagnostics' = diagnostics'
  BY <1>3 DEF LRStatus, LRStates, LRValues, LRActive, LRDiagnostics, Between, ReducerErrors
<1>5. LRP!CountShift
  <2>1. active_diagnostic \in Int
    BY <1>1, TableFacts DEF ControlOK
  <2>2. LRActive = active_diagnostic + 1 /\ LRDiagnostics = diagnostics
    BY <1>1, LoopView
  <2>3. CASE recovering = 1 /\ active_diagnostic >= 0
    BY <1>3, <1>4, <2>1, <2>2, <2>3 DEF CountShift, LRP!CountShift
  <2>4. CASE ~(recovering = 1 /\ active_diagnostic >= 0)
    BY <1>3, <1>4, <2>1, <2>2, <2>4 DEF CountShift, LRP!CountShift
  <2> QED  BY <2>3, <2>4
<1>6. LRP!ActionIs("shift") /\ LRP!Action = Action /\ LRP!LexemeValue = buffered /\ LRP!EOF = EOF
  BY <1>1, <1>2, SameEntry, SamePosition, SameTables
<1>7. LRStatus = "running" /\ LRStates = states /\ LRValues = values
  BY <1>1, LoopView
<1> QED  BY <1>2, <1>3, <1>4, <1>5, <1>6, <1>7 DEF LRP!Shift

\* Popping the handle is no step of LRParser yet, unless there is none to pop.
LEMMA PopStep ==
  ASSUME IInv, PopHandle
  PROVE  LRP!Reduce \/ UNCHANGED LRP!vars
<1> USE DEF setup, stacks, report, cursor, LRP!stack, LRP!report, LRP!cursor
<1>1. ControlOK /\ CursorOK /\ pc = "loop" /\ ready /\ ActionIs("reduce")
  BY DEF IInv, PopHandle, ActionIs, Deciding
<1>2. Action.rule \in DOMAIN Table.rules
  BY <1>1, TableFacts, EntryFacts DEF ActionIs, Action
<1>3. /\ LRStatus = "running" /\ LRStates = states /\ LRValues = values
      /\ LRActive = active_diagnostic + 1 /\ LRDiagnostics = diagnostics
  BY <1>1, LoopView
<1>4. CASE HandleFits
  <2>1. /\ saved' = [states |-> states, values |-> values] /\ pc' = "reducing"
        /\ UNCHANGED <<lang, recovering, active_diagnostic, diagnostics, buffered, ready,
                       saw_eof, pulled, shifted>>
    BY <1>2, <1>4 DEF PopHandle
  <2>2. /\ LRStatus' = "running" /\ LRStates' = states /\ LRValues' = values
        /\ LRActive' = active_diagnostic + 1 /\ LRDiagnostics' = diagnostics
    BY <2>1 DEF LRStatus, LRStates, LRValues, LRActive, LRDiagnostics, Between, ReducerErrors
  <2> QED  BY <1>3, <2>1, <2>2 DEF LRP!vars
<1>5. CASE ~HandleFits
  <2>1. /\ pc' = "stack underflow"
        /\ UNCHANGED <<lang, states, values, recovering, active_diagnostic, diagnostics, buffered,
                       ready, saw_eof, pulled, shifted>>
    BY <1>2, <1>5 DEF PopHandle, Throw
  <2>2. /\ LRStatus' = "stack underflow" /\ LRStates' = states /\ LRValues' = values
        /\ LRActive' = active_diagnostic + 1 /\ LRDiagnostics' = diagnostics
    BY <2>1 DEF LRStatus, LRStates, LRValues, LRActive, LRDiagnostics, Between, ReducerErrors
  <2>3. ~LRP!HandleFits
    <3>1. LRP!HandleSize = HandleSize
      BY <1>1, SameEntry, SameTables DEF LRP!HandleSize, HandleSize
    <3>2. HandleSize \in Nat /\ Len(states) \in Nat
      BY <1>1, <1>2, TableFacts, LenProperties DEF HandleSize
    <3> QED  BY <1>3, <1>5, <3>1, <3>2 DEF LRP!HandleFits, HandleFits
  <2>4. LRP!ActionIs("reduce")
    BY <1>1, SameEntry
  <2> QED  BY <1>3, <2>1, <2>2, <2>3, <2>4 DEF LRP!Reduce, LRP!Fail
<1> QED  BY <1>4, <1>5

\* While the reducer runs, LRParser has the whole handle on its stacks.
LEMMA ReducingView ==
  ASSUME IInv, pc = "reducing"
  PROVE  /\ LRStatus = "running" /\ LRStates = saved.states /\ LRValues = saved.values
         /\ LRActive = active_diagnostic + 1 /\ LRDiagnostics = diagnostics
         /\ LRP!ActionIs("reduce") /\ LRP!Action.rule = rule /\ LRP!HandleFits
         /\ LRP!HandleSize = Len(Rule(rule).rhs) /\ rule \in DOMAIN Table.rules
         /\ LRP!Drop(LRStates, LRP!HandleSize) = states
         /\ LRP!Drop(LRValues, LRP!HandleSize) = values
         /\ LRP!Handle = rhs_values
<1>1. ControlOK /\ CursorOK /\ SavedOK /\ ReducingOK /\ ready
  BY DEF IInv, SavedOK, Between
<1>2. /\ LRStatus = "running" /\ LRStates = saved.states /\ LRValues = saved.values
      /\ LRActive = active_diagnostic + 1 /\ LRDiagnostics = diagnostics
  BY DEF LRStatus, LRStates, LRValues, LRActive, LRDiagnostics, Between, ReducerErrors
<1>3. LRP!TopState = Back(saved.states)
      /\ LRP!Action = Table.actions[Back(saved.states)][buffered.sym]
  BY <1>2, SameTables DEF LRP!TopState, LRP!Action
<1>4. LRP!ActionIs("reduce") /\ LRP!Action.rule = rule /\ rule \in DOMAIN Table.rules
  BY <1>1, <1>2, <1>3, SameTables DEF LRP!ActionIs, LRP!Deciding, ReducingOK
<1>5. LRP!HandleSize = Len(Rule(rule).rhs)
  BY <1>4, SameTables DEF LRP!HandleSize
<1>6. LRP!HandleFits
  <2> DEFINE n == Len(Rule(rule).rhs)
  <2>1. /\ n \in 0..Len(saved.values) /\ Len(saved.states) = Len(saved.values) + 1
        /\ Len(saved.values) \in Nat
    BY <1>1, ReducedFacts, LenProperties DEF SavedOK, Between
  <2> HIDE DEF n
  <2>2. Len(saved.states) > n /\ Len(saved.values) >= n
    BY <2>1
  <2> QED  BY <1>2, <1>5, <2>2 DEF LRP!HandleFits, n
<1>7. /\ LRP!Drop(LRStates, LRP!HandleSize) = states
      /\ LRP!Drop(LRValues, LRP!HandleSize) = values
  BY <1>1, <1>2, <1>5, SameTables DEF ReducingOK
<1>8. LRP!Handle = rhs_values
  BY <1>1, <1>2, <1>5, ReducedFacts DEF LRP!Handle
<1> QED  BY <1>2, <1>4, <1>5, <1>6, <1>7, <1>8

\* A reducer that throws.
LEMMA ReducerStep ==
  ASSUME IInv, ReducerThrows
  PROVE  LRP!ReducerFails
<1> USE DEF setup, stacks, report, cursor, LRP!stack, LRP!report, LRP!cursor
<1>1. /\ pc = "reducing" /\ Rule(rule).hook /\ pc' \in ReducerErrors
      /\ UNCHANGED <<lang, states, values, recovering, active_diagnostic, diagnostics, buffered,
                     ready, saw_eof, pulled, shifted, saved>>
  BY DEF ReducerThrows, ReducerErrors
<1>2. /\ LRStatus' = "reducer error" /\ LRStates' = saved.states /\ LRValues' = values
      /\ LRActive' = active_diagnostic + 1 /\ LRDiagnostics' = diagnostics
  BY <1>1 DEF LRStatus, LRStates, LRValues, LRActive, LRDiagnostics, Between, ReducerErrors
<1> QED  BY <1>1, <1>2, ReducingView, SameTables DEF LRP!ReducerFails

\* The reduction of LRParser takes place when the reducer returns.
LEMMA PushStep ==
  ASSUME IInv, PushReduction
  PROVE  LRP!Reduce
<1> USE DEF setup, stacks, report, cursor, LRP!stack, LRP!report, LRP!cursor
<1> DEFINE lhs == Rule(rule).lhs  kept == LRP!Drop(LRStates, LRP!HandleSize)
<1>1. pc = "reducing" /\ CursorOK /\ ready
  BY DEF PushReduction, IInv, SavedOK, Between
<1>2. UNCHANGED <<lang, recovering, active_diagnostic, diagnostics, buffered, ready, saw_eof,
                  pulled, shifted>>
  BY DEF PushReduction
<1>3. kept = states /\ LRP!Rule(LRP!Action.rule).lhs = lhs /\ LRP!Top(kept) = Back(states)
      /\ LRP!Table = Table
  BY <1>1, ReducingView, SameTables
<1>4. LRP!Reduced(lhs, LRP!Handle) = Reduced
  <2>1. LRP!Handle = rhs_values /\ LRP!Consumed = buffered.from
    BY <1>1, ReducingView, SamePosition
  <2>2. \A seq : LRP!Top(seq) = Back(seq)
    BY SameTables
  <2> QED  BY <2>1, <2>2 DEF LRP!Reduced, Reduced
<1>5. LRP!ActionIs("reduce") /\ LRP!HandleFits /\ LRP!Drop(LRValues, LRP!HandleSize) = values
      /\ LRStatus = "running" /\ LRActive = active_diagnostic + 1 /\ LRDiagnostics = diagnostics
  BY <1>1, ReducingView
<1> HIDE DEF kept, lhs
<1>6. CASE lhs \in DOMAIN Table.gotos[Back(states)]
  <2>1. /\ states' = Append(states, Table.gotos[Back(states)][lhs])
        /\ values' = Append(values, Reduced) /\ pc' = "loop"
    BY <1>6 DEF PushReduction, lhs
  <2>2. /\ LRStatus' = "running" /\ LRStates' = states' /\ LRValues' = values'
        /\ LRActive' = active_diagnostic + 1 /\ LRDiagnostics' = diagnostics
    BY <1>2, <2>1 DEF LRStatus, LRStates, LRValues, LRActive, LRDiagnostics, Between, ReducerErrors
  <2> QED  BY <1>2, <1>3, <1>4, <1>5, <1>6, <2>1, <2>2 DEF LRP!Reduce, kept
<1>7. CASE lhs \notin DOMAIN Table.gotos[Back(states)]
  <2>1. pc' = "missing goto" /\ UNCHANGED <<states, values>>
    BY <1>7 DEF PushReduction, lhs
  <2>2. /\ LRStatus' = "missing goto" /\ LRStates' = states /\ LRValues' = values
        /\ LRActive' = active_diagnostic + 1 /\ LRDiagnostics' = diagnostics
    BY <1>2, <2>1 DEF LRStatus, LRStates, LRValues, LRActive, LRDiagnostics, Between, ReducerErrors
  <2> QED  BY <1>2, <1>3, <1>5, <1>7, <2>1, <2>2 DEF LRP!Reduce, kept
<1> QED  BY <1>6, <1>7

\* Accepting, discarding, and giving up at the end of the input.
LEMMA EndStep ==
  ASSUME IInv, Accept \/ AbortAtEnd
  PROVE  LRP!Accept \/ LRP!AbortAtEnd
<1> USE DEF setup, stacks, report, cursor, LRP!stack, LRP!report, LRP!cursor
<1>1. /\ ControlOK /\ pc = "loop" /\ active_diagnostic \in Int
      /\ UNCHANGED <<lang, states, values, recovering, active_diagnostic, buffered, ready, saw_eof,
                     pulled, shifted>>
  BY TableFacts DEF IInv, Accept, AbortAtEnd, ActionIs, MissingAction, Deciding, ControlOK
<1>2. LRActive = active_diagnostic + 1 /\ LRDiagnostics = diagnostics
      /\ LRStates = states /\ LRValues = values
  BY <1>1, LoopView
<1>3. ASSUME pc' \in Returned
      PROVE  /\ LRStatus' = pc' /\ LRStates' = states /\ LRValues' = values
             /\ LRActive' = active_diagnostic + 1 /\ LRDiagnostics' = diagnostics'
  BY <1>1, <1>3 DEF Returned, LRStatus, LRStates, LRValues, LRActive, LRDiagnostics, Between,
                    ReducerErrors
<1>4. ASSUME NEW kind, Settle(kind)
      PROVE  diagnostics' = IF LRActive > 0 THEN [LRDiagnostics EXCEPT ![LRActive].kind = kind]
                                            ELSE LRDiagnostics
  BY <1>1, <1>2, <1>4 DEF Settle
<1>5. CASE Accept
  <2>1. pc' = "accepted" /\ Settle("recovered") /\ LRP!ActionIs("accept")
    BY <1>1, <1>5, SameEntry DEF Accept, Return
  <2> QED  BY <1>1, <1>2, <1>3, <1>4, <2>1 DEF LRP!Accept, Returned
<1>6. CASE AbortAtEnd
  <2>1. /\ pc' = "aborted" /\ Settle("abort") /\ LRP!MissingAction /\ recovering > 0
        /\ buffered.sym = LRP!EOF
    BY <1>1, <1>6, SameEntry, SameTables DEF AbortAtEnd, Return
  <2> QED  BY <1>1, <1>2, <1>3, <1>4, <2>1 DEF LRP!AbortAtEnd, Returned
<1> QED  BY <1>5, <1>6

\* A discard is the discard of LRParser.
LEMMA DiscardStep ==
  ASSUME IInv, Discard
  PROVE  LRP!Discard
<1> USE DEF setup, stacks, report, cursor, LRP!stack, LRP!report, LRP!cursor
<1>1. /\ ControlOK /\ pc = "loop" /\ pc' = "loop" /\ active_diagnostic \in Int
      /\ recovering > 0 /\ buffered.sym # EOF /\ ready' = FALSE
      /\ UNCHANGED <<lang, states, values, recovering, active_diagnostic, buffered, saw_eof,
                     pulled, shifted>>
  BY TableFacts DEF IInv, Discard, MissingAction, Deciding, ControlOK
<1>2. LRActive = active_diagnostic + 1 /\ LRDiagnostics = diagnostics
      /\ LRStates = states /\ LRValues = values /\ LRStatus = "running"
  BY <1>1, LoopView
<1>3. /\ LRStatus' = "running" /\ LRStates' = states /\ LRValues' = values
      /\ LRActive' = active_diagnostic + 1 /\ LRDiagnostics' = diagnostics'
  BY <1>1 DEF LRStatus, LRStates, LRValues, LRActive, LRDiagnostics, Between, ReducerErrors
<1>4. LRP!MissingAction /\ LRP!EOF = EOF
  BY <1>1, SameEntry, SameTables DEF Discard
<1>5. diagnostics' = IF LRActive > 0 THEN [LRDiagnostics EXCEPT ![LRActive].discarded = @ + 1]
                                     ELSE LRDiagnostics
  BY <1>1, <1>2 DEF Discard
<1> QED  BY <1>1, <1>2, <1>3, <1>4, <1>5 DEF LRP!Discard

-----------------------------------------------------------------------------
(* The search for a state that shifts `error' is one step of LRParser. *)

\* While the search is on, LRParser still has the whole stacks and no diagnostic.
LEMMA SearchView ==
  ASSUME IInv, pc = "search"
  PROVE  /\ LRStatus = "running" /\ LRStates = saved.states /\ LRValues = saved.values
         /\ LRActive = 0 /\ LRDiagnostics = Drop(diagnostics, 1)
         /\ LRP!MissingAction /\ recovering = 0
<1>1. /\ LRStatus = "running" /\ LRStates = saved.states /\ LRValues = saved.values
      /\ LRActive = 0 /\ LRDiagnostics = Drop(diagnostics, 1)
  BY DEF LRStatus, LRStates, LRValues, LRActive, LRDiagnostics, Between, ReducerErrors
<1>2. ready /\ recovering = 0 /\ ~HasAction(Back(saved.states), buffered.sym)
  BY DEF IInv, SavedOK, SearchOK, Between
<1> QED  BY <1>1, <1>2, SameTables DEF LRP!MissingAction, LRP!Deciding, LRP!TopState

\* Recording the diagnostic and popping a state are no steps of LRParser.
LEMMA SearchStutters ==
  ASSUME IInv, SyntaxError \/ SearchPops
  PROVE  UNCHANGED LRP!vars
<1> USE DEF setup, stacks, report, cursor, LRP!stack, LRP!report, LRP!cursor, LRP!vars
<1>0. ControlOK /\ CursorOK /\ diagnostics \in Seq(Reports) /\ active_diagnostic \in Int
  BY TableFacts DEF IInv, ControlOK
<1>1. CASE SyntaxError
  <2>1. /\ pc = "loop" /\ pc' = "search" /\ recovering = 0
        /\ saved' = [states |-> states, values |-> values]
        /\ diagnostics' = Append(diagnostics, make_diagnostic)
        /\ UNCHANGED <<lang, recovering, buffered, ready, saw_eof, pulled, shifted>>
    BY <1>1 DEF SyntaxError, MissingAction, Deciding
  <2>2. Drop(diagnostics', 1) = diagnostics
    BY <1>0, <2>1, DiagnosticFacts, PopPushed DEF Drop
  <2>3. active_diagnostic + 1 = 0
    <3>1. ~(active_diagnostic >= 0) /\ active_diagnostic >= -1
      BY <1>0, <2>1 DEF IInv, LoopOK, ControlOK
    <3> QED  BY <1>0, <3>1
  <2>4. /\ LRStatus = "running" /\ LRStates = states /\ LRValues = values
        /\ LRActive = 0 /\ LRDiagnostics = diagnostics
    BY <2>1, <2>3, LoopView
  <2>5. /\ LRStatus' = "running" /\ LRStates' = states /\ LRValues' = values
        /\ LRActive' = 0 /\ LRDiagnostics' = Drop(diagnostics', 1)
    BY <2>1 DEF LRStatus, LRStates, LRValues, LRActive, LRDiagnostics, Between, ReducerErrors, Drop
  <2> QED  BY <2>1, <2>2, <2>4, <2>5
<1>2. CASE SearchPops
  <2>1. /\ pc = "search" /\ pc' = "search"
        /\ UNCHANGED <<lang, recovering, active_diagnostic, diagnostics, buffered, ready, saw_eof,
                       pulled, shifted, saved>>
    BY <1>2 DEF SearchPops, Searching
  <2>2. UNCHANGED <<LRStatus, LRStates, LRValues, LRActive, LRDiagnostics>>
    BY <2>1 DEF LRStatus, LRStates, LRValues, LRActive, LRDiagnostics, Between, Drop
  <2> QED  BY <2>1, <2>2
<1> QED  BY <1>1, <1>2

\* When the search ends, its diagnostic is the one LRParser appends.
LEMMA SearchReport ==
  ASSUME IInv, pc = "search", NEW kind \in Kinds,
         diagnostics' = [diagnostics EXCEPT ![active_diagnostic + 1].kind = kind]
  PROVE  /\ diagnostics' = Append(LRDiagnostics, LRP!Diagnosis(kind))
         /\ active_diagnostic + 1 = Len(LRDiagnostics) + 1
<1>1. /\ ControlOK /\ CursorOK /\ SearchOK /\ ready /\ diagnostics \in Seq(Reports)
      /\ Len(diagnostics) \in Nat
  BY TableFacts DEF IInv, SavedOK, Between, ControlOK
<1>2. /\ Len(diagnostics) >= 1 /\ active_diagnostic + 1 = Len(diagnostics)
      /\ Back(diagnostics) =
           [state |-> Back(saved.states), unexpected |-> buffered.sym, start |-> buffered.from,
            kind |-> "none", discarded |-> 0, shifts |-> shifted]
  BY <1>1 DEF SearchOK
<1>3. LRP!Diagnosis(kind) = [Back(diagnostics) EXCEPT !.kind = kind]
  <2>1. LRP!TopState = Back(saved.states) /\ LRP!Consumed = buffered.from
    BY <1>1, SearchView, SameTables, SamePosition DEF LRP!TopState
  <2> QED  BY <1>2, <2>1 DEF LRP!Diagnosis
<1>4. LRP!Diagnosis(kind) \in Reports
  <2>1. Back(diagnostics) \in Reports
    BY <1>1, <1>2, BackFacts
  <2> QED  BY <1>3, <2>1 DEF Reports
<1>5. diagnostics' = [diagnostics EXCEPT ![Len(diagnostics)] = LRP!Diagnosis(kind)]
  BY <1>2, <1>3 DEF Back
<1>6. LRDiagnostics = SubSeq(diagnostics, 1, Len(diagnostics) - 1)
  BY SearchView DEF Drop
<1>7. diagnostics' = Append(LRDiagnostics, LRP!Diagnosis(kind))
  BY <1>1, <1>2, <1>4, <1>5, <1>6, ReplaceTop
<1>8. Len(LRDiagnostics) = Len(diagnostics) - 1
  <2>1. 1 \in 0..Len(diagnostics)
    BY <1>1, <1>2
  <2> QED  BY <1>1, <2>1, SearchView, DropFacts
<1>9. active_diagnostic + 1 = Len(LRDiagnostics) + 1
  <2>1. Len(diagnostics) \in Nat /\ active_diagnostic + 1 = Len(diagnostics)
    BY <1>1, <1>2
  <2> QED  BY <1>8, <2>1
<1> QED  BY <1>7, <1>9

\* The state at which the search stops is the greatest that shifts `error'.
LEMMA SearchSucceedsStep ==
  ASSUME IInv, SearchSucceeds
  PROVE  LRP!ShiftError
<1> USE DEF setup, stacks, report, cursor, LRP!stack, LRP!report, LRP!cursor
<1> DEFINE h == Len(states)
<1>1. /\ ControlOK /\ CursorOK /\ SearchOK /\ SavedOK /\ pc = "search" /\ ready
      /\ h \in Nat \ {0} /\ saved.states \in Seq(Table.states)
      /\ Len(saved.states) \in Nat
  BY TableFacts, LenProperties DEF IInv, SearchSucceeds, Searching, SavedOK, Between
<1>2. /\ CanShiftError(Back(states))
      /\ states' = Append(states, Table.actions[Back(states)][Error].state)
      /\ values' = Append(values, error_lexeme) /\ recovering' = 3
      /\ diagnostics' = [diagnostics EXCEPT ![active_diagnostic + 1].kind = "shift-error"]
      /\ pc' = "loop"
      /\ UNCHANGED <<lang, active_diagnostic, buffered, ready, saw_eof, pulled, shifted>>
  BY DEF SearchSucceeds
<1>3. /\ h \in 1..Len(saved.states) /\ h \in 0..Len(saved.states)
      /\ states = SubSeq(saved.states, 1, h) /\ values = SubSeq(saved.values, 1, h - 1)
      /\ \A k \in (h + 1)..Len(saved.states) : ~CanShiftError(saved.states[k])
  BY <1>1 DEF SearchOK
<1>4. Back(states) = saved.states[h]
  <2>1. h \in 1..h
    BY <1>1
  <2> QED  BY <1>1, <1>3, <2>1, PrefixFacts DEF Back
<1> HIDE DEF h
<1>5. LRStates = saved.states /\ LRValues = saved.values /\ recovering = 0
      /\ LRStatus = "running" /\ LRP!MissingAction
  BY <1>1, SearchView
<1>6. LRP!StopsAt(h)
  <2>1. h \in LRP!RecoveryHeights
    BY <1>2, <1>3, <1>4, <1>5, SameTables DEF LRP!RecoveryHeights
  <2>2. ASSUME NEW k \in LRP!RecoveryHeights
        PROVE  k <= h
    <3>1. k \in 1..Len(saved.states) /\ CanShiftError(saved.states[k])
      BY <1>5, <2>2, SameTables DEF LRP!RecoveryHeights
    <3>2. k \notin (h + 1)..Len(saved.states)
      BY <1>3, <3>1
    <3> QED  BY <1>1, <3>1, <3>2
  <2> QED  BY <2>1, <2>2 DEF LRP!StopsAt
<1>7. /\ LRStatus' = "running" /\ LRStates' = states' /\ LRValues' = values'
      /\ LRActive' = active_diagnostic + 1 /\ LRDiagnostics' = diagnostics'
  BY <1>2 DEF LRStatus, LRStates, LRValues, LRActive, LRDiagnostics, Between, ReducerErrors
<1>8. /\ diagnostics' = Append(LRDiagnostics, LRP!Diagnosis("shift-error"))
      /\ active_diagnostic + 1 = Len(LRDiagnostics) + 1
  <2>1. "shift-error" \in Kinds
    BY DEF Kinds
  <2> QED  BY <1>1, <1>2, <2>1, SearchReport
<1>9. LRP!ErrorValue = error_lexeme /\ LRP!Error = Error /\ LRP!Table = Table
  BY <1>1, SamePosition, SameTables
<1>10. /\ LRStates' = Append(SubSeq(LRStates, 1, h), LRP!Table.actions[LRStates[h]][LRP!Error].state)
       /\ LRValues' = Append(SubSeq(LRValues, 1, h - 1), LRP!ErrorValue)
  BY <1>2, <1>3, <1>4, <1>5, <1>7, <1>9
<1>11. \E k \in 1..Len(LRStates) :
         /\ LRP!StopsAt(k)
         /\ LRStates' = Append(SubSeq(LRStates, 1, k), LRP!Table.actions[LRStates[k]][LRP!Error].state)
         /\ LRValues' = Append(SubSeq(LRValues, 1, k - 1), LRP!ErrorValue)
  BY <1>3, <1>5, <1>6, <1>10
<1> QED  BY <1>2, <1>5, <1>7, <1>8, <1>11 DEF LRP!ShiftError, LRP!SyncShifts

\* The search fails when it has popped every state but the first.
LEMMA SearchFailsStep ==
  ASSUME IInv, SearchFails
  PROVE  LRP!Abort
<1> USE DEF setup, stacks, report, cursor, LRP!stack, LRP!report, LRP!cursor
<1>1. /\ ControlOK /\ CursorOK /\ SearchOK /\ SavedOK /\ pc = "search"
      /\ saved.states \in Seq(Table.states) /\ saved.values \in Seq(Spans)
      /\ Len(saved.states) \in Nat /\ Len(states) = 1 /\ Len(saved.states) >= 1
      /\ states \in Seq(Table.states)
  BY LenProperties DEF IInv, SearchFails, Searching, SavedOK, Between, ControlOK
<1>2. /\ ~CanShiftError(Back(states))
      /\ diagnostics' = [diagnostics EXCEPT ![active_diagnostic + 1].kind = "abort"]
      /\ pc' = "aborted"
      /\ UNCHANGED <<lang, states, values, recovering, active_diagnostic, buffered, ready, saw_eof,
                     pulled, shifted>>
  BY DEF SearchFails, Return
<1>3. /\ states = SubSeq(saved.states, 1, 1) /\ values = SubSeq(saved.values, 1, 0)
      /\ \A k \in 2..Len(saved.states) : ~CanShiftError(saved.states[k])
  BY <1>1 DEF SearchOK
<1>4. Back(states) = saved.states[1] /\ states = <<saved.states[1]>> /\ values = <<>>
  <2>1. states[1] = saved.states[1]
    <3>1. 1 \in 0..Len(saved.states) /\ 1 \in 1..1
      BY <1>1
    <3> QED  BY <1>1, <1>3, <3>1, PrefixFacts
  <2>2. saved.states[1] \in Table.states
    <3>1. 1 \in 1..Len(saved.states)
      BY <1>1
    <3> QED  BY <1>1, <3>1, ElementOfSeq
  <2>3. states = <<saved.states[1]>>
    <3> DEFINE one == <<saved.states[1]>>
    <3>1. one \in Seq(Table.states) /\ Len(one) = 1 /\ one[1] = saved.states[1]
      BY <2>2, SingletonFacts
    <3>2. \A i \in 1..1 : i = 1
      OBVIOUS
    <3> HIDE DEF one
    <3>3. \A i \in 1..Len(states) : states[i] = one[i]
      BY <1>1, <2>1, <3>1, <3>2
    <3>4. states = one
      BY <1>1, <3>1, <3>3, SeqEqual
    <3> QED  BY <3>4 DEF one
  <2>4. values = <<>>
    BY <1>3, SubSeqEmpty
  <2> QED  BY <1>1, <2>1, <2>3, <2>4 DEF Back
<1>5. LRStates = saved.states /\ LRValues = saved.values /\ recovering = 0
      /\ LRStatus = "running" /\ LRP!MissingAction
  BY <1>1, SearchView
<1>6. LRP!RecoveryHeights = {}
  <2>1. \A k \in 1..Len(saved.states) : k = 1 \/ k \in 2..Len(saved.states)
    BY <1>1
  <2>2. \A k \in 1..Len(saved.states) : ~CanShiftError(saved.states[k])
    BY <1>2, <1>3, <1>4, <2>1
  <2> QED  BY <1>5, <2>2, SameTables DEF LRP!RecoveryHeights
<1>7. /\ LRStatus' = "aborted" /\ LRStates' = states /\ LRValues' = values
      /\ LRActive' = active_diagnostic + 1 /\ LRDiagnostics' = diagnostics'
  BY <1>2 DEF LRStatus, LRStates, LRValues, LRActive, LRDiagnostics, Between, ReducerErrors
<1>8. /\ diagnostics' = Append(LRDiagnostics, LRP!Diagnosis("abort"))
      /\ active_diagnostic + 1 = Len(LRDiagnostics) + 1
  <2>1. "abort" \in Kinds
    BY DEF Kinds
  <2> QED  BY <1>1, <1>2, <2>1, SearchReport
<1> QED  BY <1>2, <1>4, <1>5, <1>6, <1>7, <1>8 DEF LRP!Abort

-----------------------------------------------------------------------------
(* The refinement. *)

\* Before the call, LRParser is before its call.
LEMMA RefinesInit == Init => LRP!Init
<1> SUFFICES ASSUME Init PROVE LRP!Init
  OBVIOUS
<1>1. pc = "declared" /\ active_diagnostic = -1
  BY DEF Init
<1>2. /\ LRStatus = "new" /\ LRStates = states /\ LRValues = values
      /\ LRActive = 0 /\ LRDiagnostics = diagnostics
  BY <1>1 DEF LRStatus, LRStates, LRValues, LRActive, LRDiagnostics, Between, ReducerErrors
<1> QED  BY <1>2 DEF Init, LRP!Init, LRP!EOF, EOF

\* Every step is a step of LRParser or leaves its state alone.
LEMMA RefinesNext == IInv /\ [Next]_vars => [LRP!Next]_(LRP!vars)
<1> SUFFICES ASSUME IInv, [Next]_vars PROVE LRP!Next \/ UNCHANGED LRP!vars
  OBVIOUS
<1>1. CASE Start
  BY <1>1, StartStep DEF LRP!Next
<1>2. CASE Peek
  BY <1>2, PeekStep DEF LRP!Next, IInv
<1>3. CASE Act
  BY <1>3, ShiftStep, PopStep, ReducerStep, PushStep, EndStep
     DEF Act, LRP!Next, LRP!Act, LRP!Recover
<1>4. CASE Recover
  BY <1>4, SearchStutters, SearchSucceedsStep, SearchFailsStep, DiscardStep, EndStep
     DEF Recover, LRP!Next, LRP!Act, LRP!Recover
<1>5. CASE UNCHANGED vars
  BY <1>5 DEF vars, setup, stacks, report, cursor, LRP!vars, LRP!stack, LRP!report, LRP!cursor,
              LRStatus, LRStates, LRValues, LRActive, LRDiagnostics, Between, Drop
<1> QED  BY <1>1, <1>2, <1>3, <1>4, <1>5 DEF Next

\* ImplementsLRParser: the C++ parser's smaller steps, its exceptions and the
\* positions its cursor hands out make no difference to what the Go parser does.
THEOREM CppImplementsLRParser == Spec => ImplementsLRParser
BY RefinesInit, RefinesNext, Invariance, PTL DEF Spec, ImplementsLRParser, LRP!Spec

-----------------------------------------------------------------------------
(* What LRParser guarantees, guaranteed by the C++ parser. *)

\* The same parser with its theorems.
P == INSTANCE LRParserProofs
  WITH status      <- LRStatus,
       states      <- LRStates,
       values      <- LRValues,
       active      <- LRActive,
       diagnostics <- LRDiagnostics,
       symbol      <- buffered.sym,
       sawEOF      <- saw_eof

\* Its assumption on the tables is this module's.
LEMMA TablesAreSoundThere == P!TablesAreSound
BY TablesAreSound
   DEF P!TablesAreSound, P!SoundTables, SoundTables, P!SoundItem, SoundItem, P!SoundAction,
       SoundAction, P!SoundShift, SoundShift, P!SoundReduce, SoundReduce, P!SoundAccept,
       SoundAccept, P!Explains, Explains, P!Entered, Entered, P!RhsOf, RhsOf, P!EOF, EOF,
       P!Error, Error

\* LRP and P are one module under one substitution.
LEMMA SameParser == LRP!Spec => P!Spec
<1>1. LRP!Init => P!Init
  BY DEF LRP!Init, P!Init, LRP!EOF, P!EOF
<1>2. [LRP!Next]_(LRP!vars) => [P!Next]_(P!vars)
  BY DEF LRP!Next, P!Next, LRP!vars, P!vars, LRP!stack, P!stack, LRP!report, P!report,
         LRP!cursor, P!cursor, LRP!Begin, P!Begin, LRP!Peek, P!Peek, LRP!Act, P!Act,
         LRP!Recover, P!Recover, LRP!PeekLexeme, P!PeekLexeme, LRP!PeekEnd, P!PeekEnd,
         LRP!PeekFails, P!PeekFails, LRP!Peeking, P!Peeking, LRP!Table, P!Table,
         LRP!Unknown, P!Unknown, LRP!EOF, P!EOF, LRP!SourceErrors, P!SourceErrors,
         LRP!Shift, P!Shift, LRP!Reduce, P!Reduce, LRP!ReducerFails, P!ReducerFails,
         LRP!Accept, P!Accept, LRP!ShiftError, P!ShiftError, LRP!Abort, P!Abort,
         LRP!Discard, P!Discard, LRP!AbortAtEnd, P!AbortAtEnd, LRP!ActionIs, P!ActionIs,
         LRP!Deciding, P!Deciding, LRP!MissingAction, P!MissingAction, LRP!HasAction,
         P!HasAction, LRP!TopState, P!TopState, LRP!Top, P!Top, LRP!Action, P!Action,
         LRP!Fail, P!Fail, LRP!LexemeValue, P!LexemeValue, LRP!Consumed, P!Consumed,
         LRP!CountShift, P!CountShift, LRP!HandleSize, P!HandleSize, LRP!Rule, P!Rule,
         LRP!Handle, P!Handle, LRP!HandleFits, P!HandleFits, LRP!Drop, P!Drop,
         LRP!Reduced, P!Reduced, LRP!RecoveryHeights, P!RecoveryHeights, LRP!StopsAt,
         P!StopsAt, LRP!CanShiftError, P!CanShiftError, LRP!Error, P!Error,
         LRP!ErrorValue, P!ErrorValue, LRP!Diagnosis, P!Diagnosis, LRP!SyncShifts, P!SyncShifts
<1> QED  BY <1>1, <1>2, PTL DEF LRP!Spec, P!Spec

\* Every handle is on the stacks, every goto exists, and nothing is shifted
\* behind the end: the parser throws none of its internal errors.
THEOREM InternalErrorsAreDead == Spec => [](pc \notin InternalErrors)
<1>1. P!TypeOK /\ P!NoInternalFailure => pc \notin InternalErrors
  <2> SUFFICES ASSUME P!TypeOK, P!NoInternalFailure, pc \in InternalErrors PROVE FALSE
    OBVIOUS
  <2>1. LRStatus = pc
    BY DEF InternalErrors, LRStatus, Between, ReducerErrors
  <2> QED  BY <2>1 DEF P!TypeOK, P!NoInternalFailure, P!InternalErrors, P!Finished, P!Errors,
                       P!SourceErrors, InternalErrors
<1>2. P!Spec => [](P!TypeOK /\ P!NoInternalFailure)
  BY TablesAreSoundThere, P!TypeCorrect, P!InternalFailuresAreDead, PTL
<1> QED  BY <1>1, <1>2, SameParser, CppImplementsLRParser, PTL DEF ImplementsLRParser

\* A result holds the value on top of the stack.
ResultOK == result.returned => pc \in Returned /\ result.value = current_value

\* The result keeps what the invariant says of it.
LEMMA ResultNext == ResultOK /\ [Next]_vars => ResultOK'
<1> SUFFICES ASSUME ResultOK, [Next]_vars PROVE ResultOK'
  OBVIOUS
<1> USE DEF setup, stacks, report, cursor, ResultOK, current_value, Back
<1>1. CASE Start
  BY <1>1 DEF Start, Construct, CallerRemovesHandler, Call, Returned
<1>2. CASE Peek
  BY <1>2 DEF Peek, PeekLexeme, PeekEnd, PeekExplicitEnd, PeekThrows, Peeking, Returned
<1>3. CASE Accept \/ SearchFails \/ AbortAtEnd
  BY <1>3 DEF Accept, SearchFails, AbortAtEnd, Return, Returned
<1>4. CASE Shift \/ PopHandle \/ ReducerThrows \/ PushReduction
  <2>1. pc \notin Returned /\ result' = result
    BY <1>4 DEF Shift, PopHandle, ReducerThrows, PushReduction, Throw, ActionIs, Deciding, Returned
  <2> QED  BY <2>1
<1>5. CASE SyntaxError \/ SearchPops \/ SearchSucceeds \/ Discard
  <2>1. pc \notin Returned /\ result' = result
    BY <1>5 DEF SyntaxError, SearchPops, SearchSucceeds, Discard, Searching, MissingAction,
                Deciding, Returned
  <2> QED  BY <2>1
<1>6. CASE UNCHANGED vars
  BY <1>6 DEF vars
<1> QED  BY <1>1, <1>2, <1>3, <1>4, <1>5, <1>6 DEF Next, Act, Recover

\* A value that parse_value returns is one start symbol made of all lexemes.
ValueIsWhole ==
  ParseValueReturns => result.value = [sym |-> Rule(0).rhs[1], from |-> 0, to |-> Len(pulled)]

\* parse_value returns nothing less than the whole input.
THEOREM ReturnedValuesAreWhole == Spec => []ValueIsWhole
<1>1. Init => ResultOK
  BY DEF Init, ResultOK, NoResult
<1>2. ResultOK /\ P!StrictSuccessIsWholeInput => ValueIsWhole
  <2> SUFFICES ASSUME ResultOK, P!StrictSuccessIsWholeInput, ParseValueReturns
               PROVE  result.value = [sym |-> Rule(0).rhs[1], from |-> 0, to |-> Len(pulled)]
    BY DEF ValueIsWhole
  <2>1. pc \in Returned /\ result.value = current_value /\ diagnostics = <<>>
    BY DEF ParseValueReturns, ResultOK
  <2>2. LRStatus = pc /\ LRDiagnostics = diagnostics /\ LRValues = values
    BY <2>1 DEF Returned, LRStatus, LRDiagnostics, LRValues, Between, ReducerErrors
  <2>3. P!StrictlySucceeds
    BY <2>1, <2>2 DEF P!StrictlySucceeds, P!Finished, P!Errors, P!InternalErrors, P!SourceErrors,
                      Returned
  <2>4. values = <<[sym |-> P!Rule(0).rhs[1], from |-> 0, to |-> Len(pulled)]>>
    BY <2>2, <2>3 DEF P!StrictSuccessIsWholeInput
  <2>5. P!Rule(0) = Rule(0)
    BY DEF P!Rule, Rule, P!Table, Table
  <2> QED  BY <2>1, <2>4, <2>5 DEF current_value, Back
<1>3. P!Spec => []P!StrictSuccessIsWholeInput
  BY TablesAreSoundThere, P!StrictSuccessParsesEverything, PTL
<1>4. Spec => []ResultOK
  BY <1>1, ResultNext, PTL DEF Spec
<1> QED  BY <1>2, <1>3, <1>4, SameParser, CppImplementsLRParser, PTL DEF ImplementsLRParser

=============================================================================
