---------------------------- MODULE CParserProofs ----------------------------
(***************************************************************************)
(* The memory of the C parser, for every set of sound tables, every input, *)
(* every first capacity and every pattern of failures.                     *)
(***************************************************************************)
EXTENDS CParser, LRParserProofs

-----------------------------------------------------------------------------
(* The inductive invariant. *)

\* Until memory runs out the parser is that of LRParser.
CoreOK == status # "out of memory" => IInv

MemoryOK ==
  /\ pointers \in Seq(Int) /\ given \in BOOLEAN /\ message \in BOOLEAN
  /\ capacity \in [{"states", "values"} -> Nat \ {0}]

Finishing == status \notin {"new", "running"}
Listed   == IF diagnostics # <<>> THEN {"diagnostics"} ELSE {}

\* The blocks held in each phase of a call: the stacks from its first step to
\* its last, the list of diagnostics as soon as it has an element.
BlocksOK ==
  /\ status = "new" => /\ blocks = {} /\ owned = {} /\ pointers = <<>>
                       /\ values = <<>> /\ diagnostics = <<>>
  /\ status = "running" => blocks = {"states", "values"} \cup Listed
  /\ Finishing /\ returned = "no" => owned = {} /\ blocks = Listed
  /\ returned # "no" => Finishing

\* The message is written where the call fails.
MessageOK ==
  /\ ~Finishing => ~message
  /\ Finishing /\ returned = "no" /\ given => (message <=> CallFailed)

CInv == CoreOK /\ MemoryOK /\ BlocksOK /\ MessageOK /\ StacksHoldValues /\ ReturnsAreClean

-----------------------------------------------------------------------------
(* The parser below the memory. *)

\* The steps that leave LRParser for want of memory.
Starves == BeginFails \/ ShiftFails \/ ReduceFails \/ DiagnosticFails \/ ErrorPushFails

\* Every step is one of LRParser, or the end of the call.
LEMMA CoreStep ==
  ASSUME [CNext]_cvars
  PROVE  \/ status \in {"new", "running"} /\ Next
         \/ status \in {"new", "running"} /\ Starves /\ status' = "out of memory"
         \/ UNCHANGED vars
<1> USE DEF Next, Peek, Act, Recover, Starves
<1>1. CASE CBegin \/ BeginFails
  BY <1>1 DEF CBegin, BeginFails, OutOfMemory, Begin
<1>2. CASE CPeek \/ CPeekFails
  BY <1>2 DEF CPeek, CPeekFails, PeekLexeme, PeekEnd, PeekFails, Peeking
<1>3. CASE CShift \/ CReduce \/ CReducerFails \/ CAccept
  BY <1>3 DEF CShift, CReduce, CReducerFails, CAccept, Shift, Reduce, ReducerFails, Accept,
              ActionIs, Deciding
<1>4. CASE ShiftFails \/ ReduceFails \/ DiagnosticFails \/ ErrorPushFails
  BY <1>4 DEF ShiftFails, ReduceFails, DiagnosticFails, ErrorPushFails, OutOfMemory, ActionIs,
              MissingAction, Deciding
<1>5. CASE CShiftError \/ CAbort \/ CDiscard \/ CAbortAtEnd
  BY <1>5, ZenonT(60) DEF CShiftError, CAbort, CDiscard, CAbortAtEnd, ShiftError,
              Abort, Discard, AbortAtEnd,
              MissingAction, Deciding
<1>6. CASE RecoveringReturns \/ StrictReturns \/ UNCHANGED cvars
  BY <1>6 DEF RecoveringReturns, StrictReturns, cvars
<1> QED  BY <1>1, <1>2, <1>3, <1>4, <1>5, <1>6 DEF CNext

\* The steps of LRParser keep its own invariant; the others leave its state.
LEMMA CoreNext == CoreOK /\ [CNext]_cvars => CoreOK'
<1> SUFFICES ASSUME CoreOK, [CNext]_cvars PROVE CoreOK'
  OBVIOUS
<1>1. CASE status \in {"new", "running"} /\ Next
  <2>1. IInv /\ [Next]_vars
    BY <1>1 DEF CoreOK
  <2>2. IInv'
    BY <2>1, TypeNext, PathNext, NoInternalFailureNext DEF IInv
  <2> QED  BY <2>2 DEF CoreOK
<1>2. CASE status' = "out of memory"
  BY <1>2 DEF CoreOK
<1>3. CASE UNCHANGED vars
  <2>1. CASE status = "out of memory"
    BY <1>3, <2>1 DEF CoreOK, vars
  <2>2. CASE status # "out of memory"
    <3>1. IInv /\ [Next]_vars
      BY <1>3, <2>2 DEF CoreOK
    <3>2. IInv'
      BY <3>1, TypeNext, PathNext, NoInternalFailureNext DEF IInv
    <3> QED  BY <3>2 DEF CoreOK
  <2> QED  BY <2>1, <2>2
<1> QED  BY <1>1, <1>2, <1>3, CoreStep

\* While LRParser is under way, its types hold.
LEMMA CoreFacts ==
  ASSUME CoreOK, status \in {"new", "running"}
  PROVE  /\ IInv /\ TInv /\ TypeOK /\ PathOK /\ SoundTables(Table)
         /\ states \in Seq(Table.states) /\ values \in Seq(Values)
         /\ Len(states) \in Nat \ {0} /\ Len(values) \in Nat
         /\ diagnostics \in Seq(Diagnostics) /\ active \in 0..Len(diagnostics)
BY TopFacts DEF CoreOK, IInv, TInv, TypeOK

\* Changing the kind or the count of a diagnostic.
LEMMA ListUpdate ==
  ASSUME NEW seq \in Seq(Diagnostics), NEW i \in 1..Len(seq), NEW new,
         NEW kind \in {"shift-error", "recovered", "abort"},
         \/ new = [seq EXCEPT ![i].kind = kind]
         \/ new = [seq EXCEPT ![i].discarded = @ + 1]
  PROVE  new \in Seq(Diagnostics) /\ Len(new) = Len(seq)
<1>1. seq[i] \in Diagnostics
  BY ElementOfSeq
<1>2. [seq[i] EXCEPT !.kind = kind] \in Diagnostics
  BY <1>1 DEF Diagnostics
<1>3. [seq[i] EXCEPT !.discarded = @ + 1] \in Diagnostics
  <2>1. seq[i].discarded \in Nat
    BY ONLY <1>1 DEF Diagnostics
  <2>2. seq[i].discarded + 1 \in Nat
    BY ONLY <2>1
  <2> QED  BY ONLY <1>1, <2>2 DEF Diagnostics
<1>4. PICK d \in Diagnostics : new = [seq EXCEPT ![i] = d]
  BY <1>2, <1>3
<1> QED  BY <1>4, ExceptSeq

\* Changing diagnostics neither starts nor empties their list.
LEMMA ListKept ==
  ASSUME CoreOK, Shift \/ Accept \/ Discard \/ AbortAtEnd
  PROVE  Listed' = Listed
<1>1. /\ TypeOK /\ diagnostics \in Seq(Diagnostics) /\ active \in 0..Len(diagnostics)
      /\ Len(diagnostics) \in Nat
  <2>1. status = "running"
    BY DEF Shift, Accept, Discard, AbortAtEnd, ActionIs, MissingAction, Deciding
  <2> QED  BY <2>1, CoreFacts, LenProperties
<1>2. ASSUME diagnostics' \in Seq(Diagnostics), Len(diagnostics') = Len(diagnostics)
      PROVE  Listed' = Listed
  <2>1. diagnostics' = <<>> <=> diagnostics = <<>>
    BY <1>1, <1>2, EmptySeq
  <2> QED  BY <2>1 DEF Listed
<1>3. ASSUME active > 0, NEW kind \in {"shift-error", "recovered", "abort"},
             \/ diagnostics' = [diagnostics EXCEPT ![active].kind = kind]
             \/ diagnostics' = [diagnostics EXCEPT ![active].discarded = @ + 1]
      PROVE  Listed' = Listed
  <2>1. active \in 1..Len(diagnostics)
    BY <1>1, <1>3
  <2>2. diagnostics' \in Seq(Diagnostics) /\ Len(diagnostics') = Len(diagnostics)
    <3> DEFINE new == diagnostics'
    <3>1. \/ new = [diagnostics EXCEPT ![active].kind = kind]
          \/ new = [diagnostics EXCEPT ![active].discarded = @ + 1]
      BY <1>3
    <3> HIDE DEF new
    <3>2. new \in Seq(Diagnostics) /\ Len(new) = Len(diagnostics)
      BY <1>1, <2>1, <3>1, ListUpdate
    <3> QED  BY <3>2 DEF new
  <2> QED  BY <1>2, <2>2
<1>4. ASSUME diagnostics' = diagnostics
      PROVE  Listed' = Listed
  BY <1>4 DEF Listed
<1>5. "recovered" \in {"shift-error", "recovered", "abort"}
      /\ "abort" \in {"shift-error", "recovered", "abort"}
  OBVIOUS
<1>6. CASE Shift
  <2>1. CASE symbol = EOF
    BY <1>4, <1>6, <2>1 DEF Shift, Fail, report
  <2>2. CASE symbol # EOF
    <3>1. CountShift
      BY <1>6, <2>2 DEF Shift
    <3> QED  BY <1>1, <1>2, <3>1, CountShiftFacts
  <2> QED  BY <2>1, <2>2
<1>7. CASE Accept
  BY <1>3, <1>4, <1>5, <1>7 DEF Accept
<1>8. CASE Discard
  BY <1>3, <1>4, <1>5, <1>8 DEF Discard
<1>9. CASE AbortAtEnd
  BY <1>3, <1>4, <1>5, <1>9 DEF AbortAtEnd
<1> QED  BY <1>6, <1>7, <1>8, <1>9

\* A new diagnostic makes the list one.
LEMMA ListGrown ==
  ASSUME CoreOK, MissingAction, NEW kind, diagnostics' = Append(diagnostics, Diagnosis(kind))
  PROVE  Listed' = {"diagnostics"}
<1> DEFINE d == Diagnosis(kind)  S == Diagnostics \cup {d}
<1>1. diagnostics \in Seq(Diagnostics)
  BY CoreFacts DEF MissingAction, Deciding
<1>2. diagnostics \in Seq(S) /\ d \in S
  BY <1>1, SeqMonotonic
<1> HIDE DEF d
<1>3. Append(diagnostics, d) # <<>>
  BY <1>2, PushFacts
<1> QED  BY <1>3 DEF Listed, d

\* Shifts and reductions are what the tables promise.
LEMMA ShiftsAreReal ==
  ASSUME CoreOK, Shift
  PROVE  /\ symbol # EOF /\ status = "running" /\ status' = "running" /\ Action.state \in Table.states
         /\ states' = Append(states, Action.state) /\ values' = Append(values, LexemeValue)
<1>1. status = "running" /\ ActionIs("shift")
  BY DEF Shift, ActionIs, Deciding
<1>2. symbol # EOF /\ Action.state \in Table.states
  BY <1>1, CoreFacts, ShiftFacts DEF Entered
<1> QED  BY <1>1, <1>2 DEF Shift

\* The same of a reduction: it pops what is there and enters a state.
LEMMA ReductionsAreReal ==
  ASSUME CoreOK, Reduce
  PROVE  /\ HandleFits /\ status = "running" /\ status' = "running" /\ UNCHANGED diagnostics
         /\ HandleSize \in 0..Len(values) /\ Len(states) - HandleSize \in 1..Len(states)
         /\ \E to : states' = Append(Drop(states, HandleSize), to) /\ to \in Table.states
         /\ values' = Append(Drop(values, HandleSize), Reduced(Rule(Action.rule).lhs, Handle))
         /\ Action.rule \in DOMAIN Table.rules
<1> DEFINE kept == Drop(states, HandleSize)  lhs == Rule(Action.rule).lhs
<1>1. status = "running" /\ ActionIs("reduce")
  BY DEF Reduce, ActionIs, Deciding
<1>2. TypeOK /\ PathOK /\ SoundTables(Table) /\ Len(values) \in Nat
  BY <1>1, CoreFacts
<1>3. HandleFits /\ lhs \in DOMAIN Table.gotos[Top(kept)]
  BY <1>1, <1>2, ReduceSucceeds
<1>4. Len(states) - HandleSize \in 1..Len(states) /\ Top(kept) \in Table.states
  BY <1>1, <1>2, <1>3, KeptFacts
<1>5. Table.gotos[Top(kept)][lhs] \in Table.states
  BY <1>2, <1>3, <1>4 DEF SoundTables, Entered
<1>6. HandleSize \in Nat /\ Action.rule \in DOMAIN Table.rules
  BY <1>1, <1>2, ReduceFacts
<1>7. HandleSize \in 0..Len(values)
  BY <1>2, <1>3, <1>6 DEF HandleFits
<1>8. /\ status' = "running" /\ UNCHANGED diagnostics
      /\ states' = Append(kept, Table.gotos[Top(kept)][lhs])
      /\ values' = Append(Drop(values, HandleSize), Reduced(lhs, Handle))
  BY <1>1, <1>3 DEF Reduce, report
<1> QED  BY <1>1, <1>3, <1>4, <1>5, <1>6, <1>7, <1>8

-----------------------------------------------------------------------------
(* Types, blocks and messages. *)

\* The memory keeps its types: capacities double, pointers are numbers.
LEMMA MemoryNext == CInv /\ [CNext]_cvars => MemoryOK'
<1> SUFFICES ASSUME CoreOK, MemoryOK, StacksHoldValues, [CNext]_cvars PROVE MemoryOK'
  BY DEF CInv
<1> USE DEF memory, caller, MemoryOK
<1>0. ASSUME NEW n \in Nat \ {0} PROVE 2 * n \in Nat \ {0}
  OBVIOUS
<1>g. ASSUME NEW heights PROVE Grown(heights) \in [{"states", "values"} -> Nat \ {0}]
  BY <1>0 DEF Grown
<1>1. ASSUME UNCHANGED <<pointers, given, capacity>>, message' \in BOOLEAN
      PROVE  MemoryOK'
  BY <1>1
<1>2. CASE CBegin \/ BeginFails \/ CPeek \/ CPeekFails
  BY <1>1, <1>2 DEF CBegin, BeginFails, OutOfMemory, CPeek, CPeekFails, Keeps, ReturnFailure, Release
<1>3. CASE CShift
  <2>1. Len(pulled) \in Int
    <3>1. status = "running"
      BY <1>3 DEF CShift, Shift, ActionIs, Deciding
    <3> QED  BY <3>1, CoreFacts, LenProperties DEF TypeOK
  <2>2. pointers' \in Seq(Int)
    BY <1>3, <2>1, PushFacts DEF CShift
  <2> QED  BY <1>3, <1>g, <2>2 DEF CShift
<1>4. CASE CReduce
  <2> DEFINE handle == SubSeq(pointers, Len(pointers) - HandleSize + 1, Len(pointers))
             v == IF HasReducer THEN Opaque ELSE DefaultValue(handle)
  <2>1. HandleSize \in 0..Len(values) /\ status = "running"
    BY <1>4, ReductionsAreReal DEF CReduce
  <2>2. HandleSize \in 0..Len(pointers)
    BY <2>1 DEF StacksHoldValues, PointersMatchValues
  <2>3. handle \in Seq(Int) /\ Drop(pointers, HandleSize) \in Seq(Int)
    <3>1. Len(pointers) - HandleSize \in 0..Len(pointers)
      BY <2>2, LenProperties
    <3> QED  BY <2>2, <3>1, SuffixFacts, PrefixFacts DEF Drop
  <2>4. v \in Int
    <3> HIDE DEF handle
    <3>1. Len(handle) = 1 => handle[1] \in Int
      <4>1. Len(handle) = 1 => 1 \in 1..Len(handle)
        OBVIOUS
      <4> QED  BY <2>3, <4>1, ElementOfSeq
    <3>2. DefaultValue(handle) \in Int
      BY <3>1 DEF DefaultValue, Null
    <3> QED  BY <3>2 DEF Opaque
  <2>5. pointers' = Append(Drop(pointers, HandleSize), v)
    BY <1>4 DEF CReduce
  <2> HIDE DEF v
  <2>6. pointers' \in Seq(Int)
    BY <2>3, <2>4, <2>5, PushFacts
  <2> QED  BY <1>4, <1>g, <2>6 DEF CReduce
<1>5. CASE ShiftFails \/ ReduceFails \/ CReducerFails \/ CAccept \/ DiagnosticFails \/ ErrorPushFails
  BY <1>1, <1>5 DEF ShiftFails, ReduceFails, CReducerFails, CAccept, DiagnosticFails,
                    ErrorPushFails, OutOfMemory, ReturnFailure, ReturnResult, Release
<1>6. CASE CShiftError
  <2>1. PICK h \in 1..Len(states) : pointers' = Append(SubSeq(pointers, 1, h - 1), Null)
                                    /\ capacity' = Grown(HeightsAt(h))
    BY <1>6 DEF CShiftError
  <2>2. h - 1 \in 0..Len(pointers)
    <3>1. status = "running"
      BY <1>6 DEF CShiftError, ShiftError, MissingAction, Deciding
    <3>2. Len(states) = Len(values) + 1 /\ Len(values) \in Nat /\ Len(pointers) = Len(values)
      BY <3>1, CoreFacts DEF PathOK, Spells, StacksHoldValues, PointersMatchValues
    <3> QED  BY <3>2
  <2>3. pointers' \in Seq(Int)
    BY <2>1, <2>2, PrefixFacts, PushFacts DEF Null
  <2> QED  BY <1>6, <1>g, <2>1, <2>3 DEF CShiftError
<1>7. CASE CAbort \/ CDiscard \/ CAbortAtEnd \/ RecoveringReturns
  BY <1>1, <1>7 DEF CAbort, CDiscard, Keeps, CAbortAtEnd, ReturnResult, Release, RecoveringReturns
<1>8. CASE StrictReturns
  BY <1>1, <1>8 DEF StrictReturns
<1>9. CASE UNCHANGED cvars
  BY <1>1, <1>9 DEF cvars
<1> QED  BY <1>2, <1>3, <1>4, <1>5, <1>6, <1>7, <1>8, <1>9 DEF CNext

\* What a step does to the blocks depends on how it leaves the loop, if it does.
LEMMA BlocksNext == CInv /\ [CNext]_cvars => BlocksOK'
<1> SUFFICES ASSUME CoreOK, BlocksOK, [CNext]_cvars PROVE BlocksOK'
  BY DEF CInv
<1> USE DEF memory, caller, stack, report, cursor, Finishing
\* A step within the loop.
<1>1. ASSUME status = "running", status' = "running", returned' = returned,
             blocks' = {"states", "values"} \cup Listed'
      PROVE  BlocksOK'
  BY <1>1 DEF BlocksOK
\* A step that leaves it.
<1>2. ASSUME status \in {"new", "running"}, status' \notin {"new", "running"}, returned' = returned,
             owned' = {}, blocks' = Listed'
      PROVE  BlocksOK'
  BY <1>2 DEF BlocksOK
<1>3. ASSUME status = "running" PROVE blocks \ {"states", "values"} = Listed
  BY <1>3 DEF BlocksOK, Listed
<1>4. ASSUME status = "new" PROVE blocks \ {"states", "values"} = Listed /\ Listed = {} /\ blocks = {}
  BY <1>4 DEF BlocksOK, Listed
<1>5. diagnostics' = diagnostics => Listed' = Listed
  BY DEF Listed
<1>6. CASE CBegin
  <2>1. status = "new" /\ UNCHANGED <<values, diagnostics, returned>>
    BY <1>6 DEF CBegin, Begin
  <2>2. CASE status' = "running"
    BY <1>4, <1>5, <1>6, <2>1, <2>2 DEF CBegin, BlocksOK, Listed
  <2>3. CASE status' # "running"
    <3>1. status' = "refused" /\ owned' = owned /\ blocks' = blocks
      BY <1>6, <2>3 DEF CBegin, Begin
    <3>2. owned' = {} /\ blocks' = Listed'
      BY <1>4, <1>5, <2>1, <3>1 DEF BlocksOK
    <3> QED  BY <1>2, <2>1, <3>1, <3>2
  <2> QED  BY <2>2, <2>3
<1>7. CASE CPeek
  <2>1. status = "running" /\ status' = status /\ UNCHANGED <<diagnostics, blocks, returned>>
    BY <1>7 DEF CPeek, PeekLexeme, PeekEnd, Peeking, Keeps
  <2> QED  BY <1>1, <1>5, <2>1 DEF BlocksOK
<1>8. CASE CPeekFails \/ CReducerFails \/ BeginFails \/ ShiftFails \/ ReduceFails \/ DiagnosticFails
  <2>1. /\ status \in {"new", "running"} /\ status' \notin {"new", "running"}
        /\ diagnostics' = diagnostics /\ returned' = returned
        /\ owned' = {} /\ blocks' = blocks \ {"states", "values"}
    BY <1>8 DEF CPeekFails, PeekFails, Peeking, SourceErrors, CReducerFails, ReducerFails, BeginFails,
                ShiftFails, ReduceFails, DiagnosticFails, OutOfMemory, ReturnFailure, Release,
                ActionIs, MissingAction, Deciding
  <2> QED  BY <1>2, <1>3, <1>4, <1>5, <2>1
<1>9. CASE CShift
  <2>1. status = "running" /\ status' = "running" /\ Listed' = Listed
    BY <1>9, ShiftsAreReal, ListKept DEF CShift
  <2> QED  BY <1>1, <1>9, <2>1 DEF CShift, BlocksOK
<1>10. CASE CReduce
  <2>1. status = "running" /\ status' = "running" /\ Listed' = Listed
    BY <1>5, <1>10, ReductionsAreReal DEF CReduce
  <2> QED  BY <1>1, <1>10, <2>1 DEF CReduce, BlocksOK
<1>11. CASE CAccept \/ CAbortAtEnd
  <2>1. status = "running" /\ status' \in {"accepted", "aborted"} /\ Listed' = Listed
    BY <1>11, ListKept DEF CAccept, CAbortAtEnd, Accept, AbortAtEnd, ActionIs, MissingAction, Deciding
  <2>2. blocks' = blocks \ {"states", "values"} /\ owned' = {} /\ returned' = returned
    BY <1>11 DEF CAccept, CAbortAtEnd, ReturnResult, Release
  <2> QED  BY <1>2, <1>3, <2>1, <2>2
<1>12. CASE CShiftError
  <2>1. /\ status = "running" /\ status' = "running" /\ MissingAction
        /\ diagnostics' = Append(diagnostics, Diagnosis("shift-error"))
        /\ blocks' = blocks \cup {"diagnostics"} /\ returned' = returned
    BY <1>12 DEF CShiftError, ShiftError, MissingAction, Deciding
  <2>2. Listed' = {"diagnostics"}
    BY <2>1, ListGrown
  <2>3. blocks' = {"states", "values"} \cup Listed'
    BY <2>1, <2>2 DEF BlocksOK, Listed
  <2> QED  BY <1>1, <2>1, <2>3
<1>13. CASE ErrorPushFails \/ CAbort
  <2>1. /\ status = "running" /\ status' \in {"out of memory", "aborted"} /\ MissingAction
        /\ \E kind : diagnostics' = Append(diagnostics, Diagnosis(kind))
        /\ blocks' = {"diagnostics"} /\ owned' = {} /\ returned' = returned
    BY <1>13 DEF ErrorPushFails, CAbort, Abort, MissingAction, Deciding
  <2>2. Listed' = {"diagnostics"}
    BY <2>1, ListGrown
  <2> QED  BY <1>2, <2>1, <2>2
<1>14. CASE CDiscard
  <2>1. status = "running" /\ status' = "running" /\ Listed' = Listed
    BY <1>14, ListKept DEF CDiscard, Discard, MissingAction, Deciding
  <2> QED  BY <1>1, <1>14, <2>1 DEF CDiscard, Keeps, BlocksOK
<1>15. CASE RecoveringReturns \/ StrictReturns
  BY <1>5, <1>15 DEF RecoveringReturns, StrictReturns, CallDone, vars, BlocksOK
<1>16. CASE UNCHANGED cvars
  BY <1>5, <1>16 DEF cvars, vars, BlocksOK
<1> QED  BY <1>6, <1>7, <1>8, <1>9, <1>10, <1>11, <1>12, <1>13, <1>14, <1>15, <1>16 DEF CNext

\* Every failing exit writes the message the caller asked for, no other step does.
LEMMA MessageNext == CInv /\ [CNext]_cvars => MessageOK'
<1> SUFFICES ASSUME CoreOK, MemoryOK, BlocksOK, MessageOK, [CNext]_cvars PROVE MessageOK'
  BY DEF CInv
<1> USE DEF memory, caller, stack, report, cursor, Finishing
<1>f. CallFailed' <=> status' \in Errors \cup {"out of memory"}
  BY DEF CallFailed, Finished, Errors, InternalErrors, SourceErrors
<1>m. given \in BOOLEAN /\ message \in BOOLEAN
  BY DEF MemoryOK
<1>1. ASSUME status' \in {"new", "running"}, ~message, message' = message
      PROVE  MessageOK'
  BY <1>1 DEF MessageOK
<1>2. ASSUME status' \in Errors \cup {"out of memory"}, message' = given, given' = given
      PROVE  MessageOK'
  BY <1>2, <1>f DEF MessageOK, Errors, InternalErrors, SourceErrors
<1>3. ASSUME status' \in {"accepted", "aborted"}, ~message, message' = message
      PROVE  MessageOK'
  BY <1>3, <1>f DEF MessageOK, Errors, InternalErrors, SourceErrors
<1>4. status \in {"new", "running"} => ~message
  BY DEF MessageOK
<1>5. CASE CBegin
  BY <1>1, <1>2, <1>4, <1>5 DEF CBegin, Begin, Errors
<1>6. CASE CPeek \/ CDiscard \/ CShiftError
  <2>1. status = "running" /\ status' = "running" /\ message' = message
    BY <1>6 DEF CPeek, PeekLexeme, PeekEnd, Peeking, CDiscard, Discard, CShiftError, ShiftError,
                MissingAction, Deciding, Keeps
  <2> QED  BY <1>1, <1>4, <2>1
<1>7. CASE CPeekFails \/ BeginFails \/ ShiftFails \/ ReduceFails \/ DiagnosticFails \/ ErrorPushFails
  <2>1. status' \in SourceErrors \cup {"out of memory"} /\ message' = given /\ given' = given
    BY <1>7 DEF CPeekFails, PeekFails, BeginFails, ShiftFails, ReduceFails, DiagnosticFails,
                ErrorPushFails, OutOfMemory, ReturnFailure
  <2> QED  BY <1>2, <2>1 DEF Errors
<1>8. CASE CShift \/ CReduce
  <2>1. status = "running" /\ status' = "running" /\ message' = message
    BY <1>8, ShiftsAreReal, ReductionsAreReal DEF CShift, CReduce
  <2> QED  BY <1>1, <1>4, <2>1
<1>9. CASE CReducerFails
  <2>1. status' = "reducer error" /\ message' = TRUE /\ given = TRUE /\ given' = given
    BY <1>9, <1>m DEF CReducerFails, ReducerFails
  <2> QED  BY <1>2, <2>1 DEF Errors
<1>10. CASE CAccept \/ CAbort \/ CAbortAtEnd
  <2>1. status = "running" /\ status' \in {"accepted", "aborted"} /\ message' = message
    BY <1>10 DEF CAccept, CAbort, CAbortAtEnd, Accept, Abort, AbortAtEnd, ReturnResult,
                 ActionIs, MissingAction, Deciding
  <2> QED  BY <1>3, <1>4, <2>1
<1>11. CASE RecoveringReturns \/ StrictReturns
  <2>1. status' = status /\ status \notin {"new", "running"} /\ returned' # "no"
    BY <1>11 DEF RecoveringReturns, StrictReturns, CallDone, vars
  <2> QED  BY <2>1 DEF MessageOK
<1>12. CASE UNCHANGED cvars
  BY <1>12 DEF cvars, vars, MessageOK, CallFailed
<1> QED  BY <1>5, <1>6, <1>7, <1>8, <1>9, <1>10, <1>11, <1>12 DEF CNext

-----------------------------------------------------------------------------
(* What the pointers stand for. *)

\* What PointersMatchValues asks of the pointer of one value.
Matches(T, value, pointer, live) ==
  /\ value.sym \in T.terminals => pointer = value.to
  /\ value.sym = Error => pointer = Null
  /\ pointer > 0 => pointer \in live /\ value.from = pointer - 1 /\ value.to = pointer

AllMatch(T, vs, ps, live) ==
  /\ Len(ps) = Len(vs)
  /\ \A i \in 1..Len(vs) : Matches(T, vs[i], ps[i], live)

\* The property in terms of AllMatch.
LEMMA PointersAsMatches ==
  PointersMatchValues <=> (status = "running" => AllMatch(Table, values, pointers, owned))
BY DEF PointersMatchValues, AllMatch, Matches

\* Matching stacks may be popped to a common height.
LEMMA MatchPrefix ==
  ASSUME NEW T, NEW V, NEW vs \in Seq(V), NEW ps \in Seq(Int), NEW live,
         AllMatch(T, vs, ps, live), NEW h \in 0..Len(vs)
  PROVE  AllMatch(T, SubSeq(vs, 1, h), SubSeq(ps, 1, h), live)
<1> DEFINE q == SubSeq(vs, 1, h)  r == SubSeq(ps, 1, h)
<1>1. h \in 0..Len(ps) /\ h \in Nat /\ Len(vs) \in Nat
  BY LenProperties DEF AllMatch
<1>2. Len(q) = h /\ \A i \in 1..h : q[i] = vs[i]
  BY PrefixFacts
<1>3. Len(r) = h /\ \A i \in 1..h : r[i] = ps[i]
  BY <1>1, PrefixFacts
<1>4. \A i \in 1..h : i \in 1..Len(vs)
  BY <1>1
<1> HIDE DEF q, r
<1>5. AllMatch(T, q, r, live)
  BY <1>2, <1>3, <1>4 DEF AllMatch
<1> QED  BY <1>5 DEF q, r

\* A value and its pointer are pushed together; lexeme nodes are only added.
LEMMA MatchPush ==
  ASSUME NEW T, NEW V, NEW vs \in Seq(V), NEW ps \in Seq(Int), NEW live, NEW live2,
         AllMatch(T, vs, ps, live), live \subseteq live2,
         NEW v \in V, NEW p \in Int, Matches(T, v, p, live2)
  PROVE  AllMatch(T, Append(vs, v), Append(ps, p), live2)
<1> DEFINE q == Append(vs, v)  r == Append(ps, p)
<1>1. Len(vs) \in Nat /\ Len(ps) = Len(vs)
  BY LenProperties DEF AllMatch
<1>2. Len(q) = Len(vs) + 1 /\ q[Len(vs) + 1] = v /\ \A i \in 1..Len(vs) : q[i] = vs[i]
  BY PushFacts
<1>3. Len(r) = Len(vs) + 1 /\ r[Len(vs) + 1] = p /\ \A i \in 1..Len(vs) : r[i] = ps[i]
  BY <1>1, PushFacts
<1>4. \A i \in 1..Len(vs) : Matches(T, vs[i], ps[i], live2)
  BY DEF AllMatch, Matches
<1> HIDE DEF q, r
<1>5. \A i \in 1..(Len(vs) + 1) : Matches(T, q[i], r[i], live2)
  <2> TAKE i \in 1..(Len(vs) + 1)
  <2>1. CASE i = Len(vs) + 1
    BY <1>2, <1>3, <2>1
  <2>2. CASE i # Len(vs) + 1
    <3>1. i \in 1..Len(vs)
      BY <1>1, <2>2
    <3> QED  BY <1>2, <1>3, <1>4, <3>1
  <2> QED  BY <2>1, <2>2
<1>6. AllMatch(T, q, r, live2)
  BY <1>2, <1>3, <1>5 DEF AllMatch
<1> QED  BY <1>6 DEF q, r

\* A doubled stack has room for one element more than it holds.
LEMMA RoomGrows ==
  ASSUME capacity \in [{"states", "values"} -> Nat \ {0}], NEW m \in Nat, NEW n \in Nat,
         NEW heights, heights = [states |-> m, values |-> n],
         m <= capacity["states"], n <= capacity["values"]
  PROVE  m + 1 <= Grown(heights)["states"] /\ n + 1 <= Grown(heights)["values"]
<1>1. heights["states"] = m /\ heights["values"] = n
  OBVIOUS
<1>2. capacity["states"] \in Nat \ {0} /\ capacity["values"] \in Nat \ {0}
  OBVIOUS
<1>3. Grown(heights)["states"] = IF m = capacity["states"] THEN 2 * capacity["states"]
                                 ELSE capacity["states"]
  BY <1>1 DEF Grown
<1>4. Grown(heights)["values"] = IF n = capacity["values"] THEN 2 * capacity["values"]
                                 ELSE capacity["values"]
  BY <1>1 DEF Grown
<1> DEFINE c == capacity["states"]  d == capacity["values"]
<1> HIDE DEF c, d
<1>5. c \in Nat \ {0} /\ d \in Nat \ {0} /\ m <= c /\ n <= d
  BY <1>2 DEF c, d
<1>6. m + 1 <= (IF m = c THEN 2 * c ELSE c) /\ n + 1 <= (IF n = d THEN 2 * d ELSE d)
  BY <1>5
<1> QED  BY <1>3, <1>4, <1>6 DEF c, d

\* The heights by their names.
LEMMA RoomByName ==
  WithinCapacity <=> Len(states) <= capacity["states"] /\ Len(values) <= capacity["values"]
BY DEF WithinCapacity, Heights

\* The lengths of stacks that are pushed or popped together.
LEMMA PushedLengths ==
  ASSUME NEW S, NEW seq \in Seq(S), NEW h \in 0..Len(seq), NEW e \in S
  PROVE  Len(Append(SubSeq(seq, 1, h), e)) = h + 1
<1> DEFINE p == SubSeq(seq, 1, h)
<1>1. p \in Seq(S) /\ Len(p) = h
  BY PrefixFacts
<1> HIDE DEF p
<1> QED  BY <1>1, PushFacts DEF p

-----------------------------------------------------------------------------
(* The stacks, the return of the call, and the theorems. *)

\* Each action keeps both stacks within their room and each pointer with its
\* value: the pushes grow the stacks first, the pops only forget.
LEMMA StacksNext == CInv /\ [CNext]_cvars => StacksHoldValues'
<1> SUFFICES ASSUME CoreOK, MemoryOK, BlocksOK, StacksHoldValues, [CNext]_cvars
             PROVE  StacksHoldValues'
  BY DEF CInv
<1> USE DEF memory, caller, stack, report, cursor
<1>0. /\ pointers \in Seq(Int) /\ capacity \in [{"states", "values"} -> Nat \ {0}]
      /\ Len(states) <= capacity["states"] /\ Len(values) <= capacity["values"]
  BY RoomByName DEF MemoryOK, StacksHoldValues
<1>1. ASSUME status = "running"
      PROVE  /\ AllMatch(Table, values, pointers, owned) /\ Len(pointers) = Len(values)
             /\ states \in Seq(Table.states) /\ values \in Seq(Values)
             /\ Len(states) = Len(values) + 1 /\ Len(values) \in Nat
             /\ TypeOK /\ TInv /\ PathOK /\ SoundTables(Table)
  <2>1. AllMatch(Table, values, pointers, owned)
    BY <1>1, PointersAsMatches DEF StacksHoldValues
  <2>2. PathOK /\ Len(values) \in Nat
    BY <1>1, CoreFacts
  <2>3. Len(states) = Len(values) + 1
    BY <1>1, <2>2 DEF PathOK, Spells
  <2> QED  BY <1>1, <2>1, <2>2, <2>3, CoreFacts DEF AllMatch
<1>2. ASSUME UNCHANGED <<lang, states, values, pointers, owned, capacity>>,
             status' = "running" => status = "running"
      PROVE  StacksHoldValues'
  BY <1>2 DEF StacksHoldValues, WithinCapacity, Heights, PointersMatchValues, Table
<1>3. ASSUME UNCHANGED <<states, values, capacity>>, status' # "running"
      PROVE  StacksHoldValues'
  BY <1>3 DEF StacksHoldValues, WithinCapacity, Heights, PointersMatchValues
\* A push onto the stacks popped to height h.
<1>4. ASSUME status = "running", lang' = lang, NEW h \in 1..Len(states),
             NEW to \in Table.states, NEW v \in Values, NEW p \in Int,
             states' = Append(SubSeq(states, 1, h), to),
             values' = Append(SubSeq(values, 1, h - 1), v),
             pointers' = Append(SubSeq(pointers, 1, h - 1), p),
             capacity' = Grown(HeightsAt(h)),
             owned \subseteq owned', Matches(Table, v, p, owned')
      PROVE  StacksHoldValues'
  <2>1. h \in 0..Len(states) /\ h - 1 \in 0..Len(values) /\ h - 1 \in 0..Len(pointers)
        /\ h \in Nat /\ h - 1 \in Nat /\ h <= Len(states) /\ h - 1 <= Len(values)
    BY <1>1, <1>4
  <2>2. Len(states') = h + 1 /\ Len(values') = (h - 1) + 1
    BY <1>1, <1>4, <2>1, PushedLengths
  <2>3. h <= capacity["states"] /\ h - 1 <= capacity["values"]
    <3>1. capacity["states"] \in Nat /\ capacity["values"] \in Nat /\ Len(states) \in Nat
      BY <1>0, <1>1, <1>4
    <3> QED  BY <1>0, <1>1, <1>4, <2>1, <3>1
  <2>4. h + 1 <= capacity'["states"] /\ (h - 1) + 1 <= capacity'["values"]
    <3> DEFINE heights == HeightsAt(h)
    <3>1. heights = [states |-> h, values |-> h - 1]
      BY DEF HeightsAt
    <3> HIDE DEF heights
    <3>2. h + 1 <= Grown(heights)["states"] /\ (h - 1) + 1 <= Grown(heights)["values"]
      BY <1>0, <2>1, <2>3, <3>1, RoomGrows
    <3> QED  BY <1>4, <3>2 DEF heights
  <2>5. WithinCapacity'
    BY <2>2, <2>4 DEF WithinCapacity, Heights
  <2> DEFINE q == SubSeq(values, 1, h - 1)  r == SubSeq(pointers, 1, h - 1)
  <2>6. AllMatch(Table, q, r, owned) /\ q \in Seq(Values) /\ r \in Seq(Int)
    BY <1>0, <1>1, <1>4, <2>1, MatchPrefix, PrefixFacts
  <2>7. AllMatch(Table, values', pointers', owned')
    <3> HIDE DEF q, r
    <3>1. AllMatch(Table, Append(q, v), Append(r, p), owned')
      BY <1>4, <2>6, MatchPush
    <3> QED  BY <1>4, <3>1 DEF q, r
  <2>8. Table' = Table
    BY <1>4 DEF Table
  <2>9. PointersMatchValues'
    BY <2>7, <2>8 DEF PointersMatchValues, AllMatch, Matches
  <2> QED  BY <2>5, <2>9 DEF StacksHoldValues
<1>5. CASE CBegin
  <2>1. status = "new" /\ UNCHANGED <<lang, states, values, capacity, owned, pointers>>
    BY <1>5 DEF CBegin, Begin
  <2>2. pointers' = <<>> /\ values' = <<>>
    BY <2>1 DEF BlocksOK
  <2>3. PointersMatchValues'
    BY <2>2 DEF PointersMatchValues
  <2> QED  BY <2>1, <2>3 DEF StacksHoldValues, WithinCapacity, Heights
<1>6. CASE CPeek \/ CDiscard
  BY <1>2, <1>6 DEF CPeek, PeekLexeme, PeekEnd, CDiscard, Discard, Keeps
<1>7. CASE CPeekFails \/ BeginFails \/ ShiftFails \/ ReduceFails \/ DiagnosticFails \/ ErrorPushFails
  <2>1. UNCHANGED <<states, values, capacity>> /\ status' # "running"
    BY <1>7 DEF CPeekFails, PeekFails, SourceErrors, BeginFails, ShiftFails, ReduceFails,
                DiagnosticFails, ErrorPushFails, OutOfMemory, ReturnFailure, Release
  <2> QED  BY <1>3, <2>1
<1>8. CASE CAccept \/ CAbortAtEnd
  <2>1. UNCHANGED <<states, values, capacity>> /\ status' # "running"
    BY <1>8 DEF CAccept, Accept, CAbortAtEnd, AbortAtEnd, ReturnResult, Release
  <2> QED  BY <1>3, <2>1
<1>9. CASE CShift
  <2> DEFINE h == Len(states)  n == Len(pulled)
  <2>1. /\ status = "running" /\ symbol # EOF /\ ready /\ lang' = lang
        /\ states' = Append(states, Action.state) /\ values' = Append(values, LexemeValue)
        /\ Action.state \in Table.states
    BY <1>9, ShiftsAreReal DEF CShift, Shift, ActionIs, Deciding
  <2>2. /\ pointers' = Append(pointers, n) /\ owned' = owned \cup {n} /\ capacity' = Grown(Heights)
    BY <1>9 DEF CShift
  <2>3. n \in Nat /\ symbol \in Lookaheads
    BY <1>1, <2>1, LenProperties DEF TypeOK
  <2>4. LexemeValue \in Values /\ LexemeValue.from = n - 1 /\ LexemeValue.to = n
        /\ LexemeValue.sym # Error
    <3>1. Consumed = n - 1
      BY <2>1, <2>3 DEF Consumed
    <3>2. LexemeValue \in Values
      BY <1>1, <2>1, SpanFacts
    <3>3. symbol # Error
      BY <1>1, <2>1, <2>3 DEF Lookaheads, SoundTables, Unknown, EOF, Error
    <3>4. LexemeValue.from = n - 1 /\ LexemeValue.to = (n - 1) + 1 /\ LexemeValue.sym = symbol
      BY <3>1 DEF LexemeValue
    <3> QED  BY <2>3, <3>2, <3>3, <3>4
  <2>5. Matches(Table, LexemeValue, n, owned')
    BY <2>2, <2>4 DEF Matches
  <2> DEFINE lv == LexemeValue  to == Action.state
  <2>6. AllMatch(Table, Append(values, lv), Append(pointers, n), owned')
    <3>1. n \in Int /\ owned \subseteq owned' /\ lv \in Values /\ Matches(Table, lv, n, owned')
      BY <2>2, <2>3, <2>4, <2>5
    <3> HIDE DEF lv, n
    <3> QED  BY <1>0, <1>1, <2>1, <3>1, MatchPush
  <2>7. PointersMatchValues'
    <3>1. Table' = Table
      BY <2>1 DEF Table
    <3> QED  BY <2>1, <2>2, <2>6, <3>1 DEF PointersMatchValues, AllMatch, Matches
  <2>8. Len(states') = h + 1 /\ Len(values') = Len(values) + 1
    BY <1>1, <2>1, <2>4, PushFacts
  <2>9. h + 1 <= capacity'["states"] /\ Len(values) + 1 <= capacity'["values"]
    <3> DEFINE heights == Heights
    <3>1. heights = [states |-> h, values |-> Len(values)] /\ h \in Nat
      BY <1>1, <2>1 DEF Heights
    <3> HIDE DEF heights
    <3>2. h + 1 <= Grown(heights)["states"] /\ Len(values) + 1 <= Grown(heights)["values"]
      BY <1>0, <1>1, <2>1, <3>1, RoomGrows
    <3> QED  BY <2>2, <3>2 DEF heights
  <2>10. WithinCapacity'
    BY <2>8, <2>9 DEF WithinCapacity, Heights
  <2> QED  BY <2>7, <2>10 DEF StacksHoldValues
<1>10. CASE CReduce
  <2> DEFINE n == HandleSize  m == Len(pointers)  h == Len(states) - n  lhs == Rule(Action.rule).lhs
             handle == SubSeq(pointers, m - n + 1, m)
             v == Reduced(lhs, Handle)
             p == IF HasReducer THEN Opaque ELSE DefaultValue(handle)
  <2>1. /\ status = "running" /\ ActionIs("reduce") /\ HandleFits /\ lang' = lang
        /\ n \in 0..Len(values) /\ h \in 1..Len(states) /\ Action.rule \in DOMAIN Table.rules
        /\ values' = Append(Drop(values, n), v)
    BY <1>10, ReductionsAreReal DEF CReduce, Reduce
  <2>2. /\ pointers' = Append(Drop(pointers, n), p) /\ capacity' = Grown(HeightsAt(h)) /\ owned' = owned
    BY <1>10 DEF CReduce
  <2>3. PICK to \in Table.states : states' = Append(Drop(states, n), to)
    BY <1>10, ReductionsAreReal DEF CReduce
  <2>4. Len(values) - n = h - 1 /\ Len(pointers) - n = h - 1
    BY <1>1, <2>1
  <2>5. /\ states' = Append(SubSeq(states, 1, h), to)
        /\ values' = Append(SubSeq(values, 1, h - 1), v)
        /\ pointers' = Append(SubSeq(pointers, 1, h - 1), p)
    BY <2>1, <2>2, <2>3, <2>4 DEF Drop
  <2>6. v \in Values /\ v.sym = lhs
    BY <1>1, <2>1, ReduceFacts, KeptFacts, ReducedFacts DEF Reduced
  <2>7. lhs \notin Table.terminals /\ lhs # Error
    BY <1>1, <2>1 DEF SoundTables, Rule
  <2>8. /\ handle \in Seq(Int) /\ Len(handle) = n
        /\ \A i \in 1..n : handle[i] = pointers[m - n + i]
    <3>1. n \in 0..Len(pointers)
      BY <1>1, <2>1
    <3> HIDE DEF n
    <3> QED  BY <1>0, <3>1, SuffixFacts
  <2>9. Len(Handle) = n /\ \A i \in 1..n : Handle[i] = values[m - n + i]
    BY <1>1, <2>1, KeptFacts
  <2>10. p \in Int /\ (p > 0 => p \in owned /\ v.from = p - 1 /\ v.to = p)
    <3>1. CASE HasReducer \/ n # 1
      <4>1. p \in {Opaque, Null}
        BY <2>8, <3>1 DEF DefaultValue
      <4> HIDE DEF p
      <4> QED  BY <4>1 DEF Opaque, Null
    <3>2. CASE ~HasReducer /\ n = 1
      <4>1. 1 \in 1..n /\ m - n + 1 = m /\ m \in 1..Len(values) /\ m \in 1..Len(pointers)
        BY <1>1, <2>1, <3>2
      <4>2. p = pointers[m] /\ pointers[m] \in Int
        <5>1. p = handle[1]
          BY <2>8, <3>2 DEF DefaultValue
        <5> HIDE DEF p, handle
        <5> QED  BY <1>0, <2>8, <4>1, <5>1, ElementOfSeq
      <4>3. v.from = values[m].from /\ v.to = values[m].to
        <5>1. Handle # <<>> /\ Handle[1] = values[m] /\ Top(Handle) = values[m]
          BY <2>9, <3>2, <4>1 DEF Top
        <5> QED  BY <5>1 DEF Reduced
      <4>4. Matches(Table, values[m], pointers[m], owned)
        BY <1>1, <2>1, <4>1 DEF AllMatch
      <4> HIDE DEF p, v, m
      <4> QED  BY <4>2, <4>3, <4>4 DEF Matches
    <3> QED  BY <3>1, <3>2
  <2>11. Matches(Table, v, p, owned')
    <3> HIDE DEF v, p, lhs
    <3> QED  BY <2>2, <2>6, <2>7, <2>10 DEF Matches
  <2> HIDE DEF v, p, h, lhs
  <2> QED  BY <1>4, <2>1, <2>2, <2>5, <2>6, <2>10, <2>11
<1>11. CASE CReducerFails
  <2>1. /\ status = "running" /\ ActionIs("reduce") /\ HandleFits /\ status' # "running"
        /\ values' = Drop(values, HandleSize) /\ states' = states /\ capacity' = capacity
    BY <1>11 DEF CReducerFails, ReducerFails, Release, ActionIs, Deciding
  <2>2. Len(values') = Len(values) - HandleSize /\ HandleSize \in Nat /\ Len(values) \in Nat
    BY <1>1, <2>1, KeptFacts, ReduceFacts
  <2>3. capacity["values"] \in Nat
    BY <1>0
  <2>4. Len(values') <= capacity'["values"]
    BY <1>0, <2>1, <2>2, <2>3
  <2> QED  BY <1>0, <2>1, <2>4 DEF StacksHoldValues, WithinCapacity, Heights, PointersMatchValues
<1>12. CASE CShiftError
  <2>1. status = "running" /\ lang' = lang /\ owned' = owned
    BY <1>12 DEF CShiftError, ShiftError, MissingAction, Deciding
  <2>2. PICK h \in 1..Len(states) :
          /\ StopsAt(h)
          /\ states' = Append(SubSeq(states, 1, h), Table.actions[states[h]][Error].state)
          /\ values' = Append(SubSeq(values, 1, h - 1), ErrorValue)
    BY <1>12 DEF CShiftError, ShiftError
  <2>3. PICK g \in 1..Len(states) :
          /\ StopsAt(g)
          /\ pointers' = Append(SubSeq(pointers, 1, g - 1), Null)
          /\ capacity' = Grown(HeightsAt(g))
    BY <1>12 DEF CShiftError
  <2>4. g = h
    <3>1. g \in Nat /\ h \in Nat
      BY <1>1, <2>1
    <3>2. g <= h /\ h <= g
      BY <2>2, <2>3 DEF StopsAt
    <3> QED  BY <3>1, <3>2
  <2>5. Table.actions[states[h]][Error].state \in Table.states
    <3>1. states[h] \in Table.states /\ CanShiftError(states[h])
      BY <1>1, <2>1, <2>2, TopFacts DEF StopsAt, RecoveryHeights
    <3> QED  BY <1>1, <2>1, <3>1, ErrorShiftFacts DEF Entered
  <2>6. ErrorValue \in Values /\ Null \in Int /\ Matches(Table, ErrorValue, Null, owned')
    <3>1. ErrorValue.sym = Error /\ Error \notin Table.terminals
      BY <1>1, <2>1 DEF ErrorValue, SoundTables
    <3> QED  BY <1>1, <2>1, <3>1, SpanFacts DEF Matches, Null
  <2> DEFINE to == Table.actions[states[h]][Error].state  v == ErrorValue
  <2>7. /\ states' = Append(SubSeq(states, 1, h), to) /\ to \in Table.states
        /\ values' = Append(SubSeq(values, 1, h - 1), v) /\ v \in Values
        /\ pointers' = Append(SubSeq(pointers, 1, h - 1), Null)
        /\ capacity' = Grown(HeightsAt(h)) /\ Matches(Table, v, Null, owned') /\ owned \subseteq owned'
    BY <2>1, <2>2, <2>3, <2>4, <2>5, <2>6
  <2> HIDE DEF to, v
  <2> QED  BY <1>4, <2>1, <2>6, <2>7
<1>13. CASE CAbort
  <2>1. status = "running" /\ status' # "running" /\ states' = <<states[1]>> /\ values' = <<>>
        /\ capacity' = capacity
    BY <1>13 DEF CAbort, Abort, MissingAction, Deciding
  <2>2. Len(states') = 1 /\ Len(values') = 0
    BY <2>1
  <2>3. capacity["states"] \in Nat \ {0} /\ capacity["values"] \in Nat \ {0}
    BY <1>0
  <2>4. Len(states') <= capacity'["states"] /\ Len(values') <= capacity'["values"]
    BY <2>1, <2>2, <2>3
  <2> QED  BY <2>1, <2>4 DEF StacksHoldValues, WithinCapacity, Heights, PointersMatchValues
<1>14. CASE RecoveringReturns \/ StrictReturns \/ UNCHANGED cvars
  BY <1>2, <1>14 DEF RecoveringReturns, StrictReturns, cvars, vars
<1> QED  BY <1>5, <1>6, <1>7, <1>8, <1>9, <1>10, <1>11, <1>12, <1>13, <1>14 DEF CNext

\* A call returns from its last phase only, and then changes nothing any more.
LEMMA CleanNext == CInv /\ [CNext]_cvars => ReturnsAreClean'
<1> SUFFICES ASSUME BlocksOK, MessageOK, MemoryOK, ReturnsAreClean, [CNext]_cvars
             PROVE  ReturnsAreClean'
  BY DEF CInv
<1> USE DEF memory, caller
<1>1. ASSUME returned' = "no"
      PROVE  ReturnsAreClean'
  BY <1>1 DEF ReturnsAreClean
<1>2. ASSUME status \in {"new", "running"}, returned' = returned
      PROVE  ReturnsAreClean'
  BY <1>1, <1>2 DEF BlocksOK, Finishing
<1>3. CASE CBegin \/ BeginFails \/ CPeek \/ CPeekFails
  BY <1>2, <1>3 DEF CBegin, Begin, BeginFails, OutOfMemory, ReturnFailure, CPeek, PeekLexeme, PeekEnd,
                    CPeekFails, PeekFails, Peeking, Keeps
<1>4. CASE CShift \/ ShiftFails \/ CReduce \/ ReduceFails \/ CReducerFails \/ CAccept
  BY <1>2, <1>4 DEF CShift, Shift, ShiftFails, CReduce, Reduce, ReduceFails, CReducerFails, ReducerFails,
                    CAccept, Accept, OutOfMemory, ReturnFailure, ReturnResult, ActionIs, Deciding
<1>5. CASE CShiftError \/ DiagnosticFails \/ ErrorPushFails \/ CAbort \/ CDiscard \/ CAbortAtEnd
  BY <1>2, <1>5 DEF CShiftError, ShiftError, DiagnosticFails, ErrorPushFails, CAbort, Abort, CDiscard,
                    Discard, CAbortAtEnd, AbortAtEnd, OutOfMemory, ReturnFailure, ReturnResult, Keeps, MissingAction, Deciding
<1>6. CASE RecoveringReturns
  <2>1. /\ Finishing /\ returned = "no" /\ call = "recovering"
        /\ returned' = IF CallFailed THEN "failed" ELSE "ok"
        /\ UNCHANGED <<diagnostics, call, given, message, owned, blocks>>
    BY <1>6 DEF RecoveringReturns, CallDone, Finishing, vars, report
  <2>2. owned' = {} /\ blocks' = Listed
    BY <2>1 DEF BlocksOK
  <2>3. given => (message <=> CallFailed)
    BY <2>1 DEF MessageOK
  <2> QED  BY <2>1, <2>2, <2>3 DEF ReturnsAreClean, Listed
<1>7. CASE StrictReturns
  <2>1. /\ Finishing /\ returned = "no" /\ call = "strict"
        /\ returned' = IF CallFailed \/ diagnostics # <<>> THEN "failed" ELSE "ok"
        /\ message' = (message \/ (~CallFailed /\ diagnostics # <<>> /\ given))
        /\ blocks' = blocks \ {"diagnostics"}
        /\ UNCHANGED <<diagnostics, call, given, owned>>
    BY <1>7 DEF StrictReturns, CallDone, Finishing, vars, report
  <2>2. owned' = {} /\ blocks' = {}
    BY <2>1 DEF BlocksOK, Listed
  <2>3. given => (message <=> CallFailed)
    BY <2>1 DEF MessageOK
  <2>4. given' => (message' <=> returned' = "failed")
    <3>1. ASSUME given PROVE message' <=> (CallFailed \/ diagnostics # <<>>)
      BY <2>1, <2>3, <3>1
    <3> QED  BY <2>1, <3>1
  <2> QED  BY <2>1, <2>2, <2>4 DEF ReturnsAreClean
<1>8. CASE UNCHANGED cvars
  BY <1>8 DEF cvars, vars, report, ReturnsAreClean
<1> QED  BY <1>3, <1>4, <1>5, <1>6, <1>7, <1>8 DEF CNext

\* The invariant holds before the call.
LEMMA CInvInit == CInit => CInv
<1> SUFFICES ASSUME CInit PROVE CInv
  OBVIOUS
<1> USE DEF CInit
<1>1. CoreOK
  BY TypeInit, PathInit DEF CoreOK, IInv, Init, NoInternalFailure, InternalErrors
<1>2. MemoryOK
  <2>1. pointers \in Seq(Int) /\ given \in BOOLEAN /\ message \in BOOLEAN
    BY EmptySeq
  <2>2. capacity \in [{"states", "values"} -> Nat \ {0}]
    BY CapacityAssumption
  <2> QED  BY <2>1, <2>2 DEF MemoryOK
<1>3. BlocksOK /\ MessageOK
  BY DEF BlocksOK, MessageOK, Finishing, Init
<1>4. StacksHoldValues
  <2>1. Len(states) = 1 /\ Len(values) = 0 /\ status = "new"
    BY DEF Init
  <2>2. Len(states) <= capacity["states"] /\ Len(values) <= capacity["values"]
    BY <2>1, CapacityAssumption
  <2> QED  BY <2>1, <2>2 DEF StacksHoldValues, WithinCapacity, Heights, PointersMatchValues
<1>5. ReturnsAreClean
  BY DEF ReturnsAreClean
<1> QED  BY <1>1, <1>2, <1>3, <1>4, <1>5 DEF CInv

\* The invariant holds in every reachable state of a call.
LEMMA CInvariance == CSpec => []CInv
<1>1. CInv /\ [CNext]_cvars => CInv'
  <2> SUFFICES ASSUME CInv, [CNext]_cvars PROVE CInv'
    OBVIOUS
  <2>1. CoreOK'
    BY CoreNext DEF CInv
  <2> QED  BY <2>1, MemoryNext, BlocksNext, MessageNext, StacksNext, CleanNext DEF CInv
<1> QED  BY <1>1, CInvInit, PTL DEF CSpec

\* Both stacks of the C parser stay within their allocations, and each pointer
\* on the value stack is what the typed reducers cast it to, for every set of
\* sound tables, every first capacity and wherever memory runs out.
THEOREM StacksHoldTheirValues == CSpec => []StacksHoldValues
<1>1. CInv => StacksHoldValues
  BY DEF CInv
<1> QED  BY <1>1, CInvariance, PTL

\* Whatever failed, a call that has returned has freed its stacks and lexemes,
\* keeps the list of diagnostics only to hand it over, and has written a message
\* exactly when it failed.
THEOREM ReturnedCallsAreClean == CSpec => []ReturnsAreClean
<1>1. CInv => ReturnsAreClean
  BY DEF CInv
<1> QED  BY <1>1, CInvariance, PTL

=============================================================================
