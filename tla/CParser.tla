------------------------------ MODULE CParser ------------------------------
(***************************************************************************)
(* The generated C parser: the loop of LRParser with its memory.  Both     *)
(* stacks grow by doubling, every shifted lexeme is copied to a node the   *)
(* call owns, every allocation may fail, and every exit frees what it      *)
(* holds.  A value is a pointer; the symbol and span that LRParser gives   *)
(* it say what it should point to.                                         *)
(*                                                                         *)
(* Failures are reported through an error record the caller may leave out. *)
(* The strict calls free the result of the recovering call themselves.     *)
(***************************************************************************)
EXTENDS LRParser

CONSTANT FirstCapacity      \* of both stacks: 64 in the code

ASSUME CapacityAssumption == FirstCapacity \in Nat \ {0}

VARIABLES
  call,          \* "recovering" or "strict"
  given,         \* error # NULL
  message,       \* error->message is not empty
  pointers,      \* the value stack: Null, Opaque, or the number of a lexeme node
  owned,         \* owned_lexemes: the nodes allocated and not freed
  blocks,        \* the other blocks allocated and not freed
  capacity,      \* [states, values]: what the stacks have room for
  result,        \* result->value
  returned       \* "no", "ok" (1) or "failed" (0)

memory == <<pointers, owned, blocks, capacity>>
cvars  == <<vars, call, given, message, memory, result, returned>>
caller == <<call, given>>

Null   == 0
Opaque == -1     \* what a reducer returns

CInit ==
  /\ Init
  /\ call \in {"recovering", "strict"} /\ given \in BOOLEAN
  /\ message = FALSE /\ pointers = <<>> /\ owned = {} /\ blocks = {}
  /\ capacity = [states |-> FirstCapacity, values |-> FirstCapacity]
  /\ result = Null /\ returned = "no"

-----------------------------------------------------------------------------
(* What the steps do to the memory. *)

Keeps == UNCHANGED <<caller, message, memory, result, returned>>

\* free(states), free(values), lf_free_owned_lexemes.
Release ==
  /\ blocks' = blocks \ {"states", "values"}
  /\ owned' = {}
  /\ UNCHANGED <<pointers, capacity>>

\* return 0 with a message.
ReturnFailure ==
  /\ Release
  /\ message' = given
  /\ UNCHANGED <<caller, result, returned>>

OutOfMemory ==
  /\ status' = "out of memory"
  /\ ReturnFailure
  /\ UNCHANGED <<lang, stack, recovering, active, cursor, shifted>>

\* return 1 with the top of the value stack.
ReturnResult ==
  /\ Release
  /\ result' = IF pointers = <<>> THEN Null ELSE Top(pointers)
  /\ UNCHANGED <<caller, message, returned>>

\* lf_push_state and lf_push_value with the stacks at these heights.
\* Mutant: a stack grows one element late.
GrownLate(heights) ==
  [s \in {"states", "values"} |->
     IF heights[s] > capacity[s] THEN 2 * capacity[s] ELSE capacity[s]]
Grown(heights) ==
  [s \in {"states", "values"} |->
     IF heights[s] = capacity[s] THEN 2 * capacity[s] ELSE capacity[s]]
Heights      == [states |-> Len(states), values |-> Len(values)]
HeightsAt(h) == [states |-> h, values |-> h - 1]

Grows(heights) == \E s \in {"states", "values"} : heights[s] = capacity[s]

-----------------------------------------------------------------------------
(* The recovering call. *)

CBegin ==
  /\ Begin
  /\ IF status' = "running"
       THEN /\ blocks' = {"states", "values"}
            /\ UNCHANGED <<message, owned, pointers, capacity>>
       ELSE message' = given /\ UNCHANGED memory
  /\ UNCHANGED <<caller, result, returned>>

BeginFails == status = "new" /\ OutOfMemory /\ UNCHANGED diagnostics

CPeek == (PeekLexeme \/ PeekEnd) /\ Keeps

\* Mutant: the lexemes are not freed.
CPeekFailsLeaks ==
  /\ PeekFails
  /\ blocks' = {}
  /\ message' = given
  /\ UNCHANGED <<caller, pointers, owned, capacity, result, returned>>
CPeekFails == PeekFails /\ ReturnFailure

\* The copy of the lexeme and then the two pushes; each may find no memory.
CShift ==
  /\ Shift
  /\ owned' = owned \cup {Len(pulled)}
  /\ pointers' = Append(pointers, Len(pulled))
  /\ capacity' = Grown(Heights)
  /\ UNCHANGED <<caller, message, blocks, result, returned>>

ShiftFails == ActionIs("shift") /\ OutOfMemory /\ UNCHANGED diagnostics

HasReducer == Rule(Action.rule).hook

\* The value of a rule without an action.
DefaultValue(handle) == IF Len(handle) = 1 THEN handle[1] ELSE Null

\* rhs_values is allocated and freed within the step.  A failing reducer is
\* noticed by its message, for which it needs an error record: without one the
\* parse goes on with the value it returned, as after a success.
CReduce ==
  /\ Reduce
  /\ LET handle == SubSeq(pointers, Len(pointers) - HandleSize + 1, Len(pointers))
     IN  pointers' = Append(Drop(pointers, HandleSize),
                            IF HasReducer THEN Opaque ELSE DefaultValue(handle))
  /\ capacity' = Grown(HeightsAt(Len(states) - HandleSize))
  /\ UNCHANGED <<caller, message, owned, blocks, result, returned>>

ReduceFails == ActionIs("reduce") /\ HandleFits /\ OutOfMemory /\ UNCHANGED diagnostics

CReducerFails ==
  /\ ReducerFails /\ given
  /\ Release /\ message' = TRUE
  /\ UNCHANGED <<caller, result, returned>>

CAccept == Accept /\ ReturnResult

\* The list of diagnostics is reallocated for each one.
CShiftError ==
  /\ ShiftError
  /\ blocks' = blocks \cup {"diagnostics"}
  /\ \E h \in 1..Len(states) :
       /\ StopsAt(h)
       /\ pointers' = Append(SubSeq(pointers, 1, h - 1), Null)
       /\ capacity' = Grown(HeightsAt(h))
  /\ UNCHANGED <<caller, message, owned, result, returned>>

DiagnosticFails ==
  /\ MissingAction /\ recovering = 0
  /\ OutOfMemory /\ UNCHANGED diagnostics

\* The diagnostic is there, the pushes find no memory.
ErrorPushFails ==
  /\ MissingAction /\ recovering = 0
  /\ \E h \in 1..Len(states) : StopsAt(h) /\ Grows(HeightsAt(h))
  /\ status' = "out of memory"
  /\ diagnostics' = Append(diagnostics, Diagnosis("none"))
  /\ blocks' = {"diagnostics"} /\ owned' = {} /\ message' = given
  /\ UNCHANGED <<lang, stack, recovering, active, cursor, shifted, caller,
                 pointers, capacity, result, returned>>

\* Every value has been popped.
CAbort ==
  /\ Abort
  /\ blocks' = {"diagnostics"} /\ owned' = {} /\ result' = Null
  /\ UNCHANGED <<caller, message, pointers, capacity, returned>>

CDiscard == Discard /\ Keeps

CAbortAtEnd == AbortAtEnd /\ ReturnResult

-----------------------------------------------------------------------------
(* How the calls return. *)

CallFailed == status \in (Finished \cup {"out of memory"}) \ {"accepted", "aborted"}
CallDone   == status \notin {"new", "running"} /\ returned = "no"

RecoveringReturns ==
  /\ CallDone /\ call = "recovering"
  /\ returned' = IF CallFailed THEN "failed" ELSE "ok"
  /\ UNCHANGED <<vars, caller, message, memory, result>>

\* lf_format_parse_error, and the result is freed.
StrictReturns ==
  /\ CallDone /\ call = "strict"
  /\ returned' = IF CallFailed \/ diagnostics # <<>> THEN "failed" ELSE "ok"
  /\ message' = (message \/ (~CallFailed /\ diagnostics # <<>> /\ given))
  /\ blocks' = blocks \ {"diagnostics"}
  /\ UNCHANGED <<vars, caller, owned, pointers, capacity, result>>

CNext ==
  \/ CBegin \/ BeginFails \/ CPeek \/ CPeekFails
  \/ CShift \/ ShiftFails \/ CReduce \/ ReduceFails \/ CReducerFails \/ CAccept
  \/ CShiftError \/ DiagnosticFails \/ ErrorPushFails \/ CAbort \/ CDiscard \/ CAbortAtEnd
  \/ RecoveringReturns \/ StrictReturns

CSpec     == CInit /\ [][CNext]_cvars
CFairSpec == CSpec /\ WF_cvars(CNext)

-----------------------------------------------------------------------------
(* Properties. *)

\* Whatever allocation, pull or reduction failed, a returned call has freed its
\* stacks and lexemes; what is left is the list of diagnostics, which only the
\* recovering call hands over, and hands over whenever there are diagnostics.
\* A caller that passed an error record finds a message there exactly when the
\* call failed.
ReturnsAreClean ==
  returned # "no" =>
    /\ owned = {}
    /\ blocks = IF call = "recovering" /\ diagnostics # <<>> THEN {"diagnostics"} ELSE {}
    /\ given => (message <=> returned = "failed")

\* No push writes past the end of a stack.
WithinCapacity == \A s \in {"states", "values"} : Heights[s] <= capacity[s]

\* While the parser runs, its value stack holds what the typed reducers cast
\* its values to: for a terminal a live copy of that very lexeme, for `error'
\* no pointer, and a lexeme only for values that span just that lexeme.
PointersMatchValues ==
  status = "running" =>
    /\ Len(pointers) = Len(values)
    /\ \A i \in 1..Len(values) :
         LET value == values[i]
         IN  /\ value.sym \in Table.terminals => pointers[i] = value.to
             /\ value.sym = Error => pointers[i] = Null
             /\ pointers[i] > 0 => /\ pointers[i] \in owned
                                   /\ value.from = pointers[i] - 1 /\ value.to = pointers[i]

\* The stacks of the C parser hold the values they stand for, within their room.
StacksHoldValues == WithinCapacity /\ PointersMatchValues

\* Every call returns, whatever fails on the way.
CallsReturn == <>(returned # "no")

\* A value that is returned as a success is not a lexeme the call has freed.
ReturnedValuesLive == (returned = "ok" /\ result > 0) => result \in owned

=============================================================================
