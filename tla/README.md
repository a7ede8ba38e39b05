# lang-forge: TLA+ models, checks and proofs

lang-forge reads a language specification (scanner rules and a grammar with
optional recovery alternatives) and generates a scanner and a table-driven LR
parser in Go, C, C++ or C#.  This directory holds a TLA+ development of it: the
generated scanners and parsers with their callers, streams, errors and memory; the
construction of the tables that drive them; the readers of specifications and
regular expressions; and the command line that puts the pieces together.

## 1. Inventory

The pipeline is sequential: specification text -> `spec` -> `lex.BuildFromSpec` and
`parse.FromSpec` -> `parse.Build` -> code generation.  What runs later, in the
user's program, is the generated code: a scanner, a parser loop and a reducer
supplied by the user, which interact by calls (the parser *pulls* lexemes from a
source and *pushes* reductions to a reducer; both may fail at any call).  The
scanners pull text from a reader, stream or callback, and may be shared by threads.

| Component | State it keeps | Operations | What makes it correct | Modules |
|---|---|---|---|---|
| Generated Go parser (`codegen/golang/generate.go` 634-1000) | LR state stack, value stack, recovery counter, active diagnostic, diagnostics, lexeme cursor | peek, shift, reduce, accept, error search, discard, abort | the two stacks agree; no internal error; every lexeme is shifted or reported as discarded; no cascades; strict success means the whole input was parsed; recovery ends | `LRParser`, `LRParserLanguage` |
| Generated C parser (`codegen/c/generate.go` 1000-1300) | the same, with owned lexeme copies, growable stacks, an optional error record | the same, with an allocation that may fail at every growth; strict wrappers | nothing leaked, freed twice or read after release; a failure is never silent | `CParser` |
| Generated C++ parser (`codegen/cpp/generate.go`) | the same, with a copy of the caller's reducer or reducer map and, between the pop and the push of a reduction, a stack without its handle | construction with its coverage check, the same steps, exceptions, `parse_value` | a checked reducer map stays sufficient; exceptions lose nothing that matters; same results as the Go parser | `CppParser` |
| Generated C# parser | as the Go parser | the same, with exceptions for early returns | same results as the Go parser | `LRParser` (the same steps in the same order) |
| Packed tables and reports of C and C++ (`codegen/c`, `codegen/cpp`, `parse.finalizeTable`) | rows of actions, gotos, rules, expected tokens | scan or binary search of a row; what a diagnostic says was expected | a lookup finds what the table holds; expected tokens are those with an action | `PackedTables` |
| Generated scanners over a string | position, mutex | `Next`, `All`, `IncludeHidden`; `lf_tokenize` | longest match, first rule; callers share the lexemes without loss | `Scanner`, `Tokenizer` |
| Generated scanners over a reader | buffer, position, pending error, end flag, mutex; in C also the blocks it owns | `Next`, reading, `Dispose`, `free` | chunks make no difference; errors once, after the lexemes before them; memory | `ReaderScanner` (Go), `InputStreamScanner` (C++), `TextReaderScanner` (C#), `StreamScanner` (C) |
| Lexer compilation (`lex/*.go`) | NFA, DFA, partitions, rune ranges | parse, expand references, NFA, subset construction, `Minimize`, range algebra | the automaton is the minimal one of the rules; the rules accepted are the meaningful ones | `RegexParser`, `LexerCompiler`, `RangeSets` |
| Table construction (`parse/slr.go`, `parse/lr1.go`) | automata, partitions, state maps | closure, goto, worklist, merge, split, refine, `setAction` | tables drive the parser soundly; merging loses no sentence and accepts no other; IELR is as strong as canonical LR(1) | `LRTables` |
| Grammar validation (`parse/grammar.go`) | rules, terminals, diagnostics | `FromSpec` | no accepted specification yields tables the parser trips over | `GrammarTables`, `SpecDirectives` |
| Action manifest (`action/manifest.go`) and typed reducers | actions, contexts | group, order, check; the conversions generated from it | a typed handler is called with values of its fields' types | `TypedActions` |
| Specification parser (`spec/parser.go`) | line state, the `Spec` so far, diagnostics | sections, directives, rules, merge of a lexer and a grammar file | what was written is read back; every line is used or reported, with its position | `SpecText`, `SpecParser`, `Specifications`, `SpecDirectives` |
| Command line (`app/app.go`) and the generators' writes | files on disk | `validate`, `inspect`, `generate` | exit codes agree; no output from an invalid specification; a success leaves a whole package | `Generation` |
| Diagnostics (`diagnostics`) | list | line starts, positions, merge | positions point to the right line | `SpecText` |
| Version, parity checkers | none | - | - | not modelled |

The hard behaviours: recovery puts the parser on stacks that no error-free parse
builds; source and reducer fail between two steps; lookaheads of merged states
cause reductions before an error is seen; IELR's partition is found by an
order-dependent greedy split; the reader scanners receive arbitrary chunks that cut
runes and lexemes, errors along with data, and concurrent calls; C allocations fail
at any growth; typed values pass through rules without actions; six text scans of the
specification reader look for delimiters with rules of their own; `generate` writes
in place and can be killed.  `PROJECT.json` lists these hazards with their lines
and the properties that cover them.

## 2. Modules and composition

    TableSoundness ──┬── LRParser ──┬── LRParserLanguage ── MCLRParser ──┐
                     │              └── CParser ─────────────────────────┴── MCCParser
                     ├── CppParser   (with an instance of LRParser) ────────── MCCppParser
                     ├── LRTables ── PackedTables ── GrammarTables ── TypedActions ── MCGrammarTables
                     └── MCPackages  (tables for the three MC modules of the parsers)
    ScannerTables ──┬── LexemeStream         (the abstract specification)
                    ├── Scanner, Tokenizer
                    └── ChunkScanner ──┬── ReaderScanner, InputStreamScanner,
                                       │   TextReaderScanner, StreamScanner
                                       └── Scanners ── MCScanners (instances of all seven)
    RegexExpr ──┬── RegexParser ────┐
                └── LexerCompiler ──┴── Lexer ── MCLexer   (with an instance of RangeSets)
    SpecText ── SpecParser ──┬── Specifications ── MCSpecifications
                             └── SpecDirectives   (an instance in Specifications)
    Generation ── MCGeneration

Proofs, each on the module it is named after and on `ProofLemmas`:

    LRParserProofs ──┬── CppParserProofs (as an instance)
                     └── CParserProofs
    GrammarTablesProofs  (on TypedActions, GrammarTables and LRTables)
    ScannerTablesProofs ── ScannersProofs             GenerationProofs

Three interfaces tie the parts together:

* **`TableSoundness`** is what a parser relies on in its tables.  `LRParser` assumes
  it (`TablesAreSound`) and the proofs about parsers use nothing else about tables;
  that every builder meets it, for any specification, is a theorem of
  `GrammarTablesProofs`.
* **`ScannerTables!LexerOK`** is what a scanner relies on in its tables;
  `LexerCompiler` checks it of every automaton it compiles (`TablesFitTheScanners`).
* **`RegexExpr`** holds the expressions that `RegexParser` produces and
  `LexerCompiler` consumes.

`Scanners`, `Lexer` and `Specifications` compose components in one state space: a
behaviour is one of any of the components, whose shared variables are renamed to
common ones and whose other variables hold `Unused`.

### The parser: `LRParser` and the code

A variable is a local variable or cursor field of the same name, except:
`status` is "new" before the loop, "running" in it and afterwards the way the call
returned; `active` is `activeDiagnostic` counted from 1 with 0 for -1;
`symbol`/`ready`/`sawEOF` are the cursor's.  `pulled` and `shifted` are history
variables for the properties.  A lexeme is its terminal and its place in the
input; source positions are abstracted to the number of lexemes before, so that
"the end of the last lexeme" (`eofLexeme`, `parserErrorLexeme`) is `Consumed`.  A
value is the symbol it stands for and, as history, the span of lexemes it was built
from: the tree of the default reduction has these lexemes as leaves, no `Reduction`
has a position.  The span of an empty reduction is put where the parser stands.

| Action | Code |
|---|---|
| `Begin` | reducer coverage and source validation, which may refuse the call |
| `PeekLexeme`, `PeekEnd`, `PeekFails` | `peekSymbol`: a lexeme, the end (`ok = false`, an explicit EOF lexeme, or the `$` made again once `sawEOF`), a failing source or a lexeme after EOF |
| `Shift`, `Reduce`, `ReducerFails`, `Accept` | the `switch` on the table entry, with every early return |
| `ShiftError` | a new error: report, pop to the nearest state that shifts `error`, push the synthetic lexeme |
| `Abort` | a new error and no such state: everything but the bottom is popped |
| `Discard`, `AbortAtEnd` | no entry while still recovering |

The pop loop of the error search is one step: nothing outside sees it, and it
stops at the greatest height whose state shifts `error` (`StopsAt`).  The branch for
an unknown action kind is left out because `buildLR1Table` and `BuildSLR` write
only shift, reduce and accept.  What a diagnostic says was expected is left out, as
no control depends on it: it is computed in `PackedTables`.

`LRParserLanguage` adds the derivations of the grammar whose rules the tables list, by
fixed points that know nothing of states or actions, to compare what is accepted with:
`Derived` holds which symbol derives which part of a word, `Begins` says which words
begin a sentence.

### The C parser: `CParser`

`CParser` extends `LRParser` with the memory of a call: `pointers` is the value stack
as C has it (`NULL`, a reducer's own pointer, or a copied lexeme), `owned` the lexeme
nodes, `blocks` the stacks and the list of diagnostics, `capacity` the room of both
stacks.  Each action of `LRParser` is conjoined with what it does to the memory, and
`BeginFails`, `ShiftFails`, `ReduceFails`, `DiagnosticFails` and `ErrorPushFails` are
the allocations that fail in it.  `RecoveringReturns` and `StrictReturns` are the
two public calls.  A reducer that fails is noticed by the message in the error
record, so without a record the parse goes on (`CReducerFails` needs `given`).

### The C++ parser: `CppParser`

The steps are smaller than `LRParser`'s.  `Construct` copies the reducer, and checks a
map once; the caller keeps a reference to its handlers, and may take some away at any
moment (`CallerRemovesHandler`).  The error search pops a state per step
(`SyntaxError`, `SearchPops`, `SearchSucceeds`, `SearchFails`); a reduction pops its
handle (`PopHandle`), calls the reducer, which may throw (`ReducerThrows`), and then
pushes (`PushReduction`).  Lexemes have the positions the cursor gives them, including
those it makes up for an EOF lexeme without one (`normalize_eof`), and a failure is an
exception that loses the result.  `LRP` is the instance of `LRParser` that it
implements: between two of the abstract steps the stacks are the `saved` ones, and the
diagnostic of a search under way is not there yet.

### Scanners

`LexemeStream` is what a scanner promises, whatever its text arrives from: calls are
served one at a time and return the lexemes of the text (by `ScannerTables!Longest`,
the meaning of the tables), in order, each once, with the right positions, then the
end; a call that fails leaves the cursor where it is.  `invalidText` says what a
complete match followed by invalid text is worth: returned (Go, C++, C), refused (C#
over a string), or either, depending on chunks (C# over a reader).  `causes` are the
failures that may interrupt a call.  One instance, `Scanners!Stream`, gives both their
value for each target.

A text is a sequence of units (bytes, or UTF-16 units in C#), and `Spelling` gives the
units of each rune, so that chunks, limits and texts can cut a rune, and units can
spell none.  `ChunkScanner` is what the four reader scanners share: `match` holds the
locals of `matchBuffered`, which live across reads.  Each module adds its own reading:

| Module | Reading and errors |
|---|---|
| `ReaderScanner` | `io.Reader`: bytes along with an error, the error kept in `pendingErr`, `ErrNoProgress`, the limit checked before the error |
| `InputStreamScanner` | `read()` fills the chunk unless the stream ends or fails; the stream's failure is sticky; the decoder waits for as many bytes as the first announces |
| `TextReaderScanner` | `Read` returns some units, 0, or throws; `Dispose` does not take the lock |
| `StreamScanner` | a callback writes into the grown buffer; each lexeme's text is copied and retained until `lf_stream_scanner_free` |

`Scanner` is the loop over a string for Go, C++ and C# with `Next`, `All` and the
mutex between lexemes; `MatchAt` runs `matchAt`'s loop, a `Round` per transition.
`Tokenizer` is the C scanner and `lf_tokenize`'s array.

### Lexer compilation

`RegexParser` is the recursive descent of `regex.go` with its escapes, classes and
blanks, over positions in a text; its runes are a scaled-down scanner domain whose
width `RuneBits` makes the conversion of decimal numbers wrap as `rune(n)` does.
`LexerCompiler` expands references, validates, builds the NFA as the code numbers it,
the DFA by subsets, and minimizes; `Match` is `DFA.Match`.  Sets of runes are
sets there; `RangeSets` models their representation (`Normalize`, `Union`, `Intersection`,
`Difference`, `IsSubsetOf`, `Partition`).

### Tables: `LRTables`, `PackedTables`, `GrammarTables`, `TypedActions`

Operators have the code's names.  The code's loops over a sequence are `Applied` (one
function after the other) and its loops until nothing changes `Fixpoint` (a recursive
function): a `RECURSIVE` operator could be checked but not proved about.  A state is a
set of items, numbered in the order the worklist finds it (over `Grammar.Symbols()`'s
order); a partition is a sequence of groups in the code's order, because
`splitPartitionByActionCompatibility` is greedy and which edge
`mergedLR1StatesAndTransitions` keeps depends on that order.
Map keys made of formatted strings (`lr1Key`, `lr1CoreKey`, signatures) are the sets
they encode.  `Preferred` is `setAction`: the shift, else the rule with the smallest
ID.  Rule 0 is the internal start rule.

`PackedTables` are the arrays that the C and C++ generators write, with their row
offsets and lengths (a comment line counts in the length of the C++ array, which ends
in zero elements for it), the scan of a row in C and `std::lower_bound` in C++; and the
expected tokens of a state, with groups, aliases and hidden tokens, as both targets
store and read them back.

`GrammarTables!Init` writes a specification: any sub-list of a family's alternatives.
`Reject` and `BuildTables` are the two outcomes of `loadAndBuild` after `FromSpec`.
`TypedActions!Generate` then picks any declaration of semantic types and computes the
manifest; `Reduce` closes a set of values under the reductions of the tables, with
the default value of rules without an action, the conversions of typed contexts, and
whatever an untyped handler may return.

### The specification reader

Text is a sequence of symbols, where a whole word is one symbol because no scan looks
into one.  `SpecText` has the scans (comments, `%%` sections, statements, alternatives,
actions, quotes) and the positions; `SpecParser` the three entry points and every
directive.  `Specifications` writes a specification down, as one file or two, with
comments and blank lines between its lines, and reads it back.  `SpecDirectives` lets
a file of directives grow by a line at a time and then validates it with `FromSpec`'s
rules for types, aliases, groups and hidden tokens.

### The command line

In `Generation` a process runs at a time: `Load` reads one input file, so an `Edit`
of the specification can fall between the lexer and the grammar file; then come the
checks in each command's own order, and `generate`'s writes, one step per file, each of
which can fail (`WriteFails`) or be cut off by a kill (`Killed`), leaving the file as it
was or truncated.  The C and C++ generators walk a map: files of one rank are
written in any order.

## 3. What TLC checks

| Run | Instance and bounds | States | Properties |
|---|---|---|---|
| `LRParser` | 14 packages: five grammars (recovery demo cut to `Id Num Semi`, left-recursive list, the test suite's LALR-but-not-SLR and mysterious-conflict grammars, nested brackets with empty derivations) by the algorithms without conflict on them; every input of up to 5 lexemes (7 for the two LALR packages with recovery) with unknown tokens; a failing source or reducer anywhere | 223,929 | `TypeOK`, `StackSound`, `NoInternalFailure`, `LexemesAccounted`, `RecoveryWindow`, `ValuesInOrder`, `StrictSuccessIsWholeInput`, `AcceptsOnlySentences`, `ErrorsAreExact`, `DiagnosticsSettle`, `Terminates` |
| `CppParser` | the two recovery grammars, every input of up to 6 lexemes; a plain reducer, none, or a map with any set of handlers, accepted or refused, from which the caller removes some later; a source or reducer that throws anywhere | 347,249 | `HandlersSuffice`, `ImplementsLRParser`, `CallReturns` |
| `CParser` | the two recovery grammars, inputs of up to 5 lexemes, stacks that start with room for one, both public calls with and without an error record, a failure at every allocation, pull and reduction | 91,368 | `ReturnsAreClean`, `StacksHoldValues`, `CallsReturn` |
| `GrammarTables` | 2,176 specifications: every sub-list of five families; for 512 of them every declaration of types, for Go and C | 17,159 | `TablesAreSound`, `Hierarchy`, `MergesAreSafe`, `PackedTablesAgree`, `TypedContextsAreSound` |
| `Scanners` | the eight scanners of the four targets (six modules; `Scanner` is three of them) on two automata; every text of up to two units and longer ones chosen for cut and invalid runes and long lookahead; reads of up to 2 units, a limit of 3, three `Next` calls, two callers, one fault | 174,134 | `NothingIsLost`, `MemorySound`, `DeliversTheStream`, `FailuresAreReported`, `ReadsAtTheFrontier`, `CallsReturn` |
| `Lexer` | over a thousand lexers of one or two rules and up to two definitions over three runes, words of up to 4; every list of up to two ranges over seven runes with the surrogate gap, split by two labels; expressions: every text of up to five expression characters, classes and literals of up to three pieces (escapes, properties, numbers, ranges, separators) | 79,299 | `RejectsExactly`, `AutomatonIsExact`, `RangesAreSets`, `ParsesTheGrammar`, `BlanksAreFree` |
| `Specifications` | 2,125 written specifications, in both file forms; every sequence of up to three directive lines, legal and malformed | 218,532 | `ReadsBack`, `DeclarationsAreSound`, `AcceptanceIgnoresOrder`, `NothingIsSilent` |
| `Generation` | two commands in a row, of every kind, and one edit at any moment; reads and writes that fail, kills; two of the six source files of C and C++ | 1,285,822 | `PackageIsWhole`, `CommandsAgree`, `WritesAreJustified` |

Each of the following four runs expects a violation, and is the evidence of a finding
(section 4): `CParser_result`, `Lexer_numbers`, `Specifications_spans`,
`GrammarTables_casts`.

### What the properties say

Parser:

* `StackSound`: the state stack is a path from state 0 and the value stack spells it,
  also after the error search popped both and pushed `error`.  `NoInternalFailure` is the
  consequence a user sees: "stack underflow", "missing goto" and "shift past end of
  input" are dead code.  Another, that a due reduction finds exactly its right-hand
  side, which the typed contexts index without a check, is only a theorem (section 5).
* `LexemesAccounted`, `DiagnosticsSettle`: `Discarded` counts exactly the lexemes
  that are not in the result, per diagnostic; a settled diagnostic is final.
* `RecoveryWindow`: a new diagnostic needs three real shifts since the last.
  Reductions, discards and the synthetic shift do not count.
* `ValuesInOrder`: the lexemes under the values on the stack are in order, none is
  under two values and, before any error, none under no value.
* `StrictSuccessIsWholeInput`: no way out of the call (failing reducer, failing
  source, abort) looks like success to the strict calls unless the value is one
  start symbol over every lexeme of the source.
* `AcceptsOnlySentences` and `ErrorsAreExact`, with `Terminates`: the parser
  accepts exactly the grammar's language and reports the first error at the
  earliest possible lexeme for SLR, LALR and IELR too, although merged lookaheads
  let them reduce before they notice; under canonical LR(1) the first diagnostic's
  state expects exactly the terminals that can follow.
* `ImplementsLRParser`: the C++ parser takes the steps of `LRParser`; its exceptions,
  smaller steps and positions change nothing that a caller sees.  So what `LRParser`
  promises it promises too.  `HandlersSuffice`: a map checked at construction never
  lacks a handler in the call, though its owner may empty it meanwhile.
* `ReturnsAreClean`: after any failure of any allocation a C call has freed what it does
  not hand over, and the error record has a message exactly when the call failed.
  `StacksHoldValues`: while it runs, pushes are within capacity and a lexeme pointer on
  the stack is the live copy of that very lexeme.

Tables and types:

* `TablesAreSound`: every builder's tables meet `TableSoundness`, conflicts or not.
* `Hierarchy`: SLR-clean implies LALR-clean implies IELR-clean, and IELR is clean
  exactly when canonical LR(1) is, at a size between LALR's and canonical's.
* `MergesAreSafe`: merging by core never meets contradicting transitions, so the
  code's "keep the first edge" drops nothing; a merged state may reduce where no
  canonical one does but never shifts or accepts.  (The number of LALR states is that
  of SLR only if every nonterminal is productive: LR(1) closure adds nothing for an
  item that no terminal can follow.)
* `PackedTablesAgree`: the lookups of C and C++ find in their arrays what the Go parser
  finds in its maps, for any state and symbol; and the tokens a diagnostic says were
  expected are, once each and in both targets alike, the terminals with an action.
* `TypedContextsAreSound`: a typed handler is refused only a value that some untyped
  rule made, whichever rules share its action, and in Go it is never given a value of
  another type.

Scanners:

* `DeliversTheStream`: each scanner implements `LexemeStream`; the refinement mapping is
  `Stream == INSTANCE LexemeStream WITH ...` in `Scanners`.  Thus chunks, limits,
  failures and interleaved callers make no difference to what is delivered.
* `NothingIsLost`: the buffer is the text between the cursor and the reader, and the
  best match so far is one of the buffered text; the `All` calls of several threads split
  the lexemes of a string among them; `lf_tokenize`'s array is the whole stream.
* `FailuresAreReported`: the Go reader's errors are reported once, even those that
  came with bytes (the one exception is dropped for a limit error: section 4); a failed
  C++ stream is never an end of text.
* `ReadsAtTheFrontier`: the Go scanner never waits for input, nor reports a kept
  error, unless its buffer is empty, ends in a state that has transitions, or cuts a
  rune where the tables lead.  In the last case it may wait for a rune that cannot
  matter (section 4); the property does not exclude that, because the code does it.
* `MemorySound`: C blocks are freed once, never written past their capacity, and
  returned texts stay alive until the scanner is freed.
* `CallsReturn`: every call returns when its reads do.

Lexer compilation, regular expressions, specifications, command line:

* `AutomatonIsExact`: the minimized DFA finds the longest match and the first rule, no
  two of its states accept the same continuations, none is dead, and no rune has two
  transitions.  `RejectsExactly`: lexers are refused exactly for the documented reasons.
* `RangesAreSets`: each operation on range lists is that of sets, equal sets have equal
  lists, and `Partition` gives the coarsest disjoint cover.
* `ParsesTheGrammar`: against an ambiguous-by-design grammar, each text without classes
  has one tree or none, and the parser finds it.  `BlanksAreFree`: a blank put anywhere
  but inside a token changes nothing.
* `ReadsBack`: patterns, alternatives, labels and actions that hold the scans' own
  delimiters survive, in both file forms and with comments in between; blanking keeps
  every offset, positions count line ends, and the span of a rule holds the rule, with
  the gap before it.  For all rules but the first of a combined file that last part is
  false, and so is the line of most rules: `RulesAreLocated`, the property of
  `Specifications_spans`.
* `DeclarationsAreSound`, `AcceptanceIgnoresOrder`, `NothingIsSilent`: whatever lines
  were refused, what is left is consistent; moving any line to the front does not decide
  acceptance; each line declares, reports, or is a comment or a repetition.
* `PackageIsWhole`, `WritesAreJustified`, `CommandsAgree`: a `generate` that succeeded
  left the whole package of what it read, over whatever earlier runs left; nothing
  is written for a specification with errors or conflicts, and no source is newer
  than the table dump beside it; all commands classify a specification alike.

### Bounds, and why they are enough

* 7 lexemes (6 in `CppParser`) hold a diagnostic, the three shifts that settle it, and a second
  diagnostic with a discard, in both recovery grammars; 5 reach every state of all
  automata.  One recovery grammar has a deep stack at the error (right recursion), the
  other a flat one and an empty reduction before the error shift (left recursion).
* The C stacks start with room for one (two in `CParser_result`), so that they grow
  repeatedly within 5 lexemes, at shifts, reductions and the error push, and each of
  these growths can fail.  The code's 64 would hide every growth.
* Specification families hold the shapes that separate the algorithms: contexts that
  share a core with different lookaheads, empty derivations, recursion on either
  side, unproductive and unreachable rules, recovery alternatives, clashing
  declarations, and actions shared by rules with labels elsewhere or of other types.
* Reads of 2 units against lexemes of up to 4 and runes of up to 3 put a chunk boundary
  at every place of a lexeme and of a rune; a limit of 3 is met exactly, exceeded by
  one, and exceeded by a whole chunk.  Three calls reach a call after a failure and a
  call after that; with two callers every interleaving of calls occurs, and more
  callers add none, since only the holder of the mutex touches the scanner.
* Words of 4 over 3 runes distinguish the automata of expressions with at most three
  operators; ranges over 7 runes put two ranges apart, adjacent, overlapping and nested,
  around the gap of the surrogates.
* Two runs and one edit give: an edit between the two files of one run, between two
  runs, and a failed or killed run followed by a complete one.

Deadlock checking is off everywhere: calls that have returned, specifications that have
been built or read, and processes that have exited take no further step.  No run uses
symmetry.

### Fairness

`LRParser`, `CppParser` and `CParser` assume `WF(Next)`: the parser is one sequential
loop, so whenever some step is enabled it is eventually taken.  (The caller of
`CppParser` removes each handler once, so it cannot use that up.)  This assumes what the loop
itself assumes, that the source and the reducer return from each call; it says nothing
about which of their answers they give.  `Scanners` assumes weak fairness of the step
of the running call (`Step`: the thread that holds the mutex runs on and its reads
return), and that a free mutex is taken by *some* waiting `All` (`AllLocks`), not by
any particular one.  Nothing is assumed of starting calls, disposing or freeing.

## 4. Where the code and its documents disagree

Shown by a run:

| Run | What it shows |
|---|---|
| `Lexer_numbers` | A class written as a decimal number is cut to 32 bits without a check (`regex.go:381`): `[4294967393]` is the rune 97, against specification.md:94 |
| `CParser_result` | A start symbol that passes a lexeme on returns a pointer to a lexeme the C call has freed (`c/generate.go:1256`), against handwritten-integration-guide.md:314 |
| `Specifications_spans` | The line recorded for a grammar rule, which the comments and `//line` directives of generated code name, is not the rule's: a statement starts at the end of the previous rule (`parser.go:616`), and in a combined file the kept lines are joined onto the offset of the first (593-606), so that every ignored line shifts the rules behind it, against specification.md:257-262 |
| `GrammarTables_casts` | A typed C reducer casts without checking the type (`c/generate.go:774`), so a handler may read a lexeme as its value, against generated-code-and-semantics.md:326-328 |

Met while modelling, and modelled as the code does it, without a run:

* A limit error of the Go `ReaderScanner` leaves the oversized buffer, so the next call
  can return a lexeme over the limit (`golang/generate.go:362`; the comment at 257).
* A limit error drops a reader error that came with the same bytes (363;
  tool-improvement-roadmap.md:876).  `FailuresAreReported` names this exception.
* The C# reader scanner returns or refuses a lexeme before an invalid unit depending on
  where chunks end (`csharp/generate.go:405`; roadmap:873).  `LexemeStream` allows
  both for this scanner only.
* Without an error record the C parser continues after a reducer that failed
  (`c/generate.go:1241`; generated-code-and-semantics.md:945).
* A quoted `=>` in a lexer rule or definition of a combined file ends the pattern
  (`parser.go:512`; specification.md:75 and :82), and a quote in a character class hides
  the colon of a split lexer rule (`parser.go:968`; specification.md:83).  The patterns
  of `MCSpecifications` hold neither; `LexerReadsBack` says so.
* The Go `ReaderScanner` reads on to complete a rune that a chunk cut in two, even where
  the state reached has no transitions and no rune can matter: it looks for transitions
  only once the rune is whole (`golang/generate.go:395-398`; the comment at 266-268 says it
  reads only when another rune is needed).  `ReadsAtTheFrontier` admits such a read.
* A quote in a line comment opens a string for the comment scan (`parser.go:995`).  The
  comments of `MCSpecifications` hold none.

## 5. What is proved

The theorems hold for every value of the constants: any tables, lexers, texts,
inputs, callers, chunk sizes, limits, sets of files.

| Module | Theorem | Statement |
|---|---|---|
| `LRParserProofs` | `TypeCorrect` | `Spec => []TypeOK` |
| | `StacksAreSound` | `Spec => []StackSound` |
| | `ReducersSeeTheirRHS` | `Spec => []ReducerSeesRHS` |
| | `InternalFailuresAreDead` | `Spec => []NoInternalFailure` |
| | `EveryLexemeIsAccounted` | `Spec => []LexemesAccounted` |
| | `ErrorsDoNotCascade` | `Spec => []RecoveryWindow` |
| | `ReportsAreFinal` | `Spec => DiagnosticsSettle` |
| | `ValuesCoverTheInput` | `Spec => []ValuesInOrder` |
| | `StrictSuccessParsesEverything` | `Spec => []StrictSuccessIsWholeInput` |
| | `OnlySentencesAreAccepted` | `Spec => []AcceptsOnlySentences` |
| `CppParserProofs` | `CppImplementsLRParser` | `Spec => ImplementsLRParser` |
| | `CheckedMapsSuffice` | `Spec => []HandlersSuffice` |
| | `InternalErrorsAreDead` | `Spec => [](pc \notin InternalErrors)` |
| | `ReturnedValuesAreWhole` | `Spec => []ValueIsWhole` |
| `CParserProofs` | `StacksHoldTheirValues` | `CSpec => []StacksHoldValues` |
| | `ReturnedCallsAreClean` | `CSpec => []ReturnsAreClean` |
| `GrammarTablesProofs` | `TypedTablesAreSound` | `TypedSpec => []TablesAreSound` |
| | `TablesAreAlwaysSound` | `Spec => []TablesAreSound` (without the reducers) |
| | `MergesAreAlwaysSafe` | `Spec => []MergesAreSafe` |
| | `HierarchyAlwaysHolds` | `Spec => []Hierarchy` |
| | `TypedContextsAreAlwaysSound` | `TypedSpec => []TypedContextsAreSound` |
| `ScannersProofs` | `ScannersDeliverTheStream` | `Spec => DeliversTheStream` |
| | `NothingIsEverLost` | `Spec => []NothingIsLost` |
| | `MemoryIsAlwaysSound` | `Spec => []MemorySound` |
| | `FailuresAreAlwaysReported` | `Spec => FailuresAreReported` |
| | `ReadsStayAtTheFrontier` | `Spec => ReadsAtTheFrontier` |
| `GenerationProofs` | `PackagesAreWhole` | `Spec => []PackageIsWhole` |
| | `CommandsDoAgree` | `Spec => []CommandsAgree` |
| | `WritesAreAlwaysJustified` | `Spec => WritesAreJustified` |

`ScannerTablesProofs` and `ProofLemmas` hold lemmas only.

### Assumptions

TLC evaluates each of them on the instances it checks.

| Assumption | Why it holds |
|---|---|
| `TablesAreSound` (`LRParser`, `CppParser`): the tables meet `SoundTables` | `TypedTablesAreSound` proves it of all four builders, for any specification; the proofs use nothing else about tables |
| `FamiliesAssumption` (`GrammarTables`): names are not empty and stand in `symbols`, there are finitely many tokens, and a rule's name with a quote after it is no name | names are identifiers (`parser.go:171`, 632 and 685); `Grammar.Symbols()` lists every terminal and nonterminal; the quote is what `augmentedStart` adds |
| `ActionsAssumption` (`TypedActions`): labels of an alternative differ, `nil` is no type | LF135 (`parser.go:679`); `nil` is no type of Go and `NULL` none of C |
| `CapacityAssumption`, `FirstCapacityIsPositive`: the first allocation of an array has room for something | 64 for the parser's stacks, 16 for retained texts and the array of `lf_tokenize` |
| `RunesAreSelfDelimiting` (`ScannerTables`): no rune's spelling begins another's, a first unit is never one inside a rune, the newline is one unit | true of UTF-8 and UTF-16 |
| `LexersAreSound` (`ChunkScanner`): the tables of a lexer meet `LexerOK` | `Lexer` checks it of every automaton it compiles (`TablesFitTheScanners`, in `AutomatonIsExact`) |
| `TextsAreSequences`, `NulTextsAreSequences`: a text is a sequence | typing |
| `OptionsArePositive` (`ChunkScanner`): buffer size and limit are positive, somebody calls | the constructors replace zero and negative values by defaults |
| `FilesAssumption` (`Generation`): no legacy file is also one of the package | the lists of file names in the generators |

### The arguments

**Stacks.**  The inductive invariant is `IInv == TInv /\ PathOK /\ NoInternalFailure`.
`TypeOK` alone is not inductive.  A diagnosed position is natural only if a
buffered lexeme was counted (`CursorOK`), and the pop of the error search yields
typed stacks only if they have matching heights, which is part of `Spells`.
`Spells(T, st, vs)` says that wherever a stacked state has an item with its dot at
n, the n values below are the first n symbols of that rule and the states below
hold the same item with the dot moved back.  Three lemmas carry it: the initial
stacks spell nothing (`SpellsInit`), a common prefix of both stacks still spells
(`SpellsPrefix`, for reductions and for the error search), and a push that the top
state explains keeps it (`SpellsPush`, for shifts, gotos and the synthetic `error`).
`ReduceSucceeds` draws the consequences: a complete item in the top state puts its
whole right-hand side on the value stack, and the same item with its dot at the
start in the state below, which has a goto for the left-hand side.

**Diagnostics.**  `ReportInv` adds to it that nothing is read or reported before the
loop (`Fresh`).  The sums of `LexemesAccounted` change by one in exactly one summand at
each pull, shift and discard; `RecoveryWindow` is inductive because it names `recovering`
as the number of shifts still owed.

**Values.**  `InputInv` adds that the end is a lookahead only once the source has ended
(`EndsOK`), that state 0 is at the bottom alone (`BottomOK`), and that the spans ascend
up to the position, without a gap before the first diagnostic (`OrderOK`).  Accepting
needs the item `<<0, 1>>` in the top state, whose dot moves back to state 0, which
is the bottom: so one value, the start symbol, is on the stack, and it has no gaps.

**Sentences.**  `PhraseInv` adds that until the first diagnostic each value stands for a
phrase: its symbol derives, by the rules alone, the part of the input it spans.
`DerivedFacts` characterises what is derived as the least set that holds the lexemes and
grows no further; the rounds end because a word has finitely many spans.  A lexeme that
is delivered takes nothing away (`DerivedGrows`).  A reduction adds a phrase
(`RuleDerives`), because `StackSound` makes the handle spell the right-hand side and
`OrderOK` leaves no gap between its values.  Acceptance leaves one value, which is then a
sentence.

**The C++ parser.**  Its invariant relates the stacks of a step under way to those
before it: while it searches, they are a prefix of the `saved` ones and no popped state
shifts `error` (`SearchOK`); while it reduces, they are the saved ones without the
handle (`ReducingOK`).  `RefinesNext` has a case per action: `SearchSucceeds`,
`SearchFails`, `PushReduction` and `ReducerThrows` are the abstract steps,
`SyntaxError`, `SearchPops` and `PopHandle` stutter.  The last two theorems are those
of `LRParserProofs`, instantiated.

**The C parser.**  `CoreOK` is the invariant of `LRParser`, which holds until memory runs
out: each step is one of `LRParser`'s or leaves it (`CoreStep`).  `BlocksOK` says
which blocks are held in each phase of a call, `MessageOK` that the message is written
where the call fails.

**Tables.**  A specification is fixed once it is written, so the work is in one step,
`BuildTables`, whose loops need invariants of their own.  `AppliedFacts` carries a set of
values through a loop over a sequence; `FixpointFacts` says that a loop whose step only
grows what it works on, and stays in a finite set, stops at a fixed point in that
set, and `ClosureInduction` is the induction on it.  From below: FIRST and FOLLOW
hold terminals; a closure's items are in the grammar (`GoodItems`) and each is of the
kernel or awaited by another item (`Justified`); the worklist keeps `Growing` (states are
distinct, edges move the dot, each visited state has an edge on every symbol it
awaits) and there are finitely many item sets, so it ends with an automaton in which each
state has all its edges (`AutomatonOK`).  Every partition of it that groups states of one
core, each state once (`PartitionOK`), merges to such an automaton (`MergedOK`): the
groups by core are one, and splitting by conflicts or by transitions refines it
(`Refines`), which can happen only as often as there are states, so that IELR's loop
ends too.  `TablesSound` reads the conjuncts of `SoundTables` off such an automaton: a
goto exists because the item before the dot's start awaits it, acceptance is on `$` only,
`error` is shifted only.  What `FromSpec` refuses enters by `ValidGrammar`: without errors
no name is a token and a rule, and each symbol of a rule is either.

**Merges.**  Which cores a closure has does not depend on what its kernel looks ahead to,
as long as something follows each item: `Ahead(g, L)` are the items with a lookahead in
`L`, and `Sustains` says that each rule such an item awaits gets one in `L` again, which
holds of the terminals and of LR(0)'s empty lookahead (`KindFacts`; from the latter to the
former only where every nonterminal derives a word, `ProductiveBegins`).  So closures and
transitions of sets with equal cores have equal cores (`ClosureCores`, `GotoCores`), each
state of one automaton has its core in the other (`CoresReached`), and LR(0)'s states are
told apart by it: there are as many groups by core as states of LR(0) (`CoresMerge`).  A
preferred shift or acceptance of a merged state is one of some member (`FromMember`,
`PreferredOffer`), whose canonical state then acts as well.

**Hierarchy.**  A conflict is two different offers on a terminal (`Contested`; there are
finitely many, `OffersFinite`), a shift counting once, since a state has at most one target
for a symbol (`SingleTargets`: canonical states are distinct, and the first edge wins in a
merged one).  With fewer items, or the same ones with more to reduce on, `ContestedMore`
carries a conflict over, so that members of a group that can be one state can be so
without the others (`FewerConflicts`): LALR without conflicts leaves IELR none, and IELR
canonical LR(1).  IELR's loop ends with groups that are single or can be one state
(`IELRAdequate`: neither half of a round changed them), so it has conflicts only where
canonical LR(1) has, and it changes nothing where LALR has none (`IELRStays`).  For SLR,
FOLLOW is kept by a round of its own loop (`FollowFacts`); a closure adds the trail of an
occurrence to an item, which is what FOLLOW's round adds, so that canonical lookaheads
are always in FOLLOW (`LookaheadsFollow`), and each canonical state has its core within
that of a state of LR(0) (`SimpleClean`).

For typed contexts `ValuesInv` says that the manifest is the one of some declaration,
and that a value on which no untyped handler had a hand has the type declared for its
symbol.

**Scanners.**  `ScannerTablesProofs` is about tables and texts.  At an offset at most one
rune fits, as spellings delimit themselves, so the tables lead along one path
(`Path`, defined by a recursive function); `LoopAt` is the invariant of a match loop on
it, and where the loop stops its best match is the longest one; looking through a
window of the text sees the same rune or none, unless it is cut there.  In
`ScannersProofs` the four reader scanners are shown to do, on what they share, one of
the disjuncts of `ChunkStep`; this keeps `ChunkInv` (the buffer is a window of the text,
the position is that of the offset, a match satisfies `LoopAt`) and is a step of
`LexemeStream` or a stutter.  `StringInv` is that of the scanners over a string:
`matchAt`'s loop, run as often as the text has units, has stopped, and the results of
the calls split the log.  `TokenInv` is that of `lf_tokenize`: the array and the
lexemes from the cursor on are always the whole stream.  What a target adds is a
conjunct of its own: errors reported, kept and dropped sum to the faults
(`FailuresOK`); the heap is exactly the blocks the scanner knows (`MemoryInv`); an end
of text is the stream's (in `Inv`).

**The command line.**  `WritingOK` says that the files of the package that are no
longer to do hold what was read, whatever order the ranks allow; `VerdictsOK` that an
exit code is the one `Verdict` gives, a definition that names no command.

**Induction.**  The library's induction theorems take an operator as a parameter, which
the provers cannot instantiate.  `ProofLemmas` therefore states `Induction` for a set and
`Recursion` for a function, from the least element of a set of numbers; with them
what a recursive *function* computes is proved (the paths of the tables, the positions,
`LexemesFrom`, the rounds of `matchAt`, the two loops of `LRTables`).

### Only model-checked

* `Terminates`, `CallReturns` and both `CallsReturn`: liveness is outside the proof
  system.
* `ErrorsAreExact`: that the parser shifts every lexeme that continues a sentence needs
  the automaton to be complete for the grammar, of which the proofs know only that its
  items explain its entries.
* `PackedTablesAgree`: rests on `SelectSeq`, of which the provers know no fact.
* `AutomatonIsExact`, `RejectsExactly`, `ParsesTheGrammar`, `BlanksAreFree`, `ReadsBack`,
  `DeclarationsAreSound`, `AcceptanceIgnoresOrder`, `NothingIsSilent`: the constructions
  of automata and both text parsers are `RECURSIVE` too, or rest on scans that are.
* `RangesAreSets`: folds over lists of ranges, within the prover's reach and not proved
  yet.

## 6. Not modelled

* Formatting of generated source, reports and JSON, conflict hints and the IELR report:
  output that feeds no decision.
* The C# parser loop a second time: it takes the steps of `LRParser` in the same order
  (states are popped before the reducer runs, which nothing outside sees) and throws
  where the Go code returns an error, as the C++ parser does in `CppParser`.  Its
  scanners, which do differ, are modelled, and its typed conversions are those of
  `TypedActions`.
* Escapes inside labels and paths of a specification; Unicode property tables (a class
  per name); the spelling of UTF-8 itself (units per rune, invalid units, and what the
  first unit announces are modelled).
* The order of names in the action manifest, and its messages.
* Version information (constants of the build), the example parity checkers (file and
  text comparison at build time), and the examples.

`PROJECT.json` gives the status of each component.

## 7. Running

    tlc -workers 2 -config LRParser.cfg              MCLRParser.tla
    tlc -workers 2 -config CppParser.cfg             MCCppParser.tla
    tlc -workers 2 -config CParser.cfg               MCCParser.tla
    tlc -workers 2 -config CParser_result.cfg        MCCParser.tla
    tlc -workers 2 -config GrammarTables.cfg         MCGrammarTables.tla
    tlc -workers 2 -config GrammarTables_casts.cfg   MCGrammarTables.tla
    tlc -workers 2 -config Scanners.cfg              MCScanners.tla
    tlc -workers 2 -config Lexer.cfg                 MCLexer.tla
    tlc -workers 2 -config Lexer_numbers.cfg         MCLexer.tla
    tlc -workers 2 -config Specifications.cfg        MCSpecifications.tla
    tlc -workers 2 -config Specifications_spans.cfg MCSpecifications.tla
    tlc -workers 2 -config Generation.cfg            MCGeneration.tla
    for m in ProofLemmas LRParserProofs CppParserProofs CParserProofs \
             GrammarTablesProofs GenerationProofs ScannerTablesProofs ScannersProofs
    do tlapm $m.tla; done

Definitions marked "Mutant" are faulty versions of the definition after them;
`PROJECT.json` pairs each with the property that a substitution of it violates.
