--------------------------- MODULE SpecDirectives ---------------------------
(***************************************************************************)
(* The directives of a specification, read line by line, and the checks    *)
(* FromSpec makes of what they declare: semantic types, and the aliases,   *)
(* groups and hidden tokens of syntax diagnostics.                         *)
(***************************************************************************)
EXTENDS SpecParser, FiniteSets

CONSTANTS
  Lines,            (* The lines a file may hold.                          *)
  MaxLines,         (* The number of lines of a file.                      *)
  RuleNames         (* The rules of the grammar.                           *)

VARIABLES
  lines,            (* The lines read.                                     *)
  reader,           (* The reader of ParseCombined.                        *)
  outcome           (* Of FromSpec: pending, accepted or rejected.         *)

vars == <<lines, reader, outcome>>

(***************************************************************************)
(* The checks.                                                             *)
(***************************************************************************)
Error == "error"

terminals(spec) == ToSet(TokenNames(spec)) \cup {"$", Error}

(* The types refused: repeated, of a terminal, or of no rule. *)
refusedTypes(spec) ==
  {k \in DOMAIN spec.types :
     \/ \E j \in 1 .. k - 1 : /\ spec.types[j].target = spec.types[k].target
                              /\ spec.types[j].symbol = spec.types[k].symbol
     \/ spec.types[k].symbol \in terminals(spec)
     \/ spec.types[k].symbol \notin RuleNames}

reportable(spec, token) == token # Error /\ token \in terminals(spec)

grouped(spec, k) == {t \in ToSet(spec.groups[k].tokens) : reportable(spec, t)}

(* validateExpectedTokenSpec reports nothing. *)
validExpectedTokens(spec) ==
  /\ \A k \in DOMAIN spec.aliases : reportable(spec, spec.aliases[k].token)
  /\ \A k \in DOMAIN spec.groups  : grouped(spec, k) = ToSet(spec.groups[k].tokens)
  /\ \A j, k \in DOMAIN spec.groups : j < k => grouped(spec, j) \cap grouped(spec, k) = {}
  /\ \A k \in DOMAIN spec.hidden  : reportable(spec, spec.hidden[k])

acceptable(r) == /\ r.acc.diags = <<>>
                 /\ refusedTypes(r.acc.spec) = {}
                 /\ validExpectedTokens(r.acc.spec)

(***************************************************************************)
(* Reading.                                                                *)
(***************************************************************************)
lineAt(read, line) ==
  Part(line, accumulate(LAMBDA n, l : n + Len(l) + 1, 0, read))

Init == lines = <<>> /\ reader = CombinedReader /\ outcome = "pending"

ReadLine ==
  /\ outcome = "pending" /\ Len(lines) < MaxLines
  /\ \E line \in Lines : /\ lines'  = Append(lines, line)
                         /\ reader' = combinedLine(reader, line, lineAt(lines, line))
  /\ UNCHANGED outcome

FromSpec ==
  /\ outcome = "pending"
  /\ outcome' = IF acceptable(reader) THEN "accepted" ELSE "rejected"
  /\ UNCHANGED <<lines, reader>>

Next == ReadLine \/ FromSpec

Spec == Init /\ [][Next]_vars

(***************************************************************************)
(* Properties.                                                             *)
(***************************************************************************)
declared == reader.acc.spec

(* What a list declares, without what it says of it. *)
typeKeys == [k \in DOMAIN declared.types   |-> <<declared.types[k].target, declared.types[k].symbol>>]
aliased  == [k \in DOMAIN declared.aliases |-> declared.aliases[k].token]
groups   == [k \in DOMAIN declared.groups  |-> declared.groups[k].name]

distinct(seq) == Cardinality(ToSet(seq)) = Len(seq)

(* However directives repeat, and in whatever case targets are written, one *)
(* label stands for a token, one type for a symbol of a target, one list    *)
(* for a group, with each token once.                                       *)
NamesAreUnique ==
  /\ distinct(typeKeys) /\ distinct(aliased) /\ distinct(groups) /\ distinct(declared.hidden)
  /\ \A k \in DOMAIN declared.groups : distinct(declared.groups[k].tokens)

(* A declaration is never replaced by a later line: a repeated %alias,      *)
(* %group or %semantic type is reported, and the first one stands.          *)
FirstDeclarationStands ==
  /\ IsPrefix(declared.types, declared'.types)   /\ IsPrefix(declared.aliases, declared'.aliases)
  /\ IsPrefix(declared.groups, declared'.groups) /\ IsPrefix(declared.tokens, declared'.tokens)

settings(s) == <<s.target, s.package, s.start, s.algorithm, s.scanner, s.modes>>

(* No line of the directives is lost: it adds a declaration, reports an     *)
(* error, begins a section, or is a comment or a setting already made.      *)
LinesAreNotLost ==
  (reader' = reader /\ lines' # lines /\ reader.section = "")
    => \/ isComment(trim(Last(lines')))
       \/ settings(combinedLine(CombinedReader, <<>>, Part(Last(lines'), 0)).acc.spec)
            # settings(EmptySpec("combined"))
       \/ combinedLine(CombinedReader, <<>>, Part(Last(lines'), 0)) = CombinedReader

(* Declarations may come in any order: a file is accepted or not whichever  *)
(* of its lines is moved to its front, which makes every order.             *)
readInOrder(order) ==
  accumulate(LAMBDA r, k : combinedLine(r, lines[k], Part(lines[k], 0)), CombinedReader, order)

withFirst(k) == <<k>> \o SelectSeq(positions(lines), LAMBDA i : i # k)

AcceptanceIgnoresOrder ==
  (outcome # "pending" /\ reader.section = "")
    => \A k \in DOMAIN lines : acceptable(readInOrder(withFirst(k))) <=> outcome = "accepted"

(* What is accepted can be reported: aliases, groups and hidden tokens name *)
(* terminals the scanner delivers, no terminal is in two groups, and types  *)
(* are of rules.                                                            *)
AcceptedNamesAreKnown ==
  outcome = "accepted"
    => LET known  == ToSet(TokenNames(declared)) \ {Error}
           groupOf(t) == {k \in DOMAIN declared.groups : t \in ToSet(declared.groups[k].tokens)}
       IN  /\ ToSet(aliased) \cup ToSet(declared.hidden) \subseteq known
           /\ \A k \in DOMAIN declared.groups : ToSet(declared.groups[k].tokens) \subseteq known
           /\ \A t \in known : Cardinality(groupOf(t)) =< 1
           /\ \A k \in DOMAIN declared.types : declared.types[k].symbol \in RuleNames \ known

(* A rejected %scanner line leaves the settings the generators support. *)
ScannerIsSupported ==
  /\ declared.scanner.encoding = <<"utf8">> /\ declared.scanner.invalid = <<"error">>
  /\ declared.scanner.newline \in {<<>>, <<"lf">>}

(* Whatever lines were refused on the way, the declarations that are left   *)
(* are ones the later stages can work from.                                 *)
DeclarationsAreSound == NamesAreUnique /\ AcceptedNamesAreKnown /\ ScannerIsSupported

(* No line goes unheard: it stands, or is reported.  (Of one step.) *)
NoLineIsSilent == FirstDeclarationStands /\ LinesAreNotLost

=============================================================================
