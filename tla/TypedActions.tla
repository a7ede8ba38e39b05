---------------------------- MODULE TypedActions ----------------------------
(***************************************************************************)
(* From tables to typed reducers: the manifest groups rules by the name of *)
(* their action and decides which actions get a typed context, and a       *)
(* generated parser converts the values on its stack for the handlers.     *)
(* Values are those of derivation trees of growing height, of the rules    *)
(* the tables can reduce by.  An alternative has, beside the fields of     *)
(* GrammarTables, the names of its labels ("" for none) and its action.    *)
(***************************************************************************)
EXTENDS GrammarTables

CONSTANTS
  Targets,    \* of "go" (C++ and C# convert values in the same way) and "c"
  Pointers    \* the types that are pointers in C

\* No label stands twice in an alternative (LF135), and "nil" is no type's name.
ASSUME ActionsAssumption ==
  \A name \in DOMAIN Families :
    /\ "nil" \notin Families[name].types
    /\ \A a \in ToSet(Families[name].alternatives) :
         /\ DOMAIN a.names = DOMAIN a.rhs
         /\ \A i, j \in DOMAIN a.rhs : a.names[i] = a.names[j] => i = j \/ a.names[i] = ""

VARIABLES
  target,     \* "none" until a parser is generated
  manifest,   \* [action -> [typed, returnType, fields]]
  values      \* [symbol, type, sound]: sound if a lexeme or made by a typed handler

tvars == <<vars, target, manifest, values>>

-----------------------------------------------------------------------------
(* The manifest, for the types the specification declares. *)

TypeFor(types, symbol) ==
  IF symbol \in Terminals THEN "Lexeme"
  ELSE IF symbol \in DOMAIN types THEN types[symbol] ELSE ""

\* The labelled operands of a rule, in order, with their types.
Operands(types, r) ==
  LET places   == [i \in 1..Len(Kept[r].rhs) |-> i]
      labelled == Picked(places, {i \in DOMAIN places : Kept[r].names[i] # ""})
  IN  [k \in DOMAIN labelled |->
         [label |-> Kept[r].names[labelled[k]], type |-> TypeFor(types, Kept[r].rhs[labelled[k]])]]

RuleIsTyped(types, r) ==
  /\ TypeFor(types, Kept[r].lhs) # ""
  /\ \A k \in DOMAIN Operands(types, r) : Operands(types, r)[k].type # ""

\* Mutant: the type of the result is left out.
SignatureOfOperands(types, r) == Operands(types, r)

ContextSignature(types, r) == <<TypeFor(types, Kept[r].lhs), Operands(types, r)>>

ActionNames == {Kept[r].action : r \in DOMAIN Kept} \ {""}

\* The context of an action is that of its first rule, if all its rules agree.
ActionOf(types, name) ==
  LET rules == {r \in DOMAIN Kept : Kept[r].action = name}
      first == CHOOSE r \in rules : \A q \in rules : r <= q
  IN  [typed |-> \A r \in rules : /\ RuleIsTyped(types, r)
                                  /\ ContextSignature(types, r) = ContextSignature(types, first),
       returnType |-> TypeFor(types, Kept[first].lhs),
       fields     |-> Operands(types, first)]

\* Conflicts stop the generator under every algorithm if they do under canonical LR(1).
Generate ==
  /\ Built /\ Clean("canonical")
  /\ target' \in Targets
  /\ \E types \in UNION {[typed -> Family.types] : typed \in SUBSET Nonterminals} :
       manifest' = [name \in ActionNames |-> ActionOf(types, name)]
  /\ values' = {[symbol |-> t, type |-> "Lexeme", sound |-> TRUE] : t \in Terminals}
  /\ phase' = "generated"
  /\ UNCHANGED <<family, alternatives, tables>>

-----------------------------------------------------------------------------
(* Reductions by the generated parser. *)

IsReducedBy(r) ==
  LET actions == tables["canonical"].actions
  IN  \E s \in DOMAIN actions : \E t \in DOMAIN actions[s] :
        actions[s][t].kind = "reduce" /\ actions[s][t].rule = r

Handles(r) ==
  {h \in [1..Len(Kept[r].rhs) -> values] : \A k \in DOMAIN h : h[k].symbol = Kept[r].rhs[k]}

Labels(r)             == {Kept[r].names[i] : i \in DOMAIN Kept[r].names} \ {""}
ValueFor(r, h, label) == h[CHOOSE i \in DOMAIN h : Kept[r].names[i] = label]

HasContext(r) == Kept[r].action # "" /\ manifest[Kept[r].action].typed
FieldsOf(r)   == ToSet(manifest[Kept[r].action].fields)

\* A Go type assertion holds; C refuses only NULL where the type is no pointer.
ConvertsTo(type, value) ==
  IF target = "c" THEN value.type # "nil" \/ type \in Pointers \cup {"Lexeme"} ELSE value.type = type

Converts(r, h) ==
  \A field \in FieldsOf(r) :
    field.label \in Labels(r) /\ ConvertsTo(field.type, ValueFor(r, h, field.label))

DefaultType(h) ==
  CASE Len(h) = 1                 -> h[1].type
    [] Len(h) > 1 /\ target # "c" -> "list"
    [] OTHER                      -> "nil"

Value(r, type, sound) == [symbol |-> Kept[r].lhs, type |-> type, sound |-> sound]

\* What reducing h by r may give.  A refused conversion ends the parse, but the C
\* parser goes on with NULL if the caller passed no error record.  A handler
\* without a typed context returns what it likes.
Results(r, h) ==
  CASE Kept[r].action = ""                 -> {Value(r, DefaultType(h), FALSE)}
    [] HasContext(r) /\ Converts(r, h)     -> {Value(r, manifest[Kept[r].action].returnType, TRUE)}
    [] HasContext(r) /\ ~Converts(r, h)    -> IF target = "c" THEN {Value(r, "nil", FALSE)} ELSE {}
    [] Kept[r].action # "" /\ ~HasContext(r) ->
         {Value(r, t, FALSE) : t \in Family.types \cup {"nil", "Lexeme"}}

Reduce ==
  /\ phase = "generated"
  /\ values' = values \cup
       UNION {UNION {Results(r, h) : h \in Handles(r)} : r \in {q \in DOMAIN Kept : IsReducedBy(q)}}
  /\ values' # values
  /\ UNCHANGED <<vars, target, manifest>>

-----------------------------------------------------------------------------

TypedInit == Init /\ target = "none" /\ manifest = <<>> /\ values = {}

TypedNext == (Next /\ UNCHANGED <<target, manifest, values>>) \/ Generate \/ Reduce
TypedSpec == TypedInit /\ [][TypedNext]_tvars

-----------------------------------------------------------------------------

\* The rules whose handlers have typed contexts.
TypedRules == IF phase # "generated" THEN {} ELSE {r \in DOMAIN Kept : HasContext(r)}

\* A typed handler is called with values of the types of its fields.
TypedFieldsAreTyped ==
  \A r \in TypedRules : \A h \in Handles(r) : Converts(r, h) =>
    \A field \in FieldsOf(r) :
      LET value == ValueFor(r, h, field.label)
      IN  value.type = field.type \/ (value.type = "nil" /\ field.type \in Pointers)

\* Well-typed handlers are not refused: when the values of all labels are lexemes
\* or come from typed handlers, they convert, whichever rules share the actions.
RefusalsAreExplained ==
  \A r \in TypedRules : \A h \in Handles(r) : ~Converts(r, h) =>
    \E k \in DOMAIN h : Kept[r].names[k] # "" /\ ~h[k].sound

\* Labels and types carry values from typed handlers to typed handlers.  (The
\* conversions of C check no type: there only the second part holds.)
TypedContextsAreSound ==
  RefusalsAreExplained /\ (target # "c" => TypedFieldsAreTyped)

=============================================================================
