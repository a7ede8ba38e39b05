----------------------------- MODULE MCCParser -----------------------------
EXTENDS CParser, MCLRParser

\* A grammar whose start symbol passes a lexeme on.
Unit == Make("S", {"Id"}, {"S"}, <<"$", "Id", "S", "error">>, << R("S", <<"Id">>) >>)

UnitBuilt  == [p \in {<<"unit", "lalr">>} |-> T!Build(Unit, "lalr")]
UnitTables == UnitBuilt
UnitBounds == [p \in DOMAIN UnitBuilt |-> 1]

\* RecoveryTables with less input.
CBounds == [p \in DOMAIN RecoveryBuilt |-> 5]

=============================================================================
