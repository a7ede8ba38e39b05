----------------------------- MODULE RegexExpr -----------------------------
(* The expressions the regex parser builds and the lexer compiler reads.   *)

Empty        == [kind |-> "empty"]
SetOf(runes) == [kind |-> "set", runes |-> runes]
Ref(name)    == [kind |-> "ref", name |-> name]
Concat(a, b) == [kind |-> "concat", left |-> a, right |-> b]
Alt(a, b)    == [kind |-> "alt", left |-> a, right |-> b]
Star(a)      == [kind |-> "star", child |-> a]
Plus(a)      == [kind |-> "plus", child |-> a]
Optional(a)  == [kind |-> "optional", child |-> a]

Binary == {"concat", "alt"}
Unary  == {"star", "plus", "optional"}

Unparsable == [kind |-> "error"]

=============================================================================
