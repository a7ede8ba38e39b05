------------------------------ MODULE MCLexer ------------------------------
EXTENDS Lexer

CONSTANTS MaxExpr, MaxPieces

X  == SetOf({"x"})
Y  == SetOf({"y"})
XY == SetOf({"x", "y"})

(* Definitions: none, plain, chained, recursive alone and in a circle, an    *)
(* unparsable one, and a name defined twice.                                 *)
Def(name, expr) == [name |-> name, expr |-> expr]
MCDefinitions ==
  {<<>>, <<Def("D", X)>>, <<Def("D", Star(Y))>>,
   <<Def("D", Concat(Ref("E"), Ref("E"))), Def("E", XY)>>,
   <<Def("D", Alt(X, Ref("D")))>>,
   <<Def("D", Concat(X, Ref("E"))), Def("E", Plus(Ref("D")))>>,
   <<Def("D", Concat(X, Ref("E")))>>,
   <<Def("D", SetOf({"s"}))>>, <<Def("D", Unparsable)>>, <<Def("D", X), Def("D", Y)>>}

(* Rules in every shape; "s" is a surrogate, outside the domain. *)
Atoms == {X, XY, Ref("D"), Empty, SetOf({}), SetOf({"y", "s"})}
MCRules ==
  {Unparsable, Y, Ref("D"), SetOf({"z"}), SetOf({"x", "z"})} \cup
  UNION {{Concat(a, Y), Concat(a, Star(XY)), Alt(a, Concat(X, Y)), Star(a), Plus(a),
          Plus(Optional(a)), Concat(X, Optional(a)), Concat(Plus(a), Alt(a, Y))} : a \in Atoms}

MCLexers ==
  [definitions : MCDefinitions, rules : {<<r>> : r \in MCRules}] \cup
  [definitions : {<<>>, <<Def("D", Star(Y))>>},
   rules : {<<r, s>> : r \in MCRules, s \in {Y, XY, Concat(X, Concat(Y, X)), Star(X),
                                             Concat(Star(Y), X), Plus(SetOf({"x", "z"}))}}]

Interval(lo, hi) == [lo |-> lo, hi |-> hi]
Intervals == {r \in [lo : 0 .. MaxRune, hi : 0 .. MaxRune] : r.lo <= r.hi}

(* Of the runes 0 .. 6, 2 and 3 stand for the surrogates. *)
MCDomain == <<Interval(0, 1), Interval(4, 6)>>

(* One or two ranges in any order, and the empty class. *)
MCLabels ==
  {<<>>} \cup {<<r>> : r \in Intervals}
         \cup {<<r, s>> : r, s \in {t \in Intervals : t.hi - t.lo <= 1}}

(* Runes 0..29 without the surrogates 20 and 21. *)
MCScalars == (0 .. 29) \ {20, 21}
MCRuneOf ==
  [c \in Letters \cup Digits \cup {"'", "\"", "*", "+", "?", "(", ")", "|", ".", " ", "[", "]",
                                    "^", "-", ",", "{", "}", "\\", "newline"} |->
     CASE c = "0" -> 10 [] c = "1" -> 11 [] c = "2" -> 12 [] c = "arabic3" -> 26
       [] c = "a" -> 14 [] c = "b" -> 16 [] c = "-" -> 6 [] c = "]" -> 17 [] c = "^" -> 18
       [] c = "*" -> 4 [] c = "," -> 5 [] c = "newline" -> 1 [] OTHER -> 3]
MCPropertySets == <<"a">> :> {14, 16, 21} @@ <<"a", "b">> :> {10, 11, 12}

SeqsUpTo(S, n) == UNION {[1 .. k -> S] : k \in 0 .. n}

(* Every text of expression characters, and one longer without blanks and    *)
(* digits.                                                                   *)
Operators == {"|", "*", "(", ")", "'"}
ExprTexts == SeqsUpTo(Operators \cup {"a", "1", " "}, MaxExpr - 1)
               \cup SeqsUpTo(Operators \cup {"a"}, MaxExpr)

(* Classes and escapes put together from pieces. *)
Pieces ==
  {<<"a">>, <<"-">>, <<"]">>, <<"1", "2">>, <<"2">>, <<" ">>, <<"arabic3">>,
   <<"\\", "p", "{", "a", "}">>, <<"\\", "P", "{", "a", "b", "}">>, <<"\\", "-">>,
   <<"\\", "x", "0", "b">>, <<"\\", "x", "1", "a">>, <<"\\", "u", "{", "1", "}">>, <<"\\", "x", "+", "2">>}
ClassTexts ==
  {FlattenSeq(<<open>> \o pieces \o <<<<"]">>>>) :
     open \in {<<"[">>, <<"[", "^">>}, pieces \in SeqsUpTo(Pieces, MaxPieces)}
QuotedTexts == {FlattenSeq(<<quote>> \o pieces \o <<quote>>) :
                  quote \in {<<"\"">>, <<>>}, pieces \in SeqsUpTo(Pieces, MaxPieces - 1)}

NumberTexts == {<<"[">> \o digits \o <<"]">> : digits \in SeqsUpTo(AsciiDigits, MaxPieces)}

MCTexts == ExprTexts \cup ClassTexts \cup QuotedTexts

=============================================================================
