----------------------------- MODULE MCScanners -----------------------------
(***************************************************************************)
(* Lexers and texts for the scanners.                                      *)
(***************************************************************************)
EXTENDS Scanners

(* One, two and three units: W is spelled L C, X is spelled T C C. *)
MCSpelling == [a |-> <<"a">>, b |-> <<"b">>, n |-> <<"n">>,
               W |-> <<"L", "C">>, X |-> <<"T", "C", "C">>]

(***************************************************************************)
(* Rules  1: a   2: a b b   3: b   4: newline (skipped)   5: W (hidden on  *)
(* a channel).  No rule has X.  "ab" followed by anything but b needs two runes *)
(* of lookahead that belong to the next lexemes.                           *)
(***************************************************************************)
Keyword ==
  [accept |-> [s \in 0 .. 6 |-> <<0, 1, 0, 2, 3, 4, 5>>[s + 1]],
   next   |-> [s \in 0 .. 6 |->
                 CASE s = 0 -> [a |-> 1, b |-> 4, n |-> 5, W |-> 6]
                   [] s = 1 -> [b |-> 2]
                   [] s = 2 -> [b |-> 3]
                   [] OTHER -> <<>>],
   kind   |-> <<"token", "token", "token", "skip", "hidden">>]

(* Rules  1: b+   2: a b* (W or X)  3: a (hidden): a match may be followed by text *)
(* of any length before the longer one fails.                                *)
Greedy ==
  [accept |-> [s \in 0 .. 4 |-> <<0, 1, 3, 0, 2>>[s + 1]],
   next   |-> [s \in 0 .. 4 |->
                 CASE s = 0 -> [b |-> 1, a |-> 2]
                   [] s = 1 -> [b |-> 1]
                   [] s \in {2, 3} -> [b |-> 3, W |-> 4, X |-> 4]
                   [] OTHER -> <<>>],
   kind   |-> <<"token", "token", "hidden">>]

MCLexers == {Keyword, Greedy}

(* Units that spell no rune, or only a part of one, occur at every place. *)
MCTexts ==
  UNION {[1 .. n -> {"a", "b", "L", "T", "C"}] : n \in 0 .. 2} \cup
  {<<"a", "b", "b">>, <<"a", "b", "a">>, <<"a", "b", "C">>, <<"L", "C", "b">>,
   <<"b", "n", "a">>, <<"T", "C", "C">>, <<"T", "a", "C">>, <<"b", "T", "b">>,
   <<"b", "b", "a", "L">>, <<"a", "b", "L", "C">>, <<"n", "L", "C", "b">>,
   <<"b", "C", "a", "b">>, <<"a", "n", "n", "b">>, <<"a", "T", "C", "C">>,
   <<"a", "b", "b", "a", "L">>, <<"a", "b", "b", "T", "C">>,
   <<"a", "b", "b", "L", "C">>}

(* Texts that a NUL cuts short, and one of many lexemes. *)
MCNulTexts ==
  {<<"a", "b", "0", "b">>, <<"0", "a">>, <<"b", "L", "0">>, <<"b", "b", "b", "b", "b">>}

=============================================================================
