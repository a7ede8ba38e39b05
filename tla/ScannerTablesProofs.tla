------------------------ MODULE ScannerTablesProofs ------------------------
(***************************************************************************)
(* What the tables of a lexer mean, for every lexer and every text: at     *)
(* every offset at most one rune fits, so that the tables lead from an     *)
(* offset along one path, and the loop of a scanner that follows them      *)
(* until they stop knows the longest match; text that arrives in chunks    *)
(* leads along the same path; and counting lines and columns lexeme by     *)
(* lexeme gives the position of every offset.                              *)
(***************************************************************************)
EXTENDS ScannerTables, ProofLemmas

------------------------------------------------------------------------------
(* Runes and their spelling. *)

\* What it is to be a prefix, unit by unit.
LEMMA PrefixUnits ==
  ASSUME NEW U, NEW V, NEW s \in Seq(U), NEW t \in Seq(V)
  PROVE  IsPrefix(s, t) <=> /\ Len(s) <= Len(t)
                            /\ \A i \in 1..Len(s) : s[i] = t[i]
<1>1. Len(s) \in Nat /\ Len(t) \in Nat
  BY LenProperties
<1>2. CASE Len(s) <= Len(t)
  <2> DEFINE a == SubSeq(s, 1, Len(s))  b == SubSeq(t, 1, Len(s))
  <2>1. a \in Seq(U) /\ Len(a) = Len(s) /\ \A i \in 1..Len(s) : a[i] = s[i]
    BY <1>1, PrefixFacts
  <2>2. b \in Seq(V) /\ Len(b) = Len(s) /\ \A i \in 1..Len(s) : b[i] = t[i]
    <3>1. Len(s) \in 0..Len(t)
      BY <1>1, <1>2
    <3> QED  BY <3>1, PrefixFacts
  <2>3. IsPrefix(s, t) <=> a = b
    BY <1>2 DEF IsPrefix
  <2>4. a \in Seq(U \cup V) /\ b \in Seq(U \cup V)
    BY <2>1, <2>2, SeqMonotonic
  <2> HIDE DEF a, b
  <2>5. ASSUME \A i \in 1..Len(s) : s[i] = t[i]
        PROVE  a = b
    BY <2>1, <2>2, <2>4, <2>5, SeqEqual
  <2> QED  BY <1>2, <2>1, <2>2, <2>3, <2>5
<1>3. CASE ~(Len(s) <= Len(t))
  BY <1>3 DEF IsPrefix
<1> QED  BY <1>2, <1>3

\* The units of a text from an offset on.
LEMMA RestFacts ==
  ASSUME NEW U, NEW text \in Seq(U), NEW p \in 0..Len(text)
  PROVE  /\ Rest(text, p) \in Seq(U) /\ Len(Rest(text, p)) = Len(text) - p
         /\ \A i \in 1..(Len(text) - p) : Rest(text, p)[i] = text[p + i]
<1> DEFINE n == Len(text)  r == Rest(text, p)
<1>1. n \in Nat /\ p \in Nat /\ p <= n
  BY LenProperties
<1>2. \A i \in (p + 1)..n : text[i] \in U
  BY <1>1, ElementOfSeq
<1> HIDE DEF n
<1>3. /\ r \in Seq(U)
      /\ Len(r) = IF p + 1 <= n THEN n - (p + 1) + 1 ELSE 0
      /\ \A i \in 1..(n - (p + 1) + 1) : r[i] = text[(p + 1) + i - 1]
  <2>1. r = SubSeq(text, p + 1, n)
    BY DEF Rest, n
  <2> HIDE DEF r
  <2>2. p + 1 \in Int /\ n \in Int
    BY <1>1
  <2> QED  BY <1>2, <2>1, <2>2, SubSeqProperties
<1> HIDE DEF r
<1>4. Len(r) = n - p
  BY <1>1, <1>3
<1>5. \A i \in 1..(n - p) : r[i] = text[p + i]
  <2> SUFFICES ASSUME NEW i \in 1..(n - p)
               PROVE  r[i] = text[p + i]
    OBVIOUS
  <2>1. i \in 1..(n - (p + 1) + 1) /\ (p + 1) + i - 1 = p + i
    BY <1>1
  <2> QED  BY <1>3, <2>1
<1> QED  BY <1>3, <1>4, <1>5 DEF n, r

\* A rune is spelled by one unit or more.
LEMMA RuneFacts ==
  ASSUME NEW rune \in Runes
  PROVE  /\ Spelling[rune] \in Seq(ToSet(Spelling[rune]))
         /\ Len(Spelling[rune]) \in Nat /\ Len(Spelling[rune]) >= 1
<1>1. Spelling[rune] \in Seq(ToSet(Spelling[rune])) /\ Spelling[rune] # <<>>
  BY RunesAreSelfDelimiting
<1> QED  BY <1>1, EmptySeq, LenProperties

\* What it is for a rune to fit at an offset, unit by unit.
LEMMA FitsUnits ==
  ASSUME NEW U, NEW text \in Seq(U), NEW p \in 0..Len(text), NEW rune \in Runes
  PROVE  Fits(rune, text, p) <=> /\ p + Len(Spelling[rune]) <= Len(text)
                                 /\ \A i \in 1..Len(Spelling[rune]) : Spelling[rune][i] = text[p + i]
<1> DEFINE s == Spelling[rune]  t == Rest(text, p)
<1>1. s \in Seq(ToSet(s)) /\ Len(s) \in Nat /\ Len(text) \in Nat /\ p \in Nat
  BY RuneFacts, LenProperties
<1>2. t \in Seq(U) /\ Len(t) = Len(text) - p /\ \A i \in 1..(Len(text) - p) : t[i] = text[p + i]
  BY RestFacts
<1>3. Fits(rune, text, p) <=> Len(s) <= Len(t) /\ \A i \in 1..Len(s) : s[i] = t[i]
  <2> HIDE DEF t
  <2>1. IsPrefix(s, t) <=> Len(s) <= Len(t) /\ \A i \in 1..Len(s) : s[i] = t[i]
    BY <1>1, <1>2, PrefixUnits, SMTT(30)
  <2> QED  BY <2>1 DEF Fits, t
<1> HIDE DEF s, t
<1>4. Fits(rune, text, p) <=> p + Len(s) <= Len(text) /\ \A i \in 1..Len(s) : s[i] = text[p + i]
  BY <1>1, <1>2, <1>3
<1> QED  BY <1>4 DEF s

\* At most one rune fits at an offset.
LEMMA OneRuneFits ==
  ASSUME NEW U, NEW text \in Seq(U), NEW p \in 0..Len(text),
         NEW rune \in Runes, NEW other \in Runes,
         Fits(rune, text, p), Fits(other, text, p)
  PROVE  rune = other
<1>1. ASSUME NEW r \in Runes, NEW o \in Runes, Fits(r, text, p), Fits(o, text, p),
             Len(Spelling[r]) <= Len(Spelling[o])
      PROVE  r = o
  <2>1. \A i \in 1..Len(Spelling[r]) : Spelling[r][i] = Spelling[o][i]
    BY <1>1, FitsUnits, RuneFacts
  <2>2. IsPrefix(Spelling[r], Spelling[o])
    BY <1>1, <2>1, RuneFacts, PrefixUnits
  <2> QED  BY <2>2, RunesAreSelfDelimiting
<1> QED  BY <1>1, RuneFacts

\* Decoding finds the rune that fits, if there is one.
LEMMA DecodeFacts ==
  ASSUME NEW U, NEW text \in Seq(U), NEW p \in 0..Len(text)
  PROVE  /\ \A rune \in Runes : Fits(rune, text, p) =>
              Decode(text, p).rune = rune /\ Decode(text, p).size = Len(Spelling[rune])
         /\ (\A rune \in Runes : ~Fits(rune, text, p)) <=> Decode(text, p) = NoRune
         /\ Decode(text, p).rune \in Runes => Fits(Decode(text, p).rune, text, p)
<1> DEFINE here == {rune \in Runes : Fits(rune, text, p)}
           it == CHOOSE rune \in here : TRUE
<1>1. CASE here = {}
  <2>1. Decode(text, p) = NoRune
    BY <1>1 DEF Decode
  <2> QED  BY <1>1, <2>1, RunesAreSelfDelimiting DEF NoRune
<1>2. CASE here # {}
  <2>1. it \in here
    BY <1>2
  <2>2. Decode(text, p) = [rune |-> it, size |-> Len(Spelling[it])]
    BY <1>2 DEF Decode
  <2>3. it \in Runes /\ Fits(it, text, p)
    BY <2>1
  <2> HIDE DEF it, here
  <2>4. \A rune \in Runes : Fits(rune, text, p) => rune = it
    BY <2>3, OneRuneFits
  <2>5. Decode(text, p).rune = it /\ Decode(text, p).size = Len(Spelling[it])
    BY <2>2
  <2>6. Decode(text, p) # NoRune
    BY <2>3, <2>5, RunesAreSelfDelimiting DEF NoRune
  <2> QED  BY <2>3, <2>4, <2>5, <2>6
<1> QED  BY <1>1, <1>2
------------------------------------------------------------------------------
(* The path of the tables. *)

PlaceSet(lexer) == [end : Nat, state : DOMAIN lexer.next]

\* All places the tables lead to from an offset.
Path(lexer, text, from) == UNION {Places(lexer, text, from)[n] : n \in 0..Len(text)}

\* The places one transition away.
LEMMA TransitionsFacts ==
  ASSUME NEW lexer, LexerOK(lexer), NEW U, NEW text \in Seq(U),
         NEW places \in SUBSET PlaceSet(lexer)
  PROVE  /\ Transitions(lexer, text, places) \in SUBSET PlaceSet(lexer)
         /\ \A to : to \in Transitions(lexer, text, places) <=>
              \E place \in places : \E rune \in DOMAIN lexer.next[place.state] :
                /\ rune \in Runes /\ Fits(rune, text, place.end)
                /\ to = [end |-> place.end + Len(Spelling[rune]),
                         state |-> lexer.next[place.state][rune]]
<1>1. \A place \in places : \A rune \in DOMAIN lexer.next[place.state] :
        /\ rune \in Runes
        /\ [end |-> place.end + Len(Spelling[rune]),
            state |-> lexer.next[place.state][rune]] \in PlaceSet(lexer)
  <2> SUFFICES ASSUME NEW place \in places, NEW rune \in DOMAIN lexer.next[place.state]
               PROVE  /\ rune \in Runes
                      /\ place.end + Len(Spelling[rune]) \in Nat
                      /\ lexer.next[place.state][rune] \in DOMAIN lexer.next
    BY DEF PlaceSet
  <2>1. place.end \in Nat /\ place.state \in DOMAIN lexer.next
    BY DEF PlaceSet
  <2>2. rune \in Runes /\ lexer.next[place.state][rune] \in DOMAIN lexer.next
    BY <2>1 DEF LexerOK
  <2>3. Len(Spelling[rune]) \in Nat
    BY <2>2, RuneFacts
  <2> QED  BY <2>1, <2>2, <2>3
<1> DEFINE One(place) ==
      {[end |-> place.end + Len(Spelling[rune]), state |-> lexer.next[place.state][rune]] :
         rune \in {r \in DOMAIN lexer.next[place.state] : Fits(r, text, place.end)}}
<1>2. \A to : to \in Transitions(lexer, text, places) <=>
        \E place \in places : \E rune \in DOMAIN lexer.next[place.state] :
          /\ Fits(rune, text, place.end)
          /\ to = [end |-> place.end + Len(Spelling[rune]),
                   state |-> lexer.next[place.state][rune]]
  <2>1. Transitions(lexer, text, places) = UNION {One(place) : place \in places}
    BY DEF Transitions
  <2>2. \A to, place : to \in One(place) <=>
          \E rune \in DOMAIN lexer.next[place.state] :
            /\ Fits(rune, text, place.end)
            /\ to = [end |-> place.end + Len(Spelling[rune]),
                     state |-> lexer.next[place.state][rune]]
    OBVIOUS
  <2> HIDE DEF One
  <2>3. \A to : to \in Transitions(lexer, text, places) <=> \E place \in places : to \in One(place)
    BY <2>1
  <2> QED  BY <2>2, <2>3, Zenon
<1>3. \A to : to \in Transitions(lexer, text, places) => to \in PlaceSet(lexer)
  BY <1>1, <1>2
<1> QED  BY <1>1, <1>2, <1>3, Zenon

\* The places are what their recursive definition says.
LEMMA PlacesFacts ==
  ASSUME NEW lexer, LexerOK(lexer), NEW U, NEW text \in Seq(U), NEW from \in 0..Len(text)
  PROVE  /\ Places(lexer, text, from) \in [Nat -> SUBSET PlaceSet(lexer)]
         /\ Places(lexer, text, from)[0] = {[end |-> from, state |-> 0]}
         /\ \A n \in Nat : Places(lexer, text, from)[n + 1]
                             = Transitions(lexer, text, Places(lexer, text, from)[n])
<1> DEFINE S == SUBSET PlaceSet(lexer)
           first == {[end |-> from, state |-> 0]}
           Step == [n \in Nat |-> [places \in S |-> Transitions(lexer, text, places)]]
           Is(f) == f = [n \in Nat |-> IF n = 0 THEN first ELSE Transitions(lexer, text, f[n - 1])]
<1>1. first \in S
  <2>1. from \in Nat /\ 0 \in DOMAIN lexer.next
    BY LenProperties DEF LexerOK
  <2> QED  BY <2>1 DEF PlaceSet
<1>2. Step \in [Nat -> [S -> S]]
  <2>1. \A places \in S : Transitions(lexer, text, places) \in S
    BY TransitionsFacts
  <2> HIDE DEF S
  <2> QED  BY <2>1
<1>3. \E f : Is(f)
  <2> HIDE DEF S, first
  <2>1. PICK f \in [Nat -> S] : Follows(f, first, Step)
    <3> HIDE DEF Step
    <3> QED  BY <1>1, <1>2, Recursion
  <2>2. \A n \in Nat \ {0} : Step[n][f[n - 1]] = Transitions(lexer, text, f[n - 1])
    OBVIOUS
  <2> HIDE DEF Step
  <2> QED  BY <2>1, <2>2, SMTT(30) DEF Follows
<1> DEFINE P == Places(lexer, text, from)
<1>4. Is(P)
  <2>1. P = CHOOSE f : Is(f)
    BY DEF Places
  <2> HIDE DEF Is
  <2> QED  BY <1>3, <2>1, Zenon
<1> HIDE DEF P
<1>5. P[0] = first /\ \A n \in Nat : P[n + 1] = Transitions(lexer, text, P[n])
  <2> HIDE DEF first
  <2> SUFFICES ASSUME NEW n \in Nat
               PROVE  P[0] = first /\ P[n + 1] = Transitions(lexer, text, P[n])
    OBVIOUS
  <2>1. n + 1 \in Nat /\ n + 1 # 0 /\ (n + 1) - 1 = n
    OBVIOUS
  <2> QED  BY <1>4, <2>1
<1>6. \A n \in Nat : P[n] \in S
  <2> DEFINE Typed == {n \in Nat : P[n] \in S}
  <2>1. 0 \in Typed
    BY <1>1, <1>5
  <2>2. ASSUME NEW n \in Nat, n \in Typed
        PROVE  n + 1 \in Typed
    <3>1. Transitions(lexer, text, P[n]) \in S
      BY <2>2, TransitionsFacts
    <3> HIDE DEF S, Is, Step, first
    <3>2. P[n + 1] \in S
      BY <1>5, <3>1
    <3> QED  BY <3>2
  <2> HIDE DEF Typed
  <2>3. \A n \in Nat : n \in Typed
    BY <2>1, <2>2, Induction
  <2> QED  BY <2>3 DEF Typed
<1>7. P \in [Nat -> S]
  <2> HIDE DEF S, first
  <2> QED  BY <1>4, <1>6
<1> QED  BY <1>5, <1>7 DEF P

\* The same, fact by fact: there is one place at first,
LEMMA PlaceFirst ==
  ASSUME NEW lexer, LexerOK(lexer), NEW U, NEW text \in Seq(U), NEW from \in 0..Len(text)
  PROVE  Places(lexer, text, from)[0] = {[end |-> from, state |-> 0]}
BY PlacesFacts, SMTT(30)

\* all are places,
LEMMA PlaceTyped ==
  ASSUME NEW lexer, LexerOK(lexer), NEW U, NEW text \in Seq(U), NEW from \in 0..Len(text),
         NEW n \in Nat
  PROVE  Places(lexer, text, from)[n] \in SUBSET PlaceSet(lexer)
<1>1. Places(lexer, text, from) \in [Nat -> SUBSET PlaceSet(lexer)]
  BY PlacesFacts
<1> QED  BY <1>1

\* and one transition leads to the next ones.
LEMMA PlaceNext ==
  ASSUME NEW lexer, LexerOK(lexer), NEW U, NEW text \in Seq(U), NEW from \in 0..Len(text),
         NEW n \in Nat
  PROVE  Places(lexer, text, from)[n + 1] = Transitions(lexer, text, Places(lexer, text, from)[n])
<1>1. \A m \in Nat : Places(lexer, text, from)[m + 1] = Transitions(lexer, text, Places(lexer, text, from)[m])
  BY PlacesFacts
<1> QED  BY <1>1

\* Places lie within the text, each transition at least one unit further, and
\* as one rune at most fits at an offset there is one after n transitions.
LEMMA PlacesAdvance ==
  ASSUME NEW lexer, LexerOK(lexer), NEW U, NEW text \in Seq(U), NEW from \in 0..Len(text)
  PROVE  \A n \in Nat : \A a \in Places(lexer, text, from)[n] :
           /\ a \in PlaceSet(lexer)
           /\ from + n <= a.end /\ a.end <= Len(text)
           /\ \A b \in Places(lexer, text, from)[n] : a = b
<1> DEFINE P == Places(lexer, text, from)
           Good == {n \in Nat : \A a \in P[n] :
                      /\ a \in PlaceSet(lexer)
                      /\ from + n <= a.end /\ a.end <= Len(text)
                      /\ \A b \in P[n] : a = b}
<1>1. /\ P \in [Nat -> SUBSET PlaceSet(lexer)]
      /\ P[0] = {[end |-> from, state |-> 0]}
      /\ \A n \in Nat : P[n + 1] = Transitions(lexer, text, P[n])
  BY PlacesFacts, SMTT(30)
<1>2. Len(text) \in Nat /\ from \in Nat /\ from <= Len(text)
  BY LenProperties
<1> HIDE DEF P
<1>3. 0 \in Good
  <2>1. \A a \in P[0] : a = [end |-> from, state |-> 0] /\ a \in PlaceSet(lexer)
    BY <1>1
  <2>2. \A a \in P[0] : a.end = from
    BY <2>1
  <2> QED  BY <1>2, <2>1, <2>2
<1>4. ASSUME NEW n \in Nat, n \in Good
      PROVE  n + 1 \in Good
  <2>1. ASSUME NEW a \in P[n + 1]
        PROVE  \E place \in P[n] : \E rune \in DOMAIN lexer.next[place.state] :
                 /\ rune \in Runes /\ Fits(rune, text, place.end)
                 /\ a = [end |-> place.end + Len(Spelling[rune]),
                         state |-> lexer.next[place.state][rune]]
    <3>1. P[n] \in SUBSET PlaceSet(lexer) /\ P[n + 1] = Transitions(lexer, text, P[n])
      BY <1>1
    <3> QED  BY <3>1, TransitionsFacts
  <2>2. ASSUME NEW a \in P[n + 1]
        PROVE  from + (n + 1) <= a.end /\ a.end <= Len(text)
    <3>1. PICK place \in P[n] : \E rune \in Runes :
            Fits(rune, text, place.end) /\ a.end = place.end + Len(Spelling[rune])
      BY <2>1
    <3>2. PICK rune \in Runes : Fits(rune, text, place.end) /\ a.end = place.end + Len(Spelling[rune])
      BY <3>1
    <3>3. place.end \in Nat /\ from + n <= place.end /\ place.end <= Len(text)
      BY <1>1, <1>4 DEF PlaceSet
    <3>4. place.end + Len(Spelling[rune]) <= Len(text)
      BY <1>2, <3>2, <3>3, FitsUnits
    <3> QED  BY <1>2, <3>2, <3>3, <3>4, RuneFacts
  <2>3. ASSUME NEW a \in P[n + 1], NEW b \in P[n + 1]
        PROVE  a = b
    <3>1. PICK p \in P[n] : \E r \in DOMAIN lexer.next[p.state] :
            /\ r \in Runes /\ Fits(r, text, p.end)
            /\ a = [end |-> p.end + Len(Spelling[r]), state |-> lexer.next[p.state][r]]
      BY <2>1
    <3>2. PICK q \in P[n] : \E o \in DOMAIN lexer.next[q.state] :
            /\ o \in Runes /\ Fits(o, text, q.end)
            /\ b = [end |-> q.end + Len(Spelling[o]), state |-> lexer.next[q.state][o]]
      BY <2>1
    <3>3. p = q
      BY <1>4
    <3>4. p.end \in 0..Len(text)
      <4>1. p.end \in Nat /\ p.end <= Len(text)
        BY <1>1, <1>4 DEF PlaceSet
      <4> QED  BY <1>2, <4>1
    <3> QED  BY <3>1, <3>2, <3>3, <3>4, OneRuneFits
  <2>4. \A a \in P[n + 1] : a \in PlaceSet(lexer)
    BY <1>1
  <2> QED  BY <2>2, <2>3, <2>4
<1> HIDE DEF Good
<1>5. \A n \in Nat : n \in Good
  BY <1>3, <1>4, Induction
<1> QED  BY <1>5 DEF Good, P

\* A place after more transitions is reached through the ones before it.
LEMMA PlacesChain ==
  ASSUME NEW lexer, LexerOK(lexer), NEW U, NEW text \in Seq(U), NEW from \in 0..Len(text),
         NEW n \in Nat, NEW a \in Places(lexer, text, from)[n]
  PROVE  \A m \in Nat : \A b \in Places(lexer, text, from)[m] : n < m =>
           \E rune \in DOMAIN lexer.next[a.state] :
             /\ rune \in Runes /\ Fits(rune, text, a.end)
             /\ a.end + Len(Spelling[rune]) <= b.end
<1> DEFINE P == Places(lexer, text, from)
           Good == {m \in Nat : \A b \in P[m] : n < m =>
                      \E rune \in DOMAIN lexer.next[a.state] :
                        /\ rune \in Runes /\ Fits(rune, text, a.end)
                        /\ a.end + Len(Spelling[rune]) <= b.end}
<1>1. /\ P \in [Nat -> SUBSET PlaceSet(lexer)]
      /\ \A m \in Nat : P[m + 1] = Transitions(lexer, text, P[m])
  <2> HIDE DEF Good
  <2>1. P \in [Nat -> SUBSET PlaceSet(lexer)]
    BY PlacesFacts
  <2>2. \A m \in Nat : P[m + 1] = Transitions(lexer, text, P[m])
    BY PlacesFacts
  <2> QED  BY <2>1, <2>2
<1>2. \A m \in Nat : \A b, c \in P[m] : b = c /\ b.end \in Nat
  BY PlacesAdvance DEF PlaceSet
<1> HIDE DEF P
<1>3. 0 \in Good
  OBVIOUS
<1>4. ASSUME NEW m \in Nat, m \in Good
      PROVE  m + 1 \in Good
  <2> SUFFICES ASSUME NEW b \in P[m + 1], n < m + 1
               PROVE  \E rune \in DOMAIN lexer.next[a.state] :
                        /\ rune \in Runes /\ Fits(rune, text, a.end)
                        /\ a.end + Len(Spelling[rune]) <= b.end
    OBVIOUS
  <2>0. PICK c \in P[m] : \E r \in DOMAIN lexer.next[c.state] :
          /\ r \in Runes /\ Fits(r, text, c.end)
          /\ b = [end |-> c.end + Len(Spelling[r]), state |-> lexer.next[c.state][r]]
    <3>1. P[m] \in SUBSET PlaceSet(lexer) /\ P[m + 1] = Transitions(lexer, text, P[m])
      BY <1>1
    <3> QED  BY <3>1, TransitionsFacts
  <2>1. PICK r \in DOMAIN lexer.next[c.state] :
          /\ r \in Runes /\ Fits(r, text, c.end)
          /\ b = [end |-> c.end + Len(Spelling[r]), state |-> lexer.next[c.state][r]]
    BY <2>0
  <2>2. b.end = c.end + Len(Spelling[r]) /\ c.end \in Nat /\ b.end \in Nat
    BY <1>2, <2>1
  <2>3. CASE n = m
    <3>1. a = c
      BY <1>2, <2>3 DEF P
    <3> QED  BY <2>1, <2>2, <3>1
  <2>4. CASE n < m
    <3>1. PICK rune \in DOMAIN lexer.next[a.state] :
            /\ rune \in Runes /\ Fits(rune, text, a.end)
            /\ a.end + Len(Spelling[rune]) <= c.end
      BY <1>4, <2>4
    <3>2. a.end \in Nat
      BY <1>2 DEF P
    <3>3. a.end + Len(Spelling[rune]) <= b.end
      BY <2>1, <2>2, <3>1, <3>2, RuneFacts
    <3> QED  BY <3>1, <3>3
  <2> QED  BY <2>3, <2>4
<1> HIDE DEF Good
<1>5. \A m \in Nat : m \in Good
  BY <1>3, <1>4, Induction
<1> QED  BY <1>5 DEF Good, P

\* The tables lead along one path, whose places are those after any number of
\* transitions.
LEMMA PathPlaces ==
  ASSUME NEW lexer, LexerOK(lexer), NEW U, NEW text \in Seq(U), NEW from \in 0..Len(text)
  PROVE  \A a : a \in Path(lexer, text, from) <=> \E n \in Nat : a \in Places(lexer, text, from)[n]
<1> DEFINE P == Places(lexer, text, from)
<1>1. \A n \in Nat : \A a \in P[n] : a.end \in Nat /\ from + n <= a.end /\ a.end <= Len(text)
  BY PlacesAdvance DEF PlaceSet
<1>2. Len(text) \in Nat /\ from \in Nat
  BY LenProperties
<1>3. \A a : a \in Path(lexer, text, from) <=> \E n \in 0..Len(text) : a \in P[n]
  BY DEF Path
<1> HIDE DEF P
<1>4. ASSUME NEW n \in Nat, NEW a \in P[n]
      PROVE  n \in 0..Len(text)
  BY <1>1, <1>2, <1>4
<1>5. \A a : a \in Path(lexer, text, from) <=> \E n \in Nat : a \in P[n]
  BY <1>2, <1>3, <1>4
<1> QED  BY <1>5 DEF P

\* It starts at the offset,
LEMMA PathStarts ==
  ASSUME NEW lexer, LexerOK(lexer), NEW U, NEW text \in Seq(U), NEW from \in 0..Len(text)
  PROVE  [end |-> from, state |-> 0] \in Path(lexer, text, from)
<1>1. [end |-> from, state |-> 0] \in Places(lexer, text, from)[0]
  BY PlacesFacts
<1> QED  BY <1>1, PathPlaces

\* stays within the text,
LEMMA PathBounds ==
  ASSUME NEW lexer, LexerOK(lexer), NEW U, NEW text \in Seq(U), NEW from \in 0..Len(text),
         NEW a \in Path(lexer, text, from)
  PROVE  /\ a.end \in from..Len(text) /\ a.end \in Nat
         /\ a.state \in DOMAIN lexer.next /\ lexer.accept[a.state] \in Nat
         /\ a = [end |-> a.end, state |-> a.state]
         /\ a.end = from => a.state = 0
<1> DEFINE P == Places(lexer, text, from)
<1>1. PICK n \in Nat : a \in P[n]
  BY PathPlaces
<1>2. a \in PlaceSet(lexer) /\ from + n <= a.end /\ a.end <= Len(text)
  BY <1>1, PlacesAdvance
<1>3. P[0] = {[end |-> from, state |-> 0]}
  BY PlacesFacts
<1>4. Len(text) \in Nat /\ from \in Nat
  BY LenProperties
<1> HIDE DEF P
<1>5. /\ a.end \in Nat /\ a.state \in DOMAIN lexer.next
      /\ a = [end |-> a.end, state |-> a.state]
  BY <1>2 DEF PlaceSet
<1>6. lexer.accept[a.state] \in Nat
  BY <1>5 DEF LexerOK
<1>7. ASSUME a.end = from
      PROVE  a.state = 0
  <2>1. n = 0
    BY <1>2, <1>4, <1>5, <1>7
  <2>2. a = [end |-> from, state |-> 0]
    BY <1>1, <1>3, <2>1
  <2> QED  BY <2>2
<1> QED  BY <1>2, <1>4, <1>5, <1>6, <1>7

\* follows every transition that fits,
LEMMA PathSteps ==
  ASSUME NEW lexer, LexerOK(lexer), NEW U, NEW text \in Seq(U), NEW from \in 0..Len(text),
         NEW a \in Path(lexer, text, from), NEW rune \in DOMAIN lexer.next[a.state],
         Fits(rune, text, a.end)
  PROVE  [end |-> a.end + Len(Spelling[rune]),
          state |-> lexer.next[a.state][rune]] \in Path(lexer, text, from)
<1> DEFINE P == Places(lexer, text, from)
<1>1. PICK n \in Nat : a \in P[n]
  BY PathPlaces
<1>2. rune \in Runes
  BY PathBounds DEF LexerOK
<1>3. P[n] \in SUBSET PlaceSet(lexer) /\ P[n + 1] = Transitions(lexer, text, P[n])
  BY PlaceTyped, PlaceNext
<1> DEFINE to == [end |-> a.end + Len(Spelling[rune]), state |-> lexer.next[a.state][rune]]
<1>4. to \in P[n + 1]
  <2> HIDE DEF P
  <2> QED  BY <1>1, <1>2, <1>3, TransitionsFacts
<1> HIDE DEF to
<1>5. to \in Path(lexer, text, from)
  BY <1>4, PathPlaces
<1> QED  BY <1>5 DEF to

\* has one place at most at an offset,
LEMMA PathUnique ==
  ASSUME NEW lexer, LexerOK(lexer), NEW U, NEW text \in Seq(U), NEW from \in 0..Len(text),
         NEW a \in Path(lexer, text, from), NEW b \in Path(lexer, text, from), a.end = b.end
  PROVE  a = b
<1> DEFINE P == Places(lexer, text, from)
<1>1. PICK n \in Nat : a \in P[n]
  BY PathPlaces
<1>2. PICK m \in Nat : b \in P[m]
  BY PathPlaces
<1>3. a.end \in Nat /\ b.end \in Nat
  BY PathBounds
<1>4. ASSUME NEW c, NEW d, NEW i \in Nat, NEW j \in Nat, c \in P[i], d \in P[j], i < j,
             c.end \in Nat
      PROVE  c.end < d.end
  <2>1. PICK rune \in Runes : c.end + Len(Spelling[rune]) <= d.end
    BY <1>4, PlacesChain
  <2>2. d.end \in Nat
    BY <1>4, PlacesAdvance DEF PlaceSet
  <2> QED  BY <1>4, <2>1, <2>2, RuneFacts
<1>5. ~(n < m) /\ ~(m < n)
  <2> HIDE DEF P
  <2>1. n < m => a.end < b.end
    BY <1>1, <1>2, <1>3, <1>4
  <2>2. m < n => b.end < a.end
    BY <1>1, <1>2, <1>3, <1>4
  <2> QED  BY <1>3, <2>1, <2>2
<1>6. n = m
  BY <1>5
<1> QED  BY <1>1, <1>2, <1>6, PlacesAdvance

\* and goes on from a place by a transition that fits, if it goes on at all.
LEMMA PathGoesOn ==
  ASSUME NEW lexer, LexerOK(lexer), NEW U, NEW text \in Seq(U), NEW from \in 0..Len(text),
         NEW a \in Path(lexer, text, from), NEW b \in Path(lexer, text, from), a.end < b.end
  PROVE  \E rune \in DOMAIN lexer.next[a.state] :
           /\ rune \in Runes /\ Fits(rune, text, a.end)
           /\ a.end + Len(Spelling[rune]) <= b.end
<1> DEFINE P == Places(lexer, text, from)
<1>1. PICK n \in Nat : a \in P[n]
  BY PathPlaces
<1>2. PICK m \in Nat : b \in P[m]
  BY PathPlaces
<1>3. a.end \in Nat /\ b.end \in Nat
  BY PathBounds
<1>4. n # m
  <2>1. ASSUME n = m
        PROVE  a = b
    BY <1>1, <1>2, <2>1, PlacesAdvance
  <2> QED  BY <1>3, <2>1
<1>5. ~(m < n)
  <2> SUFFICES ASSUME m < n
               PROVE  FALSE
    OBVIOUS
  <2>1. PICK rune \in Runes : b.end + Len(Spelling[rune]) <= a.end
    BY <1>1, <1>2, PlacesChain
  <2> QED  BY <1>3, <2>1, RuneFacts
<1>6. n < m
  BY <1>4, <1>5
<1> QED  BY <1>1, <1>2, <1>6, PlacesChain

------------------------------------------------------------------------------
(* The loop of a scanner. *)

\* Matches are the accepting places of the path; at an offset there is one at
\* most, and none is empty.
LEMMA MatchFacts ==
  ASSUME NEW lexer, LexerOK(lexer), NEW U, NEW text \in Seq(U), NEW from \in 0..Len(text)
  PROVE  /\ \A m : m \in Matches(lexer, text, from) <=>
                     \E a \in Path(lexer, text, from) :
                       m = [end |-> a.end, rule |-> lexer.accept[a.state]] /\ lexer.accept[a.state] > 0
         /\ \A m \in Matches(lexer, text, from) :
              /\ m.end \in (from + 1)..Len(text)
              /\ m.rule \in DOMAIN lexer.kind /\ m.rule \in Nat \ {0}
              /\ m = [end |-> m.end, rule |-> m.rule]
              /\ \A o \in Matches(lexer, text, from) : m.end = o.end => m = o
<1>1. \A m : m \in Matches(lexer, text, from) <=>
               \E a \in Path(lexer, text, from) :
                 m = [end |-> a.end, rule |-> lexer.accept[a.state]] /\ lexer.accept[a.state] > 0
  <2>1. Reached(lexer, text, from) = {[end |-> a.end, rule |-> lexer.accept[a.state]] :
                                        a \in Path(lexer, text, from)}
    BY DEF Reached, Path
  <2>2. \A m : m \in Matches(lexer, text, from) <=> m \in Reached(lexer, text, from) /\ m.rule > 0
    BY DEF Matches
  <2> QED  BY <2>1, <2>2
<1>2. Len(text) \in Nat /\ from \in Nat
  BY LenProperties
<1>3. ASSUME NEW m \in Matches(lexer, text, from)
      PROVE  /\ m.end \in (from + 1)..Len(text)
             /\ m.rule \in DOMAIN lexer.kind /\ m.rule \in Nat \ {0}
             /\ m = [end |-> m.end, rule |-> m.rule]
             /\ \A o \in Matches(lexer, text, from) : m.end = o.end => m = o
  <2>1. PICK a \in Path(lexer, text, from) :
          m = [end |-> a.end, rule |-> lexer.accept[a.state]] /\ lexer.accept[a.state] > 0
    BY <1>1
  <2>2. /\ a.end \in from..Len(text) /\ a.state \in DOMAIN lexer.next
        /\ a.end = from => a.state = 0
    BY PathBounds
  <2>3. lexer.accept[0] = 0 /\ lexer.accept[a.state] \in {0} \cup DOMAIN lexer.kind
        /\ DOMAIN lexer.kind \subseteq Nat \ {0}
    BY <2>2 DEF LexerOK
  <2>4. m.end = a.end /\ m.rule = lexer.accept[a.state] /\ m = [end |-> m.end, rule |-> m.rule]
    BY <2>1
  <2>5. a.end # from
    BY <2>1, <2>2, <2>3
  <2>6. m.end \in (from + 1)..Len(text)
    BY <1>2, <2>2, <2>4, <2>5
  <2>7. m.rule \in DOMAIN lexer.kind /\ m.rule \in Nat \ {0}
    BY <2>1, <2>3, <2>4
  <2>8. ASSUME NEW o \in Matches(lexer, text, from), m.end = o.end
        PROVE  m = o
    <3>1. PICK b \in Path(lexer, text, from) : o = [end |-> b.end, rule |-> lexer.accept[b.state]]
      BY <1>1
    <3>2. a = b
      BY <2>1, <2>8, <3>1, PathUnique
    <3> QED  BY <2>1, <3>1, <3>2
  <2> QED  BY <2>4, <2>6, <2>7, <2>8
<1> QED  BY <1>1, <1>3

\* Where the loop of a scanner stands on the path that starts at an offset: its
\* rule and end are the longest match so far.
LoopAt(lexer, text, from, p, stateID, bestRule, bestEnd) ==
  /\ [end |-> p, state |-> stateID] \in Path(lexer, text, from)
  /\ bestRule \in Nat /\ bestEnd \in from..p
  /\ bestRule > 0 => [end |-> bestEnd, rule |-> bestRule] \in Matches(lexer, text, from)
  /\ \A m \in Matches(lexer, text, from) : m.end <= p => bestRule > 0 /\ m.end <= bestEnd

\* The loop starts with no match.
LEMMA LoopStarts ==
  ASSUME NEW lexer, LexerOK(lexer), NEW U, NEW text \in Seq(U), NEW from \in 0..Len(text)
  PROVE  LoopAt(lexer, text, from, from, 0, 0, from)
<1>1. from \in Nat /\ from \in from..from
  OBVIOUS
<1>2. \A m \in Matches(lexer, text, from) : m.end > from
  BY <1>1, MatchFacts, LenProperties
<1>3. ~(0 > 0) /\ 0 \in Nat
  OBVIOUS
<1>4. \A m \in Matches(lexer, text, from) : ~(m.end <= from)
  BY <1>1, <1>2, MatchFacts, LenProperties
<1> QED  BY <1>1, <1>3, <1>4, PathStarts DEF LoopAt

\* What the loop's state is made of.
LEMMA LoopTypes ==
  ASSUME NEW lexer, LexerOK(lexer), NEW U, NEW text \in Seq(U), NEW from \in 0..Len(text),
         NEW p, NEW stateID, NEW bestRule, NEW bestEnd,
         LoopAt(lexer, text, from, p, stateID, bestRule, bestEnd)
  PROVE  /\ p \in from..Len(text) /\ stateID \in DOMAIN lexer.next
         /\ bestRule \in Nat /\ bestEnd \in from..p
         /\ bestRule > 0 => bestRule \in DOMAIN lexer.kind /\ bestEnd > from
<1>1. p \in from..Len(text) /\ stateID \in DOMAIN lexer.next
  <2>1. [end |-> p, state |-> stateID] \in Path(lexer, text, from)
    BY DEF LoopAt
  <2>2. /\ [end |-> p, state |-> stateID].end \in from..Len(text)
        /\ [end |-> p, state |-> stateID].state \in DOMAIN lexer.next
    BY <2>1, PathBounds
  <2> QED  BY <2>2
<1>2. ASSUME bestRule > 0
      PROVE  bestRule \in DOMAIN lexer.kind /\ bestEnd > from
  <2>1. [end |-> bestEnd, rule |-> bestRule] \in Matches(lexer, text, from)
    BY <1>2 DEF LoopAt
  <2>2. /\ [end |-> bestEnd, rule |-> bestRule].end \in (from + 1)..Len(text)
        /\ [end |-> bestEnd, rule |-> bestRule].rule \in DOMAIN lexer.kind
    BY <2>1, MatchFacts
  <2> QED  BY <2>2, LenProperties
<1> QED  BY <1>1, <1>2 DEF LoopAt

\* A round of the loop follows the transition whose rune fits.
LEMMA LoopGoesOn ==
  ASSUME NEW lexer, LexerOK(lexer), NEW U, NEW text \in Seq(U), NEW from \in 0..Len(text),
         NEW p, NEW stateID, NEW bestRule, NEW bestEnd,
         LoopAt(lexer, text, from, p, stateID, bestRule, bestEnd),
         NEW rune \in DOMAIN lexer.next[stateID], Fits(rune, text, p),
         NEW q, q = p + Len(Spelling[rune]),
         NEW to, to = lexer.next[stateID][rune],
         NEW rule, rule = lexer.accept[to]
  PROVE  LoopAt(lexer, text, from, q, to, IF rule > 0 THEN rule ELSE bestRule,
                                          IF rule > 0 THEN q ELSE bestEnd)
<1> DEFINE here == [end |-> p, state |-> stateID]
           there == [end |-> q, state |-> to]
           path == Path(lexer, text, from)
           matches == Matches(lexer, text, from)
<1>1. /\ p \in Nat /\ p \in from..Len(text) /\ stateID \in DOMAIN lexer.next
      /\ bestRule \in Nat /\ bestEnd \in from..p /\ from \in Nat
  BY LoopTypes, LenProperties
<1>2. rune \in Runes /\ q \in Nat /\ q > p
  <2>1. rune \in Runes
    BY <1>1 DEF LexerOK
  <2> QED  BY <1>1, <2>1, RuneFacts
<1>3. here \in path /\ here.end = p /\ here.state = stateID
  BY DEF LoopAt
<1>4. there \in path /\ there.end = q /\ there.state = to
  <2>1. [end |-> here.end + Len(Spelling[rune]), state |-> lexer.next[here.state][rune]] \in path
    BY <1>3, PathSteps
  <2> QED  BY <1>3, <2>1
<1>5. rule \in Nat
  <2>1. to \in DOMAIN lexer.next
    BY <1>4, PathBounds
  <2> QED  BY <2>1 DEF LexerOK
<1>6. rule > 0 => [end |-> q, rule |-> rule] \in matches
  <2>1. [end |-> there.end, rule |-> lexer.accept[there.state]] = [end |-> q, rule |-> rule]
    BY <1>4
  <2> QED  BY <1>4, <2>1, MatchFacts
<1>7. ASSUME NEW m \in matches, m.end <= q, m.end > p
      PROVE  m.end = q /\ m.rule = rule /\ rule > 0
  <2>1. PICK a \in path : m = [end |-> a.end, rule |-> lexer.accept[a.state]] /\ lexer.accept[a.state] > 0
    BY MatchFacts
  <2>2. m.end = a.end /\ m.rule = lexer.accept[a.state] /\ a.end \in Nat
    BY <2>1, PathBounds
  <2>3. PICK other \in Runes : Fits(other, text, p) /\ p + Len(Spelling[other]) <= a.end
    BY <1>3, <1>7, <2>2, PathGoesOn
  <2>4. other = rune
    <3>1. p \in 0..Len(text)
      BY <1>1
    <3> QED  BY <1>2, <2>3, <3>1, OneRuneFits
  <2>5. a.end = q
    BY <1>2, <1>7, <2>2, <2>3, <2>4
  <2>6. a = there
    BY <1>4, <2>5, PathUnique
  <2> QED  BY <1>4, <2>1, <2>2, <2>6
<1>8. \A m \in matches : m.end <= p => bestRule > 0 /\ m.end <= bestEnd
  BY DEF LoopAt
<1>9. bestRule > 0 => [end |-> bestEnd, rule |-> bestRule] \in matches
  BY DEF LoopAt
<1>10. \A m \in matches : m.end \in Nat
  BY MatchFacts, LenProperties
<1> HIDE DEF here, there, path, matches
<1>11. CASE rule > 0
  <2>1. \A m \in matches : m.end <= q => m.end <= q
    OBVIOUS
  <2>2. q \in from..q
    BY <1>1, <1>2
  <2> QED  BY <1>4, <1>5, <1>6, <1>11, <2>1, <2>2 DEF LoopAt, path, matches, there
<1>12. CASE ~(rule > 0)
  <2>1. \A m \in matches : m.end <= q => bestRule > 0 /\ m.end <= bestEnd
    BY <1>1, <1>2, <1>7, <1>8, <1>10, <1>12
  <2>2. bestEnd \in from..q
    BY <1>1, <1>2
  <2> QED  BY <1>1, <1>4, <1>9, <1>12, <2>1, <2>2 DEF LoopAt, path, matches, there
<1> QED  BY <1>11, <1>12

\* Where no transition fits the loop knows the longest match, or that there is
\* none, and whether invalid text stopped it.
LEMMA LoopStops ==
  ASSUME NEW lexer, LexerOK(lexer), NEW U, NEW text \in Seq(U), NEW from \in 0..Len(text),
         NEW p, NEW stateID, NEW bestRule, NEW bestEnd,
         LoopAt(lexer, text, from, p, stateID, bestRule, bestEnd),
         \A rune \in DOMAIN lexer.next[stateID] : ~Fits(rune, text, p)
  PROVE  /\ bestRule > 0 =>
              /\ HasMatch(lexer, text, from)
              /\ Longest(lexer, text, from) = [end |-> bestEnd, rule |-> bestRule]
         /\ bestRule = 0 => ~HasMatch(lexer, text, from)
         /\ MeetsInvalidText(lexer, text, from) <=> (p < Len(text) /\ Decode(text, p) = NoRune)
<1> DEFINE here == [end |-> p, state |-> stateID]
           path == Path(lexer, text, from)
           matches == Matches(lexer, text, from)
           best == [end |-> bestEnd, rule |-> bestRule]
<1>1. /\ p \in Nat /\ p \in 0..Len(text) /\ stateID \in DOMAIN lexer.next
      /\ bestRule \in Nat /\ from \in Nat /\ Len(text) \in Nat
      /\ here \in path /\ here.end = p /\ here.state = stateID
  BY LoopTypes, LenProperties DEF LoopAt
<1>2. \A a \in path : a.end \in Nat /\ a.end <= p
  <2> SUFFICES ASSUME NEW a \in path
               PROVE  a.end \in Nat /\ ~(p < a.end)
    BY <1>1
  <2>1. a.end \in Nat
    BY PathBounds
  <2>2. p < a.end => \E rune \in DOMAIN lexer.next[stateID] : Fits(rune, text, p)
    BY <1>1, PathGoesOn
  <2> QED  BY <2>1, <2>2
<1>3. \A m \in matches : bestRule > 0 /\ m.end <= bestEnd
  <2> SUFFICES ASSUME NEW m \in matches
               PROVE  m.end <= p
    BY DEF LoopAt
  <2>1. PICK a \in path : m = [end |-> a.end, rule |-> lexer.accept[a.state]]
    BY MatchFacts
  <2> QED  BY <1>2, <2>1
<1>4. ASSUME bestRule > 0
      PROVE  HasMatch(lexer, text, from) /\ Longest(lexer, text, from) = best
  <2>1. best \in matches /\ best.end = bestEnd
    BY <1>4 DEF LoopAt
  <2>2. \A m \in matches : (\A o \in matches : o.end <= m.end) => m = best
    <3> SUFFICES ASSUME NEW m \in matches, \A o \in matches : o.end <= m.end
                 PROVE  m.end = best.end
      BY <2>1, MatchFacts
    <3>1. m.end \in Nat /\ best.end \in Nat /\ m.end <= best.end /\ best.end <= m.end
      BY <1>3, <2>1, MatchFacts, LenProperties
    <3> QED  BY <3>1
  <2>3. \A o \in matches : o.end <= best.end
    BY <1>3, <2>1
  <2> HIDE DEF best, matches
  <2>4. (CHOOSE m \in matches : \A o \in matches : o.end <= m.end) = best
    BY <2>1, <2>2, <2>3
  <2> QED  BY <2>1, <2>4 DEF HasMatch, Longest, matches
<1>5. bestRule = 0 => ~HasMatch(lexer, text, from)
  BY <1>3 DEF HasMatch
<1>6. MeetsInvalidText(lexer, text, from) <=> \E a \in path : a.end < Len(text) /\ Decode(text, a.end) = NoRune
  <2>1. \A m : m \in Reached(lexer, text, from) <=>
          \E a \in path : m = [end |-> a.end, rule |-> lexer.accept[a.state]]
    BY DEF Reached, Path
  <2> HIDE DEF path
  <2>2. ASSUME NEW a \in path
        PROVE  /\ [end |-> a.end, rule |-> lexer.accept[a.state]] \in Reached(lexer, text, from)
               /\ [end |-> a.end, rule |-> lexer.accept[a.state]].end = a.end
    BY <2>1
  <2>3. ASSUME NEW m \in Reached(lexer, text, from)
        PROVE  \E a \in path : a.end = m.end
    BY <2>1
  <2>4. MeetsInvalidText(lexer, text, from) <=>
          \E m \in Reached(lexer, text, from) : m.end < Len(text) /\ Decode(text, m.end) = NoRune
    BY DEF MeetsInvalidText
  <2> QED  BY <2>2, <2>3, <2>4, Zenon
<1>7. ASSUME NEW a \in path, Decode(text, a.end) = NoRune
      PROVE  a.end = p
  <2>1. a.end \in 0..Len(text)
    BY <1>1, <1>2
  <2>2. \A rune \in Runes : ~Fits(rune, text, a.end)
    BY <1>7, <2>1, DecodeFacts
  <2>3. ~(a.end < p)
    BY <1>1, <2>2, PathGoesOn
  <2> QED  BY <1>1, <1>2, <2>3
<1>8. MeetsInvalidText(lexer, text, from) <=> (p < Len(text) /\ Decode(text, p) = NoRune)
  <2> HIDE DEF path, here
  <2> QED  BY <1>1, <1>6, <1>7
<1> QED  BY <1>4, <1>5, <1>8

------------------------------------------------------------------------------
(* Text that arrives in chunks: the buffer is a window of the text. *)

Window(text, base, buffer) ==
  /\ base \in Nat /\ base + Len(buffer) <= Len(text)
  /\ \A i \in 1..Len(buffer) : buffer[i] = text[base + i]

\* A rune fits in the window where it fits in the text and the window holds
\* all of it.
LEMMA WindowFits ==
  ASSUME NEW U, NEW text \in Seq(U), NEW buffer \in Seq(U), NEW base, Window(text, base, buffer),
         NEW p \in 0..Len(buffer), NEW rune \in Runes
  PROVE  /\ base + p \in 0..Len(text)
         /\ Fits(rune, buffer, p) <=> /\ Fits(rune, text, base + p)
                                      /\ p + Len(Spelling[rune]) <= Len(buffer)
<1> DEFINE s == Spelling[rune]  n == Len(buffer)
<1>1. /\ Len(text) \in Nat /\ n \in Nat /\ Len(s) \in Nat /\ Len(s) >= 1
      /\ p \in Nat /\ p <= n /\ base \in Nat /\ base + n <= Len(text)
      /\ \A i \in 1..n : buffer[i] = text[base + i]
  BY RuneFacts, LenProperties DEF Window
<1>2. base + p \in 0..Len(text)
  BY <1>1
<1>3. Fits(rune, buffer, p) <=> p + Len(s) <= n /\ \A i \in 1..Len(s) : s[i] = buffer[p + i]
  BY FitsUnits
<1>4. Fits(rune, text, base + p) <=> /\ (base + p) + Len(s) <= Len(text)
                                     /\ \A i \in 1..Len(s) : s[i] = text[(base + p) + i]
  BY <1>2, FitsUnits
<1> HIDE DEF s, n
<1>5. ASSUME p + Len(s) <= n
      PROVE  \A i \in 1..Len(s) : buffer[p + i] = text[(base + p) + i]
  <2> SUFFICES ASSUME NEW i \in 1..Len(s)
               PROVE  buffer[p + i] = text[(base + p) + i]
    OBVIOUS
  <2>1. p + i \in 1..n /\ base + (p + i) = (base + p) + i
    BY <1>1, <1>5
  <2> QED  BY <1>1, <2>1
<1>6. Fits(rune, buffer, p) <=> Fits(rune, text, base + p) /\ p + Len(s) <= n
  BY <1>1, <1>3, <1>4, <1>5
<1> QED  BY <1>2, <1>6 DEF s, n

\* A rune that fits in the text and not in the window is cut off by its end,
\* and its first unit asks for more than the window holds.
LEMMA WindowCuts ==
  ASSUME NEW U, NEW text \in Seq(U), NEW buffer \in Seq(U), NEW base, Window(text, base, buffer),
         NEW p \in 0..Len(buffer), NEW rune \in Runes,
         Fits(rune, text, base + p), ~Fits(rune, buffer, p)
  PROVE  /\ CutOff(buffer, p)
         /\ p < Len(buffer) => AsksForMore(buffer, p)
<1> DEFINE s == Spelling[rune]  n == Len(buffer)  r == Rest(buffer, p)
<1>1. /\ Len(text) \in Nat /\ n \in Nat /\ s \in Seq(ToSet(s)) /\ Len(s) \in Nat /\ Len(s) >= 1
      /\ p \in Nat /\ p <= n /\ base \in Nat /\ base + n <= Len(text)
      /\ \A i \in 1..n : buffer[i] = text[base + i]
  BY RuneFacts, LenProperties DEF Window
<1>2. p + Len(s) > n /\ base + p \in 0..Len(text)
  BY <1>1, WindowFits
<1>3. \A i \in 1..Len(s) : s[i] = text[(base + p) + i]
  BY <1>2, FitsUnits
<1>4. r \in Seq(U) /\ Len(r) = n - p /\ \A i \in 1..(n - p) : r[i] = buffer[p + i]
  BY RestFacts
<1> HIDE DEF s, n, r
<1>5. \A i \in 1..(n - p) : r[i] = s[i]
  <2> SUFFICES ASSUME NEW i \in 1..(n - p)
               PROVE  r[i] = s[i]
    OBVIOUS
  <2>1. i \in 1..Len(s) /\ p + i \in 1..n /\ base + (p + i) = (base + p) + i
    BY <1>1, <1>2
  <2> QED  BY <1>1, <1>3, <1>4, <2>1
<1>6. IsPrefix(r, s) /\ r # s
  <2>1. Len(r) <= Len(s) /\ Len(r) # Len(s)
    BY <1>1, <1>2, <1>4
  <2>2. r \in Seq(U) /\ s \in Seq(ToSet(s))
    BY <1>1, <1>4
  <2>3. IsPrefix(r, s) <=> Len(r) <= Len(s) /\ \A i \in 1..Len(r) : r[i] = s[i]
    BY <2>2, PrefixUnits
  <2> QED  BY <1>4, <1>5, <2>1, <2>3
<1>7. CutOff(buffer, p)
  BY <1>6 DEF CutOff, IsStrictPrefix, r, s
<1>8. p < n => AsksForMore(buffer, p)
  <2> SUFFICES ASSUME p < n
               PROVE  AsksForMore(buffer, p)
    OBVIOUS
  <2>1. 1 \in 1..(n - p) /\ p + 1 \in 1..n /\ Len(s) > n - p
    BY <1>1, <1>2
  <2>2. s[1] = buffer[p + 1]
    BY <1>4, <1>5, <2>1
  <2> QED  BY <2>1, <2>2 DEF AsksForMore, s, n
<1> QED  BY <1>7, <1>8 DEF n

\* The path over the text is, as far as the window goes, the path over it.
LEMMA WindowPath ==
  ASSUME NEW lexer, LexerOK(lexer), NEW U, NEW text \in Seq(U), NEW buffer \in Seq(U),
         NEW base, Window(text, base, buffer),
         NEW a \in Path(lexer, text, base), a.end <= base + Len(buffer)
  PROVE  [end |-> a.end - base, state |-> a.state] \in Path(lexer, buffer, 0)
<1> DEFINE P == Places(lexer, text, base)  Q == Places(lexer, buffer, 0)  n == Len(buffer)
           In(b) == [end |-> b.end - base, state |-> b.state]
           Good == {k \in Nat : \A b \in P[k] : b.end <= base + n => In(b) \in Q[k]}
<1>1. /\ Len(text) \in Nat /\ n \in Nat /\ base \in Nat /\ base \in 0..Len(text) /\ 0 \in 0..n
      /\ base + n <= Len(text)
  BY LenProperties DEF Window
<1>2. ASSUME NEW k \in Nat
      PROVE  /\ P[0] = {[end |-> base, state |-> 0]}
             /\ P[k] \in SUBSET PlaceSet(lexer) /\ P[k + 1] = Transitions(lexer, text, P[k])
  <2> HIDE DEF Good
  <2>1. base \in 0..Len(text)
    BY <1>1
  <2>2. P[k] \in SUBSET PlaceSet(lexer)
    BY <2>1, PlaceTyped
  <2>3. P[k + 1] = Transitions(lexer, text, P[k])
    BY <2>1, PlaceNext
  <2> QED  BY <2>1, <2>2, <2>3, PlaceFirst
<1>3. ASSUME NEW k \in Nat
      PROVE  /\ Q[0] = {[end |-> 0, state |-> 0]}
             /\ Q[k] \in SUBSET PlaceSet(lexer) /\ Q[k + 1] = Transitions(lexer, buffer, Q[k])
  <2> HIDE DEF Good
  <2>1. 0 \in 0..Len(buffer)
    BY <1>1
  <2>2. Q[k] \in SUBSET PlaceSet(lexer)
    BY <2>1, PlaceTyped
  <2>3. Q[k + 1] = Transitions(lexer, buffer, Q[k])
    BY <2>1, PlaceNext
  <2> QED  BY <2>1, <2>2, <2>3, PlaceFirst
<1>4. \A k \in Nat : \A b \in P[k] : b \in PlaceSet(lexer) /\ base + k <= b.end
  BY <1>1, PlacesAdvance
<1> HIDE DEF P, Q, n
<1>5. 0 \in Good
  <2>0. P[0] = {[end |-> base, state |-> 0]} /\ Q[0] = {[end |-> 0, state |-> 0]}
    BY <1>2, <1>3
  <2>1. \A b \in P[0] : b.end = base /\ b.state = 0
    BY <2>0
  <2>2. \A b \in P[0] : In(b) = [end |-> 0, state |-> 0]
    BY <1>1, <2>1
  <2> QED  BY <2>0, <2>2
<1>6. ASSUME NEW k \in Nat, k \in Good
      PROVE  k + 1 \in Good
  <2> SUFFICES ASSUME NEW b \in P[k + 1], b.end <= base + n
               PROVE  In(b) \in Q[k + 1]
    OBVIOUS
  <2>1. PICK c \in P[k] : \E r \in DOMAIN lexer.next[c.state] :
          /\ r \in Runes /\ Fits(r, text, c.end)
          /\ b = [end |-> c.end + Len(Spelling[r]), state |-> lexer.next[c.state][r]]
    <3>1. P[k] \in SUBSET PlaceSet(lexer) /\ P[k + 1] = Transitions(lexer, text, P[k])
      BY <1>2
    <3> QED  BY <3>1, TransitionsFacts
  <2>2. PICK r \in DOMAIN lexer.next[c.state] :
          /\ r \in Runes /\ Fits(r, text, c.end)
          /\ b = [end |-> c.end + Len(Spelling[r]), state |-> lexer.next[c.state][r]]
    BY <2>1
  <2>3. /\ c.end \in Nat /\ base <= c.end
        /\ b.end = c.end + Len(Spelling[r]) /\ b.state = lexer.next[c.state][r]
        /\ Len(Spelling[r]) \in Nat
    <3>1. c \in PlaceSet(lexer) /\ base + k <= c.end
      BY <1>4
    <3>2. c.end \in Nat
      BY <3>1 DEF PlaceSet
    <3>3. base <= c.end
      BY <1>1, <3>1, <3>2
    <3>4. Len(Spelling[r]) \in Nat
      BY <2>2, RuneFacts
    <3> QED  BY <2>2, <3>2, <3>3, <3>4
  <2> DEFINE d == In(c)
  <2>4. d.end = c.end - base /\ d.state = c.state /\ d.end \in 0..n
    <3>1. c.end - base \in 0..n
      <4> DEFINE e == c.end
      <4>1. e \in Nat /\ base <= e /\ n \in Nat /\ base \in Nat
        BY <1>1, <2>3
      <4>2. e + Len(Spelling[r]) <= base + n /\ Len(Spelling[r]) \in Nat
        BY <2>3
      <4> HIDE DEF e
      <4>3. e - base \in 0..n
        BY <4>1, <4>2
      <4> QED  BY <4>3 DEF e
    <3> QED  BY <3>1
  <2>5. d \in Q[k]
    BY <1>1, <1>6, <2>2, <2>3
  <2>6. Fits(r, buffer, d.end)
    <3>1. base + d.end = c.end /\ d.end + Len(Spelling[r]) <= n
      BY <1>1, <2>2, <2>3, <2>4, SMTT(30)
    <3> HIDE DEF d
    <3> QED  BY <2>2, <2>4, <3>1, WindowFits DEF n
  <2>7. In(b) = [end |-> d.end + Len(Spelling[r]), state |-> lexer.next[d.state][r]]
    <3>1. (c.end + Len(Spelling[r])) - base = d.end + Len(Spelling[r])
      BY <1>1, <2>3, <2>4
    <3> HIDE DEF d
    <3> QED  BY <2>3, <2>4, <3>1
  <2> HIDE DEF d
  <2>8. Q[k] \in SUBSET PlaceSet(lexer) /\ Q[k + 1] = Transitions(lexer, buffer, Q[k])
    BY <1>3
  <2> DEFINE e == In(b)
  <2>9. e = [end |-> d.end + Len(Spelling[r]), state |-> lexer.next[d.state][r]]
    BY <2>7
  <2> HIDE DEF e, In
  <2>10. e \in Transitions(lexer, buffer, Q[k])
    BY <2>2, <2>4, <2>5, <2>6, <2>8, <2>9, TransitionsFacts
  <2> QED  BY <2>8, <2>10 DEF e
<1> HIDE DEF Good
<1>7. \A k \in Nat : k \in Good
  BY <1>5, <1>6, Induction
<1>8. PICK k \in Nat : a \in P[k]
  BY <1>1, PathPlaces DEF P
<1>9. In(a) \in Q[k]
  BY <1>7, <1>8 DEF Good, n
<1> HIDE DEF In
<1>10. In(a) \in Path(lexer, buffer, 0)
  BY <1>1, <1>9, PathPlaces DEF Q
<1> QED  BY <1>10 DEF In

\* So a match within the window is one of the buffer alone.
LEMMA WindowMatches ==
  ASSUME NEW lexer, LexerOK(lexer), NEW U, NEW text \in Seq(U), NEW buffer \in Seq(U),
         NEW base, Window(text, base, buffer),
         NEW m \in Matches(lexer, text, base), m.end <= base + Len(buffer)
  PROVE  [end |-> m.end - base, rule |-> m.rule] \in Matches(lexer, buffer, 0)
<1>1. base \in 0..Len(text) /\ 0 \in 0..Len(buffer)
  BY LenProperties DEF Window
<1>2. PICK a \in Path(lexer, text, base) :
        m = [end |-> a.end, rule |-> lexer.accept[a.state]] /\ lexer.accept[a.state] > 0
  BY <1>1, MatchFacts
<1> DEFINE b == [end |-> a.end - base, state |-> a.state]
<1>3. m.end = a.end /\ m.rule = lexer.accept[a.state]
  BY <1>2
<1>4. b \in Path(lexer, buffer, 0)
  BY <1>3, WindowPath
<1>5. b.end = a.end - base /\ b.state = a.state
  OBVIOUS
<1> HIDE DEF b
<1>6. [end |-> b.end, rule |-> lexer.accept[b.state]] \in Matches(lexer, buffer, 0)
  BY <1>1, <1>2, <1>4, <1>5, MatchFacts
<1> QED  BY <1>3, <1>5, <1>6

------------------------------------------------------------------------------
(* Lines and columns. *)

PlaceInText == [line : Nat, column : Nat]

\* The start of the text, and what a position is made of.
LEMMA PositionTypes ==
  ASSUME NEW text, NEW p \in Nat
  PROVE  /\ PositionAt(text, 0) = [line |-> 1, column |-> 1]
         /\ LineAt(text, p) \in Nat /\ ColumnAt(text, p) \in Nat
         /\ PositionAt(text, p) \in PlaceInText
<1> DEFINE Lines(q) == {i \in 1..q : <<text[i]>> = Spelling[Newline]}
           Columns(q) == {i \in 1..q : /\ text[i] \in Leads
                                       /\ \A j \in i..q : <<text[j]>> # Spelling[Newline]}
<1>1. Lines(0) = {} /\ Columns(0) = {} /\ Lines(p) \in SUBSET (1..p) /\ Columns(p) \in SUBSET (1..p)
  OBVIOUS
<1>2. /\ LineAt(text, 0) = 1 + Cardinality(Lines(0)) /\ ColumnAt(text, 0) = 1 + Cardinality(Columns(0))
      /\ LineAt(text, p) = 1 + Cardinality(Lines(p)) /\ ColumnAt(text, p) = 1 + Cardinality(Columns(p))
  BY DEF LineAt, ColumnAt
<1> HIDE DEF Lines, Columns
<1>3. IsFiniteSet(1..p)
  BY FS_Interval
<1>4. Cardinality(Lines(p)) \in Nat /\ Cardinality(Columns(p)) \in Nat
  BY <1>1, <1>3, FS_Subset, FS_CardinalityType
<1>5. Cardinality(Lines(0)) = 0 /\ Cardinality(Columns(0)) = 0
  BY <1>1, FS_EmptySet
<1>6. LineAt(text, 0) = 1 /\ ColumnAt(text, 0) = 1 /\ LineAt(text, p) \in Nat /\ ColumnAt(text, p) \in Nat
  BY <1>2, <1>4, <1>5
<1> QED  BY <1>6 DEF PositionAt, PlaceInText

\* The line after one more unit.
LEMMA LineSteps ==
  ASSUME NEW text, NEW p \in Nat
  PROVE  LineAt(text, p + 1) = IF <<text[p + 1]>> = Spelling[Newline] THEN LineAt(text, p) + 1
                               ELSE LineAt(text, p)
<1> DEFINE Lines(q) == {i \in 1..q : <<text[i]>> = Spelling[Newline]}
<1>1. Lines(p + 1) = IF <<text[p + 1]>> = Spelling[Newline] THEN Lines(p) \cup {p + 1} ELSE Lines(p)
  OBVIOUS
<1>2. Lines(p) \in SUBSET (1..p) /\ p + 1 \notin Lines(p)
  OBVIOUS
<1>3. \A q \in Nat : LineAt(text, q) = 1 + Cardinality(Lines(q))
  BY DEF LineAt
<1> HIDE DEF Lines
<1>4. IsFiniteSet(Lines(p)) /\ Cardinality(Lines(p)) \in Nat
  <2>1. IsFiniteSet(1..p)
    BY FS_Interval
  <2> QED  BY <1>2, <2>1, FS_Subset, FS_CardinalityType
<1>5. Cardinality(Lines(p) \cup {p + 1}) = Cardinality(Lines(p)) + 1
  BY <1>2, <1>4, FS_AddElement
<1>6. LineAt(text, p) = 1 + Cardinality(Lines(p)) /\ LineAt(text, p + 1) = 1 + Cardinality(Lines(p + 1))
  BY <1>3
<1> QED  BY <1>1, <1>4, <1>5, <1>6

\* The column after one more unit.
LEMMA ColumnSteps ==
  ASSUME NEW text, NEW p \in Nat
  PROVE  ColumnAt(text, p + 1) = IF <<text[p + 1]>> = Spelling[Newline] THEN 1
                                 ELSE IF text[p + 1] \in Leads THEN ColumnAt(text, p) + 1
                                 ELSE ColumnAt(text, p)
<1> DEFINE Newlines == {i \in 1..(p + 1) : <<text[i]>> = Spelling[Newline]}
           Columns(q) == {i \in 1..q : text[i] \in Leads /\ \A j \in i..q : <<text[j]>> # Spelling[Newline]}
<1>1. CASE <<text[p + 1]>> = Spelling[Newline]
  <2>1. Columns(p + 1) = {}
    BY <1>1
  <2>2. ColumnAt(text, p + 1) = 1 + Cardinality(Columns(p + 1))
    BY DEF ColumnAt
  <2> HIDE DEF Columns
  <2> QED  BY <1>1, <2>1, <2>2, FS_EmptySet
<1>2. CASE <<text[p + 1]>> # Spelling[Newline]
  <2>1. Columns(p + 1) = IF text[p + 1] \in Leads THEN Columns(p) \cup {p + 1} ELSE Columns(p)
    <3>1. \A i \in 1..p : (\A j \in i..(p + 1) : <<text[j]>> # Spelling[Newline])
                            <=> (\A j \in i..p : <<text[j]>> # Spelling[Newline])
      <4> SUFFICES ASSUME NEW i \in 1..p, \A j \in i..p : <<text[j]>> # Spelling[Newline],
                          NEW j \in i..(p + 1)
                   PROVE  <<text[j]>> # Spelling[Newline]
        OBVIOUS
      <4>1. j \in i..p \/ j = p + 1
        OBVIOUS
      <4> QED  BY <1>2, <4>1
    <3>2. \A i : i \in 1..(p + 1) <=> i \in 1..p \/ i = p + 1
      OBVIOUS
    <3>3. \A j \in (p + 1)..(p + 1) : j = p + 1
      OBVIOUS
    <3>4. \A i : i \in Columns(p + 1) <=>
            \/ i \in Columns(p)
            \/ i = p + 1 /\ text[p + 1] \in Leads
      BY <1>2, <3>1, <3>2, <3>3
    <3> HIDE DEF Columns
    <3> QED  BY <3>4
  <2>2. Columns(p) \in SUBSET (1..p) /\ p + 1 \notin Columns(p)
    OBVIOUS
  <2>3. /\ ColumnAt(text, p) = 1 + Cardinality(Columns(p))
        /\ ColumnAt(text, p + 1) = 1 + Cardinality(Columns(p + 1))
    BY DEF ColumnAt
  <2> HIDE DEF Columns
  <2>4. IsFiniteSet(Columns(p)) /\ Cardinality(Columns(p)) \in Nat
    <3>1. IsFiniteSet(1..p)
      BY FS_Interval
    <3> QED  BY <2>2, <3>1, FS_Subset, FS_CardinalityType
  <2>5. Cardinality(Columns(p) \cup {p + 1}) = Cardinality(Columns(p)) + 1
    BY <2>2, <2>4, FS_AddElement
  <2> QED  BY <1>2, <2>1, <2>3, <2>4, <2>5
<1> QED  BY <1>1, <1>2

\* Advancing over the units of a lexeme gives the position of its end.
LEMMA PositionAdvances ==
  ASSUME NEW U, NEW text \in Seq(U), NEW p \in 0..Len(text), NEW e \in p..Len(text)
  PROVE  AdvancePosition(SubSeq(text, p + 1, e), PositionAt(text, p)) = PositionAt(text, e)
<1> DEFINE units == SubSeq(text, p + 1, e)  from == PositionAt(text, p)
           S == PlaceInText
           Step == [n \in Nat |-> [at \in S |-> Advanced(at, units[n])]]
           Is(f) == f = [n \in Nat |-> IF n = 0 THEN from ELSE Advanced(f[n - 1], units[n])]
<1>1. Len(text) \in Nat /\ p \in Nat /\ e \in Nat /\ p <= e /\ e <= Len(text)
  BY LenProperties
<1>2. /\ units \in Seq(U) /\ Len(units) = e - p
      /\ \A i \in 1..(e - p) : units[i] = text[p + i]
  <2>1. \A i \in (p + 1)..e : text[i] \in U
    BY <1>1, ElementOfSeq
  <2>2. /\ units \in Seq(U)
        /\ Len(units) = IF p + 1 <= e THEN e - (p + 1) + 1 ELSE 0
        /\ \A i \in 1..(e - (p + 1) + 1) : units[i] = text[(p + 1) + i - 1]
    <3>1. p + 1 \in Int /\ e \in Int
      BY <1>1
    <3> QED  BY <2>1, <3>1, SubSeqProperties
  <2> HIDE DEF units
  <2>3. Len(units) = e - p
    BY <1>1, <2>2
  <2>4. \A i \in 1..(e - p) : i \in 1..(e - (p + 1) + 1) /\ (p + 1) + i - 1 = p + i
    BY <1>1
  <2> QED  BY <2>2, <2>3, <2>4
<1> HIDE DEF units
<1>3. from \in S
  BY <1>1, PositionTypes
<1>4. \A at \in S : \A unit : Advanced(at, unit) \in S
  BY DEF Advanced, PlaceInText
<1>5. \E f : Is(f)
  <2>1. Step \in [Nat -> [S -> S]]
    <3> HIDE DEF S
    <3> QED  BY <1>4
  <2> HIDE DEF S, from
  <2>2. PICK f \in [Nat -> S] : Follows(f, from, Step)
    <3> HIDE DEF Step
    <3> QED  BY <1>3, <2>1, Recursion
  <2>3. \A n \in Nat \ {0} : Step[n][f[n - 1]] = Advanced(f[n - 1], units[n])
    OBVIOUS
  <2> HIDE DEF Step
  <2>4. f[0] = from /\ \A n \in Nat \ {0} : f[n] = Advanced(f[n - 1], units[n])
    BY <2>2, <2>3 DEF Follows
  <2>5. Is(f)
    BY <2>2, <2>4
  <2> HIDE DEF Is
  <2> QED  BY <2>5
<1> DEFINE At == CHOOSE f : Is(f)
<1>6. AdvancePosition(units, from) = At[e - p]
  <2> HIDE DEF from
  <2>1. AdvancePosition(units, from) = At[Len(units)]
    BY DEF AdvancePosition
  <2> HIDE DEF At
  <2> QED  BY <1>2, <2>1
<1>7. Is(At)
  <2> HIDE DEF Is
  <2> QED  BY <1>5
<1> HIDE DEF At
<1> DEFINE Good == {n \in Nat : n <= e - p => At[n] = PositionAt(text, p + n)}
<1>8. 0 \in Good
  <2>1. At[0] = from /\ p + 0 = p
    <3> HIDE DEF from
    <3> QED  BY <1>1, <1>7
  <2> QED  BY <2>1
<1>9. ASSUME NEW n \in Nat, n \in Good
      PROVE  n + 1 \in Good
  <2> SUFFICES ASSUME n + 1 <= e - p
               PROVE  At[n + 1] = PositionAt(text, p + (n + 1))
    OBVIOUS
  <2>1. At[n] = PositionAt(text, p + n) /\ n + 1 \in 1..(e - p) /\ p + n \in Nat
    BY <1>1, <1>9
  <2>2. At[n + 1] = Advanced(At[n], units[n + 1])
    <3>1. n + 1 \in Nat /\ n + 1 # 0 /\ (n + 1) - 1 = n
      OBVIOUS
    <3> HIDE DEF from, S, Good
    <3> QED  BY <1>7, <3>1
  <2>3. units[n + 1] = text[(p + n) + 1] /\ p + (n + 1) = (p + n) + 1
    <3>1. p + (n + 1) = (p + n) + 1
      BY <1>1
    <3> QED  BY <1>2, <2>1, <3>1
  <2>4. Advanced(PositionAt(text, p + n), text[(p + n) + 1]) = PositionAt(text, (p + n) + 1)
    BY <2>1, LineSteps, ColumnSteps, PositionTypes DEF Advanced, PositionAt
  <2> QED  BY <2>1, <2>2, <2>3, <2>4
<1>10. \A n \in Nat : n \in Good
  <2> HIDE DEF Good
  <2> QED  BY <1>8, <1>9, Induction
<1>11. At[e - p] = PositionAt(text, e)
  <2>1. e - p \in Nat /\ p + (e - p) = e
    BY <1>1
  <2> QED  BY <1>10, <2>1
<1> QED  BY <1>6, <1>11 DEF units

------------------------------------------------------------------------------
(* The loop of a scanner that decodes the rune at its place. *)

\* What is decoded decides between going on and stopping.
LEMMA DecodedDecides ==
  ASSUME NEW lexer, LexerOK(lexer), NEW U, NEW text \in Seq(U), NEW p \in 0..Len(text),
         NEW stateID \in DOMAIN lexer.next
  PROVE  /\ Decode(text, p).rune \in DOMAIN lexer.next[stateID] =>
              /\ Decode(text, p).rune \in Runes /\ Fits(Decode(text, p).rune, text, p)
              /\ Decode(text, p).size = Len(Spelling[Decode(text, p).rune])
         /\ Decode(text, p).rune \notin DOMAIN lexer.next[stateID] =>
              \A rune \in DOMAIN lexer.next[stateID] : ~Fits(rune, text, p)
<1>1. DOMAIN lexer.next[stateID] \subseteq Runes
  BY DEF LexerOK
<1>2. \A rune \in Runes : Fits(rune, text, p) =>
        Decode(text, p).rune = rune /\ Decode(text, p).size = Len(Spelling[rune])
  BY DecodeFacts
<1>3. Decode(text, p).rune \in Runes => Fits(Decode(text, p).rune, text, p)
  BY DecodeFacts
<1> QED  BY <1>1, <1>2, <1>3

LoopSet(lexer) == [p : Nat, stateID : DOMAIN lexer.next, bestRule : Nat, bestEnd : Nat]

\* One round of the loop, which stays where it has stopped.
RoundOf(lexer, text, at) ==
  LET decoded == Decode(text, at.p)
      next    == lexer.next[at.stateID][decoded.rune]
      rule    == lexer.accept[next]
      p       == at.p + decoded.size
  IN  IF decoded.rune \notin DOMAIN lexer.next[at.stateID] THEN at
      ELSE [p |-> p, stateID |-> next,
            bestRule |-> IF rule > 0 THEN rule ELSE at.bestRule,
            bestEnd |-> IF rule > 0 THEN p ELSE at.bestEnd]

Standing(lexer, text, from, at) ==
  /\ at \in LoopSet(lexer)
  /\ LoopAt(lexer, text, from, at.p, at.stateID, at.bestRule, at.bestEnd)

Stopped(lexer, text, at) ==
  \A rune \in DOMAIN lexer.next[at.stateID] : ~Fits(rune, text, at.p)

\* A round stays on the path, and moves on unless the loop has stopped.
LEMMA RoundFacts ==
  ASSUME NEW lexer, LexerOK(lexer), NEW U, NEW text \in Seq(U), NEW from \in 0..Len(text),
         NEW at, Standing(lexer, text, from, at)
  PROVE  /\ Standing(lexer, text, from, RoundOf(lexer, text, at))
         /\ \/ RoundOf(lexer, text, at) = at /\ Stopped(lexer, text, at)
            \/ RoundOf(lexer, text, at).p > at.p
<1> DEFINE decoded == Decode(text, at.p)  rune == decoded.rune
           to == lexer.next[at.stateID][rune]  rule == lexer.accept[to]  q == at.p + decoded.size
           next == [p |-> q, stateID |-> to, bestRule |-> IF rule > 0 THEN rule ELSE at.bestRule,
                    bestEnd |-> IF rule > 0 THEN q ELSE at.bestEnd]
<1>1. /\ at \in LoopSet(lexer)
      /\ LoopAt(lexer, text, from, at.p, at.stateID, at.bestRule, at.bestEnd)
  BY DEF Standing
<1>2. at.p \in from..Len(text) /\ at.stateID \in DOMAIN lexer.next
  BY <1>1, LoopTypes
<1>3. at.p \in 0..Len(text) /\ at.p \in Nat /\ Len(text) \in Nat /\ from \in Nat
  BY <1>2, LenProperties
<1>4. CASE rune \notin DOMAIN lexer.next[at.stateID]
  <2>1. RoundOf(lexer, text, at) = at
    BY <1>4 DEF RoundOf
  <2>2. Stopped(lexer, text, at)
    BY <1>2, <1>3, <1>4, DecodedDecides DEF Stopped
  <2> QED  BY <2>1, <2>2
<1>5. CASE rune \in DOMAIN lexer.next[at.stateID]
  <2>1. RoundOf(lexer, text, at) = next
    BY <1>5 DEF RoundOf
  <2>2. rune \in Runes /\ Fits(rune, text, at.p) /\ decoded.size = Len(Spelling[rune])
    BY <1>2, <1>3, <1>5, DecodedDecides
  <2>3. q = at.p + Len(Spelling[rune]) /\ q \in Nat /\ q > at.p
    BY <1>3, <2>2, RuneFacts
  <2> HIDE DEF rune, q, decoded
  <2>4. LoopAt(lexer, text, from, q, to, IF rule > 0 THEN rule ELSE at.bestRule,
                                         IF rule > 0 THEN q ELSE at.bestEnd)
    <3>1. \A r : r = rule => LoopAt(lexer, text, from, q, to, IF r > 0 THEN r ELSE at.bestRule,
                                                              IF r > 0 THEN q ELSE at.bestEnd)
      BY <1>1, <1>5, <2>2, <2>3, LoopGoesOn
    <3> HIDE DEF rule, to
    <3> QED  BY <3>1
  <2>5. next.p = q /\ next.stateID = to /\ next.bestRule = (IF rule > 0 THEN rule ELSE at.bestRule)
        /\ next.bestEnd = (IF rule > 0 THEN q ELSE at.bestEnd)
    OBVIOUS
  <2> HIDE DEF to, rule
  <2>6. next \in LoopSet(lexer)
    <3>1. /\ q \in from..Len(text) /\ to \in DOMAIN lexer.next
          /\ (IF rule > 0 THEN rule ELSE at.bestRule) \in Nat
          /\ (IF rule > 0 THEN q ELSE at.bestEnd) \in from..q
      BY <2>4, LoopTypes
    <3>2. (IF rule > 0 THEN q ELSE at.bestEnd) \in Nat
      BY <1>3, <2>3, <3>1
    <3> HIDE DEF next
    <3> QED  BY <2>3, <3>1, <3>2 DEF LoopSet, next
  <2> HIDE DEF next
  <2>7. Standing(lexer, text, from, next)
    BY <2>4, <2>5, <2>6 DEF Standing
  <2> QED  BY <2>1, <2>3, <2>5, <2>7
<1> QED  BY <1>4, <1>5

LoopStart(lexer, from) ==
  [p |-> from, stateID |-> 0, bestRule |-> lexer.accept[0], bestEnd |-> from]

\* As many rounds as there are units end where the loop stops.
LEMMA LoopRuns ==
  ASSUME NEW lexer, LexerOK(lexer), NEW U, NEW text \in Seq(U), NEW from \in 0..Len(text),
         NEW Round \in [LoopSet(lexer) -> LoopSet(lexer)],
         \A at \in LoopSet(lexer) : Round[at] = RoundOf(lexer, text, at),
         NEW After, After = CHOOSE f : f = [n \in Nat |-> IF n = 0 THEN LoopStart(lexer, from)
                                                          ELSE Round[f[n - 1]]]
  PROVE  /\ Standing(lexer, text, from, After[Len(text) - from])
         /\ Stopped(lexer, text, After[Len(text) - from])
<1> DEFINE start == LoopStart(lexer, from)  S == LoopSet(lexer)
           Is(f) == f = [n \in Nat |-> IF n = 0 THEN start ELSE Round[f[n - 1]]]
           Step == [n \in Nat |-> Round]
<1>1. Len(text) \in Nat /\ from \in Nat /\ from <= Len(text)
  BY LenProperties
<1>2. Standing(lexer, text, from, start)
  <2>1. lexer.accept[0] = 0 /\ 0 \in DOMAIN lexer.next
    BY DEF LexerOK
  <2>2. start.p = from /\ start.stateID = 0 /\ start.bestRule = 0 /\ start.bestEnd = from
    BY <2>1 DEF LoopStart
  <2>3. start \in S
    BY <1>1, <2>1 DEF LoopStart, LoopSet
  <2>4. LoopAt(lexer, text, from, start.p, start.stateID, start.bestRule, start.bestEnd)
    BY <2>2, LoopStarts
  <2> QED  BY <2>3, <2>4 DEF Standing
<1>3. start \in S
  BY <1>2 DEF Standing
<1> HIDE DEF start, S
<1>4. \E f : Is(f)
  <2>1. Step \in [Nat -> [S -> S]]
    BY DEF S
  <2>2. PICK f \in [Nat -> S] : Follows(f, start, Step)
    <3> HIDE DEF Step
    <3> QED  BY <1>3, <2>1, Recursion
  <2>3. \A n \in Nat \ {0} : Step[n][f[n - 1]] = Round[f[n - 1]]
    OBVIOUS
  <2> HIDE DEF Step
  <2>4. f[0] = start /\ \A n \in Nat \ {0} : f[n] = Round[f[n - 1]]
    BY <2>2, <2>3 DEF Follows
  <2>5. Is(f)
    BY <2>2, <2>4
  <2> HIDE DEF Is
  <2> QED  BY <2>5
<1>5. Is(After)
  <2>1. After = CHOOSE f : Is(f)
    BY DEF start
  <2> HIDE DEF Is
  <2> QED  BY <1>4, <2>1
<1> HIDE DEF Is
<1>6. PICK g : g = After /\ Is(g)
  BY <1>5
<1>7. /\ g[0] = start
       /\ \A n \in Nat : g[n + 1] = Round[g[n]]
  <2>1. g = [n \in Nat |-> IF n = 0 THEN start ELSE Round[g[n - 1]]]
    BY <1>6 DEF Is
  <2>2. \A n \in Nat : n + 1 \in Nat /\ n + 1 # 0 /\ (n + 1) - 1 = n
    OBVIOUS
  <2>3. g[0] = start /\ \A n \in Nat : g[n + 1] = Round[g[(n + 1) - 1]]
    BY <2>1, <2>2
  <2> QED  BY <2>2, <2>3
<1> DEFINE Good == {n \in Nat : /\ Standing(lexer, text, from, After[n])
                                /\ \/ Stopped(lexer, text, After[n])
                                   \/ After[n].p >= from + n}
<1>8. 0 \in Good
  <2>1. After[0] = start
    BY <1>6, <1>7
  <2>2. start.p = from
    BY DEF start, LoopStart
  <2> QED  BY <1>1, <1>2, <2>1, <2>2
<1>9. ASSUME NEW n \in Nat, n \in Good
      PROVE  n + 1 \in Good
  <2>1. After[n + 1] = Round[After[n]]
    <3>1. g[n + 1] = Round[g[n]] /\ g = After
      BY <1>6, <1>7
    <3> QED  BY <3>1
  <2>2. Standing(lexer, text, from, After[n]) /\ (Stopped(lexer, text, After[n]) \/ After[n].p >= from + n)
    BY <1>9
  <2>3. After[n] \in LoopSet(lexer)
    BY <2>2 DEF Standing
  <2>4. After[n + 1] = RoundOf(lexer, text, After[n])
    BY <2>1, <2>3
  <2>5. Standing(lexer, text, from, After[n + 1])
    BY <2>2, <2>4, RoundFacts
  <2>6. \/ After[n + 1] = After[n] /\ Stopped(lexer, text, After[n])
        \/ After[n + 1].p > After[n].p
    BY <2>2, <2>4, RoundFacts
  <2>7. After[n].p \in Nat /\ After[n + 1].p \in Nat
    BY <2>2, <2>5 DEF Standing, LoopSet
  <2>8. Stopped(lexer, text, After[n]) => After[n + 1] = After[n]
    <3> SUFFICES ASSUME Stopped(lexer, text, After[n])
                 PROVE  After[n + 1] = After[n]
      OBVIOUS
    <3>1. /\ After[n].stateID \in DOMAIN lexer.next /\ After[n].p \in 0..Len(text)
          /\ DOMAIN lexer.next[After[n].stateID] \subseteq Runes
      <4>1. After[n].p \in from..Len(text) /\ After[n].stateID \in DOMAIN lexer.next
        BY <2>2, LoopTypes DEF Standing
      <4>2. DOMAIN lexer.next[After[n].stateID] \subseteq Runes
        BY <4>1 DEF LexerOK
      <4>3. After[n].p \in 0..Len(text)
        BY <1>1, <4>1
      <4> QED  BY <4>1, <4>2, <4>3
    <3>2. Decode(text, After[n].p).rune \notin DOMAIN lexer.next[After[n].stateID]
      BY <3>1, DecodedDecides DEF Stopped
    <3> QED  BY <2>4, <3>2 DEF RoundOf
  <2>9. Stopped(lexer, text, After[n + 1]) \/ After[n + 1].p >= from + (n + 1)
    <3>1. CASE Stopped(lexer, text, After[n])
      BY <2>8, <3>1
    <3>2. CASE ~Stopped(lexer, text, After[n])
      <4>1. After[n].p >= from + n
        BY <2>2, <3>2
      <4>2. After[n + 1].p > After[n].p
        BY <2>6, <3>2
      <4> DEFINE p == After[n].p  q == After[n + 1].p
      <4>3. p \in Nat /\ q \in Nat /\ q > p /\ p >= from + n
        BY <2>7, <4>1, <4>2
      <4> HIDE DEF p, q
      <4>4. q >= from + (n + 1)
        BY <1>1, <4>3
      <4> QED  BY <4>4 DEF q
    <3> QED  BY <3>1, <3>2
  <2> QED  BY <2>5, <2>9
<1>10. \A n \in Nat : n \in Good
  <2> HIDE DEF Good
  <2> QED  BY <1>8, <1>9, Induction
<1> DEFINE last == After[Len(text) - from]
<1>11. Standing(lexer, text, from, last) /\ (Stopped(lexer, text, last) \/ last.p >= Len(text))
  <2>1. Len(text) - from \in Nat /\ from + (Len(text) - from) = Len(text)
    BY <1>1
  <2> QED  BY <1>10, <2>1
<1> HIDE DEF last
<1>12. last.p >= Len(text) => Stopped(lexer, text, last)
  <2> SUFFICES ASSUME last.p >= Len(text), NEW rune \in DOMAIN lexer.next[last.stateID]
               PROVE  ~Fits(rune, text, last.p)
    BY DEF Stopped
  <2>1. last.p \in from..Len(text) /\ last.stateID \in DOMAIN lexer.next
    BY <1>11, LoopTypes DEF Standing
  <2>2. rune \in Runes /\ last.p \in 0..Len(text) /\ last.p = Len(text)
    BY <1>1, <2>1 DEF LexerOK
  <2>3. last.p + Len(Spelling[rune]) > Len(text)
    BY <1>1, <2>2, RuneFacts
  <2> QED  BY <1>1, <2>2, <2>3, RuneFacts, FitsUnits
<1> QED  BY <1>11, <1>12 DEF last

------------------------------------------------------------------------------
(* The loop of a scanner that decodes in a window. *)

\* What is decoded in the window leads on along the path over the text.
LEMMA WindowGoesOn ==
  ASSUME NEW lexer, LexerOK(lexer), NEW U, NEW text \in Seq(U), NEW buffer \in Seq(U),
         NEW base, Window(text, base, buffer), NEW p \in 0..Len(buffer),
         NEW stateID, NEW bestRule, NEW bestEnd \in Nat,
         LoopAt(lexer, text, base, base + p, stateID, bestRule, base + bestEnd),
         Decode(buffer, p).rune \in DOMAIN lexer.next[stateID],
         NEW q, q = p + Decode(buffer, p).size,
         NEW to, to = lexer.next[stateID][Decode(buffer, p).rune],
         NEW rule, rule = lexer.accept[to]
  PROVE  /\ q \in 0..Len(buffer) /\ to \in DOMAIN lexer.next /\ rule \in Nat
         /\ LoopAt(lexer, text, base, base + q, to, IF rule > 0 THEN rule ELSE bestRule,
                                                   base + (IF rule > 0 THEN q ELSE bestEnd))
<1> DEFINE rune == Decode(buffer, p).rune
<1>1. base \in Nat /\ Len(text) \in Nat /\ Len(buffer) \in Nat /\ p \in Nat /\ base \in 0..Len(text)
  BY LenProperties DEF Window
<1>2. stateID \in DOMAIN lexer.next
  BY <1>1, LoopTypes
<1>3. rune \in Runes /\ Fits(rune, buffer, p) /\ q = p + Len(Spelling[rune])
  BY <1>2, DecodedDecides
<1>4. Fits(rune, text, base + p) /\ q <= Len(buffer)
  BY <1>3, WindowFits
<1>5. q \in Nat /\ q \in 0..Len(buffer) /\ base + q = (base + p) + Len(Spelling[rune])
  <2> DEFINE k == Len(Spelling[rune])
  <2>1. k \in Nat /\ q = p + k /\ q <= Len(buffer)
    BY <1>3, <1>4, RuneFacts
  <2> HIDE DEF k
  <2>2. q \in Nat /\ q \in 0..Len(buffer) /\ base + q = (base + p) + k
    BY <1>1, <2>1
  <2> QED  BY <2>2 DEF k
<1>6. rune \in DOMAIN lexer.next[stateID] /\ to = lexer.next[stateID][rune]
  OBVIOUS
<1> HIDE DEF rune
<1> DEFINE e == base + q  d == base + bestEnd  here == base + p
<1>7. LoopAt(lexer, text, base, here, stateID, bestRule, d)
  OBVIOUS
<1>8. e = here + Len(Spelling[rune]) /\ Fits(rune, text, here)
  BY <1>4, <1>5
<1> HIDE DEF e, d, here
<1>9. LoopAt(lexer, text, base, e, to, IF rule > 0 THEN rule ELSE bestRule,
                                      IF rule > 0 THEN e ELSE d)
  BY <1>1, <1>6, <1>7, <1>8, LoopGoesOn, SMTT(30)
<1>10. (IF rule > 0 THEN e ELSE d) = base + (IF rule > 0 THEN q ELSE bestEnd)
  BY DEF e, d
<1>11. to \in DOMAIN lexer.next
  <2> DEFINE r == IF rule > 0 THEN rule ELSE bestRule  f == IF rule > 0 THEN e ELSE d
  <2>1. LoopAt(lexer, text, base, e, to, r, f)
    BY <1>9
  <2> HIDE DEF r, f
  <2> QED  BY <1>1, <2>1, LoopTypes, SMTT(30)
<1>12. rule \in Nat
  BY <1>11 DEF LexerOK
<1> QED  BY <1>5, <1>9, <1>10, <1>11, <1>12 DEF e

\* Where the window decides, nothing fits in the text.
LEMMA WindowStops ==
  ASSUME NEW lexer, LexerOK(lexer), NEW U, NEW text \in Seq(U), NEW buffer \in Seq(U),
         NEW base, Window(text, base, buffer), NEW p \in 0..Len(buffer),
         NEW stateID \in DOMAIN lexer.next,
         \/ p = Len(buffer) /\ DOMAIN lexer.next[stateID] = {}
         \/ /\ \/ base + Len(buffer) = Len(text)
               \/ p < Len(buffer) /\ (~CutOff(buffer, p) \/ ~AsksForMore(buffer, p))
            /\ p = Len(buffer) \/ Decode(buffer, p).rune \notin DOMAIN lexer.next[stateID]
  PROVE  \A rune \in DOMAIN lexer.next[stateID] : ~Fits(rune, text, base + p)
<1> SUFFICES ASSUME NEW rune \in DOMAIN lexer.next[stateID], Fits(rune, text, base + p)
             PROVE  FALSE
  OBVIOUS
<1>1. base \in Nat /\ Len(text) \in Nat /\ Len(buffer) \in Nat /\ p \in Nat
  BY LenProperties DEF Window
<1>2. rune \in Runes /\ Len(Spelling[rune]) \in Nat /\ Len(Spelling[rune]) >= 1
  <2>1. rune \in Runes
    BY DEF LexerOK
  <2> QED  BY <2>1, RuneFacts
<1>3. base + p \in 0..Len(text) /\ (base + p) + Len(Spelling[rune]) <= Len(text)
  <2>1. base + p \in 0..Len(text)
    BY <1>2, WindowFits
  <2> QED  BY <1>2, <2>1, FitsUnits
<1>4. ASSUME Fits(rune, buffer, p)
      PROVE  FALSE
  <2>1. p + Len(Spelling[rune]) <= Len(buffer)
    BY <1>2, <1>4, WindowFits
  <2>2. p # Len(buffer)
    BY <1>1, <1>2, <2>1
  <2> QED  BY <1>4, <2>2, DecodedDecides
<1>5. ASSUME ~Fits(rune, buffer, p)
      PROVE  FALSE
  <2>1. CutOff(buffer, p) /\ (p < Len(buffer) => AsksForMore(buffer, p))
    BY <1>2, <1>5, WindowCuts
  <2>2. base + Len(buffer) = Len(text)
    BY <2>1
  <2> DEFINE k == Len(Spelling[rune])
  <2>3. k \in Nat /\ (base + p) + k <= Len(text) /\ ~(p + k <= Len(buffer))
    BY <1>2, <1>3, <1>5, WindowFits
  <2> HIDE DEF k
  <2> QED  BY <1>1, <2>2, <2>3
<1> QED  BY <1>4, <1>5

\* Units that spell no rune in the window, nor the start of one, spell none in
\* the text.
LEMMA WindowInvalid ==
  ASSUME NEW U, NEW text \in Seq(U), NEW buffer \in Seq(U),
         NEW base, Window(text, base, buffer), NEW p \in 0..Len(buffer), p < Len(buffer),
         \/ base + Len(buffer) = Len(text)
         \/ ~CutOff(buffer, p)
         \/ ~AsksForMore(buffer, p)
  PROVE  Decode(buffer, p) = NoRune <=> Decode(text, base + p) = NoRune
<1>1. base \in Nat /\ Len(text) \in Nat /\ Len(buffer) \in Nat /\ p \in Nat
  BY LenProperties DEF Window
<1>2. base + p \in 0..Len(text)
  BY <1>1 DEF Window
<1>3. \A rune \in Runes : Fits(rune, buffer, p) <=> Fits(rune, text, base + p)
  <2> SUFFICES ASSUME NEW rune \in Runes
               PROVE  Fits(rune, buffer, p) <=> Fits(rune, text, base + p)
    OBVIOUS
  <2>1. Fits(rune, buffer, p) => Fits(rune, text, base + p)
    BY WindowFits
  <2>2. ASSUME Fits(rune, text, base + p), ~Fits(rune, buffer, p)
        PROVE  FALSE
    <3>1. CutOff(buffer, p) /\ AsksForMore(buffer, p)
      BY <2>2, WindowCuts
    <3> DEFINE k == Len(Spelling[rune])
    <3>2. (base + p) + k <= Len(text)
      BY <1>2, <2>2, FitsUnits
    <3>3. k \in Nat /\ ~(p + k <= Len(buffer))
      BY <2>2, WindowFits, RuneFacts
    <3>4. base + Len(buffer) = Len(text)
      BY <3>1
    <3> HIDE DEF k
    <3> QED  BY <1>1, <3>2, <3>3, <3>4
  <2> QED  BY <2>1, <2>2
<1>4. (\A rune \in Runes : ~Fits(rune, buffer, p)) <=> Decode(buffer, p) = NoRune
  BY DecodeFacts
<1>5. (\A rune \in Runes : ~Fits(rune, text, base + p)) <=> Decode(text, base + p) = NoRune
  BY <1>2, DecodeFacts
<1> QED  BY <1>3, <1>4, <1>5

=============================================================================
