---------------------------- MODULE ProofLemmas ----------------------------
(***************************************************************************)
(* What several proofs rest on.  Sequences used as stacks: what pushing,   *)
(* popping and changing an element leave in place.  Parts of a sequence.   *)
(* Induction and recursion on the natural numbers, stated for a set and a  *)
(* function in place of the operators that the library's theorems take, so *)
(* that the provers can apply them.  Loops, and finite sets.               *)
(***************************************************************************)
EXTENDS Integers, Sequences, SequenceTheorems, FiniteSetTheorems,
        WellFoundedInduction, TLAPS

\* What Append leaves in place and what it adds.
LEMMA PushFacts ==
  ASSUME NEW S, NEW seq \in Seq(S), NEW e \in S
  PROVE  /\ Append(seq, e) \in Seq(S) /\ Len(Append(seq, e)) = Len(seq) + 1
         /\ \A i \in 1..Len(seq) : Append(seq, e)[i] = seq[i]
         /\ Append(seq, e)[Len(seq) + 1] = e
         /\ Append(seq, e) # <<>>
<1>1. Append(seq, e) # <<>>
  BY AppendProperties
<1> QED  BY <1>1, AppendProperties

\* A prefix keeps its elements.
LEMMA PrefixFacts ==
  ASSUME NEW S, NEW seq \in Seq(S), NEW h \in 0..Len(seq)
  PROVE  /\ SubSeq(seq, 1, h) \in Seq(S) /\ Len(SubSeq(seq, 1, h)) = h
         /\ \A i \in 1..h : SubSeq(seq, 1, h)[i] = seq[i]
<1>1. \A i \in 1..h : seq[i] \in S
  BY ElementOfSeq, LenProperties
<1>2. h \in Int /\ h >= 0
  BY LenProperties
<1> QED  BY <1>1, <1>2, SubSeqProperties

\* A suffix of n elements.
LEMMA SuffixFacts ==
  ASSUME NEW S, NEW seq \in Seq(S), NEW n \in 0..Len(seq)
  PROVE  /\ SubSeq(seq, Len(seq) - n + 1, Len(seq)) \in Seq(S)
         /\ Len(SubSeq(seq, Len(seq) - n + 1, Len(seq))) = n
         /\ \A i \in 1..n : SubSeq(seq, Len(seq) - n + 1, Len(seq))[i] = seq[Len(seq) - n + i]
<1> DEFINE m == Len(seq) - n + 1
<1>1. Len(seq) \in Nat /\ n \in Nat /\ m \in Int /\ m >= 1
  BY LenProperties
<1>2. \A i \in m..Len(seq) : seq[i] \in S
  BY <1>1, ElementOfSeq
<1>3. /\ SubSeq(seq, m, Len(seq)) \in Seq(S)
      /\ Len(SubSeq(seq, m, Len(seq))) = IF m <= Len(seq) THEN Len(seq) - m + 1 ELSE 0
      /\ \A i \in 1..(Len(seq) - m + 1) : SubSeq(seq, m, Len(seq))[i] = seq[m + i - 1]
  <2> HIDE DEF m
  <2> QED  BY <1>1, <1>2, SubSeqProperties
<1>4. Len(seq) - m + 1 = n /\ \A i \in 1..n : m + i - 1 = Len(seq) - n + i
  BY <1>1
<1> QED  BY <1>1, <1>3, <1>4

\* A sequence of one element.
LEMMA SingletonFacts ==
  ASSUME NEW S, NEW e \in S
  PROVE  <<e>> \in Seq(S) /\ Len(<<e>>) = 1 /\ <<e>>[1] = e
<1>1. <<>> \in Seq(S) /\ <<e>> = Append(<<>>, e)
  BY EmptySeq
<1> QED  BY <1>1, PushFacts

\* Popping the element that was pushed last.
LEMMA PopPushed ==
  ASSUME NEW S, NEW seq \in Seq(S), NEW e \in S
  PROVE  SubSeq(Append(seq, e), 1, Len(Append(seq, e)) - 1) = seq
<1> DEFINE p == Append(seq, e)  q == SubSeq(p, 1, Len(p) - 1)
<1>1. Len(seq) \in Nat /\ Len(seq) \in 0..(Len(seq) + 1)
  BY LenProperties
<1>2. p \in Seq(S) /\ Len(p) = Len(seq) + 1 /\ \A i \in 1..Len(seq) : p[i] = seq[i]
  BY PushFacts
<1> HIDE DEF p
<1>3. Len(p) - 1 = Len(seq) /\ Len(p) - 1 \in 0..Len(p)
  BY <1>1, <1>2
<1>4. q \in Seq(S) /\ Len(q) = Len(seq) /\ \A i \in 1..Len(seq) : q[i] = p[i]
  BY <1>2, <1>3, PrefixFacts
<1> HIDE DEF q
<1>5. q = seq
  BY <1>2, <1>4, SeqEqual
<1> QED  BY <1>5 DEF p, q

\* Changing the top is popping it and pushing its replacement.
LEMMA ReplaceTop ==
  ASSUME NEW S, NEW seq \in Seq(S), Len(seq) >= 1, NEW e \in S
  PROVE  [seq EXCEPT ![Len(seq)] = e] = Append(SubSeq(seq, 1, Len(seq) - 1), e)
<1> DEFINE n == Len(seq)  k == SubSeq(seq, 1, n - 1)  p == Append(k, e)
           q == [seq EXCEPT ![n] = e]
<1>1. n \in Nat /\ n \in 1..n /\ n - 1 \in 0..n
  BY LenProperties
<1>2. q \in Seq(S) /\ Len(q) = n /\ \A i \in 1..n : q[i] = IF i = n THEN e ELSE seq[i]
  BY <1>1, ExceptSeq
<1>3. k \in Seq(S) /\ Len(k) = n - 1 /\ \A i \in 1..(n - 1) : k[i] = seq[i]
  BY <1>1, PrefixFacts
<1> HIDE DEF k, q
<1>4. p \in Seq(S) /\ Len(p) = (n - 1) + 1 /\ p[(n - 1) + 1] = e
      /\ \A i \in 1..(n - 1) : p[i] = k[i]
  BY <1>3, PushFacts
<1> HIDE DEF p, n
<1>5. Len(p) = n /\ p[n] = e /\ \A i \in 1..n : i = n \/ i \in 1..(n - 1)
  BY <1>1, <1>4
<1>6. \A i \in 1..n : q[i] = p[i]
  BY <1>2, <1>3, <1>4, <1>5
<1>7. q = p
  BY <1>2, <1>4, <1>5, <1>6, SeqEqual
<1> QED  BY <1>7 DEF p, q, k, n

\* A prefix of a prefix.
LEMMA PrefixOfPrefix ==
  ASSUME NEW S, NEW seq \in Seq(S), NEW h \in 0..Len(seq), NEW k \in 0..h
  PROVE  SubSeq(SubSeq(seq, 1, h), 1, k) = SubSeq(seq, 1, k)
<1> DEFINE p == SubSeq(seq, 1, h)  q == SubSeq(p, 1, k)  r == SubSeq(seq, 1, k)
<1>1. Len(seq) \in Nat /\ k \in 0..Len(seq) /\ \A i \in 1..k : i \in 1..h
  BY LenProperties
<1>2. p \in Seq(S) /\ Len(p) = h /\ \A i \in 1..h : p[i] = seq[i]
  BY PrefixFacts
<1>3. r \in Seq(S) /\ Len(r) = k /\ \A i \in 1..k : r[i] = seq[i]
  BY <1>1, PrefixFacts
<1> HIDE DEF p, r
<1>4. q \in Seq(S) /\ Len(q) = k /\ \A i \in 1..k : q[i] = p[i]
  BY <1>2, PrefixFacts
<1> HIDE DEF q
<1>5. q = r
  BY <1>1, <1>2, <1>3, <1>4, SeqEqual
<1> QED  BY <1>5 DEF p, q, r

\* Two sequences in a row.
LEMMA JoinFacts ==
  ASSUME NEW S, NEW s \in Seq(S), NEW t \in Seq(S)
  PROVE  /\ s \o t \in Seq(S) /\ Len(s \o t) = Len(s) + Len(t)
         /\ \A i \in 1..Len(s) : (s \o t)[i] = s[i]
         /\ \A i \in 1..Len(t) : (s \o t)[Len(s) + i] = t[i]
<1>1. Len(s) \in Nat /\ Len(t) \in Nat
  BY LenProperties
<1> DEFINE u == s \o t
<1>2. u \in Seq(S) /\ Len(u) = Len(s) + Len(t)
  BY ConcatProperties
<1>3. \A i \in 1 .. Len(s) + Len(t) : u[i] = IF i <= Len(s) THEN s[i] ELSE t[i - Len(s)]
  BY ConcatProperties, Zenon
<1> HIDE DEF u
<1>4. \A i \in 1..Len(s) : u[i] = s[i]
  BY <1>1, <1>3
<1>5. \A i \in 1..Len(t) : u[Len(s) + i] = t[i]
  <2> SUFFICES ASSUME NEW i \in 1..Len(t)
               PROVE  u[Len(s) + i] = t[i]
    OBVIOUS
  <2>1. Len(s) + i \in 1 .. Len(s) + Len(t) /\ ~(Len(s) + i <= Len(s)) /\ (Len(s) + i) - Len(s) = i
    BY <1>1
  <2> QED  BY <1>3, <2>1
<1> QED  BY <1>2, <1>4, <1>5 DEF u

IsList(s) == \E S : s \in Seq(S)

\* One more element of a list, whatever it is a list of.
LEMMA ListGrows ==
  ASSUME NEW s, IsList(s), NEW e
  PROVE  /\ IsList(Append(s, e)) /\ Len(s) \in Nat /\ DOMAIN s = 1..Len(s)
         /\ DOMAIN Append(s, e) = 1..(Len(s) + 1)
         /\ \A i \in 1..Len(s) : Append(s, e)[i] = s[i]
         /\ Append(s, e)[Len(s) + 1] = e
<1>1. PICK S : s \in Seq(S)
  BY DEF IsList
<1>2. s \in Seq(S \cup {e})
  BY <1>1, SeqMonotonic
<1>3. /\ Append(s, e) \in Seq(S \cup {e}) /\ Len(Append(s, e)) = Len(s) + 1
      /\ \A i \in 1..Len(s) : Append(s, e)[i] = s[i]
      /\ Append(s, e)[Len(s) + 1] = e
  BY <1>2, PushFacts
<1>4. Len(s) \in Nat /\ DOMAIN s = 1..Len(s)
  BY <1>1, LenProperties
<1>5. DOMAIN Append(s, e) = 1..(Len(s) + 1)
  BY <1>3, LenProperties
<1>6. IsList(Append(s, e))
  BY <1>3 DEF IsList
<1> QED  BY <1>3, <1>4, <1>5, <1>6

LessThan == {p \in Nat \X Nat : p[1] < p[2]}

\* Every set of natural numbers that is not empty has a least element.
LEMMA LeastElement ==
  ASSUME NEW T \in SUBSET Nat, T # {}
  PROVE  \E x \in T : \A y \in T : x <= y
<1>1. OpToRel(<, Nat) = LessThan
  BY DEF OpToRel, LessThan
<1>2. IsWellFoundedOn(LessThan, Nat)
  BY <1>1, NatLessThanWellFounded
<1>3. PICK x \in T : \A y \in T : ~(<<y, x>> \in LessThan)
  BY <1>2, WFMin
<1>4. ASSUME NEW y \in T, y < x
      PROVE  FALSE
  <2>1. <<y, x>> \in Nat \X Nat /\ <<y, x>>[1] < <<y, x>>[2]
    BY <1>4
  <2> QED  BY <1>3, <2>1 DEF LessThan
<1> QED  BY <1>4

\* A set that holds 0 and with every number the next one holds them all.
LEMMA Induction ==
  ASSUME NEW S, 0 \in S, \A n \in Nat : n \in S => n + 1 \in S
  PROVE  \A n \in Nat : n \in S
<1> SUFFICES ASSUME NEW m \in Nat, m \notin S
             PROVE  FALSE
  OBVIOUS
<1> DEFINE T == {n \in Nat : n \notin S}
<1>1. PICK x \in T : \A y \in T : x <= y
  BY LeastElement
<1>2. x # 0 /\ x - 1 \in Nat
  OBVIOUS
<1>3. x - 1 \in S
  BY <1>1, <1>2
<1> QED  BY <1>2, <1>3

Follows(f, first, Step) == f[0] = first /\ \A n \in Nat \ {0} : f[n] = Step[n][f[n - 1]]

\* A first value and a step for every number define a function on the numbers.
LEMMA Recursion ==
  ASSUME NEW S, NEW first \in S, NEW Step \in [Nat -> [S -> S]]
  PROVE  \E f \in [Nat -> S] : Follows(f, first, Step)
<1> DEFINE Good(n, f) == /\ f[0] = first
                         /\ \A k \in 1..n : f[k] = Step[k][f[k - 1]]
           Some == {n \in Nat : \E f \in [0..n -> S] : Good(n, f)}
           Same == {n \in Nat : \A m \in Nat : n <= m =>
                      \A f \in [0..n -> S], g \in [0..m -> S] :
                         Good(n, f) /\ Good(m, g) => f[n] = g[n]}
<1>1. \A n \in Nat : n \in Some
  <2>1. 0 \in Some
    <3>1. [k \in 0..0 |-> first] \in [0..0 -> S] /\ Good(0, [k \in 0..0 |-> first])
      OBVIOUS
    <3> QED  BY <3>1
  <2>2. ASSUME NEW n \in Nat, n \in Some
        PROVE  n + 1 \in Some
    <3>1. PICK f \in [0..n -> S] : Good(n, f)
      BY <2>2
    <3> DEFINE g == [k \in 0..(n + 1) |-> IF k <= n THEN f[k] ELSE Step[n + 1][f[n]]]
    <3>2. Step[n + 1][f[n]] \in S
      OBVIOUS
    <3>3. g \in [0..(n + 1) -> S]
      BY <3>2
    <3>4. Good(n + 1, g)
      BY <3>1
    <3>5. \E e \in [0..(n + 1) -> S] : Good(n + 1, e)
      <4> HIDE DEF Good, g
      <4> QED  BY <3>3, <3>4
    <3> QED  BY <3>5
  <2> HIDE DEF Some
  <2> QED  BY <2>1, <2>2, Induction
<1>2. \A n \in Nat : n \in Same
  <2>1. 0 \in Same
    OBVIOUS
  <2>2. ASSUME NEW n \in Nat, n \in Same
        PROVE  n + 1 \in Same
    <3>1. ASSUME NEW m \in Nat, n + 1 <= m,
                 NEW f \in [0..(n + 1) -> S], NEW g \in [0..m -> S],
                 Good(n + 1, f), Good(m, g)
          PROVE  f[n + 1] = g[n + 1]
      <4> DEFINE h == [k \in 0..n |-> f[k]]
      <4>1. h \in [0..n -> S] /\ Good(n, h) /\ h[n] = f[n]
        BY <3>1
      <4>2. n <= m
        BY <3>1
      <4>3. h[n] = g[n]
        <5> HIDE DEF h, Good
        <5> QED  BY <2>2, <3>1, <4>1, <4>2
      <4>4. n + 1 \in 1..(n + 1) /\ n + 1 \in 1..m
        BY <3>1
      <4>5. f[n + 1] = Step[n + 1][f[n]] /\ g[n + 1] = Step[n + 1][g[n]]
        BY <3>1, <4>4
      <4> QED  BY <4>1, <4>3, <4>5
    <3> HIDE DEF Good
    <3> QED  BY <3>1
  <2> HIDE DEF Same
  <2> QED  BY <2>1, <2>2, Induction
<1> DEFINE Of(n) == CHOOSE f \in [0..n -> S] : Good(n, f)
           whole == [n \in Nat |-> Of(n)[n]]
<1>3. ASSUME NEW n \in Nat
      PROVE  Of(n) \in [0..n -> S] /\ Good(n, Of(n))
  <2>1. \E f \in [0..n -> S] : Good(n, f)
    BY <1>1
  <2> HIDE DEF Good
  <2> QED  BY <2>1
<1>4. whole \in [Nat -> S]
  <2>1. ASSUME NEW n \in Nat  PROVE Of(n)[n] \in S
    <3> HIDE DEF Of
    <3> QED BY <1>3
  <2> HIDE DEF Of
  <2> QED  BY <2>1
<1>5. whole[0] = first
  <2> HIDE DEF Of
  <2> QED  BY <1>3
<1>6. ASSUME NEW n \in Nat, n # 0
      PROVE  whole[n] = Step[n][whole[n - 1]]
  <2>1. n - 1 \in Nat /\ n - 1 <= n /\ n \in 1..n
    BY <1>6
  <2>2. Of(n)[n - 1] = Of(n - 1)[n - 1]
    <3>1. n - 1 \in Same
      BY <1>2, <2>1
    <3> HIDE DEF Of, Good
    <3> QED  BY <3>1, <1>3, <2>1
  <2>3. Of(n)[n] = Step[n][Of(n)[n - 1]]
    <3> HIDE DEF Of
    <3> QED  BY <1>3, <2>1
  <2> HIDE DEF Of
  <2> QED  BY <2>1, <2>2, <2>3
<1> HIDE DEF whole
<1>7. Follows(whole, first, Step)
  BY <1>5, <1>6 DEF Follows
<1> QED  BY <1>4, <1>7

(* Lists that go on with the list of a later number, or end. *)
Chains(f, last, more, part, to) ==
  f = [p \in 0..last |-> IF p \in more THEN part[p] \o f[to[p]] ELSE <<>>]

\* They are lists,
LEMMA ListsTyped ==
  ASSUME NEW R, NEW last \in Nat, NEW part \in [0..last -> Seq(R)], NEW to \in [0..last -> 0..last],
         NEW more \in SUBSET (0..last), \A p \in more : p < to[p],
         NEW f, Chains(f, last, more, part, to)
  PROVE  f \in [0..last -> Seq(R)]
<1>1. \A p \in 0..last : part[p] \in Seq(R) /\ to[p] \in 0..last
  OBVIOUS
<1>2. \A p \in more, n \in Nat : last - p < n + 1 => last - to[p] < n
  BY <1>1
<1>3. <<>> \in Seq(R)
  BY EmptySeq
<1> DEFINE Typed == {n \in Nat : \A p \in 0..last : last - p < n => f[p] \in Seq(R)}
<1>4. \A p \in 0..last : f[p] = IF p \in more THEN part[p] \o f[to[p]] ELSE <<>>
  BY DEF Chains
<1>5. DOMAIN f = 0..last /\ f = [p \in 0..last |-> f[p]]
  BY DEF Chains
<1>6. 0 \in Typed
  OBVIOUS
<1>7. ASSUME NEW n \in Nat, n \in Typed
      PROVE  n + 1 \in Typed
  <2> SUFFICES ASSUME NEW p \in 0..last, last - p < n + 1
               PROVE  f[p] \in Seq(R)
    OBVIOUS
  <2>1. CASE p \in more
    <3>1. f[to[p]] \in Seq(R)
      BY <1>1, <1>2, <1>7, <2>1
    <3>2. part[p] \o f[to[p]] \in Seq(R)
      BY <1>1, <3>1, JoinFacts
    <3> QED  BY <1>4, <2>1, <3>2
  <2>2. CASE p \notin more
    BY <1>3, <1>4, <2>2
  <2> QED  BY <2>1, <2>2
<1> HIDE DEF Typed
<1>8. last + 1 \in Typed
  BY <1>6, <1>7, Induction
<1>9. \A p \in 0..last : f[p] \in Seq(R)
  BY <1>8 DEF Typed
<1> QED  BY <1>5, <1>9

\* and there are such lists.
LEMMA ListsExist ==
  ASSUME NEW R, NEW last \in Nat, NEW part \in [0..last -> Seq(R)], NEW to \in [0..last -> 0..last],
         NEW more \in SUBSET (0..last), \A p \in more : p < to[p]
  PROVE  \E f : Chains(f, last, more, part, to)
<1> DEFINE F == [0..last -> Seq(R)]
           Body(f) == [p \in 0..last |-> IF p \in more THEN part[p] \o f[to[p]] ELSE <<>>]
<1>1. \A p \in 0..last : part[p] \in Seq(R) /\ to[p] \in 0..last
  OBVIOUS
<1>2. \A p \in more, n \in Nat : last - p < n + 1 => last - to[p] < n
  BY <1>1
<1>3. <<>> \in Seq(R)
  BY EmptySeq
<1>4. ASSUME NEW f \in F
      PROVE  Body(f) \in F
  <2>1. \A p \in more : part[p] \o f[to[p]] \in Seq(R)
    BY <1>1, JoinFacts
  <2> QED  BY <1>3, <2>1
<1>5. \E f : f = Body(f)
  <2> DEFINE first == [p \in 0..last |-> <<>>]
             Step == [n \in Nat |-> [f \in F |-> Body(f)]]
  <2>1. first \in F
    BY <1>3
  <2>2. Step \in [Nat -> [F -> F]]
    BY <1>4
  <2>3. \A n \in Nat : \A f \in F : Step[n][f] = Body(f)
    OBVIOUS
  <2> HIDE DEF F, Body, first, Step
  <2>4. PICK g \in [Nat -> F] : Follows(g, first, Step)
    BY <2>1, <2>2, Recursion
  <2>5. \A n \in Nat : g[n] \in F /\ g[n + 1] = Body(g[n])
    <3> SUFFICES ASSUME NEW n \in Nat
                 PROVE  g[n] \in F /\ g[n + 1] = Body(g[n])
      OBVIOUS
    <3>1. n + 1 \in Nat \ {0} /\ (n + 1) - 1 = n
      OBVIOUS
    <3>2. g[n + 1] = Step[n + 1][g[n]]
      BY <2>4, <3>1 DEF Follows
    <3> QED  BY <2>3, <3>1, <3>2
  <2> DEFINE Settled == {n \in Nat : \A p \in 0..last : last - p < n => g[n + 1][p] = g[n][p]}
  <2>6. 0 \in Settled
    OBVIOUS
  <2>7. ASSUME NEW n \in Nat, n \in Settled
        PROVE  n + 1 \in Settled
    <3> SUFFICES ASSUME NEW p \in 0..last, last - p < n + 1
                 PROVE  g[(n + 1) + 1][p] = g[n + 1][p]
      OBVIOUS
    <3>1. g[(n + 1) + 1][p] = Body(g[n + 1])[p] /\ g[n + 1][p] = Body(g[n])[p]
      <4>1. n + 1 \in Nat
        OBVIOUS
      <4>2. g[n + 1] = Body(g[n])
        BY <2>5
      <4>3. g[(n + 1) + 1] = Body(g[n + 1])
        BY <2>5, <4>1, Zenon
      <4> QED  BY <4>2, <4>3, Zenon
    <3>2. p \in more => g[n + 1][to[p]] = g[n][to[p]]
      BY <1>1, <1>2, <2>7
    <3> HIDE DEF Settled
    <3> QED  BY <3>1, <3>2 DEF Body
  <2> HIDE DEF Settled
  <2>8. last + 1 \in Settled
    BY <2>6, <2>7, Induction
  <2> DEFINE f == g[last + 1]
  <2>9. f \in F /\ g[(last + 1) + 1] = Body(f)
    BY <2>5
  <2>10. \A p \in 0..last : g[(last + 1) + 1][p] = f[p]
    BY <2>8 DEF Settled
  <2> HIDE DEF f
  <2>11. \A p \in 0..last : f[p] = Body(f)[p]
    BY <2>9, <2>10
  <2>12. f = Body(f)
    BY <2>9, <2>11 DEF F, Body
  <2> QED  BY <2>12
<1> QED  BY <1>5 DEF Chains

-----------------------------------------------------------------------------
(* Loops. *)

\* Steps taken one after the other,
TakesTurns(f, steps, start) ==
  f = [n \in 0..Len(steps) |-> IF n = 0 THEN start ELSE steps[n][f[n - 1]]]

\* which can always be taken,
LEMMA TurnsExist ==
  ASSUME NEW A, NEW steps \in Seq([A -> A]), NEW start \in A
  PROVE  \E f : TakesTurns(f, steps, start)
<1> DEFINE N == Len(steps)
           Step == [n \in Nat |-> IF n \in 1..N THEN steps[n] ELSE [a \in A |-> a]]
<1>1. N \in Nat /\ \A n \in 1..N : steps[n] \in [A -> A]
  BY LenProperties, ElementOfSeq
<1>2. Step \in [Nat -> [A -> A]]
  BY <1>1
<1>3. PICK f \in [Nat -> A] : Follows(f, start, Step)
  <2> HIDE DEF Step
  <2> QED  BY <1>2, Recursion
<1> DEFINE h == [n \in 0..N |-> f[n]]
<1>4. \A n \in 1..N : f[n] = steps[n][f[n - 1]]
  <2> SUFFICES ASSUME NEW n \in 1..N
               PROVE  f[n] = steps[n][f[n - 1]]
    OBVIOUS
  <2>1. n \in Nat \ {0} /\ Step[n] = steps[n]
    BY <1>1
  <2> HIDE DEF Step
  <2> QED  BY <1>3, <2>1 DEF Follows
<1>5. f[0] = start
  BY <1>3 DEF Follows
<1>6. \A n \in 0..N : h[n] = IF n = 0 THEN start ELSE steps[n][h[n - 1]]
  BY <1>1, <1>4, <1>5
<1>7. h = [n \in 0..N |-> IF n = 0 THEN start ELSE steps[n][h[n - 1]]]
  <2> HIDE DEF N
  <2> QED  BY <1>6
<1> HIDE DEF h
<1> QED  BY <1>7 DEF TakesTurns

\* begin where they begin,
LEMMA TurnsFacts ==
  ASSUME NEW S, NEW steps \in Seq(S), NEW start, NEW f, TakesTurns(f, steps, start)
  PROVE  /\ Len(steps) \in Nat /\ f[0] = start
         /\ \A n \in 1..Len(steps) : f[n] = steps[n][f[n - 1]]
<1> DEFINE N == Len(steps)
<1>1. N \in Nat
  BY LenProperties
<1>2. f = [n \in 0..N |-> IF n = 0 THEN start ELSE steps[n][f[n - 1]]]
  BY DEF TakesTurns
<1> HIDE DEF N
<1>3. f[0] = start
  BY <1>1, <1>2
<1>4. ASSUME NEW n \in 1..N
      PROVE  f[n] = steps[n][f[n - 1]]
  <2>1. n \in 0..N /\ n # 0
    BY <1>1
  <2> QED  BY <1>2, <2>1
<1> QED  BY <1>1, <1>3, <1>4 DEF N

\* and keep what each of them keeps.
LEMMA TurnsKeep ==
  ASSUME NEW A, NEW steps \in Seq([A -> A]), NEW start, NEW f, TakesTurns(f, steps, start),
         NEW Good \in [Nat -> SUBSET A], start \in Good[0],
         \A n \in 1..Len(steps) : \A a \in Good[n - 1] : steps[n][a] \in Good[n]
  PROVE  f[Len(steps)] \in Good[Len(steps)]
<1> DEFINE N == Len(steps)
           Holds == {n \in Nat : n \in 0..N => f[n] \in Good[n]}
<1>1. N \in Nat /\ f[0] = start /\ \A n \in 1..N : f[n] = steps[n][f[n - 1]]
  BY TurnsFacts
<1>2. 0 \in Holds
  BY <1>1
<1>3. ASSUME NEW n \in Nat, n \in Holds
      PROVE  n + 1 \in Holds
  <2> SUFFICES ASSUME n + 1 \in 0..N
               PROVE  f[n + 1] \in Good[n + 1]
    OBVIOUS
  <2>1. n \in 0..N /\ n + 1 \in 1..N /\ (n + 1) - 1 = n
    BY <1>1
  <2>2. f[n] \in Good[n]
    BY <1>3, <2>1
  <2>3. steps[n + 1][f[n]] \in Good[n + 1]
    BY <2>1, <2>2
  <2> QED  BY <1>1, <2>1, <2>3
<1> HIDE DEF Holds
<1>4. N \in Holds
  BY <1>1, <1>2, <1>3, Induction
<1> QED  BY <1>1, <1>4 DEF Holds

\* Where a loop that ends with the first round that changes nothing can end.
KeptBy(step, set) == \A a \in set : step[a] \in set
ReachedFrom(step, a) ==
  {b \in DOMAIN step : \A set \in SUBSET DOMAIN step : a \in set /\ KeptBy(step, set) => b \in set}
RestsOf(step, a) == {b \in ReachedFrom(step, a) : step[b] = b}
RunsOn(f, step) ==
  f = [a \in DOMAIN step |-> LET next == step[a] IN IF next = a THEN a ELSE f[next]]

\* Some function runs the loop from every value, whether or not each run ends.
LEMMA RunExists ==
  ASSUME NEW A, NEW step \in [A -> A]
  PROVE  \E f : RunsOn(f, step)
<1> DEFINE f == [a \in A |-> CHOOSE b : b \in RestsOf(step, a)]
<1>1. ASSUME NEW a \in A, step[a] = a
      PROVE  f[a] = a
  <2>1. {a} \in SUBSET A /\ KeptBy(step, {a})
    BY <1>1 DEF KeptBy
  <2>2. RestsOf(step, a) = {a}
    BY <1>1, <2>1 DEF RestsOf, ReachedFrom
  <2> QED  BY <2>2
<1>2. ASSUME NEW a \in A, step[a] # a
      PROVE  f[a] = f[step[a]]
  <2>1. ASSUME NEW b \in RestsOf(step, a)
        PROVE  b \in RestsOf(step, step[a])
    <3>1. b \in A /\ step[b] = b /\ b # a
      BY <1>2 DEF RestsOf, ReachedFrom
    <3>2. ASSUME NEW set \in SUBSET A, step[a] \in set, KeptBy(step, set)
          PROVE  b \in set
      <4>1. set \cup {a} \in SUBSET A /\ KeptBy(step, set \cup {a})
        BY <3>2 DEF KeptBy
      <4>2. b \in set \cup {a}
        BY <4>1 DEF RestsOf, ReachedFrom
      <4> QED  BY <3>1, <4>2
    <3> QED  BY <3>1, <3>2 DEF RestsOf, ReachedFrom
  <2>2. ASSUME NEW b \in RestsOf(step, step[a])
        PROVE  b \in RestsOf(step, a)
    <3>1. b \in A /\ step[b] = b
      BY DEF RestsOf, ReachedFrom
    <3>2. ASSUME NEW set \in SUBSET A, a \in set, KeptBy(step, set)
          PROVE  b \in set
      <4>1. step[a] \in set
        BY <3>2 DEF KeptBy
      <4> QED  BY <3>2, <4>1 DEF RestsOf, ReachedFrom
    <3> QED  BY <3>1, <3>2 DEF RestsOf, ReachedFrom
  <2>3. RestsOf(step, a) = RestsOf(step, step[a])
    BY <2>1, <2>2
  <2> QED  BY <2>3
<1> HIDE DEF f
<1>3. f = [a \in A |-> LET next == step[a] IN IF next = a THEN a ELSE f[next]]
  <2>1. f = [a \in A |-> f[a]]
    BY DEF f
  <2>2. \A a \in A : f[a] = IF step[a] = a THEN a ELSE f[step[a]]
    BY <1>1, <1>2
  <2> QED  BY <2>1, <2>2
<1>4. RunsOn(f, step)
  BY <1>3 DEF RunsOn
<1> QED  BY <1>4

\* A loop whose rounds keep an invariant and lower a measure ends, with the
\* invariant, at a value that another round does not change.
LEMMA RunRests ==
  ASSUME NEW A, NEW step \in [A -> A], NEW I \in SUBSET A, NEW m \in [I -> Nat], NEW start \in I,
         NEW f, RunsOn(f, step),
         \A a \in I : step[a] \in I /\ (step[a] # a => m[step[a]] < m[a])
  PROVE  f[start] \in I /\ step[f[start]] = f[start]
<1>1. \A a \in A : f[a] = IF step[a] = a THEN a ELSE f[step[a]]
  BY DEF RunsOn
<1> DEFINE Bad == {a \in I : ~(f[a] \in I /\ step[f[a]] = f[a])}
           T == {m[a] : a \in Bad}
<1>2. Bad = {}
  <2> SUFFICES ASSUME Bad # {}
               PROVE  FALSE
    OBVIOUS
  <2>1. T \in SUBSET Nat /\ T # {}
    OBVIOUS
  <2> HIDE DEF T
  <2>2. PICK n \in T : \A k \in T : n <= k
    BY <2>1, LeastElement
  <2> USE DEF T
  <2>3. PICK a \in Bad : m[a] = n
    OBVIOUS
  <2>4. step[a] # a
    BY <1>1
  <2>5. step[a] \in I /\ m[step[a]] < m[a] /\ m[step[a]] \in Nat /\ m[a] \in Nat
    BY <2>4
  <2>6. ASSUME step[a] \in Bad
        PROVE  FALSE
    <3>1. m[step[a]] \in T
      BY <2>6
    <3>2. n <= m[step[a]] /\ n = m[a]
      BY <2>2, <2>3, <3>1
    <3> QED  BY <2>5, <3>2
  <2> QED  BY <1>1, <2>4, <2>5, <2>6
<1> QED  BY <1>2

\* The values of a function on a finite set.
LEMMA ImageFinite ==
  ASSUME NEW S, IsFiniteSet(S), NEW T, NEW f \in [S -> T]
  PROVE  IsFiniteSet({f[x] : x \in S})
<1> DEFINE R == {f[x] : x \in S}
<1>1. f \in Surjection(S, R)
  BY DEF Surjection
<1> HIDE DEF R
<1> QED  BY <1>1, FS_Surjection DEF R

\* What is left of a finite set to add shrinks with what is added.
LEMMA GrowthMeasure ==
  ASSUME NEW U, IsFiniteSet(U), NEW S, NEW T, S \subseteq T, T \subseteq U
  PROVE  /\ Cardinality(U) - Cardinality(T) \in Nat
         /\ S # T => Cardinality(U) - Cardinality(T) < Cardinality(U) - Cardinality(S)
<1>1. IsFiniteSet(T) /\ Cardinality(T) <= Cardinality(U)
  BY FS_Subset
<1>2. /\ Cardinality(S) <= Cardinality(T) /\ IsFiniteSet(S)
      /\ Cardinality(T) = Cardinality(S) => T = S
  BY <1>1, FS_Subset
<1>3. Cardinality(U) \in Nat /\ Cardinality(T) \in Nat /\ Cardinality(S) \in Nat
  BY <1>1, <1>2, FS_CardinalityType
<1> QED  BY <1>1, <1>2, <1>3

=============================================================================
