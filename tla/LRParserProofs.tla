--------------------------- MODULE LRParserProofs ---------------------------
(***************************************************************************)
(* Theorems about module LRParser for every set of sound tables, every     *)
(* bound on the input and every behaviour of the source and the reducer:   *)
(* what its stacks spell, and then what error recovery does to the         *)
(* diagnostics, the input and the values.                                  *)
(***************************************************************************)
EXTENDS LRParserLanguage, ProofLemmas

-----------------------------------------------------------------------------
(* Paths of an automaton. *)

\* The part of StackSound that concerns one pair of stacks.
Spells(T, st, vs) ==
  /\ Len(st) = Len(vs) + 1
  /\ \A i \in 1..Len(st) : \A item \in T.items[st[i]] :
       /\ item[2] < i
       /\ \A k \in 1..item[2] :
            /\ vs[i - k].sym = RhsOf(T, item)[item[2] - k + 1]
            /\ <<item[1], item[2] - k>> \in T.items[st[i - k]]

\* Dots are natural numbers.
LEMMA DotsAreNatural ==
  ASSUME NEW T, SoundTables(T), NEW s \in T.states, NEW item \in T.items[s]
  PROVE  /\ item[1] \in DOMAIN T.rules /\ RhsOf(T, item) \in Seq(STRING)
         /\ item[2] \in Nat /\ item[2] <= Len(RhsOf(T, item))
         /\ s = 0 => item[2] = 0
         /\ item[1] = 0 /\ item[2] = 0 => s = 0
         /\ item[2] = 0 /\ item[1] # 0 => T.rules[item[1]].lhs \in DOMAIN T.gotos[s]
<1>1. SoundItem(T, s, item)
  BY DEF SoundTables
<1>2. RhsOf(T, item) \in Seq(STRING)
  BY <1>1 DEF SoundItem, SoundTables, RhsOf
<1>3. Len(RhsOf(T, item)) \in Nat
  BY <1>2, LenProperties
<1> QED  BY <1>1, <1>2, <1>3 DEF SoundItem

\* The initial stacks spell nothing.
LEMMA SpellsInit ==
  ASSUME NEW T, SoundTables(T)
  PROVE  Spells(T, <<0>>, <<>>)
<1>1. \A item \in T.items[0] : item[2] = 0
  BY DotsAreNatural DEF SoundTables
<1> QED  BY <1>1 DEF Spells

\* Popping both stacks to a common height keeps a path.
LEMMA SpellsPrefix ==
  ASSUME NEW T, SoundTables(T), NEW V, NEW st \in Seq(T.states), NEW vs \in Seq(V),
         Spells(T, st, vs), NEW h \in 1..Len(st)
  PROVE  Spells(T, SubSeq(st, 1, h), SubSeq(vs, 1, h - 1))
<1> DEFINE p == SubSeq(st, 1, h)  q == SubSeq(vs, 1, h - 1)
<1>1. Len(st) \in Nat /\ Len(vs) \in Nat /\ Len(st) = Len(vs) + 1 /\ h \in Nat
  BY LenProperties DEF Spells
<1>2. Len(p) = h /\ \A i \in 1..h : p[i] = st[i]
  BY <1>1, PrefixFacts
<1>3. Len(q) = h - 1 /\ \A i \in 1..(h - 1) : q[i] = vs[i]
  BY <1>1, PrefixFacts
<1> HIDE DEF p, q
<1>4. ASSUME NEW i \in 1..h, NEW item \in T.items[st[i]], NEW k \in 1..item[2]
      PROVE  i - k \in 1..(h - 1)
  <2>1. item[2] \in Nat
    BY <1>1, ElementOfSeq, DotsAreNatural
  <2>2. item[2] < i
    BY <1>1 DEF Spells
  <2> QED  BY <1>1, <2>1, <2>2
<1>5. ASSUME NEW i \in 1..h, NEW item \in T.items[p[i]]
      PROVE  /\ item[2] < i
             /\ \A k \in 1..item[2] :
                  /\ q[i - k].sym = RhsOf(T, item)[item[2] - k + 1]
                  /\ <<item[1], item[2] - k>> \in T.items[p[i - k]]
  <2>1. item \in T.items[st[i]] /\ i \in 1..Len(st)
    BY <1>1, <1>2
  <2>2. /\ item[2] < i
        /\ \A k \in 1..item[2] :
             /\ vs[i - k].sym = RhsOf(T, item)[item[2] - k + 1]
             /\ <<item[1], item[2] - k>> \in T.items[st[i - k]]
    BY <2>1 DEF Spells
  <2>3. \A k \in 1..item[2] : p[i - k] = st[i - k] /\ q[i - k] = vs[i - k]
    BY <1>1, <1>2, <1>3, <1>4, <2>1
  <2> QED  BY <2>2, <2>3
<1>6. Spells(T, p, q)
  BY <1>1, <1>2, <1>3, <1>5 DEF Spells
<1> QED  BY <1>6 DEF p, q

\* Pushing a state that the top explains, with a value of the right symbol,
\* keeps a path.
LEMMA SpellsPush ==
  ASSUME NEW T, SoundTables(T), NEW V, NEW st \in Seq(T.states), NEW vs \in Seq(V),
         Spells(T, st, vs), NEW t \in T.states, NEW v \in V,
         Explains(T, st[Len(st)], v.sym, t)
  PROVE  Spells(T, Append(st, t), Append(vs, v))
<1> DEFINE p == Append(st, t)  q == Append(vs, v)  n == Len(st)
<1>1. n \in Nat /\ n > 0 /\ Len(vs) \in Nat /\ n = Len(vs) + 1
  BY LenProperties DEF Spells
<1>2. Len(p) = n + 1 /\ p[n + 1] = t /\ \A i \in 1..n : p[i] = st[i]
  BY PushFacts
<1>3. Len(q) = n /\ q[n] = v /\ \A i \in 1..(n - 1) : q[i] = vs[i]
  BY <1>1, PushFacts
<1>4. \A i \in 1..n : st[i] \in T.states
  BY ElementOfSeq
<1> HIDE DEF p, q
<1>5. ASSUME NEW i \in 1..n, NEW item \in T.items[p[i]]
      PROVE  /\ item[2] < i
             /\ \A k \in 1..item[2] :
                  /\ q[i - k].sym = RhsOf(T, item)[item[2] - k + 1]
                  /\ <<item[1], item[2] - k>> \in T.items[p[i - k]]
  <2>1. item \in T.items[st[i]] /\ item[2] \in Nat
    BY <1>1, <1>2, <1>4, DotsAreNatural
  <2>2. /\ item[2] < i
        /\ \A k \in 1..item[2] :
             /\ vs[i - k].sym = RhsOf(T, item)[item[2] - k + 1]
             /\ <<item[1], item[2] - k>> \in T.items[st[i - k]]
    BY <1>1, <2>1 DEF Spells
  <2>3. \A k \in 1..item[2] : i - k \in 1..(n - 1) /\ i - k \in 1..n
    BY <1>1, <2>1, <2>2
  <2>4. \A k \in 1..item[2] : p[i - k] = st[i - k] /\ q[i - k] = vs[i - k]
    BY <1>2, <1>3, <2>3
  <2> QED  BY <2>2, <2>4
<1>6. ASSUME NEW item \in T.items[t]
      PROVE  /\ item[2] < n + 1
             /\ \A k \in 1..item[2] :
                  /\ q[n + 1 - k].sym = RhsOf(T, item)[item[2] - k + 1]
                  /\ <<item[1], item[2] - k>> \in T.items[p[n + 1 - k]]
  <2>1. item[2] \in Nat
    BY DotsAreNatural
  <2>2. CASE item[2] = 0
    BY <1>1, <2>2
  <2>3. CASE item[2] > 0
    <3> DEFINE before == <<item[1], item[2] - 1>>
    <3>1. RhsOf(T, item)[item[2]] = v.sym /\ before \in T.items[st[n]]
      BY <2>3 DEF Explains
    <3>2. before[1] = item[1] /\ before[2] = item[2] - 1 /\ RhsOf(T, before) = RhsOf(T, item)
      BY DEF RhsOf
    <3> HIDE DEF before
    <3>3. /\ before[2] < n
          /\ \A k \in 1..before[2] :
               /\ vs[n - k].sym = RhsOf(T, before)[before[2] - k + 1]
               /\ <<before[1], before[2] - k>> \in T.items[st[n - k]]
      BY <1>1, <3>1 DEF Spells
    <3>4. item[2] < n + 1
      BY <1>1, <2>1, <3>2, <3>3
    <3>5. ASSUME NEW k \in 1..item[2]
          PROVE  /\ q[n + 1 - k].sym = RhsOf(T, item)[item[2] - k + 1]
                 /\ <<item[1], item[2] - k>> \in T.items[p[n + 1 - k]]
      <4>1. CASE k = 1
        <5>1. n + 1 - k = n /\ item[2] - k + 1 = item[2] /\ item[2] - k = item[2] - 1
          BY <1>1, <2>1, <4>1
        <5>2. p[n] = st[n]
          BY <1>1, <1>2
        <5>3. before = <<item[1], item[2] - k>>
          BY <4>1 DEF before
        <5> QED  BY <1>3, <3>1, <4>1, <5>1, <5>2, <5>3
      <4>2. CASE k > 1
        <5> DEFINE j == k - 1
        <5>1. /\ j \in 1..before[2] /\ n - j \in 1..(n - 1) /\ n - j \in 1..n /\ n + 1 - k = n - j
              /\ before[2] - j + 1 = item[2] - k + 1 /\ before[2] - j = item[2] - k
          BY <1>1, <2>1, <3>2, <3>4, <4>2, SMTT(30)
        <5> HIDE DEF j
        <5>2. p[n - j] = st[n - j] /\ q[n - j] = vs[n - j]
          BY <1>2, <1>3, <5>1
        <5> QED  BY <3>2, <3>3, <5>1, <5>2
      <4> QED  BY <2>1, <4>1, <4>2
    <3> QED  BY <3>4, <3>5
  <2> QED  BY <2>1, <2>2, <2>3
<1>7. ASSUME NEW i \in 1..(n + 1), NEW item \in T.items[p[i]]
      PROVE  /\ item[2] < i
             /\ \A k \in 1..item[2] :
                  /\ q[i - k].sym = RhsOf(T, item)[item[2] - k + 1]
                  /\ <<item[1], item[2] - k>> \in T.items[p[i - k]]
  <2>1. CASE i \in 1..n
    BY <1>5, <2>1
  <2>2. CASE i = n + 1
    BY <1>2, <1>6, <2>2
  <2> QED  BY <1>1, <2>1, <2>2
<1>8. Len(p) = Len(q) + 1
  BY <1>2, <1>3
<1>9. Spells(T, p, q)
  BY <1>2, <1>7, <1>8 DEF Spells
<1> QED  BY <1>9 DEF p, q

-----------------------------------------------------------------------------
(* The inductive invariant. *)

\* A buffered visible lookahead is one of the lexemes delivered.
CursorOK == ready /\ symbol # EOF => pulled # <<>>

TInv == TypeOK /\ CursorOK

\* StackSound, as a statement about the two stacks.
PathOK ==
  /\ states[1] = 0
  /\ status # "reducer error" => Spells(Table, states, values)

IInv == TInv /\ PathOK /\ NoInternalFailure

-----------------------------------------------------------------------------
(* Type correctness. *)

\* The running package's tables are sound and the stack's top is a state of it.
LEMMA TopFacts ==
  ASSUME TypeOK
  PROVE  /\ SoundTables(Table) /\ Table.states \subseteq Nat
         /\ Len(states) \in Nat \ {0} /\ Len(values) \in Nat
         /\ TopState \in Table.states /\ TopState \in Nat
         /\ \A i \in 1..Len(states) : states[i] \in Table.states
<1>1. SoundTables(Table) /\ Table.states \subseteq Nat
  BY TablesAreSound DEF TypeOK, Table, SoundTables
<1>2. Len(states) \in Nat \ {0} /\ Len(values) \in Nat
  BY EmptySeq, LenProperties DEF TypeOK
<1>3. \A i \in 1..Len(states) : states[i] \in Table.states
  BY ElementOfSeq DEF TypeOK
<1>4. Len(states) \in 1..Len(states)
  BY <1>2
<1> QED  BY <1>1, <1>2, <1>3, <1>4 DEF TopState, Top

\* The entry for a buffered lookahead is explained by the top state's items.
LEMMA ActionFacts ==
  ASSUME TypeOK, NEW s \in Table.states, NEW t \in DOMAIN Table.actions[s]
  PROVE  SoundAction(Table, s, t, Table.actions[s][t])
BY TopFacts DEF SoundTables

\* The position in the input is a natural number, and so are the spans made of it.
LEMMA SpanFacts ==
  ASSUME TInv
  PROVE  /\ Consumed \in Nat
         /\ LexemeValue \in Values /\ ErrorValue \in Values
         /\ \A kind \in {"shift-error", "recovered", "abort"} : Diagnosis(kind) \in Diagnostics
<1>1. Consumed \in Nat
  <2>1. Len(pulled) \in Nat /\ (pulled # <<>> => Len(pulled) > 0)
    BY EmptySeq, LenProperties DEF TInv, TypeOK
  <2> QED  BY <2>1 DEF Consumed, TInv, CursorOK
<1>2. symbol \in Lookaheads /\ shifted \in Nat /\ TopState \in Nat
  BY TopFacts DEF TInv, TypeOK
<1>3. LexemeValue \in Values /\ ErrorValue \in Values
  <2> DEFINE c == Consumed
  <2>1. c \in Nat /\ c + 1 \in Nat
    <3>1. c \in Nat
      BY <1>1
    <3> HIDE DEF c
    <3> QED  BY <3>1
  <2>2. LexemeValue \in Values
    BY <1>2, <2>1 DEF LexemeValue, Values, Symbols
  <2>3. ErrorValue \in Values
    BY <2>1 DEF ErrorValue, Values, Symbols
  <2> QED  BY <2>2, <2>3
<1>4. ASSUME NEW kind \in {"shift-error", "recovered", "abort"}
      PROVE  Diagnosis(kind) \in Diagnostics
  BY <1>1, <1>2 DEF Diagnosis, Diagnostics
<1> QED  BY <1>1, <1>3, <1>4

\* Settling or charging a diagnostic yields a diagnostic.
LEMMA DiagnosticUpdate ==
  ASSUME NEW seq \in Seq(Diagnostics), NEW i \in 1..Len(seq),
         NEW kind \in {"shift-error", "recovered", "abort"}
  PROVE  /\ [seq EXCEPT ![i].kind = kind] \in Seq(Diagnostics)
         /\ Len([seq EXCEPT ![i].kind = kind]) = Len(seq)
         /\ [seq EXCEPT ![i].discarded = @ + 1] \in Seq(Diagnostics)
         /\ Len([seq EXCEPT ![i].discarded = @ + 1]) = Len(seq)
<1>1. seq[i] \in Diagnostics
  BY ElementOfSeq
<1>2. [seq[i] EXCEPT !.kind = kind] \in Diagnostics
  BY <1>1 DEF Diagnostics
<1>3. [seq[i] EXCEPT !.discarded = @ + 1] \in Diagnostics
  <2>1. seq[i].discarded + 1 \in Nat
    BY <1>1 DEF Diagnostics
  <2> QED  BY <1>1, <2>1 DEF Diagnostics
<1>4. [seq EXCEPT ![i] = [seq[i] EXCEPT !.kind = kind]] \in Seq(Diagnostics)
      /\ Len([seq EXCEPT ![i] = [seq[i] EXCEPT !.kind = kind]]) = Len(seq)
  BY <1>2, ExceptSeq
<1>5. [seq EXCEPT ![i] = [seq[i] EXCEPT !.discarded = @ + 1]] \in Seq(Diagnostics)
      /\ Len([seq EXCEPT ![i] = [seq[i] EXCEPT !.discarded = @ + 1]]) = Len(seq)
  BY <1>3, ExceptSeq
<1> QED  BY <1>4, <1>5

\* What a table entry stands for, by its kind.
LEMMA ShiftFacts ==
  ASSUME TypeOK, ActionIs("shift")
  PROVE  symbol # EOF /\ Action.state \in Entered(Table)
         /\ Explains(Table, TopState, symbol, Action.state)
<1>1. SoundAction(Table, TopState, symbol, Action) /\ Action.kind = "shift"
  BY TopFacts, ActionFacts DEF ActionIs, HasAction, Action
<1> QED  BY <1>1 DEF SoundAction, SoundShift

\* A due reduction is by a rule whose completed item is in the top state.
LEMMA ReduceFacts ==
  ASSUME TypeOK, ActionIs("reduce")
  PROVE  /\ Action.rule \in DOMAIN Table.rules /\ Action.rule # 0
         /\ HandleSize \in Nat /\ Rule(Action.rule).lhs \in Symbols
         /\ <<Action.rule, HandleSize>> \in Table.items[TopState]
<1>1. SoundAction(Table, TopState, symbol, Action) /\ Action.kind = "reduce"
  BY TopFacts, ActionFacts DEF ActionIs, HasAction, Action
<1>2. SoundReduce(Table, TopState, Action)
  BY <1>1 DEF SoundAction
<1>3. Rule(Action.rule).rhs \in Seq(STRING)
  BY <1>2, TopFacts DEF SoundReduce, SoundTables, Rule
<1>4. HandleSize \in Nat
  BY <1>3, LenProperties DEF HandleSize
<1>5. Rule(Action.rule).lhs \in Symbols
  BY <1>2 DEF SoundReduce, Symbols
<1> QED  BY <1>2, <1>4, <1>5 DEF SoundReduce, HandleSize, Rule

\* A state that shifts `error' goes to one that its items explain.
LEMMA ErrorShiftFacts ==
  ASSUME TypeOK, NEW s \in Table.states, CanShiftError(s)
  PROVE  /\ Table.actions[s][Error].state \in Entered(Table)
         /\ Explains(Table, s, Error, Table.actions[s][Error].state)
<1>1. SoundAction(Table, s, Error, Table.actions[s][Error])
  BY ActionFacts DEF CanShiftError, HasAction
<1> QED  BY <1>1 DEF CanShiftError, SoundAction, SoundShift

\* What remains of the stacks below a handle that fits.
LEMMA KeptFacts ==
  ASSUME TypeOK, ActionIs("reduce"), HandleFits
  PROVE  /\ Drop(states, HandleSize) \in Seq(Table.states)
         /\ Len(Drop(states, HandleSize)) = Len(states) - HandleSize
         /\ Len(states) - HandleSize \in 1..Len(states)
         /\ Top(Drop(states, HandleSize)) = states[Len(states) - HandleSize]
         /\ Top(Drop(states, HandleSize)) \in Table.states
         /\ Drop(values, HandleSize) \in Seq(Values)
         /\ Len(Drop(values, HandleSize)) = Len(values) - HandleSize
         /\ Handle \in Seq(Values) /\ Len(Handle) = HandleSize
         /\ \A i \in 1..HandleSize : Handle[i] = values[Len(values) - HandleSize + i]
<1>1. /\ Len(states) - HandleSize \in 1..Len(states) /\ Len(states) - HandleSize \in 0..Len(states)
      /\ Len(states) - HandleSize \in 1..(Len(states) - HandleSize)
      /\ HandleSize \in 0..Len(values) /\ Len(values) - HandleSize \in 0..Len(values)
      /\ Len(states) \in Nat /\ Len(values) \in Nat
  BY TopFacts, ReduceFacts DEF HandleFits
<1>2. states \in Seq(Table.states) /\ values \in Seq(Values)
  BY DEF TypeOK
<1>3. /\ Drop(states, HandleSize) \in Seq(Table.states)
      /\ Len(Drop(states, HandleSize)) = Len(states) - HandleSize
      /\ Drop(states, HandleSize)[Len(states) - HandleSize] = states[Len(states) - HandleSize]
  BY <1>1, <1>2, PrefixFacts DEF Drop
<1>4. /\ Drop(values, HandleSize) \in Seq(Values)
      /\ Len(Drop(values, HandleSize)) = Len(values) - HandleSize
  BY <1>1, <1>2, PrefixFacts DEF Drop
<1>5. /\ Handle \in Seq(Values) /\ Len(Handle) = HandleSize
      /\ \A i \in 1..HandleSize : Handle[i] = values[Len(values) - HandleSize + i]
  BY <1>1, <1>2, SuffixFacts DEF Handle
<1> QED  BY <1>1, <1>3, <1>4, <1>5, TopFacts DEF Top

\* A reduction finds its handle on the stacks and the goto below it.
LEMMA ReduceSucceeds ==
  ASSUME TypeOK, PathOK, ActionIs("reduce")
  PROVE  /\ HandleFits
         /\ Rule(Action.rule).lhs \in DOMAIN Table.gotos[Top(Drop(states, HandleSize))]
         /\ \A i \in 1..HandleSize : Handle[i].sym = Rule(Action.rule).rhs[i]
<1> DEFINE r == Action.rule  n == HandleSize  m == Len(states)  item == <<r, n>>
<1>1. r \in DOMAIN Table.rules /\ r # 0 /\ n \in Nat /\ item \in Table.items[states[m]]
  BY ReduceFacts DEF TopState, Top
<1>2. Spells(Table, states, values)
  BY DEF PathOK, ActionIs, Deciding
<1>3. m \in Nat \ {0} /\ m \in 1..m /\ Len(values) \in Nat /\ m = Len(values) + 1
  BY <1>2, TopFacts DEF Spells
<1>4. item[1] = r /\ item[2] = n /\ RhsOf(Table, item) = Rule(r).rhs
  BY DEF RhsOf, Rule
<1>5. /\ item[2] < m
      /\ \A k \in 1..item[2] :
           /\ values[m - k].sym = RhsOf(Table, item)[item[2] - k + 1]
           /\ <<item[1], item[2] - k>> \in Table.items[states[m - k]]
  BY <1>1, <1>2, <1>3 DEF Spells
<1> HIDE DEF r, n, m, item
<1>6. n < m /\ n <= Len(values)
  BY <1>1, <1>3, <1>4, <1>5
<1>7. HandleFits
  BY <1>6 DEF HandleFits, n, m
<1>8. <<r, 0>> \in Table.items[states[m - n]]
  <2>1. CASE n = 0
    BY <1>1, <1>3, <2>1 DEF item
  <2>2. CASE n > 0
    <3>1. n \in 1..item[2] /\ item[2] - n = 0
      BY <1>1, <1>4, <2>2
    <3> QED  BY <1>4, <1>5, <3>1
  <2> QED  BY <1>1, <2>1, <2>2
<1>9. Top(Drop(states, n)) = states[m - n] /\ states[m - n] \in Table.states
  BY <1>7, KeptFacts DEF n, m
<1>10. Table.rules[r].lhs \in DOMAIN Table.gotos[states[m - n]]
  <2> DEFINE start == <<r, 0>>
  <2>1. start[1] = r /\ start[2] = 0
    OBVIOUS
  <2>2. start \in Table.items[states[m - n]]
    BY <1>8
  <2> HIDE DEF start
  <2> QED  BY <1>1, <1>9, <2>1, <2>2, TopFacts, DotsAreNatural
<1>11. ASSUME NEW i \in 1..n
       PROVE  Handle[i].sym = Rule(r).rhs[i]
  <2> DEFINE k == n - i + 1
  <2>1. k \in 1..item[2] /\ m - k = Len(values) - n + i /\ item[2] - k + 1 = i
    BY <1>1, <1>3, <1>4
  <2> HIDE DEF k
  <2>2. values[m - k].sym = RhsOf(Table, item)[item[2] - k + 1]
    BY <1>5, <2>1
  <2>3. Handle[i] = values[Len(values) - n + i]
    BY <1>7, KeptFacts DEF n
  <2> QED  BY <1>4, <2>1, <2>2, <2>3
<1> QED  BY <1>7, <1>9, <1>10, <1>11 DEF r, n, Rule

\* The value of a reduction is typed.
LEMMA ReducedFacts ==
  ASSUME TInv, NEW lhs \in Symbols, NEW handle \in Seq(Values)
  PROVE  Reduced(lhs, handle) \in Values
<1>1. Consumed \in Nat
  BY SpanFacts
<1>2. CASE handle = <<>>
  BY <1>1, <1>2 DEF Reduced, Values
<1>3. CASE handle # <<>>
  <2>1. handle[1] \in Values /\ Top(handle) \in Values
    <3>1. 1 \in 1..Len(handle) /\ Len(handle) \in 1..Len(handle)
      BY <1>3, EmptySeq, LenProperties
    <3> QED  BY <3>1, ElementOfSeq DEF Top
  <2> QED  BY <1>3, <2>1 DEF Reduced, Values
<1> QED  BY <1>2, <1>3

\* The bookkeeping of a real shift keeps counter, index and diagnostics typed.
LEMMA CountShiftFacts ==
  ASSUME TypeOK, CountShift
  PROVE  /\ recovering' \in 0..SyncShifts
         /\ diagnostics' \in Seq(Diagnostics) /\ active' \in 0..Len(diagnostics')
         /\ Len(diagnostics') = Len(diagnostics)
<1>1. diagnostics \in Seq(Diagnostics) /\ active \in 0..Len(diagnostics) /\ Len(diagnostics) \in Nat
  BY LenProperties DEF TypeOK
<1>2. recovering' \in 0..SyncShifts
  BY DEF CountShift, TypeOK, SyncShifts
<1>3. CASE recovering = 1 /\ active > 0
  <2>1. active \in 1..Len(diagnostics)
    BY <1>1, <1>3
  <2>2. diagnostics' = [diagnostics EXCEPT ![active].kind = "recovered"] /\ active' = 0
    BY <1>3 DEF CountShift
  <2>3. "recovered" \in {"shift-error", "recovered", "abort"}
    OBVIOUS
  <2>4. /\ [diagnostics EXCEPT ![active].kind = "recovered"] \in Seq(Diagnostics)
        /\ Len([diagnostics EXCEPT ![active].kind = "recovered"]) = Len(diagnostics)
    BY <1>1, <2>1, <2>3, DiagnosticUpdate
  <2> QED  BY <1>1, <1>2, <2>2, <2>4
<1>4. CASE ~(recovering = 1 /\ active > 0)
  BY <1>1, <1>2, <1>4 DEF CountShift
<1> QED  BY <1>3, <1>4

\* It is enough to type the variables by the sets of the state before.
LEMMA TypeStep ==
  ASSUME TInv, lang' = lang, status' \in {"new", "running"} \cup Finished,
         states' \in Seq(Table.states), states' # <<>>, values' \in Seq(Values),
         recovering' \in 0..SyncShifts,
         diagnostics' \in Seq(Diagnostics), active' \in 0..Len(diagnostics'),
         ready' \in BOOLEAN, sawEOF' \in BOOLEAN,
         symbol' \in Lookaheads, pulled' \in Seq(Lookaheads), shifted' \in Nat, CursorOK'
  PROVE  TInv'
<1>1. Table' = Table /\ lang' \in DOMAIN Tables
  BY DEF Table, TInv, TypeOK
<1>2. Lookaheads' = Lookaheads /\ Symbols' = Symbols
  BY <1>1 DEF Lookaheads, Symbols, Rule
<1>3. Values' = Values /\ Diagnostics' = Diagnostics
  BY <1>2 DEF Values, Diagnostics
<1> QED  BY <1>1, <1>2, <1>3 DEF TInv, TypeOK

\* The variables are typed before the loop.
LEMMA TypeInit == Init => TInv
<1> SUFFICES ASSUME Init PROVE TInv
  OBVIOUS
<1>1. lang \in DOMAIN Tables /\ SoundTables(Table)
  BY TablesAreSound DEF Init, Table
<1>2. states \in Seq(Table.states) /\ states # <<>> /\ values \in Seq(Values)
  <2>1. states = <<0>> /\ values = <<>> /\ 0 \in Table.states
    BY <1>1 DEF Init, SoundTables
  <2>2. <<0>> \in Seq(Table.states)
    BY <2>1, SingletonFacts
  <2> QED  BY <2>1, <2>2, EmptySeq
<1>3. diagnostics \in Seq(Diagnostics) /\ active \in 0..Len(diagnostics)
  <2>1. diagnostics = <<>> /\ active = 0
    BY DEF Init
  <2> QED  BY <2>1, EmptySeq
<1>4. symbol \in Lookaheads /\ pulled \in Seq(Lookaheads)
  BY EmptySeq DEF Init, Lookaheads
<1>5. status \in {"new", "running"} \cup Finished
  BY DEF Init
<1>6. ready \in BOOLEAN /\ sawEOF \in BOOLEAN /\ shifted \in Nat /\ CursorOK
  BY DEF Init, CursorOK
<1>7. recovering \in 0..SyncShifts
  BY DEF Init, SyncShifts
<1> QED  BY <1>1, <1>2, <1>3, <1>4, <1>5, <1>6, <1>7 DEF TInv, TypeOK

\* Every action preserves the type invariant.
LEMMA TypeNext == IInv /\ [Next]_vars => TInv'
<1> SUFFICES ASSUME TInv, PathOK, [Next]_vars PROVE TInv'
  BY DEF IInv
<1> USE DEF cursor, stack, report
<1>0. /\ lang \in DOMAIN Tables /\ status \in {"new", "running"} \cup Finished
      /\ states \in Seq(Table.states) /\ states # <<>> /\ values \in Seq(Values)
      /\ recovering \in 0..SyncShifts
      /\ diagnostics \in Seq(Diagnostics) /\ active \in 0..Len(diagnostics)
      /\ ready \in BOOLEAN /\ sawEOF \in BOOLEAN
      /\ symbol \in Lookaheads /\ pulled \in Seq(Lookaheads) /\ shifted \in Nat /\ CursorOK
      /\ Len(diagnostics) \in Nat /\ TypeOK
  BY LenProperties DEF TInv, TypeOK
<1>1. CASE Begin
  <2>1. status' \in {"new", "running"} \cup Finished
    BY <1>1 DEF Begin, Finished, Errors
  <2> QED  BY <1>0, <1>1, <2>1, TypeStep DEF Begin, CursorOK
<1>2. CASE PeekLexeme
  <2>1. PICK t \in Table.terminals \cup {Unknown} : symbol' = t /\ pulled' = Append(pulled, t)
    BY <1>2 DEF PeekLexeme
  <2>2. symbol' \in Lookaheads /\ pulled' \in Seq(Lookaheads) /\ pulled' # <<>>
    BY <1>0, <2>1, AppendProperties DEF Lookaheads
  <2> QED  BY <1>0, <1>2, <2>2, TypeStep DEF PeekLexeme, CursorOK
<1>3. CASE PeekEnd
  <2>1. symbol' \in Lookaheads /\ symbol' = EOF
    BY <1>3 DEF PeekEnd, Lookaheads
  <2> QED  BY <1>0, <1>3, <2>1, TypeStep DEF PeekEnd, CursorOK
<1>4. CASE PeekFails
  <2>1. status' \in {"new", "running"} \cup Finished
    BY <1>4 DEF PeekFails, Finished, Errors
  <2> QED  BY <1>0, <1>4, <2>1, TypeStep DEF PeekFails, CursorOK
<1>5. CASE Shift
  <2>1. ActionIs("shift") /\ symbol # EOF
    BY <1>0, <1>5, ShiftFacts DEF Shift
  <2>2. states' = Append(states, Action.state) /\ values' = Append(values, LexemeValue)
    BY <1>5, <2>1 DEF Shift
  <2>3. CountShift /\ ready' = FALSE /\ shifted' = shifted + 1
        /\ UNCHANGED <<status, lang, symbol, sawEOF, pulled>>
    BY <1>5, <2>1 DEF Shift
  <2>4. states' \in Seq(Table.states) /\ states' # <<>>
    <3>1. Action.state \in Table.states
      BY <1>0, <2>1, ShiftFacts DEF Entered
    <3> QED  BY <1>0, <2>2, <3>1, PushFacts, ZenonT(60)
  <2>5. values' \in Seq(Values)
    BY <1>0, <2>2, SpanFacts, AppendProperties
  <2>6. shifted' \in Nat /\ CursorOK'
    BY <1>0, <2>3 DEF CursorOK
  <2> QED  BY <1>0, <2>3, <2>4, <2>5, <2>6, CountShiftFacts, TypeStep
<1>6. CASE Reduce
  <2> DEFINE kept == Drop(states, HandleSize)  lhs == Rule(Action.rule).lhs
  <2>1. ActionIs("reduce")
    BY <1>6 DEF Reduce
  <2>2. HandleFits /\ lhs \in DOMAIN Table.gotos[Top(kept)]
    BY <1>0, <2>1, ReduceSucceeds
  <2>3. /\ states' = Append(kept, Table.gotos[Top(kept)][lhs])
        /\ values' = Append(Drop(values, HandleSize), Reduced(lhs, Handle))
        /\ UNCHANGED <<lang, status, report, ready, shifted, symbol, sawEOF, pulled>>
    BY <1>6, <2>2 DEF Reduce
  <2>4. /\ kept \in Seq(Table.states) /\ Top(kept) \in Table.states
        /\ Drop(values, HandleSize) \in Seq(Values) /\ Handle \in Seq(Values)
    BY <1>0, <2>1, <2>2, KeptFacts
  <2>5. Table.gotos[Top(kept)][lhs] \in Table.states
    BY <1>0, <2>2, <2>4, TopFacts DEF SoundTables, Entered
  <2>6. Reduced(lhs, Handle) \in Values
    BY <1>0, <2>1, <2>4, ReduceFacts, ReducedFacts
  <2> HIDE DEF kept, lhs
  <2>7. states' \in Seq(Table.states) /\ states' # <<>>
    BY <2>3, <2>4, <2>5, PushFacts, ZenonT(60)
  <2>8. values' \in Seq(Values)
    BY <2>3, <2>4, <2>6, AppendProperties
  <2>9. CursorOK'
    BY <1>0, <2>3 DEF CursorOK
  <2> QED  BY <1>0, <2>3, <2>7, <2>8, <2>9, TypeStep
<1>7. CASE ReducerFails
  <2>1. /\ ActionIs("reduce") /\ HandleFits
        /\ status' = "reducer error" /\ values' = Drop(values, HandleSize)
        /\ UNCHANGED <<lang, states, report, cursor, shifted>>
    BY <1>7 DEF ReducerFails
  <2>2. values' \in Seq(Values)
    BY <1>0, <2>1, KeptFacts
  <2>3. status' \in {"new", "running"} \cup Finished /\ CursorOK'
    BY <1>0, <2>1 DEF Finished, Errors, CursorOK
  <2> QED  BY <1>0, <2>1, <2>2, <2>3, TypeStep
<1>8. CASE Accept
  <2>1. status' \in {"new", "running"} \cup Finished /\ CursorOK'
    BY <1>0, <1>8 DEF Accept, Finished, CursorOK
  <2>2. diagnostics' \in Seq(Diagnostics) /\ Len(diagnostics') = Len(diagnostics)
    <3>1. "recovered" \in {"shift-error", "recovered", "abort"}
      OBVIOUS
    <3>2. active > 0 => active \in 1..Len(diagnostics)
      BY <1>0
    <3> QED  BY <1>0, <1>8, <3>1, <3>2, DiagnosticUpdate DEF Accept
  <2> QED  BY <1>0, <1>8, <2>1, <2>2, TypeStep DEF Accept
<1>9. CASE ShiftError
  <2>1. PICK h \in 1..Len(states) :
          /\ StopsAt(h)
          /\ states' = Append(SubSeq(states, 1, h), Table.actions[states[h]][Error].state)
          /\ values' = Append(SubSeq(values, 1, h - 1), ErrorValue)
    BY <1>9 DEF ShiftError
  <2>2. /\ recovering' = SyncShifts /\ active' = Len(diagnostics) + 1
        /\ diagnostics' = Append(diagnostics, Diagnosis("shift-error"))
        /\ UNCHANGED <<lang, status, cursor, shifted>>
    BY <1>9 DEF ShiftError
  <2>3. states' \in Seq(Table.states) /\ states' # <<>>
    <3>1. states[h] \in Table.states /\ CanShiftError(states[h])
      BY <1>0, <2>1, TopFacts DEF StopsAt, RecoveryHeights
    <3>2. SubSeq(states, 1, h) \in Seq(Table.states)
      <4>1. h \in 0..Len(states)
        BY <1>0, TopFacts
      <4> QED  BY <1>0, <4>1, PrefixFacts
    <3>3. Table.actions[states[h]][Error].state \in Table.states
      BY <1>0, <3>1, ErrorShiftFacts DEF Entered
    <3> DEFINE p == SubSeq(states, 1, h)  to == Table.actions[states[h]][Error].state
    <3>4. states' = Append(p, to) /\ p \in Seq(Table.states) /\ to \in Table.states
      BY <2>1, <3>2, <3>3
    <3> HIDE DEF p, to
    <3> QED  BY <3>4, PushFacts
  <2>4. values' \in Seq(Values)
    <3>1. h - 1 \in 0..Len(values)
      BY <1>0, <1>9, TopFacts DEF ShiftError, MissingAction, Deciding, PathOK, Spells
    <3>2. SubSeq(values, 1, h - 1) \in Seq(Values)
      BY <1>0, <3>1, PrefixFacts
    <3> QED  BY <1>0, <2>1, <3>2, SpanFacts, AppendProperties
  <2>5. diagnostics' \in Seq(Diagnostics) /\ active' \in 0..Len(diagnostics')
    <3>1. "shift-error" \in {"shift-error", "recovered", "abort"}
      OBVIOUS
    <3>2. Diagnosis("shift-error") \in Diagnostics
      BY <3>1, SpanFacts
    <3>3. diagnostics' \in Seq(Diagnostics) /\ Len(diagnostics') = Len(diagnostics) + 1
      BY <1>0, <2>2, <3>2, AppendProperties
    <3> QED  BY <1>0, <2>2, <3>3
  <2>6. recovering' \in 0..SyncShifts /\ CursorOK'
    BY <1>0, <2>2 DEF SyncShifts, CursorOK
  <2> QED  BY <1>0, <2>2, <2>3, <2>4, <2>5, <2>6, TypeStep
<1>10. CASE Abort
  <2>1. /\ status' = "aborted" /\ states' = <<states[1]>> /\ values' = <<>>
        /\ diagnostics' = Append(diagnostics, Diagnosis("abort"))
        /\ active' = Len(diagnostics) + 1
        /\ UNCHANGED <<lang, recovering, cursor, shifted>>
    BY <1>10 DEF Abort
  <2>2. states' \in Seq(Table.states) /\ states' # <<>> /\ values' \in Seq(Values)
    <3>1. states[1] \in Table.states
      BY <1>0, TopFacts
    <3> QED  BY <2>1, <3>1, SingletonFacts, EmptySeq
  <2>3. diagnostics' \in Seq(Diagnostics) /\ active' \in 0..Len(diagnostics')
    <3>1. "abort" \in {"shift-error", "recovered", "abort"}
      OBVIOUS
    <3>2. Diagnosis("abort") \in Diagnostics
      BY <3>1, SpanFacts
    <3>3. diagnostics' \in Seq(Diagnostics) /\ Len(diagnostics') = Len(diagnostics) + 1
      BY <1>0, <2>1, <3>2, AppendProperties
    <3> QED  BY <1>0, <2>1, <3>3
  <2>4. status' \in {"new", "running"} \cup Finished /\ CursorOK'
    BY <1>0, <2>1 DEF Finished, CursorOK
  <2> QED  BY <1>0, <2>1, <2>2, <2>3, <2>4, TypeStep
<1>11. CASE Discard
  <2>1. diagnostics' \in Seq(Diagnostics) /\ Len(diagnostics') = Len(diagnostics)
    <3>1. "recovered" \in {"shift-error", "recovered", "abort"}
      OBVIOUS
    <3>2. active > 0 => active \in 1..Len(diagnostics)
      BY <1>0
    <3> QED  BY <1>0, <1>11, <3>1, <3>2, DiagnosticUpdate DEF Discard
  <2>2. CursorOK'
    BY <1>11 DEF Discard, CursorOK
  <2> QED  BY <1>0, <1>11, <2>1, <2>2, TypeStep DEF Discard
<1>12. CASE AbortAtEnd
  <2>1. diagnostics' \in Seq(Diagnostics) /\ Len(diagnostics') = Len(diagnostics)
    <3>1. "abort" \in {"shift-error", "recovered", "abort"}
      OBVIOUS
    <3>2. active > 0 => active \in 1..Len(diagnostics)
      BY <1>0
    <3> QED  BY <1>0, <1>12, <3>1, <3>2, DiagnosticUpdate DEF AbortAtEnd
  <2>2. status' \in {"new", "running"} \cup Finished /\ CursorOK'
    BY <1>0, <1>12 DEF AbortAtEnd, Finished, CursorOK
  <2> QED  BY <1>0, <1>12, <2>1, <2>2, TypeStep DEF AbortAtEnd
<1>13. CASE UNCHANGED vars
  <2>1. CursorOK'
    BY <1>0, <1>13 DEF vars, CursorOK
  <2> QED  BY <1>0, <1>13, <2>1, TypeStep DEF vars
<1> QED
  BY <1>1, <1>2, <1>3, <1>4, <1>5, <1>6, <1>7, <1>8, <1>9, <1>10, <1>11, <1>12, <1>13
     DEF Next, Peek, Act, Recover

-----------------------------------------------------------------------------
(* The stacks spell a path of the automaton. *)

\* The initial stacks are a path: state 0 and nothing on it.
LEMMA PathInit == Init => PathOK
<1> SUFFICES ASSUME Init PROVE PathOK
  OBVIOUS
<1>1. SoundTables(Table) /\ states = <<0>> /\ values = <<>>
  BY TablesAreSound DEF Init, Table
<1>2. states[1] = 0
  BY <1>1
<1> QED  BY <1>1, <1>2, SpellsInit DEF PathOK

\* Every action preserves the path: the ones that leave the stacks alone, the
\* two pushes, the reduction and the two recovery pops.
LEMMA PathNext == IInv /\ [Next]_vars => PathOK'
<1> SUFFICES ASSUME TInv, PathOK, [Next]_vars PROVE PathOK'
  BY DEF IInv
<1> USE DEF cursor, stack, report
<1>0. /\ TypeOK /\ SoundTables(Table) /\ Len(states) \in Nat \ {0} /\ states[1] = 0
      /\ states \in Seq(Table.states) /\ values \in Seq(Values)
  BY TopFacts DEF TInv, TypeOK, PathOK
<1>1. ASSUME UNCHANGED <<lang, states, values>>,
             status # "reducer error" \/ status' = status
      PROVE  PathOK'
  BY <1>1 DEF PathOK, Table
<1>2. ASSUME status = "running" \/ ActionIs("reduce")
      PROVE  Spells(Table, states, values)
  BY <1>2 DEF PathOK, ActionIs, Deciding
<1>3. ASSUME lang' = lang, states'[1] = 0, Spells(Table, states', values')
      PROVE  PathOK'
  BY <1>3 DEF PathOK, Table
<1>4. CASE Begin \/ PeekLexeme \/ PeekEnd \/ PeekFails
  BY <1>1, <1>4 DEF Begin, PeekLexeme, PeekEnd, PeekFails, Peeking
<1>5. CASE Accept \/ Discard \/ AbortAtEnd
  BY <1>1, <1>5 DEF Accept, ActionIs, Discard, AbortAtEnd, MissingAction, Deciding
<1>6. CASE Shift
  <2>1. ActionIs("shift") /\ symbol # EOF /\ status = "running"
    BY <1>0, <1>6, ShiftFacts DEF Shift, ActionIs, Deciding
  <2>2. states' = Append(states, Action.state) /\ values' = Append(values, LexemeValue) /\ lang' = lang
    BY <1>6, <2>1 DEF Shift
  <2>3. /\ Action.state \in Table.states /\ LexemeValue \in Values
        /\ Explains(Table, states[Len(states)], LexemeValue.sym, Action.state)
    BY <1>0, <2>1, ShiftFacts, SpanFacts DEF Entered, TopState, Top, LexemeValue
  <2>4. Spells(Table, states', values')
    BY <1>0, <1>2, <2>1, <2>2, <2>3, SpellsPush
  <2>5. states'[1] = 0
    BY <1>0, <2>2, <2>3, PushFacts
  <2> QED  BY <1>3, <2>2, <2>4, <2>5
<1>7. CASE Reduce
  <2> DEFINE h == Len(states) - HandleSize  lhs == Rule(Action.rule).lhs  to == Table.gotos[states[h]][lhs]
             v == Reduced(lhs, Handle)  p == SubSeq(states, 1, h)  q == SubSeq(values, 1, h - 1)
  <2>1. ActionIs("reduce") /\ HandleFits /\ lang' = lang
        /\ lhs \in DOMAIN Table.gotos[Top(Drop(states, HandleSize))]
    BY <1>0, <1>7, ReduceSucceeds DEF Reduce
  <2>2. Top(Drop(states, HandleSize)) = states[h] /\ states[h] \in Table.states /\ h \in 1..Len(states)
    BY <1>0, <2>1, KeptFacts
  <2>3. Spells(Table, states, values) /\ Len(values) - HandleSize = h - 1 /\ h - 1 \in 0..Len(values)
    <3>1. HandleSize \in Nat /\ Len(values) \in Nat
      BY <1>0, <2>1, ReduceFacts, TopFacts
    <3>2. Spells(Table, states, values) /\ Len(states) = Len(values) + 1
      BY <1>2, <2>1 DEF Spells
    <3> QED  BY <1>0, <2>2, <3>1, <3>2
  <2>4. states' = Append(p, to) /\ values' = Append(q, v)
    BY <1>7, <2>1, <2>2, <2>3 DEF Reduce, Drop
  <2>5. /\ to \in Table.states /\ v \in Values /\ v.sym = lhs
        /\ Explains(Table, states[h], lhs, to)
    <3>1. to \in Table.states /\ Explains(Table, states[h], lhs, to)
      BY <1>0, <2>1, <2>2 DEF SoundTables, Entered
    <3>2. v \in Values /\ v.sym = lhs
      BY <1>0, <2>1, ReduceFacts, KeptFacts, ReducedFacts DEF Reduced
    <3> QED  BY <3>1, <3>2
  <2> HIDE DEF h, lhs, to, v
  <2>6. Spells(Table, p, q)
    BY <1>0, <2>2, <2>3, SpellsPrefix
  <2>7. /\ p \in Seq(Table.states) /\ q \in Seq(Values) /\ Len(p) = h /\ h \in Nat
        /\ p[h] = states[h] /\ p[1] = 0 /\ 1 \in 1..h
    <3>1. h \in 0..Len(states) /\ h \in 1..h /\ 1 \in 1..h /\ h \in Nat
      BY <1>0, <2>2
    <3> QED  BY <1>0, <2>3, <3>1, PrefixFacts, ZenonT(60)
  <2> HIDE DEF p, q
  <2>8. Spells(Table, states', values')
    BY <1>0, <2>4, <2>5, <2>6, <2>7, SpellsPush
  <2>9. states'[1] = 0
    BY <2>4, <2>5, <2>7, PushFacts
  <2> QED  BY <1>3, <2>1, <2>8, <2>9
<1>8. CASE ReducerFails
  BY <1>0, <1>8 DEF ReducerFails, PathOK
<1>9. CASE ShiftError
  <2>1. PICK h \in 1..Len(states) :
          /\ StopsAt(h)
          /\ states' = Append(SubSeq(states, 1, h), Table.actions[states[h]][Error].state)
          /\ values' = Append(SubSeq(values, 1, h - 1), ErrorValue)
    BY <1>9 DEF ShiftError
  <2> DEFINE to == Table.actions[states[h]][Error].state
             p == SubSeq(states, 1, h)  q == SubSeq(values, 1, h - 1)
  <2>2. lang' = lang /\ Spells(Table, states, values) /\ Len(values) = Len(states) - 1
    <3>1. lang' = lang /\ status = "running"
      BY <1>9 DEF ShiftError, MissingAction, Deciding
    <3>2. Spells(Table, states, values)
      BY <1>2, <3>1
    <3>3. Len(states) = Len(values) + 1
      BY <3>2 DEF Spells
    <3> QED  BY <1>0, <3>1, <3>2, <3>3, TopFacts
  <2>3. to \in Table.states /\ Explains(Table, states[h], Error, to)
    <3>1. states[h] \in Table.states /\ CanShiftError(states[h])
      BY <1>0, <2>1, TopFacts DEF StopsAt, RecoveryHeights
    <3> QED  BY <1>0, <3>1, ErrorShiftFacts DEF Entered
  <2>4. ErrorValue \in Values /\ ErrorValue.sym = Error
    BY SpanFacts DEF ErrorValue
  <2> HIDE DEF to
  <2>5. Spells(Table, p, q)
    BY <1>0, <2>2, SpellsPrefix
  <2>6. /\ p \in Seq(Table.states) /\ q \in Seq(Values) /\ Len(p) = h /\ h \in Nat
        /\ p[h] = states[h] /\ p[1] = 0 /\ 1 \in 1..h
    <3>1. h \in 0..Len(states) /\ h \in 1..h /\ 1 \in 1..h /\ h \in Nat /\ h - 1 \in 0..Len(values)
      BY <1>0, <2>2
    <3> QED  BY <1>0, <3>1, PrefixFacts, ZenonT(60)
  <2>7. states' = Append(p, to) /\ values' = Append(q, ErrorValue)
    BY <2>1 DEF to
  <2> HIDE DEF p, q
  <2>8. Spells(Table, states', values')
    BY <1>0, <2>3, <2>4, <2>5, <2>6, <2>7, SpellsPush
  <2>9. states'[1] = 0
    BY <2>3, <2>6, <2>7, PushFacts
  <2> QED  BY <1>3, <2>2, <2>8, <2>9
<1>10. CASE Abort
  <2>1. states' = <<0>> /\ values' = <<>> /\ lang' = lang
    BY <1>0, <1>10 DEF Abort
  <2>2. states'[1] = 0
    BY <2>1
  <2> QED  BY <1>0, <1>3, <2>1, <2>2, SpellsInit
<1>11. CASE UNCHANGED vars
  BY <1>1, <1>11 DEF vars
<1> QED
  BY <1>4, <1>5, <1>6, <1>7, <1>8, <1>9, <1>10, <1>11 DEF Next, Peek, Act, Recover

\* The error returns of the parser itself are never taken.
LEMMA NoInternalFailureNext == IInv /\ [Next]_vars => NoInternalFailure'
<1> SUFFICES ASSUME TypeOK, PathOK, NoInternalFailure, [Next]_vars PROVE NoInternalFailure'
  BY DEF IInv, TInv
<1> USE DEF cursor, stack, report, NoInternalFailure, InternalErrors
<1>1. CASE Begin \/ PeekLexeme \/ PeekEnd \/ PeekFails
  BY <1>1 DEF Begin, PeekLexeme, PeekEnd, PeekFails, SourceErrors
<1>2. CASE Shift
  <2>1. symbol # EOF
    BY <1>2, ShiftFacts DEF Shift
  <2> QED  BY <1>2, <2>1 DEF Shift
<1>3. CASE Reduce
  <2>1. /\ HandleFits
        /\ Rule(Action.rule).lhs \in DOMAIN Table.gotos[Top(Drop(states, HandleSize))]
    BY <1>3, ReduceSucceeds DEF Reduce
  <2>2. status' = status
    BY <1>3, <2>1 DEF Reduce
  <2> QED  BY <2>2
<1>4. CASE ReducerFails \/ Accept \/ ShiftError \/ Abort \/ Discard \/ AbortAtEnd
  BY <1>4 DEF ReducerFails, Accept, ShiftError, Abort, Discard, AbortAtEnd
<1>5. CASE UNCHANGED vars
  BY <1>5 DEF vars
<1> QED  BY <1>1, <1>2, <1>3, <1>4, <1>5 DEF Next, Peek, Act, Recover

\* The inductive invariant holds in every reachable state.
LEMMA Invariance == Spec => []IInv
<1>1. Init => IInv
  BY TypeInit, PathInit DEF IInv, Init, NoInternalFailure, InternalErrors
<1>2. IInv /\ [Next]_vars => IInv'
  BY TypeNext, PathNext, NoInternalFailureNext DEF IInv
<1> QED  BY <1>1, <1>2, PTL DEF Spec

-----------------------------------------------------------------------------

\* The variables keep the types TypeOK gives them, for every set of sound tables.
THEOREM TypeCorrect == Spec => []TypeOK
<1>1. IInv => TypeOK
  BY DEF IInv, TInv
<1> QED  BY <1>1, Invariance, PTL

\* The stacks are a path of the automaton in every reachable state, whatever
\* recovery popped: for every set of sound tables and every input.
THEOREM StacksAreSound == Spec => []StackSound
<1>1. IInv => StackSound
  BY DEF IInv, PathOK, Spells, StackSound
<1> QED  BY <1>1, Invariance, PTL

\* A due reduction finds exactly its right-hand side on the value stack.
THEOREM ReducersSeeTheirRHS == Spec => []ReducerSeesRHS
<1>1. IInv => ReducerSeesRHS
  BY ReduceSucceeds DEF IInv, TInv, ReducerSeesRHS
<1> QED  BY <1>1, Invariance, PTL

\* "stack underflow", "missing goto" and "shift past end" are never returned.
THEOREM InternalFailuresAreDead == Spec => []NoInternalFailure
<1>1. IInv => NoInternalFailure
  BY DEF IInv
<1> QED  BY <1>1, Invariance, PTL

-----------------------------------------------------------------------------
(* The position in the input. *)

\* A lookahead that is buffered or looked for does not move the position.
LEMMA ConsumedKept ==
  ASSUME TInv, ready' = ready, symbol' = symbol, pulled' = pulled
  PROVE  Consumed' = Consumed
BY DEF Consumed

\* Neither does the answer of the source.
LEMMA PeekKeepsPosition ==
  ASSUME TInv, PeekLexeme \/ PeekEnd \/ PeekFails
  PROVE  Consumed' = Consumed
<1>0. Len(pulled) \in Nat /\ pulled \in Seq(Lookaheads) /\ SoundTables(Table)
  BY LenProperties, TopFacts DEF TInv, TypeOK
<1>1. CASE PeekLexeme
  <2>1. PICK t \in Table.terminals \cup {Unknown} : symbol' = t /\ pulled' = Append(pulled, t)
    BY <1>1 DEF PeekLexeme
  <2>2. t # EOF /\ t \in Lookaheads
    BY <1>0, <2>1 DEF SoundTables, EOF, Unknown, Lookaheads
  <2>3. Len(pulled') = Len(pulled) + 1
    BY <1>0, <2>1, <2>2, PushFacts
  <2>4. ready = FALSE /\ ready' = TRUE
    BY <1>1 DEF PeekLexeme, Peeking, TInv, TypeOK
  <2> QED  BY <1>0, <2>1, <2>2, <2>3, <2>4 DEF Consumed
<1>2. CASE PeekEnd
  BY <1>0, <1>2 DEF PeekEnd, Peeking, Consumed, TInv, TypeOK
<1>3. CASE PeekFails
  BY <1>3 DEF PeekFails, cursor, Consumed
<1> QED  BY <1>1, <1>2, <1>3

\* A lexeme that leaves the cursor is one step in the input.
LEMMA LexemeLeaves ==
  ASSUME TInv, ready = TRUE, symbol # EOF, ready' = FALSE, UNCHANGED <<symbol, pulled>>
  PROVE  Consumed' = Consumed + 1
<1>1. Len(pulled) \in Nat
  BY LenProperties DEF TInv, TypeOK
<1> QED  BY <1>1 DEF Consumed

-----------------------------------------------------------------------------
(* The list of diagnostics. *)

\* The fields of a diagnostic are numbers.
LEMMA DiagnosticFields ==
  ASSUME TypeOK
  PROVE  /\ Len(diagnostics) \in Nat
         /\ diagnostics = <<>> <=> Len(diagnostics) = 0
         /\ \A i \in 1..Len(diagnostics) :
              /\ diagnostics[i] \in Diagnostics
              /\ diagnostics[i].start \in Nat /\ diagnostics[i].shifts \in Nat
              /\ diagnostics[i].discarded \in Nat
<1>1. diagnostics \in Seq(Diagnostics)
  BY DEF TypeOK
<1>2. Len(diagnostics) \in Nat /\ (diagnostics = <<>> <=> Len(diagnostics) = 0)
  BY <1>1, EmptySeq, LenProperties
<1>3. \A i \in 1..Len(diagnostics) : diagnostics[i] \in Diagnostics
  BY <1>1, ElementOfSeq
<1> QED  BY <1>2, <1>3 DEF Diagnostics

\* Settling a diagnostic changes its kind and nothing else.
LEMMA SettleFacts ==
  ASSUME NEW seq \in Seq(Diagnostics), NEW n \in 1..Len(seq), NEW kind, NEW new,
         new = [seq EXCEPT ![n].kind = kind]
  PROVE  /\ Len(new) = Len(seq)
         /\ \A i \in 1..Len(seq) :
              /\ new[i].start = seq[i].start /\ new[i].shifts = seq[i].shifts
              /\ new[i].discarded = seq[i].discarded
              /\ new[i].kind = IF i = n THEN kind ELSE seq[i].kind
              /\ i # n => new[i] = seq[i]
<1>1. /\ DOMAIN seq = 1..Len(seq) /\ Len(seq) \in Nat
      /\ \A i \in 1..Len(seq) : seq[i] \in Diagnostics
  BY ElementOfSeq, LenProperties
<1>2. DOMAIN new = 1..Len(seq) /\ Len(new) = Len(seq)
  <2>1. new = [seq EXCEPT ![n] = [seq[n] EXCEPT !.kind = kind]]
    OBVIOUS
  <2>2. new \in Seq({[seq[n] EXCEPT !.kind = kind]} \cup Diagnostics)
    <3>1. seq \in Seq({[seq[n] EXCEPT !.kind = kind]} \cup Diagnostics)
      BY <1>1
    <3> QED  BY <2>1, <3>1, ExceptSeq
  <2> QED  BY <1>1, <2>1, <2>2, LenProperties
<1>3. new[n] = [seq[n] EXCEPT !.kind = kind] /\ \A i \in 1..Len(seq) : i # n => new[i] = seq[i]
  BY <1>1
<1>4. /\ new[n].start = seq[n].start /\ new[n].shifts = seq[n].shifts
      /\ new[n].discarded = seq[n].discarded /\ new[n].kind = kind
  BY <1>1, <1>3 DEF Diagnostics
<1> QED  BY <1>2, <1>3, <1>4

\* Charging a diagnostic with a discarded lexeme changes that number and nothing
\* else.
LEMMA ChargeFacts ==
  ASSUME NEW seq \in Seq(Diagnostics), NEW n \in 1..Len(seq), NEW new,
         new = [seq EXCEPT ![n].discarded = @ + 1]
  PROVE  /\ Len(new) = Len(seq)
         /\ \A i \in 1..Len(seq) :
              /\ new[i].start = seq[i].start /\ new[i].shifts = seq[i].shifts
              /\ new[i].kind = seq[i].kind
              /\ new[i].discarded = IF i = n THEN seq[n].discarded + 1 ELSE seq[i].discarded
              /\ i # n => new[i] = seq[i]
<1>1. /\ DOMAIN seq = 1..Len(seq) /\ Len(seq) \in Nat
      /\ \A i \in 1..Len(seq) : seq[i] \in Diagnostics
  BY ElementOfSeq, LenProperties
<1>2. Len(new) = Len(seq)
  <2>1. "recovered" \in {"shift-error", "recovered", "abort"}
    OBVIOUS
  <2> QED  BY <2>1, DiagnosticUpdate
<1>3. /\ new[n] = [seq[n] EXCEPT !.discarded = @ + 1]
      /\ \A i \in 1..Len(seq) : i # n => new[i] = seq[i]
  BY <1>1
<1>4. /\ new[n].start = seq[n].start /\ new[n].shifts = seq[n].shifts
      /\ new[n].kind = seq[n].kind /\ new[n].discarded = seq[n].discarded + 1
  BY <1>1, <1>3 DEF Diagnostics
<1> QED  BY <1>2, <1>3, <1>4

-----------------------------------------------------------------------------
(* Diagnostics are apart, and they account for the lexemes.                *)

\* Before the loop nothing was read, reported or pushed.
Fresh ==
  status = "new" => /\ values = <<>> /\ diagnostics = <<>> /\ pulled = <<>>
                    /\ active = 0 /\ recovering = 0 /\ shifted = 0 /\ ready = FALSE

\* The inductive invariant of the diagnostics.
ReportInv == Fresh /\ RecoveryWindow /\ LexemesAccounted

\* A step that touches neither the counters nor the position, and that does not
\* return to the time before the loop.
LEMMA ReportKept ==
  ASSUME TInv, ReportInv, UNCHANGED <<recovering, active, diagnostics, shifted>>,
         Consumed' = Consumed, status' # "new",
         status' = "running" => status \in {"new", "running"}
  PROVE  ReportInv'
<1>1. Fresh'
  BY DEF Fresh
<1>2. LexemesAccounted'
  BY DEF ReportInv, LexemesAccounted, Top
<1>3. RecoveryWindow'
  <2>1. CASE status' = "running" /\ status = "new"
    <3>1. /\ recovering' = 0 /\ active' = 0 /\ diagnostics' = <<>> /\ Len(diagnostics') = 0
          /\ shifted' = 0
      BY <2>1, DiagnosticFields DEF ReportInv, Fresh, TInv
    <3> QED  BY <3>1 DEF RecoveryWindow
  <2>2. CASE ~(status' = "running" /\ status = "new")
    BY <2>2 DEF ReportInv, RecoveryWindow, Top
  <2> QED  BY <2>1, <2>2
<1> QED  BY <1>1, <1>2, <1>3 DEF ReportInv

\* Settling the diagnostic being recovered from at the end of the call.
LEMMA ReportSettled ==
  ASSUME TInv, ReportInv, status = "running", status' \notin {"new", "running"},
         NEW kind,
         diagnostics' = IF active > 0 THEN [diagnostics EXCEPT ![active].kind = kind] ELSE diagnostics,
         UNCHANGED <<recovering, active, shifted>>, Consumed' = Consumed
  PROVE  ReportInv'
<1>1. CASE active > 0
  <2> DEFINE n == Len(diagnostics)
  <2>1. active \in 1..n /\ diagnostics \in Seq(Diagnostics) /\ n \in Nat
    BY <1>1, DiagnosticFields DEF TInv, TypeOK
  <2>2. /\ Len(diagnostics') = n
        /\ \A i \in 1..n : /\ diagnostics'[i].start = diagnostics[i].start
                           /\ diagnostics'[i].shifts = diagnostics[i].shifts
                           /\ diagnostics'[i].discarded = diagnostics[i].discarded
    BY <1>1, <2>1, SettleFacts
  <2>3. diagnostics # <<>> /\ diagnostics' # <<>>
    BY <2>1, <2>2, EmptySeq
  <2> HIDE DEF n
  <2>4. n \in 1..n /\ 1 \in 1..n /\ \A i \in 1..(n - 1) : i \in 1..n /\ i + 1 \in 1..n
    BY <2>1
  <2>5. LexemesAccounted'
    BY <2>2, <2>3, <2>4 DEF ReportInv, LexemesAccounted, Top, n
  <2>6. RecoveryWindow'
    BY <2>1, <2>2, <2>3, <2>4 DEF ReportInv, RecoveryWindow, n
  <2> QED  BY <2>5, <2>6 DEF ReportInv, Fresh
<1>2. CASE ~(active > 0)
  BY <1>2, ReportKept
<1> QED  BY <1>1, <1>2

\* A new diagnostic: where it is the first, nothing was discarded before; where
\* it is not, the one before is settled and three shifts away.
LEMMA ReportAppended ==
  ASSUME TInv, ReportInv, status = "running", recovering = 0,
         NEW kind \in {"shift-error", "recovered", "abort"},
         diagnostics' = Append(diagnostics, Diagnosis(kind)), active' = Len(diagnostics) + 1,
         shifted' = shifted, Consumed' = Consumed,
         \/ recovering' = SyncShifts /\ status' = "running" /\ kind = "shift-error"
         \/ recovering' = 0 /\ status' = "aborted"
  PROVE  ReportInv'
<1> DEFINE n == Len(diagnostics)  d == Diagnosis(kind)
<1>1. /\ n \in Nat /\ diagnostics \in Seq(Diagnostics)
      /\ diagnostics = <<>> <=> n = 0
      /\ shifted \in Nat /\ Consumed \in Nat
  BY DiagnosticFields, SpanFacts DEF TInv, TypeOK
<1>2. d \in Diagnostics
  BY SpanFacts
<1>3. /\ Len(diagnostics') = n + 1 /\ diagnostics'[n + 1] = d /\ diagnostics' # <<>>
      /\ \A i \in 1..n : diagnostics'[i] = diagnostics[i]
  BY <1>1, <1>2, PushFacts
<1>4. /\ d.kind = kind /\ d.start = Consumed /\ d.discarded = 0 /\ d.shifts = shifted
  BY DEF Diagnosis
<1>5. active = 0
  BY <1>1 DEF ReportInv, RecoveryWindow, TInv, TypeOK
<1>6. \A i \in 1..n : diagnostics[i].shifts \in Nat /\ diagnostics[i].start \in Nat
                      /\ diagnostics[i].discarded \in Nat /\ diagnostics[i].kind = "recovered"
  BY <1>5, DiagnosticFields DEF ReportInv, RecoveryWindow, TInv
<1>7. n > 0 => /\ shifted >= diagnostics[n].shifts + SyncShifts
               /\ Consumed = diagnostics[n].start + diagnostics[n].discarded
                               + (shifted - diagnostics[n].shifts)
  BY <1>1 DEF ReportInv, RecoveryWindow, LexemesAccounted, Top
<1>8. n = 0 => Consumed = shifted
  BY <1>1 DEF ReportInv, LexemesAccounted
<1>9. n > 0 => diagnostics[1].start = diagnostics[1].shifts
  BY <1>1 DEF ReportInv, LexemesAccounted
<1>10. \A i \in 1..(n - 1) :
         /\ diagnostics[i + 1].start = diagnostics[i].start + diagnostics[i].discarded
                                         + (diagnostics[i + 1].shifts - diagnostics[i].shifts)
         /\ diagnostics[i + 1].shifts >= diagnostics[i].shifts + SyncShifts
  BY DEF ReportInv, LexemesAccounted, RecoveryWindow
<1> HIDE DEF n, d
<1>11. \A i \in 1..n :
         /\ diagnostics'[i + 1].start = diagnostics'[i].start + diagnostics'[i].discarded
                                          + (diagnostics'[i + 1].shifts - diagnostics'[i].shifts)
         /\ diagnostics'[i + 1].shifts >= diagnostics'[i].shifts + SyncShifts
  <2>1. ASSUME NEW i \in 1..n
        PROVE  /\ diagnostics'[i + 1].start = diagnostics'[i].start + diagnostics'[i].discarded
                                                + (diagnostics'[i + 1].shifts - diagnostics'[i].shifts)
               /\ diagnostics'[i + 1].shifts >= diagnostics'[i].shifts + SyncShifts
    <3>1. CASE i = n
      BY <1>1, <1>3, <1>4, <1>7, <3>1
    <3>2. CASE i < n
      <4>1. i \in 1..(n - 1) /\ i + 1 \in 1..n
        BY <1>1, <3>2
      <4> QED  BY <1>3, <1>10, <4>1
    <3>3. i = n \/ i < n
      BY <1>1
    <3> QED  BY <3>1, <3>2, <3>3
  <2> QED  BY <2>1
<1>12. diagnostics'[1].start = diagnostics'[1].shifts
  <2>1. CASE n = 0
    BY <1>3, <1>4, <1>8, <2>1
  <2>2. CASE n > 0
    BY <1>1, <1>3, <1>9, <2>2
  <2> QED  BY <1>1, <2>1, <2>2
<1>13. LexemesAccounted'
  <2>1. Consumed' = d.start + d.discarded + (shifted' - d.shifts)
    BY <1>1, <1>4
  <2> QED  BY <1>1, <1>3, <1>11, <1>12, <2>1, SMTT(30) DEF LexemesAccounted, Top
<1>14. RecoveryWindow'
  <2>1. active' = n + 1 /\ active' = Len(diagnostics') /\ active' > 0
    BY <1>1, <1>3 DEF n
  <2>2. recovering' > 0 => shifted' = diagnostics'[active'].shifts + (SyncShifts - recovering')
    BY <1>1, <1>3, <1>4, <2>1 DEF SyncShifts
  <2>3. status' = "running" =>
          \A i \in 1..Len(diagnostics') :
             diagnostics'[i].kind = IF i = active' THEN "shift-error" ELSE "recovered"
    BY <1>1, <1>3, <1>4, <1>6, <2>1
  <2>4. Len(diagnostics') - 1 = n
    BY <1>1, <1>3
  <2> QED  BY <1>11, <2>1, <2>2, <2>3, <2>4 DEF RecoveryWindow, SyncShifts
<1> QED  BY <1>13, <1>14 DEF ReportInv, Fresh

\* A real shift, which may be the last one recovery waits for.
LEMMA ReportShifted ==
  ASSUME TInv, ReportInv, status = "running", UNCHANGED status, CountShift,
         shifted' = shifted + 1, Consumed' = Consumed + 1
  PROVE  ReportInv'
<1> DEFINE n == Len(diagnostics)
<1>1. /\ n \in Nat /\ diagnostics \in Seq(Diagnostics)
      /\ diagnostics = <<>> <=> n = 0
      /\ shifted \in Nat /\ Consumed \in Nat /\ recovering \in 0..3 /\ active \in 0..n
      /\ \A i \in 1..n : diagnostics[i].shifts \in Nat /\ diagnostics[i].start \in Nat
                         /\ diagnostics[i].discarded \in Nat
  BY DiagnosticFields, SpanFacts DEF TInv, TypeOK, SyncShifts
<1>2. /\ active > 0 <=> recovering > 0
      /\ recovering > 0 => active = n /\ shifted = diagnostics[n].shifts + (3 - recovering)
  BY DEF ReportInv, RecoveryWindow, SyncShifts
<1>3. /\ Len(diagnostics') = n
      /\ \A i \in 1..n : /\ diagnostics'[i].start = diagnostics[i].start
                         /\ diagnostics'[i].shifts = diagnostics[i].shifts
                         /\ diagnostics'[i].discarded = diagnostics[i].discarded
                         /\ diagnostics'[i].kind = IF recovering = 1 /\ i = active
                                                     THEN "recovered" ELSE diagnostics[i].kind
      /\ active' = IF recovering = 1 THEN 0 ELSE active
  <2>1. CASE recovering = 1
    <3>1. active \in 1..n /\ active > 0
      BY <1>1, <1>2, <2>1
    <3>2. diagnostics' = [diagnostics EXCEPT ![active].kind = "recovered"] /\ active' = 0
      BY <2>1, <3>1 DEF CountShift
    <3> QED  BY <1>1, <2>1, <3>1, <3>2, SettleFacts
  <2>2. CASE recovering # 1
    BY <2>2 DEF CountShift
  <2> QED  BY <2>1, <2>2
<1>4. recovering' = IF recovering > 0 THEN recovering - 1 ELSE 0
  BY DEF CountShift
<1>5. diagnostics' = <<>> <=> n = 0
  <2>1. diagnostics' \in Seq(Diagnostics)
    BY CountShiftFacts DEF TInv
  <2> QED  BY <1>3, <2>1, EmptySeq, LenProperties
<1> HIDE DEF n
<1>6. n > 0 => n \in 1..n /\ 1 \in 1..n
  BY <1>1
<1>7. \A i \in 1..(n - 1) : i \in 1..n /\ i + 1 \in 1..n
  BY <1>1
<1>8. LexemesAccounted'
  <2>1. n = 0 => Consumed' = shifted'
    BY <1>1 DEF ReportInv, LexemesAccounted
  <2>2. ASSUME n > 0
        PROVE  /\ Consumed' = diagnostics'[n].start + diagnostics'[n].discarded
                                + (shifted' - diagnostics'[n].shifts)
               /\ diagnostics'[1].start = diagnostics'[1].shifts
    <3>1. /\ Consumed = diagnostics[n].start + diagnostics[n].discarded
                          + (shifted - diagnostics[n].shifts)
          /\ diagnostics[1].start = diagnostics[1].shifts
      BY <1>1, <2>2 DEF ReportInv, LexemesAccounted, Top, n
    <3>2. /\ diagnostics'[n].start = diagnostics[n].start
          /\ diagnostics'[n].shifts = diagnostics[n].shifts
          /\ diagnostics'[n].discarded = diagnostics[n].discarded
          /\ diagnostics'[1].start = diagnostics[1].start
          /\ diagnostics'[1].shifts = diagnostics[1].shifts
      BY <1>3, <1>6, <2>2
    <3>3. /\ diagnostics[n].start \in Nat /\ diagnostics[n].discarded \in Nat
          /\ diagnostics[n].shifts \in Nat /\ shifted \in Nat /\ Consumed \in Nat
      BY <1>1, <1>6, <2>2
    <3>4. Consumed + 1 = diagnostics[n].start + diagnostics[n].discarded
                           + ((shifted + 1) - diagnostics[n].shifts)
      BY <3>1, <3>3
    <3> QED  BY <3>1, <3>2, <3>4
  <2>3. \A i \in 1..(n - 1) :
          diagnostics'[i + 1].start = diagnostics'[i].start + diagnostics'[i].discarded
                                        + (diagnostics'[i + 1].shifts - diagnostics'[i].shifts)
    BY <1>3, <1>7 DEF ReportInv, LexemesAccounted, n
  <2> QED  BY <1>1, <1>3, <1>5, <2>1, <2>2, <2>3 DEF LexemesAccounted, Top
<1>9. RecoveryWindow'
  <2>1. recovering' > 0 => /\ active' = n /\ active' > 0
                           /\ shifted' = diagnostics'[active'].shifts + (SyncShifts - recovering')
    BY <1>1, <1>2, <1>3, <1>4, <1>6 DEF SyncShifts
  <2>2. active' > 0 <=> recovering' > 0
    BY <1>1, <1>2, <1>3, <1>4
  <2>3. \A i \in 1..n : diagnostics'[i].kind = IF i = active' THEN "shift-error" ELSE "recovered"
    <3>1. \A i \in 1..n : diagnostics[i].kind = IF i = active THEN "shift-error" ELSE "recovered"
      BY DEF ReportInv, RecoveryWindow, n
    <3> QED  BY <1>1, <1>3, <3>1
  <2>4. recovering' = 0 /\ n > 0 => shifted' >= diagnostics'[n].shifts + SyncShifts
    <3>1. recovering = 0 /\ n > 0 => shifted >= diagnostics[n].shifts + SyncShifts
      BY <1>1 DEF ReportInv, RecoveryWindow, Top, n
    <3> QED  BY <1>1, <1>2, <1>3, <1>4, <1>6, <3>1 DEF SyncShifts
  <2>5. \A i \in 1..(n - 1) : diagnostics'[i + 1].shifts >= diagnostics'[i].shifts + SyncShifts
    BY <1>3, <1>7 DEF ReportInv, RecoveryWindow, n
  <2> QED  BY <1>1, <1>3, <1>5, <2>1, <2>2, <2>3, <2>4, <2>5 DEF RecoveryWindow, Top
<1> QED  BY <1>8, <1>9 DEF ReportInv, Fresh

\* A discarded lexeme is charged to the diagnostic being recovered from.
LEMMA ReportCharged ==
  ASSUME TInv, ReportInv, status = "running", recovering > 0,
         diagnostics' = [diagnostics EXCEPT ![active].discarded = @ + 1],
         UNCHANGED <<status, recovering, active, shifted>>, Consumed' = Consumed + 1
  PROVE  ReportInv'
<1> DEFINE n == Len(diagnostics)
<1>1. /\ n \in Nat /\ diagnostics \in Seq(Diagnostics)
      /\ shifted \in Nat /\ Consumed \in Nat /\ n \in 1..n /\ 1 \in 1..n /\ active = n
      /\ \A i \in 1..n : diagnostics[i].shifts \in Nat /\ diagnostics[i].start \in Nat
                         /\ diagnostics[i].discarded \in Nat
      /\ \A i \in 1..(n - 1) : i \in 1..n /\ i # n /\ i + 1 \in 1..n
  BY DiagnosticFields, SpanFacts DEF TInv, TypeOK, ReportInv, RecoveryWindow
<1>2. /\ Len(diagnostics') = n
      /\ \A i \in 1..n :
           /\ diagnostics'[i].start = diagnostics[i].start
           /\ diagnostics'[i].shifts = diagnostics[i].shifts
           /\ diagnostics'[i].kind = diagnostics[i].kind
           /\ diagnostics'[i].discarded = IF i = n THEN diagnostics[n].discarded + 1
                                                   ELSE diagnostics[i].discarded
  BY <1>1, ChargeFacts
<1>3. diagnostics # <<>> /\ diagnostics' # <<>>
  BY <1>1, <1>2, EmptySeq
<1>4. LexemesAccounted'
  <2>1. /\ Consumed = diagnostics[n].start + diagnostics[n].discarded
                        + (shifted - diagnostics[n].shifts)
        /\ diagnostics[1].start = diagnostics[1].shifts
        /\ \A i \in 1..(n - 1) :
             diagnostics[i + 1].start = diagnostics[i].start + diagnostics[i].discarded
                                          + (diagnostics[i + 1].shifts - diagnostics[i].shifts)
    BY <1>3 DEF ReportInv, LexemesAccounted, Top
  <2> HIDE DEF n
  <2>2. /\ Consumed' = diagnostics'[n].start + diagnostics'[n].discarded
                         + (shifted' - diagnostics'[n].shifts)
        /\ diagnostics'[1].start = diagnostics'[1].shifts
    BY <1>1, <1>2, <2>1, SMTT(30)
  <2>3. \A i \in 1..(n - 1) :
          diagnostics'[i + 1].start = diagnostics'[i].start + diagnostics'[i].discarded
                                        + (diagnostics'[i + 1].shifts - diagnostics'[i].shifts)
    BY <1>1, <1>2, <2>1
  <2> QED  BY <1>2, <1>3, <2>2, <2>3 DEF LexemesAccounted, Top
<1>5. RecoveryWindow'
  BY <1>1, <1>2, <1>3 DEF ReportInv, RecoveryWindow, Top
<1> QED  BY <1>4, <1>5 DEF ReportInv, Fresh

\* Every action preserves the invariant of the diagnostics.
LEMMA ReportNext == IInv /\ ReportInv /\ [Next]_vars => ReportInv'
<1> SUFFICES ASSUME TInv, PathOK, ReportInv, [Next]_vars PROVE ReportInv'
  BY DEF IInv
<1> USE DEF cursor, stack, report
<1>0. /\ ready \in BOOLEAN /\ active \in 0..Len(diagnostics) /\ recovering \in 0..SyncShifts
      /\ Len(diagnostics) \in Nat /\ TypeOK
  BY DiagnosticFields DEF TInv, TypeOK
<1>1. CASE Begin
  <2>1. Consumed' = Consumed
    BY <1>1, ConsumedKept DEF Begin
  <2> QED  BY <1>1, <2>1, ReportKept DEF Begin
<1>2. CASE PeekLexeme \/ PeekEnd \/ PeekFails
  <2>1. Consumed' = Consumed
    BY <1>2, PeekKeepsPosition
  <2> QED  BY <1>2, <2>1, ReportKept DEF PeekLexeme, PeekEnd, PeekFails, Peeking, SourceErrors
<1>3. CASE Shift
  <2>1. symbol # EOF /\ ready = TRUE /\ status = "running"
    BY <1>0, <1>3, ShiftFacts DEF Shift, ActionIs, Deciding
  <2>2. /\ CountShift /\ shifted' = shifted + 1 /\ ready' = FALSE
        /\ UNCHANGED <<status, symbol, pulled>>
    BY <1>3, <2>1 DEF Shift
  <2>3. Consumed' = Consumed + 1
    BY <2>1, <2>2, LexemeLeaves
  <2> QED  BY <2>1, <2>2, <2>3, ReportShifted
<1>4. CASE Reduce
  <2>1. /\ HandleFits /\ ActionIs("reduce")
        /\ Rule(Action.rule).lhs \in DOMAIN Table.gotos[Top(Drop(states, HandleSize))]
    BY <1>0, <1>4, ReduceSucceeds DEF Reduce
  <2>2. UNCHANGED <<status, report, cursor, shifted>>
    BY <1>4, <2>1 DEF Reduce
  <2>3. Consumed' = Consumed
    BY <2>2, ConsumedKept
  <2> QED  BY <2>1, <2>2, <2>3, ReportKept DEF ActionIs, Deciding
<1>5. CASE ReducerFails
  <2>1. Consumed' = Consumed
    BY <1>5, ConsumedKept DEF ReducerFails
  <2> QED  BY <1>5, <2>1, ReportKept DEF ReducerFails
<1>6. CASE Accept
  <2>1. Consumed' = Consumed
    BY <1>6, ConsumedKept DEF Accept
  <2> QED  BY <1>6, <2>1, ReportSettled DEF Accept, ActionIs, Deciding
<1>7. CASE ShiftError
  <2>1. Consumed' = Consumed
    BY <1>7, ConsumedKept DEF ShiftError
  <2> QED  BY <1>7, <2>1, ReportAppended DEF ShiftError, MissingAction, Deciding
<1>8. CASE Abort
  <2>1. Consumed' = Consumed
    BY <1>8, ConsumedKept DEF Abort
  <2> QED  BY <1>8, <2>1, ReportAppended DEF Abort, MissingAction, Deciding
<1>9. CASE Discard
  <2>1. /\ status = "running" /\ recovering > 0 /\ ready = TRUE /\ symbol # EOF
        /\ ready' = FALSE /\ UNCHANGED <<status, recovering, active, symbol, pulled, shifted>>
    BY <1>0, <1>9 DEF Discard, MissingAction, Deciding
  <2>2. active > 0
    BY <2>1 DEF ReportInv, RecoveryWindow
  <2>3. diagnostics' = [diagnostics EXCEPT ![active].discarded = @ + 1]
    BY <1>9, <2>2 DEF Discard
  <2>4. Consumed' = Consumed + 1
    BY <2>1, LexemeLeaves
  <2> QED  BY <2>1, <2>3, <2>4, ReportCharged
<1>10. CASE AbortAtEnd
  <2>1. Consumed' = Consumed
    BY <1>10, ConsumedKept DEF AbortAtEnd
  <2> QED  BY <1>10, <2>1, ReportSettled DEF AbortAtEnd, MissingAction, Deciding
<1>11. CASE UNCHANGED vars
  <2>1. Consumed' = Consumed
    BY <1>11, ConsumedKept DEF vars
  <2> QED  BY <1>11, <2>1 DEF vars, ReportInv, Fresh, RecoveryWindow, LexemesAccounted, Top
<1> QED
  BY <1>1, <1>2, <1>3, <1>4, <1>5, <1>6, <1>7, <1>8, <1>9, <1>10, <1>11
     DEF Next, Peek, Act, Recover

\* The diagnostics are apart, and account for the lexemes, in every reachable
\* state.
LEMMA ReportInvariance == Spec => [](IInv /\ ReportInv)
<1>1. Init => ReportInv
  <2> SUFFICES ASSUME Init PROVE ReportInv
    OBVIOUS
  <2>1. /\ diagnostics = <<>> /\ Len(diagnostics) = 0 /\ recovering = 0 /\ active = 0
        /\ shifted = 0 /\ pulled = <<>> /\ Len(pulled) = 0 /\ ready = FALSE /\ status = "new"
        /\ values = <<>>
    BY DEF Init
  <2> QED  BY <2>1 DEF ReportInv, Fresh, RecoveryWindow, LexemesAccounted, Consumed
<1> QED  BY <1>1, ReportNext, Invariance, PTL DEF Spec

\* No lexeme is lost or counted twice: what left the cursor was shifted, or some
\* diagnostic reports it as discarded, whatever recovery did.
THEOREM EveryLexemeIsAccounted == Spec => []LexemesAccounted
<1>1. IInv /\ ReportInv => LexemesAccounted
  BY DEF ReportInv
<1> QED  BY <1>1, ReportInvariance, PTL

\* Diagnostics do not cascade: any two are three real shifts apart.
THEOREM ErrorsDoNotCascade == Spec => []RecoveryWindow
<1>1. IInv /\ ReportInv => RecoveryWindow
  BY DEF ReportInv
<1> QED  BY <1>1, ReportInvariance, PTL

\* Every step appends a diagnostic, or changes the one being recovered from, or
\* leaves the list alone.
LEMMA SettlesNext == IInv /\ ReportInv /\ [Next]_vars => [Settles]_vars
<1> SUFFICES ASSUME TInv, PathOK, ReportInv, Next PROVE Settles
  BY DEF IInv
<1> USE DEF cursor, stack, report
<1>0. /\ active \in 0..Len(diagnostics) /\ Len(diagnostics) \in Nat /\ TypeOK
      /\ diagnostics \in Seq(Diagnostics)
      /\ \A i \in 1..Len(diagnostics) : diagnostics[i].discarded \in Nat
  BY DiagnosticFields DEF TInv, TypeOK
<1>1. ASSUME diagnostics' = diagnostics
      PROVE  Settles
  BY <1>0, <1>1 DEF Settles
<1>2. ASSUME NEW kind \in {"shift-error", "recovered", "abort"},
             diagnostics' = Append(diagnostics, Diagnosis(kind))
      PROVE  Settles
  <2>1. Diagnosis(kind) \in Diagnostics
    BY SpanFacts
  <2>2. /\ Len(diagnostics') = Len(diagnostics) + 1
        /\ \A i \in 1..Len(diagnostics) : diagnostics'[i] = diagnostics[i]
    BY <1>0, <1>2, <2>1, PushFacts
  <2> QED  BY <1>0, <2>2 DEF Settles
<1>3. ASSUME status = "running", active > 0
      PROVE  active = Len(diagnostics) /\ active \in 1..Len(diagnostics)
             /\ diagnostics[active].kind = "shift-error"
  BY <1>0, <1>3 DEF ReportInv, RecoveryWindow
<1>4. ASSUME status = "running", active > 0, NEW kind,
             diagnostics' = [diagnostics EXCEPT ![active].kind = kind]
      PROVE  Settles
  <2>1. /\ active = Len(diagnostics) /\ active \in 1..Len(diagnostics)
        /\ diagnostics[active].kind = "shift-error"
    BY <1>3, <1>4
  <2>2. /\ Len(diagnostics') = Len(diagnostics)
        /\ \A i \in 1..Len(diagnostics) :
             /\ diagnostics'[i].start = diagnostics[i].start
             /\ diagnostics'[i].discarded = diagnostics[i].discarded
             /\ i # active => diagnostics'[i] = diagnostics[i]
    BY <1>0, <1>4, <2>1, SettleFacts
  <2> QED  BY <1>0, <2>1, <2>2 DEF Settles
<1>5. CASE Begin \/ PeekLexeme \/ PeekEnd \/ PeekFails \/ ReducerFails
  BY <1>1, <1>5 DEF Begin, PeekLexeme, PeekEnd, PeekFails, ReducerFails
<1>6. CASE Shift
  <2>1. symbol # EOF /\ status = "running"
    BY <1>0, <1>6, ShiftFacts DEF Shift, ActionIs, Deciding
  <2>2. CountShift
    BY <1>6, <2>1 DEF Shift
  <2>3. CASE recovering = 1 /\ active > 0
    BY <1>4, <2>1, <2>2, <2>3 DEF CountShift
  <2>4. CASE ~(recovering = 1 /\ active > 0)
    BY <1>1, <2>2, <2>4 DEF CountShift
  <2> QED  BY <2>3, <2>4
<1>7. CASE Reduce
  <2>1. diagnostics' = diagnostics
    BY <1>7 DEF Reduce, Fail
  <2> QED  BY <1>1, <2>1
<1>8. CASE Accept
  <2>1. status = "running"
    BY <1>8 DEF Accept, ActionIs, Deciding
  <2> QED  BY <1>1, <1>4, <1>8, <2>1 DEF Accept
<1>9. CASE ShiftError
  BY <1>2, <1>9 DEF ShiftError
<1>10. CASE Abort
  BY <1>2, <1>10 DEF Abort
<1>11. CASE Discard
  <2>1. status = "running" /\ recovering > 0
    BY <1>11 DEF Discard, MissingAction, Deciding
  <2>2. active > 0
    BY <2>1 DEF ReportInv, RecoveryWindow
  <2>3. diagnostics' = [diagnostics EXCEPT ![active].discarded = @ + 1]
    BY <1>11, <2>2 DEF Discard
  <2>4. /\ active = Len(diagnostics) /\ active \in 1..Len(diagnostics)
        /\ diagnostics[active].kind = "shift-error"
    BY <1>3, <2>1, <2>2
  <2>5. /\ Len(diagnostics') = Len(diagnostics)
        /\ \A i \in 1..Len(diagnostics) :
             /\ diagnostics'[i].start = diagnostics[i].start
             /\ i # active => diagnostics'[i] = diagnostics[i]
        /\ diagnostics'[active].discarded = diagnostics[active].discarded + 1
    BY <1>0, <2>3, <2>4, ChargeFacts
  <2> QED  BY <1>0, <2>4, <2>5 DEF Settles
<1>12. CASE AbortAtEnd
  <2>1. status = "running"
    BY <1>12 DEF AbortAtEnd, MissingAction, Deciding
  <2> QED  BY <1>1, <1>4, <1>12, <2>1 DEF AbortAtEnd
<1> QED
  BY <1>5, <1>6, <1>7, <1>8, <1>9, <1>10, <1>11, <1>12 DEF Next, Peek, Act, Recover

\* What was reported stays reported: of the diagnostics only the one being
\* recovered from changes, and only until it is settled.
THEOREM ReportsAreFinal == Spec => DiagnosticsSettle
<1>1. [](IInv /\ ReportInv) /\ [][Next]_vars => [][Settles]_vars
  BY SettlesNext, PTL
<1> QED  BY <1>1, ReportInvariance, PTL DEF Spec, DiagnosticsSettle

-----------------------------------------------------------------------------
(* The values cover the input.                                             *)

\* ValuesInOrder for any two values instead of neighbours, and the position the
\* i-th value has to start from.
EndBefore(vs, i) == IF i = 1 THEN 0 ELSE vs[i - 1].to
Ascending(vs, c) ==
  /\ \A i \in 1..Len(vs) : vs[i].from <= vs[i].to /\ vs[i].to <= c
  /\ \A i, j \in 1..Len(vs) : i < j => vs[i].to <= vs[j].from
Gapless(vs, c) ==
  /\ \A i \in 1..Len(vs) : vs[i].from = EndBefore(vs, i)
  /\ EndBefore(vs, Len(vs) + 1) = c

\* Popping keeps the order.
LEMMA AscendingPrefix ==
  ASSUME NEW vs \in Seq(Values), NEW c \in Nat, Ascending(vs, c), NEW h \in 0..Len(vs)
  PROVE  Ascending(SubSeq(vs, 1, h), c)
<1>1. /\ Len(SubSeq(vs, 1, h)) = h
      /\ \A i \in 1..h : SubSeq(vs, 1, h)[i] = vs[i] /\ i \in 1..Len(vs)
  <2>1. Len(vs) \in Nat
    BY LenProperties
  <2> QED  BY <2>1, PrefixFacts
<1> QED  BY <1>1 DEF Ascending

\* So does pushing a value behind all others.
LEMMA AscendingPush ==
  ASSUME NEW vs \in Seq(Values), NEW c \in Nat, Ascending(vs, c), NEW v \in Values, NEW d \in Nat,
         \A i \in 1..Len(vs) : vs[i].to <= v.from, v.from <= v.to, v.to <= d, c <= d
  PROVE  Ascending(Append(vs, v), d)
<1> DEFINE p == Append(vs, v)  n == Len(vs)
<1>1. /\ n \in Nat /\ Len(p) = n + 1 /\ p[n + 1] = v
      /\ \A i \in 1..n : p[i] = vs[i] /\ vs[i].to \in Nat
  <2>1. \A i \in 1..n : vs[i] \in Values
    BY ElementOfSeq
  <2> QED  BY <2>1, PushFacts, LenProperties DEF Values
<1> HIDE DEF p
<1>2. \A i \in 1..(n + 1) : p[i].from <= p[i].to /\ p[i].to <= d
  <2>1. ASSUME NEW i \in 1..(n + 1) PROVE p[i].from <= p[i].to /\ p[i].to <= d
    <3>1. CASE i = n + 1
      BY <1>1, <3>1
    <3>2. CASE i \in 1..n
      <4>1. vs[i].from <= vs[i].to /\ vs[i].to <= c
        BY <3>2 DEF Ascending
      <4> QED  BY <1>1, <3>2, <4>1
    <3> QED  BY <1>1, <3>1, <3>2
  <2> QED  BY <2>1
<1>3. \A i, j \in 1..(n + 1) : i < j => p[i].to <= p[j].from
  <2>1. ASSUME NEW i \in 1..(n + 1), NEW j \in 1..(n + 1), i < j PROVE p[i].to <= p[j].from
    <3>1. i \in 1..n
      BY <1>1, <2>1
    <3>2. CASE j = n + 1
      BY <1>1, <3>1, <3>2
    <3>3. CASE j \in 1..n
      BY <1>1, <2>1, <3>1, <3>3 DEF Ascending
    <3> QED  BY <1>1, <3>2, <3>3
  <2> QED  BY <2>1
<1>4. Ascending(p, d)
  BY <1>1, <1>2, <1>3 DEF Ascending
<1> QED  BY <1>4 DEF p

\* A gapless prefix ends where the next value starts.
LEMMA GaplessPrefix ==
  ASSUME NEW vs \in Seq(Values), NEW c, Gapless(vs, c), NEW h \in 1..Len(vs)
  PROVE  Gapless(SubSeq(vs, 1, h - 1), vs[h].from)
<1> DEFINE q == SubSeq(vs, 1, h - 1)
<1>1. h \in Nat /\ h >= 1 /\ Len(vs) \in Nat /\ h - 1 \in 0..Len(vs)
  BY LenProperties
<1>2. Len(q) = h - 1 /\ \A i \in 1..(h - 1) : q[i] = vs[i]
  BY <1>1, PrefixFacts
<1> HIDE DEF q
<1>3. \A i \in 1..h : EndBefore(q, i) = EndBefore(vs, i)
  <2>1. \A i \in 1..h : i # 1 => i - 1 \in 1..(h - 1)
    BY <1>1
  <2> QED  BY <1>2, <2>1 DEF EndBefore
<1>4. \A i \in 1..h : i \in 1..Len(vs) /\ vs[i].from = EndBefore(vs, i)
  BY <1>1 DEF Gapless
<1>5. Gapless(q, vs[h].from)
  <2>1. \A i \in 1..(h - 1) : i \in 1..h
    BY <1>1
  <2>2. h \in 1..h /\ Len(q) + 1 = h
    BY <1>1, <1>2
  <2> QED  BY <1>2, <1>3, <1>4, <2>1, <2>2 DEF Gapless
<1> QED  BY <1>5 DEF q

\* Pushing a value at the end of the covered input extends it.
LEMMA GaplessPush ==
  ASSUME NEW vs \in Seq(Values), NEW v \in Values, Gapless(vs, v.from)
  PROVE  Gapless(Append(vs, v), v.to)
<1> DEFINE p == Append(vs, v)  n == Len(vs)
<1>1. /\ n \in Nat /\ Len(p) = n + 1 /\ p[n + 1] = v
      /\ \A i \in 1..n : p[i] = vs[i]
  BY PushFacts, LenProperties
<1> HIDE DEF p
<1>2. \A i \in 1..(n + 1) : EndBefore(p, i) = EndBefore(vs, i)
  <2>1. \A i \in 1..(n + 1) : i # 1 => i - 1 \in 1..n
    BY <1>1
  <2> QED  BY <1>1, <2>1 DEF EndBefore
<1>3. \A i \in 1..(n + 1) : p[i].from = EndBefore(p, i)
  <2>1. ASSUME NEW i \in 1..(n + 1) PROVE p[i].from = EndBefore(p, i)
    <3>1. CASE i = n + 1
      BY <1>1, <1>2, <3>1 DEF Gapless
    <3>2. CASE i \in 1..n
      BY <1>1, <1>2, <3>2 DEF Gapless
    <3> QED  BY <1>1, <3>1, <3>2
  <2> QED  BY <2>1
<1>4. EndBefore(p, n + 2) = v.to
  BY <1>1 DEF EndBefore
<1>5. Gapless(p, v.to)
  <2>1. Len(p) + 1 = n + 2
    BY <1>1
  <2> QED  BY <1>1, <1>3, <1>4, <2>1 DEF Gapless
<1> QED  BY <1>5 DEF p

\* The end of the input is only a lookahead once the source has ended, and an
\* aborted call has a diagnostic.
EndsOK ==
  /\ ready /\ symbol = EOF => sawEOF
  /\ status = "aborted" => diagnostics # <<>>

\* State 0 is never entered again.
BottomOK == \A i \in 2..Len(states) : states[i] # 0

OrderOK ==
  /\ Ascending(values, Consumed)
  /\ diagnostics = <<>> /\ status # "reducer error" => Gapless(values, Consumed)

\* The inductive invariant of the input and the values.
InputInv == EndsOK /\ BottomOK /\ OrderOK /\ StrictSuccessIsWholeInput

\* A step that leaves values and position alone.
LEMMA OrderKept ==
  ASSUME OrderOK, values' = values, Consumed' = Consumed,
         diagnostics' = <<>> => diagnostics = <<>>,
         status' # "reducer error" => status # "reducer error"
  PROVE  OrderOK'
BY DEF OrderOK, Ascending, Gapless, EndBefore

\* The value of a reduction: it stands where its handle stood, or at the
\* position when the handle is empty.
LEMMA OrderReduced ==
  ASSUME TInv, PathOK, OrderOK, ActionIs("reduce"), HandleFits,
         NEW lhs \in Symbols, NEW v, v = Reduced(lhs, Handle),
         NEW q, q = Drop(values, HandleSize)
  PROVE  /\ Ascending(Append(q, v), Consumed)
         /\ diagnostics = <<>> => Gapless(Append(q, v), Consumed)
<1> DEFINE m == Len(values)  n == HandleSize  c == Consumed
<1>1. /\ TypeOK /\ c \in Nat /\ m \in Nat /\ n \in Nat /\ n <= m /\ values \in Seq(Values)
      /\ Ascending(values, c)
      /\ diagnostics = <<>> => Gapless(values, c)
  BY SpanFacts, TopFacts, ReduceFacts
     DEF TInv, TypeOK, HandleFits, OrderOK, ActionIs, Deciding
<1>2. /\ Handle \in Seq(Values) /\ Len(Handle) = n
      /\ \A i \in 1..n : Handle[i] = values[m - n + i]
      /\ q \in Seq(Values) /\ Len(q) = m - n
  BY <1>1, KeptFacts
<1>3. v \in Values
  BY <1>2, ReducedFacts
<1>4. q = SubSeq(values, 1, m - n)
  BY DEF Drop
<1>5. Ascending(q, c)
  BY <1>1, <1>4, AscendingPrefix
<1>6. \A i \in 1..(m - n) : q[i] = values[i]
  BY <1>1, <1>4, PrefixFacts
<1>7. CASE n = 0
  <2>1. Handle = <<>> /\ v.from = c /\ v.to = c
    <3>1. Handle = <<>>
      BY <1>2, <1>7, EmptySeq
    <3> QED  BY <3>1 DEF Reduced
  <2>2. q = values
    BY <1>1, <1>2, <1>4, <1>6, <1>7, SeqEqual
  <2>3. \A i \in 1..Len(q) : q[i].to <= v.from
    BY <1>1, <2>1, <2>2 DEF Ascending
  <2>4. Ascending(Append(q, v), c)
    BY <1>1, <1>2, <1>3, <1>5, <2>1, <2>3, AscendingPush
  <2>5. diagnostics = <<>> => Gapless(Append(q, v), c)
    BY <1>1, <1>2, <1>3, <2>1, <2>2, GaplessPush
  <2> QED  BY <2>4, <2>5
<1>8. CASE n > 0
  <2> DEFINE h == m - n + 1
  <2>1. /\ h \in 1..m /\ m \in 1..m /\ h - 1 = m - n /\ h <= m
        /\ 1 \in 1..n /\ n \in 1..n /\ m - n + 1 = h /\ m - n + n = m
    BY <1>1, <1>8
  <2>2. v.from = values[h].from /\ v.to = values[m].to
    <3>1. Handle # <<>>
      BY <1>2, <1>8, EmptySeq
    <3>2. Handle[1] = values[h] /\ Handle[n] = values[m]
      BY <1>2, <2>1
    <3> QED  BY <1>2, <3>1, <3>2 DEF Reduced, Top
  <2> HIDE DEF h
  <2>3. values[h] \in Values /\ values[m] \in Values
    BY <1>1, <2>1, ElementOfSeq
  <2>4. v.from <= v.to /\ v.to <= c
    <3>1. values[h].from <= values[h].to /\ values[m].from <= values[m].to /\ values[m].to <= c
      BY <1>1, <2>1 DEF Ascending
    <3>2. h < m => values[h].to <= values[m].from
      BY <1>1, <2>1 DEF Ascending
    <3> QED  BY <1>1, <2>1, <2>2, <2>3, <3>1, <3>2 DEF Values
  <2>5. \A i \in 1..Len(q) : q[i].to <= v.from
    <3>1. ASSUME NEW i \in 1..Len(q) PROVE q[i].to <= v.from
      <4>1. i \in 1..(m - n) /\ i \in 1..m /\ i < h
        BY <1>1, <1>2, <2>1
      <4> QED  BY <1>1, <1>6, <2>1, <2>2, <4>1 DEF Ascending
    <3> QED  BY <3>1
  <2>6. Ascending(Append(q, v), c)
    <3>1. c \in Nat /\ c <= c
      <4>1. c \in Nat
        BY <1>1
      <4> HIDE DEF c
      <4> QED  BY <4>1
    <3> HIDE DEF c
    <3> QED  BY <1>2, <1>3, <1>5, <2>4, <2>5, <3>1, AscendingPush
  <2>7. ASSUME diagnostics = <<>> PROVE Gapless(Append(q, v), c)
    <3>1. Gapless(q, v.from)
      BY <1>1, <1>4, <2>1, <2>2, <2>7, GaplessPrefix
    <3>2. v.to = c
      <4>1. EndBefore(values, m + 1) = c
        BY <1>1, <2>7 DEF Gapless
      <4> QED  BY <1>1, <2>1, <2>2, <4>1 DEF EndBefore
    <3> QED  BY <1>2, <1>3, <3>1, <3>2, GaplessPush
  <2> QED  BY <2>6, <2>7
<1> QED  BY <1>1, <1>7, <1>8

\* Every action keeps the values in order.
LEMMA OrderNext == IInv /\ ReportInv /\ OrderOK /\ [Next]_vars => OrderOK'
<1> SUFFICES ASSUME TInv, PathOK, ReportInv, OrderOK, [Next]_vars PROVE OrderOK'
  BY DEF IInv
<1> USE DEF cursor, stack, report
<1>0. /\ TypeOK /\ values \in Seq(Values) /\ Len(values) \in Nat /\ Consumed \in Nat
      /\ ready \in BOOLEAN /\ diagnostics \in Seq(Diagnostics) /\ Len(states) \in Nat \ {0}
      /\ Ascending(values, Consumed) /\ active \in 0..Len(diagnostics)
      /\ \A i \in 1..Len(values) : values[i].to <= Consumed
  BY SpanFacts, TopFacts DEF TInv, TypeOK, OrderOK, Ascending
<1>1. ASSUME status = "running", NEW kind, active > 0,
             \/ diagnostics' = [diagnostics EXCEPT ![active].kind = kind]
             \/ diagnostics' = [diagnostics EXCEPT ![active].discarded = @ + 1]
      PROVE  diagnostics # <<>> /\ diagnostics' # <<>>
  <2>1. active \in 1..Len(diagnostics)
    BY <1>0, <1>1, DiagnosticFields
  <2>2. Len(diagnostics') = Len(diagnostics)
    BY <1>0, <1>1, <2>1, SettleFacts, ChargeFacts
  <2> QED  BY <1>0, <2>1, <2>2, EmptySeq
<1>2. CASE Begin
  <2>1. Consumed' = Consumed
    BY <1>2, ConsumedKept DEF Begin
  <2> QED  BY <1>2, <2>1, OrderKept DEF Begin
<1>3. CASE PeekLexeme \/ PeekEnd \/ PeekFails
  <2>1. Consumed' = Consumed
    BY <1>3, PeekKeepsPosition
  <2> QED  BY <1>3, <2>1, OrderKept DEF PeekLexeme, PeekEnd, PeekFails, Peeking
<1>4. CASE Shift
  <2>1. symbol # EOF /\ ready = TRUE /\ status = "running"
    BY <1>0, <1>4, ShiftFacts DEF Shift, ActionIs, Deciding
  <2>2. /\ CountShift /\ values' = Append(values, LexemeValue) /\ ready' = FALSE
        /\ UNCHANGED <<status, symbol, pulled>>
    BY <1>4, <2>1 DEF Shift
  <2>3. Consumed' = Consumed + 1
    BY <2>1, <2>2, LexemeLeaves
  <2>4. /\ LexemeValue \in Values
        /\ LexemeValue.from = Consumed /\ LexemeValue.to = Consumed + 1
    BY SpanFacts DEF LexemeValue
  <2> DEFINE c == Consumed  v == LexemeValue
  <2>5. Ascending(values', c + 1)
    <3>1. /\ c \in Nat /\ c + 1 \in Nat /\ c <= c + 1 /\ v \in Values /\ v.from = c /\ v.to = c + 1
          /\ \A i \in 1..Len(values) : values[i].to <= v.from
      BY <1>0, <2>4
    <3> HIDE DEF c, v
    <3>2. Ascending(Append(values, v), c + 1)
      BY <1>0, <3>1, AscendingPush DEF c
    <3> QED  BY <2>2, <3>2 DEF v
  <2>6. diagnostics' = <<>> => Gapless(values', Consumed')
    <3>1. diagnostics' = <<>> => diagnostics = <<>>
      <4>1. diagnostics' \in Seq(Diagnostics) /\ Len(diagnostics') = Len(diagnostics)
        BY <1>0, <2>2, CountShiftFacts
      <4> QED  BY <1>0, <4>1, EmptySeq
    <3>2. diagnostics = <<>> => Gapless(Append(values, v), v.to)
      BY <1>0, <2>1, <2>4, GaplessPush DEF OrderOK
    <3> QED  BY <2>2, <2>3, <2>4, <3>1, <3>2
  <2> QED  BY <2>3, <2>5, <2>6 DEF OrderOK
<1>5. CASE Reduce
  <2> DEFINE lhs == Rule(Action.rule).lhs
  <2>1. /\ HandleFits /\ ActionIs("reduce")
        /\ lhs \in DOMAIN Table.gotos[Top(Drop(states, HandleSize))]
    BY <1>0, <1>5, ReduceSucceeds DEF Reduce
  <2>2. /\ values' = Append(Drop(values, HandleSize), Reduced(lhs, Handle))
        /\ UNCHANGED <<status, report, cursor>>
    BY <1>5, <2>1 DEF Reduce
  <2>3. Consumed' = Consumed
    BY <2>2, ConsumedKept
  <2>4. lhs \in Symbols
    BY <1>0, <2>1, ReduceFacts
  <2> HIDE DEF lhs
  <2>5. /\ Ascending(values', Consumed)
        /\ diagnostics = <<>> => Gapless(values', Consumed)
    BY <2>1, <2>2, <2>4, OrderReduced
  <2> QED  BY <2>2, <2>3, <2>5 DEF OrderOK
<1>6. CASE ReducerFails
  <2>1. Consumed' = Consumed
    BY <1>6, ConsumedKept DEF ReducerFails
  <2>2. Len(values) - HandleSize \in 0..Len(values)
    <3>1. HandleSize \in Nat /\ Len(values) >= HandleSize
      BY <1>0, <1>6, ReduceFacts DEF ReducerFails, HandleFits
    <3> QED  BY <1>0, <3>1
  <2>3. Ascending(values', Consumed)
    BY <1>0, <1>6, <2>2, AscendingPrefix DEF ReducerFails, Drop
  <2> QED  BY <1>6, <2>1, <2>3 DEF OrderOK, ReducerFails
<1>7. CASE Accept
  <2>1. Consumed' = Consumed /\ status = "running"
    BY <1>7, ConsumedKept DEF Accept, ActionIs, Deciding
  <2> QED  BY <1>1, <1>7, <2>1, OrderKept DEF Accept
<1>8. CASE ShiftError
  <2>1. PICK h \in 1..Len(states) : values' = Append(SubSeq(values, 1, h - 1), ErrorValue)
    BY <1>8 DEF ShiftError
  <2>2. /\ Consumed' = Consumed /\ status = "running"
        /\ diagnostics' = Append(diagnostics, Diagnosis("shift-error"))
    BY <1>8, ConsumedKept DEF ShiftError, MissingAction, Deciding
  <2>3. h - 1 \in 0..Len(values)
    <3>1. Len(states) = Len(values) + 1
      BY <2>2 DEF PathOK, Spells
    <3> QED  BY <1>0, <3>1
  <2> DEFINE q == SubSeq(values, 1, h - 1)  c == Consumed
  <2>4. q \in Seq(Values) /\ Ascending(q, c)
    BY <1>0, <2>3, PrefixFacts, AscendingPrefix
  <2>5. /\ ErrorValue \in Values /\ ErrorValue.from = c /\ ErrorValue.to = c
        /\ \A i \in 1..Len(q) : q[i].to <= c
    BY <2>4, SpanFacts DEF ErrorValue, Ascending
  <2> HIDE DEF q, c
  <2>6. c \in Nat /\ c <= c
    BY <1>0 DEF c
  <2>7. Ascending(Append(q, ErrorValue), c)
    BY <2>4, <2>5, <2>6, AscendingPush
  <2>8. diagnostics' # <<>>
    <3>1. "shift-error" \in {"shift-error", "recovered", "abort"}
      OBVIOUS
    <3> QED  BY <1>0, <2>2, <3>1, SpanFacts, PushFacts
  <2> QED  BY <2>1, <2>2, <2>7, <2>8 DEF OrderOK, q, c
<1>9. CASE Abort
  <2>1. Consumed' = Consumed /\ values' = <<>> /\ Len(values') = 0
    BY <1>9, ConsumedKept, EmptySeq DEF Abort
  <2>2. diagnostics' # <<>>
    <3>1. "abort" \in {"shift-error", "recovered", "abort"}
      OBVIOUS
    <3> QED  BY <1>0, <1>9, <3>1, SpanFacts, PushFacts DEF Abort
  <2>3. Ascending(values', Consumed')
    BY <2>1 DEF Ascending
  <2> QED  BY <2>2, <2>3 DEF OrderOK
<1>10. CASE Discard
  <2>1. /\ status = "running" /\ recovering > 0 /\ ready = TRUE /\ symbol # EOF
        /\ ready' = FALSE /\ UNCHANGED <<values, symbol, pulled>>
    BY <1>0, <1>10 DEF Discard, MissingAction, Deciding
  <2>2. active > 0
    BY <2>1 DEF ReportInv, RecoveryWindow
  <2>3. diagnostics' # <<>>
    BY <1>1, <1>10, <2>1, <2>2 DEF Discard
  <2> DEFINE c == Consumed
  <2>4. Consumed' = c + 1
    BY <2>1, LexemeLeaves
  <2>5. Ascending(values, c + 1)
    <3>1. \A i \in 1..Len(values) : values[i] \in Values
      BY <1>0, ElementOfSeq
    <3>2. c \in Nat /\ Ascending(values, c)
      BY <1>0
    <3>3. \A i \in 1..Len(values) : values[i].to \in Nat
      BY <3>1 DEF Values
    <3> HIDE DEF c
    <3> QED  BY <3>2, <3>3 DEF Ascending
  <2> QED  BY <2>1, <2>3, <2>4, <2>5 DEF OrderOK
<1>11. CASE AbortAtEnd
  <2>1. Consumed' = Consumed /\ status = "running"
    BY <1>11, ConsumedKept DEF AbortAtEnd, MissingAction, Deciding
  <2> QED  BY <1>1, <1>11, <2>1, OrderKept DEF AbortAtEnd
<1>12. CASE UNCHANGED vars
  <2>1. Consumed' = Consumed
    BY <1>12, ConsumedKept DEF vars
  <2> QED  BY <1>12, <2>1, OrderKept DEF vars
<1> QED
  BY <1>2, <1>3, <1>4, <1>5, <1>6, <1>7, <1>8, <1>9, <1>10, <1>11, <1>12
     DEF Next, Peek, Act, Recover

\* Every action keeps what is known of the end of the input and of aborted calls.
LEMMA EndsNext == IInv /\ ReportInv /\ EndsOK /\ [Next]_vars => EndsOK'
<1> SUFFICES ASSUME TInv, PathOK, ReportInv, EndsOK, [Next]_vars PROVE EndsOK'
  BY DEF IInv
<1> USE DEF cursor, stack, report, EndsOK
<1>0. /\ TypeOK /\ ready \in BOOLEAN /\ SoundTables(Table)
      /\ active \in 0..Len(diagnostics) /\ diagnostics \in Seq(Diagnostics)
  BY TopFacts DEF TInv, TypeOK
<1>1. CASE Begin
  BY <1>1 DEF Begin
<1>9. CASE PeekEnd
  BY <1>9 DEF PeekEnd, Peeking
<1>10. CASE PeekFails
  <2>1. status' \in SourceErrors /\ symbol' = symbol /\ sawEOF' = sawEOF
    BY <1>10 DEF PeekFails, Peeking
  <2> QED  BY <1>10, <2>1 DEF PeekFails, Peeking, SourceErrors
<1>11. CASE ReducerFails
  <2>1. status' = "reducer error" /\ UNCHANGED cursor
    BY <1>11 DEF ReducerFails
  <2> QED  BY <2>1
<1>12. CASE Accept
  <2>1. status' = "accepted" /\ UNCHANGED cursor
    BY <1>12 DEF Accept
  <2> QED  BY <2>1
<1>2. CASE PeekLexeme
  <2>1. symbol' \in Table.terminals \cup {Unknown} /\ status' = "running"
    BY <1>2 DEF PeekLexeme, Peeking
  <2>2. symbol' # EOF
    BY <1>0, <2>1 DEF SoundTables, EOF, Unknown
  <2> QED  BY <2>1, <2>2
<1>3. CASE Shift
  <2>1. symbol # EOF /\ status = "running"
    BY <1>0, <1>3, ShiftFacts DEF Shift, ActionIs, Deciding
  <2> QED  BY <1>3, <2>1 DEF Shift
<1>4. CASE Reduce
  <2>1. /\ HandleFits /\ status = "running"
        /\ Rule(Action.rule).lhs \in DOMAIN Table.gotos[Top(Drop(states, HandleSize))]
    BY <1>0, <1>4, ReduceSucceeds DEF Reduce, ActionIs, Deciding
  <2> QED  BY <1>4, <2>1 DEF Reduce
<1>5. CASE ShiftError \/ Discard
  BY <1>5 DEF ShiftError, Discard, MissingAction, Deciding
<1>6. CASE Abort
  <2>1. diagnostics' # <<>>
    <3>1. "abort" \in {"shift-error", "recovered", "abort"}
      OBVIOUS
    <3> QED  BY <1>0, <1>6, <3>1, SpanFacts, PushFacts DEF Abort
  <2> QED  BY <1>6, <2>1 DEF Abort
<1>7. CASE AbortAtEnd
  <2>1. status = "running" /\ recovering > 0
    BY <1>7 DEF AbortAtEnd, MissingAction, Deciding
  <2>2. active > 0
    BY <2>1 DEF ReportInv, RecoveryWindow
  <2>3. diagnostics' = [diagnostics EXCEPT ![active].kind = "abort"]
    BY <1>7, <2>2 DEF AbortAtEnd
  <2>4. active \in 1..Len(diagnostics) /\ Len(diagnostics) \in Nat
    BY <1>0, <2>2, DiagnosticFields
  <2>5. Len(diagnostics') = Len(diagnostics)
    BY <1>0, <2>3, <2>4, SettleFacts
  <2>6. diagnostics' # <<>>
    BY <2>4, <2>5, EmptySeq
  <2> QED  BY <1>7, <2>6 DEF AbortAtEnd
<1>8. CASE UNCHANGED vars
  BY <1>8 DEF vars
<1> QED  BY <1>1, <1>2, <1>3, <1>4, <1>5, <1>6, <1>7, <1>8, <1>9, <1>10, <1>11, <1>12 DEF Next, Peek, Act, Recover

\* Every action leaves state 0 at the bottom of the stack and nowhere else.
LEMMA BottomNext == IInv /\ BottomOK /\ [Next]_vars => BottomOK'
<1> SUFFICES ASSUME TInv, PathOK, BottomOK, [Next]_vars PROVE BottomOK'
  BY DEF IInv
<1> USE DEF cursor, stack, report
<1>0. /\ TypeOK /\ SoundTables(Table) /\ Len(states) \in Nat \ {0}
      /\ states \in Seq(Table.states)
  BY TopFacts DEF TInv, TypeOK
<1>1. ASSUME states' = states
      PROVE  BottomOK'
  BY <1>1 DEF BottomOK
<1>2. ASSUME NEW h \in 1..Len(states), NEW to \in Entered(Table),
             states' = Append(SubSeq(states, 1, h), to)
      PROVE  BottomOK'
  <2> DEFINE p == SubSeq(states, 1, h)
  <2>1. h \in Nat /\ h \in 0..Len(states) /\ \A i \in 2..h : i \in 1..h /\ i \in 2..Len(states)
    BY <1>0, <1>2
  <2>2. p \in Seq(Table.states) /\ Len(p) = h /\ \A i \in 1..h : p[i] = states[i]
    BY <1>0, <2>1, PrefixFacts
  <2>3. to \in Table.states /\ to # 0
    BY DEF Entered
  <2> HIDE DEF p
  <2>4. /\ Len(Append(p, to)) = h + 1 /\ Append(p, to)[h + 1] = to
        /\ \A i \in 1..h : Append(p, to)[i] = p[i]
    BY <2>2, <2>3, PushFacts
  <2>5. states' = Append(p, to)
    BY <1>2 DEF p
  <2>6. \A i \in 2..(h + 1) : states'[i] # 0
    <3>1. ASSUME NEW i \in 2..(h + 1) PROVE states'[i] # 0
      <4>1. i = h + 1 \/ i \in 2..h
        BY <2>1
      <4> QED  BY <2>1, <2>2, <2>3, <2>4, <2>5, <4>1 DEF BottomOK
    <3> QED  BY <3>1
  <2> QED  BY <2>4, <2>5, <2>6 DEF BottomOK
<1>3. SubSeq(states, 1, Len(states)) = states /\ Len(states) \in 1..Len(states)
  BY <1>0, SubSeqFull
<1>4. CASE Begin \/ PeekLexeme \/ PeekEnd \/ PeekFails \/ ReducerFails \/ Accept
  BY <1>1, <1>4 DEF Begin, PeekLexeme, PeekEnd, PeekFails, ReducerFails, Accept
<1>5. CASE Shift
  <2>1. symbol # EOF /\ Action.state \in Entered(Table)
    BY <1>0, <1>5, ShiftFacts DEF Shift
  <2>2. states' = Append(SubSeq(states, 1, Len(states)), Action.state)
    BY <1>3, <1>5, <2>1 DEF Shift
  <2> QED  BY <1>2, <1>3, <2>1, <2>2
<1>6. CASE Reduce
  <2> DEFINE h == Len(states) - HandleSize  lhs == Rule(Action.rule).lhs
             kept == Drop(states, HandleSize)  to == Table.gotos[Top(kept)][lhs]
  <2>1. ActionIs("reduce") /\ HandleFits /\ lhs \in DOMAIN Table.gotos[Top(kept)]
    BY <1>0, <1>6, ReduceSucceeds DEF Reduce
  <2>2. h \in 1..Len(states) /\ Top(kept) \in Table.states
    BY <1>0, <2>1, KeptFacts
  <2>3. to \in Entered(Table)
    BY <1>0, <2>1, <2>2 DEF SoundTables
  <2>4. states' = Append(SubSeq(states, 1, h), to)
    BY <1>6, <2>1 DEF Reduce, Drop
  <2> HIDE DEF h, lhs, kept, to
  <2> QED  BY <1>2, <2>2, <2>3, <2>4
<1>7. CASE ShiftError
  <2>1. PICK h \in 1..Len(states) :
          /\ StopsAt(h)
          /\ states' = Append(SubSeq(states, 1, h), Table.actions[states[h]][Error].state)
    BY <1>7 DEF ShiftError
  <2>2. states[h] \in Table.states /\ CanShiftError(states[h])
    BY <1>0, <2>1, TopFacts DEF StopsAt, RecoveryHeights
  <2>3. Table.actions[states[h]][Error].state \in Entered(Table)
    BY <1>0, <2>2, ErrorShiftFacts
  <2> QED  BY <1>2, <2>1, <2>3
<1>8. CASE Abort
  <2>1. states' = <<states[1]>> /\ Len(states') = 1
    BY <1>8 DEF Abort
  <2> QED  BY <2>1 DEF BottomOK
<1>9. CASE Discard \/ AbortAtEnd
  BY <1>1, <1>9 DEF Discard, AbortAtEnd
<1>10. CASE UNCHANGED vars
  BY <1>1, <1>10 DEF vars
<1> QED
  BY <1>4, <1>5, <1>6, <1>7, <1>8, <1>9, <1>10 DEF Next, Peek, Act, Recover

\* In a state that accepts, the only value is the start symbol's.
LEMMA AcceptFacts ==
  ASSUME TInv, PathOK, BottomOK, ActionIs("accept")
  PROVE  symbol = EOF /\ Len(values) = 1 /\ values[1].sym = Rule(0).rhs[1]
<1> DEFINE n == Len(states)  item == <<0, 1>>
<1>1. SoundAction(Table, TopState, symbol, Action) /\ Action.kind = "accept" /\ SoundTables(Table)
  BY TopFacts, ActionFacts DEF TInv, ActionIs, HasAction, Action
<1>2. symbol = EOF /\ item \in Table.items[states[n]]
  BY <1>1 DEF SoundAction, SoundAccept, TopState, Top
<1>3. Spells(Table, states, values)
  BY DEF PathOK, ActionIs, Deciding
<1>4. n \in Nat \ {0} /\ n \in 1..n /\ Len(values) \in Nat /\ n = Len(values) + 1
      /\ \A i \in 1..n : states[i] \in Table.states
  BY <1>3, TopFacts DEF Spells, TInv
<1>5. item[1] = 0 /\ item[2] = 1 /\ RhsOf(Table, item) = Rule(0).rhs
  BY DEF RhsOf, Rule
<1> HIDE DEF item
<1>6. /\ item[2] < n
      /\ \A k \in 1..item[2] :
           /\ values[n - k].sym = RhsOf(Table, item)[item[2] - k + 1]
           /\ <<item[1], item[2] - k>> \in Table.items[states[n - k]]
  BY <1>2, <1>3, <1>4 DEF Spells
<1>7. /\ 1 < n /\ values[n - 1].sym = Rule(0).rhs[1]
      /\ <<0, 0>> \in Table.items[states[n - 1]]
  <2>1. 1 \in 1..item[2] /\ item[2] - 1 + 1 = 1 /\ item[2] - 1 = 0
    BY <1>5
  <2> QED  BY <1>5, <1>6, <2>1
<1>8. states[n - 1] = 0
  <2> DEFINE start == <<0, 0>>
  <2>1. start[1] = 0 /\ start[2] = 0 /\ start \in Table.items[states[n - 1]]
    BY <1>7
  <2>2. states[n - 1] \in Table.states
    BY <1>4, <1>7
  <2> HIDE DEF start
  <2> QED  BY <1>1, <2>1, <2>2, DotsAreNatural
<1>9. n - 1 = 1
  <2>1. n - 1 \notin 2..n
    BY <1>8 DEF BottomOK
  <2>2. n \in Nat /\ 1 < n
    BY <1>4, <1>7
  <2> HIDE DEF n
  <2> QED  BY <2>1, <2>2
<1>10. Len(values) = 1
  BY <1>4, <1>9
<1> QED  BY <1>2, <1>7, <1>9, <1>10

\* A call that is accepted without diagnostics has parsed everything.
LEMMA WholeNext ==
  IInv /\ ReportInv /\ InputInv /\ [Next]_vars /\ EndsOK' => StrictSuccessIsWholeInput'
<1> SUFFICES ASSUME TInv, PathOK, NoInternalFailure, ReportInv, InputInv, [Next]_vars, EndsOK'
             PROVE  StrictSuccessIsWholeInput'
  BY DEF IInv
<1> USE DEF cursor, stack, report
<1>0. /\ TypeOK /\ active \in 0..Len(diagnostics) /\ EndsOK /\ BottomOK /\ OrderOK
  BY DEF TInv, TypeOK, InputInv
<1>1. ASSUME status' = "running" \/ status' = "new" \/ status' = "aborted" \/ status' \in Errors
      PROVE  StrictSuccessIsWholeInput'
  BY <1>0, <1>1 DEF StrictSuccessIsWholeInput, StrictlySucceeds, EndsOK,
       Finished, Errors, InternalErrors, SourceErrors
<1>2. CASE Begin \/ PeekLexeme \/ PeekEnd \/ PeekFails \/ ReducerFails
  BY <1>1, <1>2
     DEF Begin, PeekLexeme, PeekEnd, PeekFails, Peeking, ReducerFails, Errors
<1>3. CASE Shift
  <2>1. symbol # EOF /\ status = "running"
    BY <1>0, <1>3, ShiftFacts DEF Shift, ActionIs, Deciding
  <2> QED  BY <1>1, <1>3, <2>1 DEF Shift
<1>4. CASE Reduce
  <2>1. /\ HandleFits /\ status = "running"
        /\ Rule(Action.rule).lhs \in DOMAIN Table.gotos[Top(Drop(states, HandleSize))]
    BY <1>0, <1>4, ReduceSucceeds DEF Reduce, ActionIs, Deciding
  <2> QED  BY <1>1, <1>4, <2>1 DEF Reduce
<1>5. CASE ShiftError \/ Abort \/ Discard \/ AbortAtEnd
  BY <1>1, <1>5 DEF ShiftError, Abort, Discard, AbortAtEnd, MissingAction, Deciding
<1>6. CASE Accept
  <2>1. /\ ActionIs("accept") /\ ready = TRUE /\ status = "running"
        /\ status' = "accepted" /\ UNCHANGED <<lang, values, active, cursor>>
    BY <1>6 DEF Accept, ActionIs, Deciding, TInv, TypeOK
  <2>2. symbol = EOF /\ Len(values) = 1 /\ values[1].sym = Rule(0).rhs[1]
    BY <1>0, <2>1, AcceptFacts
  <2>3. ASSUME diagnostics' = <<>>
        PROVE  /\ sawEOF
               /\ values = <<[sym |-> Rule(0).rhs[1], from |-> 0, to |-> Len(pulled)]>>
    <3>1. diagnostics = <<>>
      <4>1. CASE active > 0
        <5>1. active \in 1..Len(diagnostics) /\ diagnostics \in Seq(Diagnostics)
              /\ Len(diagnostics) \in Nat
          BY <1>0, <4>1, DiagnosticFields DEF TypeOK
        <5>2. Len(diagnostics') = Len(diagnostics)
          BY <1>6, <4>1, <5>1, SettleFacts DEF Accept
        <5> QED  BY <2>3, <5>1, <5>2, EmptySeq
      <4>2. CASE ~(active > 0)
        BY <1>6, <2>3, <4>2 DEF Accept
      <4> QED  BY <4>1, <4>2
    <3>2. Gapless(values, Consumed)
      BY <1>0, <2>1, <3>1 DEF OrderOK
    <3>3. Consumed = Len(pulled)
      <4>1. Len(pulled) \in Nat
        BY LenProperties DEF TInv, TypeOK
      <4> QED  BY <2>2, <4>1 DEF Consumed
    <3>4. values[1].from = 0 /\ values[1].to = Len(pulled)
      <4>1. 1 \in 1..Len(values) /\ Len(values) + 1 = 2 /\ 2 - 1 = 1 /\ 2 # 1
        BY <2>2
      <4>2. values[1].from = EndBefore(values, 1) /\ EndBefore(values, 2) = Consumed
        BY <3>2, <4>1 DEF Gapless
      <4> QED  BY <3>3, <4>1, <4>2 DEF EndBefore
    <3>5. values[1] = [sym |-> Rule(0).rhs[1], from |-> 0, to |-> Len(pulled)]
      <4>1. values \in Seq(Values) /\ 1 \in 1..Len(values)
        BY <2>2 DEF TInv, TypeOK
      <4>2. values[1] \in Values
        BY <4>1, ElementOfSeq
      <4> QED  BY <2>2, <3>4, <4>2 DEF Values
    <3>6. values = <<values[1]>>
      <4>1. values \in Seq(Values) /\ 1 \in 1..Len(values)
        BY <2>2 DEF TInv, TypeOK
      <4>2. values[1] \in Values
        BY <4>1, ElementOfSeq
      <4>3. <<values[1]>> \in Seq(Values) /\ Len(<<values[1]>>) = 1 /\ <<values[1]>>[1] = values[1]
        BY <4>2, SingletonFacts
      <4> DEFINE one == <<values[1]>>
      <4> HIDE DEF one
      <4>4. \A i \in 1..Len(values) : values[i] = one[i]
        BY <2>2, <4>3 DEF one
      <4>5. values = one
        BY <2>2, <4>1, <4>3, <4>4, SeqEqual DEF one
      <4> QED  BY <4>5 DEF one
    <3> QED  BY <1>0, <2>1, <2>2, <3>5, <3>6 DEF EndsOK
  <2>4. Rule(0)' = Rule(0)
    BY <2>1 DEF Rule, Table
  <2> QED  BY <2>1, <2>3, <2>4 DEF StrictSuccessIsWholeInput, StrictlySucceeds
<1>7. CASE UNCHANGED vars
  <2>1. Rule(0)' = Rule(0)
    BY <1>7 DEF Rule, Table, vars
  <2> QED  BY <1>7, <2>1 DEF vars, InputInv, StrictSuccessIsWholeInput, StrictlySucceeds
<1> QED  BY <1>2, <1>3, <1>4, <1>5, <1>6, <1>7 DEF Next, Peek, Act, Recover

\* Input and values are in order in every reachable state.
LEMMA InputInvariance == Spec => [](IInv /\ ReportInv /\ InputInv)
<1>1. Init => InputInv
  <2> SUFFICES ASSUME Init PROVE InputInv
    OBVIOUS
  <2>1. /\ values = <<>> /\ Len(values) = 0 /\ pulled = <<>> /\ Len(pulled) = 0
        /\ ready = FALSE /\ status = "new" /\ Len(states) = 1
    BY DEF Init
  <2>2. Consumed = 0
    BY <2>1 DEF Consumed
  <2>3. OrderOK
    BY <2>1, <2>2 DEF OrderOK, Ascending, Gapless, EndBefore
  <2>4. EndsOK /\ BottomOK
    BY <2>1 DEF EndsOK, BottomOK
  <2>5. StrictSuccessIsWholeInput
    BY <2>1 DEF StrictSuccessIsWholeInput, StrictlySucceeds, Finished, Errors, InternalErrors, SourceErrors
  <2> QED  BY <2>3, <2>4, <2>5 DEF InputInv
<1>2. IInv /\ ReportInv /\ InputInv /\ [Next]_vars => InputInv'
  BY EndsNext, BottomNext, OrderNext, WholeNext DEF InputInv
<1> QED  BY <1>1, <1>2, ReportInvariance, PTL DEF Spec

\* A strict call that succeeds has parsed its whole input into one start symbol.
THEOREM StrictSuccessParsesEverything == Spec => []StrictSuccessIsWholeInput
<1>1. IInv /\ ReportInv /\ InputInv => StrictSuccessIsWholeInput
  BY DEF InputInv
<1> QED  BY <1>1, InputInvariance, PTL

\* The lexemes the values on the stack were built from cover the input in order,
\* none under two values, and until the first syntax error none under no value.
THEOREM ValuesCoverTheInput == Spec => []ValuesInOrder
<1>1. TInv /\ OrderOK => ValuesInOrder
  <2> SUFFICES ASSUME TInv, OrderOK PROVE ValuesInOrder
    OBVIOUS
  <2> DEFINE n == Len(values)  tos == [i \in 1..n |-> values[i].to]  ends == <<0>> \o tos
  <2>1. n \in Nat /\ \A i \in 1..n : values[i] \in Values
    BY LenProperties, ElementOfSeq DEF TInv, TypeOK
  <2>2. tos \in Seq(Nat) /\ Len(tos) = n /\ \A i \in 1..n : tos[i] = values[i].to
    <3>1. \A i \in 1..n : values[i].to \in Nat
      BY <2>1 DEF Values
    <3> QED  BY <2>1, <3>1, IsASeq, LenProperties
  <2>3. <<0>> \in Seq(Nat) /\ Len(<<0>>) = 1 /\ <<0>>[1] = 0
    BY SingletonFacts
  <2> HIDE DEF n, tos
  <2>4. /\ ends \in Seq(Nat) /\ Len(ends) = n + 1
        /\ \A i \in 1..(n + 1) : ends[i] = IF i <= 1 THEN <<0>>[i] ELSE tos[i - 1]
    BY <2>1, <2>2, <2>3, ConcatProperties
  <2>5. \A i \in 1..(n + 1) : ends[i] = EndBefore(values, i)
    <3>1. ASSUME NEW i \in 1..(n + 1) PROVE ends[i] = EndBefore(values, i)
      <4>1. i = 1 \/ i - 1 \in 1..n
        BY <2>1
      <4> QED  BY <2>1, <2>2, <2>3, <2>4, <4>1 DEF EndBefore
    <3> QED  BY <3>1
  <2> HIDE DEF ends
  <2>6. \A i \in 1..n : ends[i] <= values[i].from /\ values[i].from <= values[i].to
    <3>1. ASSUME NEW i \in 1..n PROVE ends[i] <= values[i].from /\ values[i].from <= values[i].to
      <4>1. values[i].from \in Nat /\ ends[i] = EndBefore(values, i)
        BY <2>1, <2>5 DEF Values
      <4>2. values[i].from <= values[i].to
        BY DEF OrderOK, Ascending, n
      <4>3. CASE i = 1
        BY <4>1, <4>2, <4>3 DEF EndBefore
      <4>4. CASE i # 1
        <5>1. i - 1 \in 1..n /\ i - 1 < i
          BY <2>1, <4>4
        <5>2. values[i - 1].to <= values[i].from
          BY <5>1 DEF OrderOK, Ascending, n
        <5> QED  BY <4>1, <4>2, <4>4, <5>2 DEF EndBefore
      <4> QED  BY <4>3, <4>4
    <3> QED  BY <3>1
  <2>7. Top(ends) = EndBefore(values, n + 1)
    BY <2>1, <2>4, <2>5 DEF Top
  <2>8. Top(ends) <= Consumed
    <3>1. CASE n = 0
      <4>1. n + 1 = 1 /\ Consumed \in Nat
        BY <3>1, SpanFacts
      <4> QED  BY <2>7, <4>1 DEF EndBefore
    <3>2. CASE n > 0
      <4>1. n \in 1..n /\ n + 1 # 1 /\ n + 1 - 1 = n
        BY <2>1, <3>2
      <4>2. values[n].to <= Consumed
        BY <4>1 DEF OrderOK, Ascending, n
      <4> QED  BY <2>7, <4>1, <4>2 DEF EndBefore
    <3> QED  BY <2>1, <3>1, <3>2
  <2>9. ASSUME diagnostics = <<>>, status # "reducer error"
        PROVE  (\A i \in 1..n : ends[i] = values[i].from) /\ Top(ends) = Consumed
    <3>1. Gapless(values, Consumed)
      BY <2>9 DEF OrderOK
    <3>2. (\A i \in 1..n : values[i].from = EndBefore(values, i)) /\ EndBefore(values, n + 1) = Consumed
      BY <3>1 DEF Gapless, n
    <3>3. \A i \in 1..n : i \in 1..(n + 1)
      BY <2>1
    <3> QED  BY <2>5, <2>7, <3>2, <3>3
  <2> QED  BY <2>6, <2>8, <2>9 DEF ValuesInOrder, ends, tos, n
<1>2. IInv /\ ReportInv /\ InputInv => ValuesInOrder
  BY <1>1 DEF IInv, InputInv
<1> QED  BY <1>2, InputInvariance, PTL

-----------------------------------------------------------------------------
(* Derivations. *)

\* The names of symbols and of lookaheads.
Names == STRING \cup {Unknown, EOF}

Triples(n) == Names \X (0..n) \X (0..n)

\* The parts of a triple.
LEMMA TripleFacts ==
  ASSUME NEW n \in Nat, NEW e \in Triples(n)
  PROVE  /\ e[1] \in Names /\ e[2] \in 0..n /\ e[3] \in 0..n /\ e = <<e[1], e[2], e[3]>>
BY DEF Triples

\* How positions are reached: symbol by symbol.
ReachedBy(f, derived, seq, i, n) ==
  /\ f[0] = {i} /\ Reach(derived, seq, i) = f[Len(seq)]
  /\ \A k \in 1..Len(seq) : f[k] = Onward(derived, seq[k], f[k - 1])
  /\ \A k \in 0..Len(seq) : f[k] \in SUBSET (0..n)

\* Symbol by symbol, some function says which positions are reached.
LEMMA ReachTurns ==
  ASSUME NEW n \in Nat, NEW derived \in SUBSET Triples(n), NEW seq \in Seq(Names), NEW i \in 0..n
  PROVE  \E f : ReachedBy(f, derived, seq, i, n)
<1> DEFINE N == Len(seq)
           A == SUBSET Nat
           steps == [k \in DOMAIN seq |-> [from \in A |-> Onward(derived, seq[k], from)]]
<1>1. N \in Nat /\ DOMAIN seq = 1..N /\ \A k \in 1..N : seq[k] \in Names
  BY LenProperties, ElementOfSeq
<1>2. \A x, from : Onward(derived, x, from) \in SUBSET (0..n)
  BY TripleFacts DEF Onward
<1>3. SUBSET (0..n) \subseteq A
  OBVIOUS
<1>4. \A k \in 1..N : steps[k] = [from \in A |-> Onward(derived, seq[k], from)]
  BY <1>1
<1>5. steps = [k \in 1..N |-> steps[k]]
  BY <1>1
<1> HIDE DEF steps
<1>6. \A k \in 1..N : steps[k] \in [A -> A]
  <2> SUFFICES ASSUME NEW k \in 1..N
               PROVE  steps[k] \in [A -> A]
    OBVIOUS
  <2>1. \A from \in A : Onward(derived, seq[k], from) \in A
    BY <1>2, <1>3
  <2> HIDE DEF A
  <2> QED  BY <1>4, <2>1
<1> HIDE DEF N, A
<1>7. steps \in Seq([A -> A]) /\ Len(steps) = N
  BY <1>1, <1>5, <1>6, IsASeq
<1>8. {i} \in A /\ {i} \in SUBSET (0..n)
  BY DEF A
<1>9. PICK f : TakesTurns(f, steps, {i})
  BY <1>7, <1>8, TurnsExist
<1> DEFINE g == CHOOSE h : TakesTurns(h, steps, {i})
<1>10. TakesTurns(g, steps, {i})
  BY <1>9
<1>11. Reach(derived, seq, i) = g[N]
  <2>1. LRT!Applied(steps, {i}) = g[N]
    BY <1>7 DEF LRT!Applied, TakesTurns
  <2> QED  BY <2>1 DEF Reach, steps, A
<1> HIDE DEF g
<1>12. g[0] = {i} /\ \A k \in 1..N : g[k] = steps[k][g[k - 1]]
  <2>1. Len(steps) = N
    BY <1>7
  <2>2. g[0] = {i} /\ \A k \in 1..Len(steps) : g[k] = steps[k][g[k - 1]]
    <3> DEFINE B == [A -> A]  first == {i}
    <3>1. steps \in Seq(B) /\ TakesTurns(g, steps, first)
      BY <1>7, <1>10
    <3> HIDE DEF first, B
    <3>2. g[0] = first /\ \A k \in 1..Len(steps) : g[k] = steps[k][g[k - 1]]
      BY ONLY <3>1, TurnsFacts
    <3> QED  BY <3>2 DEF first
  <2> QED  BY <2>1, <2>2
<1> DEFINE Holds == {k \in Nat : k \in 0..N => g[k] \in SUBSET (0..n)}
<1>13. 0 \in Holds
  BY <1>8, <1>12
<1>14. ASSUME NEW k \in 1..N, g[k - 1] \in SUBSET (0..n)
       PROVE  g[k] = Onward(derived, seq[k], g[k - 1]) /\ g[k] \in SUBSET (0..n)
  <2>1. g[k - 1] \in A
    BY <1>3, <1>14
  <2> DEFINE before == g[k - 1]
  <2>2. steps[k] = [from \in A |-> Onward(derived, seq[k], from)] /\ g[k] = steps[k][before]
    BY <1>4, <1>12
  <2>3. before \in A
    BY <2>1
  <2> HIDE DEF before
  <2>4. g[k] = Onward(derived, seq[k], before)
    BY ONLY <2>2, <2>3
  <2>5. g[k] = Onward(derived, seq[k], g[k - 1])
    BY <2>4 DEF before
  <2> QED  BY <1>2, <2>5
<1>15. ASSUME NEW k \in Nat, k \in Holds
       PROVE  k + 1 \in Holds
  <2> SUFFICES ASSUME k + 1 \in 0..N
               PROVE  g[k + 1] \in SUBSET (0..n)
    OBVIOUS
  <2>1. k \in 0..N /\ k + 1 \in 1..N /\ (k + 1) - 1 = k
    BY <1>1
  <2> QED  BY <1>14, <1>15, <2>1
<1> HIDE DEF Holds
<1>16. \A k \in Nat : k \in Holds
  BY <1>13, <1>15, Induction
<1>17. \A k \in 0..N : g[k] \in SUBSET (0..n)
  BY <1>1, <1>16 DEF Holds
<1>18. \A k \in 1..N : g[k] = Onward(derived, seq[k], g[k - 1])
  <2> SUFFICES ASSUME NEW k \in 1..N
               PROVE  g[k] = Onward(derived, seq[k], g[k - 1])
    OBVIOUS
  <2>1. k - 1 \in 0..N
    BY <1>1
  <2> QED  BY <1>14, <1>17, <2>1
<1>19. ReachedBy(g, derived, seq, i, n)
  BY <1>11, <1>12, <1>17, <1>18 DEF ReachedBy, N
<1> QED  BY <1>19

\* Positions are reached within the word,
LEMMA ReachTyped ==
  ASSUME NEW n \in Nat, NEW derived \in SUBSET Triples(n), NEW seq \in Seq(Names), NEW i \in 0..n
  PROVE  Reach(derived, seq, i) \in SUBSET (0..n)
<1>1. PICK f : ReachedBy(f, derived, seq, i, n)
  BY ReachTurns
<1>2. Len(seq) \in 0..Len(seq)
  BY LenProperties
<1> QED  BY <1>1, <1>2 DEF ReachedBy

\* more of them when more is derived,
LEMMA ReachMore ==
  ASSUME NEW n \in Nat, NEW m \in Nat, NEW some \in SUBSET Triples(n), NEW more \in SUBSET Triples(m),
         some \subseteq more, NEW seq \in Seq(Names), NEW i \in 0..n, i \in 0..m
  PROVE  Reach(some, seq, i) \subseteq Reach(more, seq, i)
<1> DEFINE N == Len(seq)
<1>1. PICK f : ReachedBy(f, some, seq, i, n)
  BY ReachTurns
<1>2. PICK g : ReachedBy(g, more, seq, i, m)
  BY ReachTurns
<1> DEFINE Holds == {k \in Nat : k \in 0..N => f[k] \subseteq g[k]}
<1>3. N \in Nat
  BY LenProperties
<1>4. 0 \in Holds
  BY <1>1, <1>2 DEF ReachedBy
<1>5. ASSUME NEW k \in Nat, k \in Holds
      PROVE  k + 1 \in Holds
  <2> SUFFICES ASSUME k + 1 \in 0..N
               PROVE  f[k + 1] \subseteq g[k + 1]
    OBVIOUS
  <2>1. k \in 0..N /\ k + 1 \in 1..N /\ (k + 1) - 1 = k
    BY <1>3
  <2>2. f[k] \subseteq g[k]
    BY <1>5, <2>1
  <2>3. f[k + 1] = Onward(some, seq[k + 1], f[k]) /\ g[k + 1] = Onward(more, seq[k + 1], g[k])
    BY <1>1, <1>2, <2>1 DEF ReachedBy
  <2> QED  BY <2>2, <2>3 DEF Onward
<1> HIDE DEF Holds
<1>6. N \in Holds
  BY <1>3, <1>4, <1>5, Induction
<1>7. f[N] \subseteq g[N]
  BY <1>3, <1>6 DEF Holds
<1> QED  BY <1>1, <1>2, <1>7 DEF ReachedBy

\* and every one that symbols derived one after the other lead to.
LEMMA ReachAlong ==
  ASSUME NEW n \in Nat, NEW derived \in SUBSET Triples(n), NEW seq \in Seq(Names),
         NEW p \in [0..Len(seq) -> 0..n],
         \A k \in 1..Len(seq) : <<seq[k], p[k - 1], p[k]>> \in derived
  PROVE  p[Len(seq)] \in Reach(derived, seq, p[0])
<1> DEFINE N == Len(seq)
<1>1. N \in Nat /\ p[0] \in 0..n
  BY LenProperties
<1>2. PICK f : ReachedBy(f, derived, seq, p[0], n)
  BY <1>1, ReachTurns
<1> DEFINE Holds == {k \in Nat : k \in 0..N => p[k] \in f[k]}
<1>3. 0 \in Holds
  BY <1>2 DEF ReachedBy
<1>4. ASSUME NEW k \in Nat, k \in Holds
      PROVE  k + 1 \in Holds
  <2> SUFFICES ASSUME k + 1 \in 0..N
               PROVE  p[k + 1] \in f[k + 1]
    OBVIOUS
  <2>1. k \in 0..N /\ k + 1 \in 1..N /\ (k + 1) - 1 = k
    BY <1>1
  <2>2. p[k] \in f[k]
    BY <1>4, <2>1
  <2>3. f[k + 1] = Onward(derived, seq[k + 1], f[k])
    BY <1>2, <2>1 DEF ReachedBy
  <2> DEFINE d == <<seq[k + 1], p[k], p[k + 1]>>
  <2>4. d \in derived /\ d[1] = seq[k + 1] /\ d[2] = p[k] /\ d[3] = p[k + 1]
    BY <2>1
  <2> HIDE DEF d
  <2> QED  BY <2>2, <2>3, <2>4 DEF Onward
<1> HIDE DEF Holds
<1>5. N \in Holds
  BY <1>1, <1>3, <1>4, Induction
<1> QED  BY <1>1, <1>2, <1>5 DEF ReachedBy, Holds

\* The spans of a word are finite in number, and its lexemes are among them.
LEMMA SpansFacts ==
  ASSUME NEW T, SoundTables(T), NEW word \in Seq(Names)
  PROVE  /\ Len(word) \in Nat
         /\ IsFiniteSet(Spans(T, word)) /\ Spans(T, word) \subseteq Triples(Len(word))
         /\ Lexemes(word) \subseteq Spans(T, word)
         /\ \A r \in RuleSet(T) : r.rhs \in Seq(Names) /\ r.lhs \in Nonterminals(T)
<1> DEFINE n == Len(word)  L == Nonterminals(T)  W == ToSet(word)
<1>1. n \in Nat /\ DOMAIN word = 1..n /\ \A i \in 1..n : word[i] \in Names
  BY LenProperties, ElementOfSeq
<1>2. \A r \in RuleSet(T) : r.rhs \in Seq(Names) /\ r.lhs \in Names /\ r.lhs \in L
  BY DEF SoundTables, RuleSet, Nonterminals, Names
<1>3. L \subseteq Names
  BY <1>2 DEF Nonterminals
<1>4. IsFiniteSet(1..n) /\ IsFiniteSet(0..n)
  BY <1>1, FS_Interval
<1>5. IsFiniteSet(W) /\ W \subseteq Names
  <2>1. word \in [1..n -> Names] /\ W = {word[i] : i \in 1..n}
    BY <1>1 DEF ToSet
  <2> HIDE DEF n, W
  <2>2. IsFiniteSet({word[i] : i \in 1..n})
    BY <1>4, <2>1, ImageFinite
  <2> QED  BY <2>1, <2>2
<1>6. IsFiniteSet(L)
  <2>1. PICK last \in Nat \cap DOMAIN T.rules : DOMAIN T.rules = 0..last
    BY DEF SoundTables
  <2> DEFINE D == (0..last) \ {0}  f == [r \in D |-> T.rules[r].lhs]
  <2>2. IsFiniteSet(D)
    <3>1. IsFiniteSet(0..last) /\ D \subseteq 0..last
      BY <2>1, FS_Interval
    <3> HIDE DEF D
    <3> QED  BY ONLY <3>1, FS_Subset
  <2>3. L = {f[r] : r \in D}
    BY <2>1 DEF Nonterminals, RuleSet
  <2>4. f \in [D -> L]
    BY <2>3
  <2> HIDE DEF D, f, L
  <2>5. IsFiniteSet({f[r] : r \in D})
    BY <2>2, <2>4, ImageFinite
  <2> QED  BY <2>3, <2>5
<1>7. Spans(T, word) = (W \cup L) \X (0..n) \X (0..n)
  BY DEF Spans
<1>8. IsFiniteSet(W \cup L)
  BY <1>5, <1>6, FS_Union
<1> HIDE DEF n, W, L
<1> DEFINE X == W \cup L  P == 0..n
           pairs == X \X P  f == [q \in pairs \X P |-> <<q[1][1], q[1][2], q[2]>>]
<1>9. IsFiniteSet(pairs \X P)
  <2>1. IsFiniteSet(X) /\ IsFiniteSet(P)
    BY <1>4, <1>8
  <2> HIDE DEF X, P, pairs
  <2>2. IsFiniteSet(X \X P)
    BY <2>1, FS_Product
  <2>3. IsFiniteSet(pairs)
    BY <2>2 DEF pairs
  <2> QED  BY <2>1, <2>3, FS_Product
<1>10. X \X P \X P \subseteq {f[q] : q \in pairs \X P}
  <2> SUFFICES ASSUME NEW e \in X \X P \X P
               PROVE  e \in {f[q] : q \in pairs \X P}
    BY Zenon
  <2> HIDE DEF X, P
  <2>1. e[1] \in X /\ e[2] \in P /\ e[3] \in P /\ e = <<e[1], e[2], e[3]>>
    OBVIOUS
  <2> DEFINE q == <<<<e[1], e[2]>>, e[3]>>
  <2>2. q \in pairs \X P /\ f[q] = <<e[1], e[2], e[3]>>
    BY <2>1
  <2> HIDE DEF pairs, f, q
  <2> QED  BY <2>1, <2>2
<1>11. f \in [pairs \X P -> X \X P \X P]
  OBVIOUS
<1>12. IsFiniteSet(X \X P \X P)
  <2> DEFINE D == pairs \X P  R == X \X P \X P
  <2>1. IsFiniteSet(D) /\ f \in [D -> R] /\ R \subseteq {f[q] : q \in D}
    BY <1>9, <1>10, <1>11
  <2> HIDE DEF D, R, f
  <2>2. IsFiniteSet({f[q] : q \in D})
    BY <2>1, ImageFinite
  <2>3. IsFiniteSet(R)
    BY <2>1, <2>2, FS_Subset
  <2> QED  BY <2>3 DEF R
<1>13. Spans(T, word) \subseteq Triples(n)
  BY <1>3, <1>5, <1>7 DEF Triples
<1>14. Lexemes(word) \subseteq Spans(T, word)
  <2> SUFFICES ASSUME NEW i \in 1..n
               PROVE  <<word[i], i - 1, i>> \in Spans(T, word)
    BY DEF Lexemes, n
  <2>1. word[i] \in W
    BY <1>1 DEF W, ToSet
  <2>2. i - 1 \in 0..n /\ i \in 0..n
    BY <1>1
  <2> QED  BY <1>7, <2>1, <2>2
<1> QED  BY <1>1, <1>2, <1>7, <1>12, <1>13, <1>14 DEF n, L

\* What a round of derivation adds.
LEMMA GrowDerivedIs ==
  ASSUME NEW T, NEW n, NEW derived, NEW e
  PROVE  e \in GrowDerived(T, n, derived) <=>
           \/ e \in derived
           \/ \E r \in RuleSet(T), i \in 0..n : \E j \in Reach(derived, r.rhs, i) : e = <<r.lhs, i, j>>
<1> DEFINE Of(r, i) == {<<r.lhs, i, j>> : j \in Reach(derived, r.rhs, i)}
           all == {Of(r, i) : r \in RuleSet(T), i \in 0..n}
<1>1. GrowDerived(T, n, derived) = derived \cup UNION all
  BY DEF GrowDerived
<1>2. e \in UNION all <=> \E r \in RuleSet(T), i \in 0..n : e \in Of(r, i)
  <2> HIDE DEF Of
  <2> QED  OBVIOUS
<1>3. \A r, i : e \in Of(r, i) <=> \E j \in Reach(derived, r.rhs, i) : e = <<r.lhs, i, j>>
  OBVIOUS
<1> HIDE DEF all, Of
<1> QED  BY <1>1, <1>2, <1>3

\* A round of derivation stays within the spans, and a larger set derives more.
LEMMA GrowDerivedFacts ==
  ASSUME NEW T, SoundTables(T), NEW word \in Seq(Names), NEW some \in SUBSET Spans(T, word)
  PROVE  /\ GrowDerived(T, Len(word), some) \in SUBSET Spans(T, word)
         /\ some \subseteq GrowDerived(T, Len(word), some)
<1> DEFINE n == Len(word)
<1>1. n \in Nat /\ some \in SUBSET Triples(n) /\ \A r \in RuleSet(T) : r.rhs \in Seq(Names) /\ r.lhs \in Nonterminals(T)
  BY SpansFacts
<1>2. ASSUME NEW r \in RuleSet(T), NEW i \in 0..n, NEW j \in Reach(some, r.rhs, i)
      PROVE  <<r.lhs, i, j>> \in Spans(T, word)
  <2>1. j \in 0..n
    BY <1>1, ReachTyped
  <2> QED  BY <1>1, <2>1 DEF Spans
<1> QED  BY <1>2 DEF GrowDerived

\* A longer word and a larger set derive more in a round.
LEMMA GrowDerivedMore ==
  ASSUME NEW T, SoundTables(T), NEW word \in Seq(Names), NEW longer \in Seq(Names), Len(word) <= Len(longer),
         NEW some \in SUBSET Spans(T, word), NEW more \in SUBSET Spans(T, longer), some \subseteq more
  PROVE  GrowDerived(T, Len(word), some) \subseteq GrowDerived(T, Len(longer), more)
<1> DEFINE n == Len(word)  m == Len(longer)
<1>1. /\ n \in Nat /\ m \in Nat /\ some \in SUBSET Triples(n) /\ more \in SUBSET Triples(m)
      /\ \A r \in RuleSet(T) : r.rhs \in Seq(Names)
  BY SpansFacts
<1>2. ASSUME NEW r \in RuleSet(T), NEW i \in 0..n
      PROVE  i \in 0..m /\ Reach(some, r.rhs, i) \subseteq Reach(more, r.rhs, i)
  <2>1. i \in 0..m
    BY <1>1
  <2> HIDE DEF n, m
  <2> QED  BY <1>1, <2>1, ReachMore
<1> HIDE DEF n, m
<1>3. GrowDerived(T, n, some) \subseteq GrowDerived(T, m, more)
  <2> SUFFICES ASSUME NEW e \in GrowDerived(T, n, some)
               PROVE  e \in GrowDerived(T, m, more)
    OBVIOUS
  <2>1. CASE e \in some
    BY <2>1, GrowDerivedIs
  <2>2. CASE e \notin some
    <3>1. PICK r \in RuleSet(T), i \in 0..n : \E j \in Reach(some, r.rhs, i) : e = <<r.lhs, i, j>>
      BY <2>2, GrowDerivedIs
    <3>2. i \in 0..m /\ \E j \in Reach(more, r.rhs, i) : e = <<r.lhs, i, j>>
      BY <1>2, <3>1
    <3> QED  BY <3>2, GrowDerivedIs
  <2> QED  BY <2>1, <2>2
<1> QED  BY <1>3 DEF n, m

\* A loop whose rounds keep an invariant and lower a measure ends, with the
\* invariant, at a value that another round does not change.
LEMMA SettledFacts ==
  ASSUME NEW A, NEW step \in [A -> A], NEW I \in SUBSET A, NEW m \in [I -> Nat], NEW start \in I,
         \A a \in I : step[a] \in I /\ (step[a] # a => m[step[a]] < m[a])
  PROVE  LRT!Fixpoint(step, start) \in I /\ step[LRT!Fixpoint(step, start)] = LRT!Fixpoint(step, start)
<1> DEFINE f == CHOOSE f : RunsOn(f, step)
<1>1. RunsOn(f, step)
  BY RunExists
<1>2. LRT!Fixpoint(step, start) = f[start]
  BY DEF LRT!Fixpoint, RunsOn
<1> HIDE DEF f
<1>3. f[start] \in I /\ step[f[start]] = f[start]
  BY <1>1, RunRests
<1> QED  BY <1>2, <1>3

\* What is derived holds the lexemes, grows no further, and lies within every
\* set of which the same can be said.
LEMMA DerivedFacts ==
  ASSUME NEW T, SoundTables(T), NEW word, word \in Seq(Names)
  PROVE  /\ Derived(T, word) \in SUBSET Spans(T, word)
         /\ Lexemes(word) \subseteq Derived(T, word)
         /\ GrowDerived(T, Len(word), Derived(T, word)) = Derived(T, word)
         /\ \A all : (/\ Lexemes(word) \subseteq all
                      /\ \A some \in SUBSET Spans(T, word) :
                           some \subseteq all => GrowDerived(T, Len(word), some) \subseteq all)
                     => Derived(T, word) \subseteq all
<1> DEFINE S == Spans(T, word)  n == Len(word)  first == Lexemes(word)
           A == SUBSET S
           step == [some \in A |-> GrowDerived(T, n, some)]
           end == LRT!Fixpoint(step, first)
<1>1. IsFiniteSet(S) /\ first \in A
  BY SpansFacts
<1>2. \A some \in A : step[some] = GrowDerived(T, n, some) /\ step[some] \in A /\ some \subseteq step[some]
  BY GrowDerivedFacts
<1>3. step \in [A -> A]
  BY <1>2
<1>5. Derived(T, word) = end
  BY DEF Derived
<1> HIDE DEF end, step, S, n, first
<1>6. ASSUME NEW P \in SUBSET A, first \in P, \A some \in P : step[some] \in P
      PROVE  end \in P /\ first \subseteq end /\ step[end] = end
  <2> DEFINE I == {some \in P : first \subseteq some}
             left(some) == Cardinality(S) - Cardinality(some)
             m == [some \in I |-> left(some)]
  <2>1. \A some \in I : some \in A /\ step[some] \in I
    BY <1>2, <1>6
  <2>2. I \in SUBSET A /\ first \in I
    BY <1>6
  <2>3. ASSUME NEW some \in A
        PROVE  left(some) \in Nat /\ (step[some] # some => left(step[some]) < left(some))
    <3>1. some \subseteq step[some] /\ step[some] \subseteq S /\ some \subseteq some /\ some \subseteq S
      BY <1>2
    <3>2. left(some) \in Nat
      BY <1>1, <3>1, GrowthMeasure
    <3>3. some # step[some] => left(step[some]) < left(some)
      BY <1>1, <3>1, GrowthMeasure
    <3> QED  BY <3>2, <3>3
  <2> HIDE DEF left, I
  <2>4. m \in [I -> Nat] /\ \A some \in I : step[some] \in I /\ (step[some] # some => m[step[some]] < m[some])
    BY <2>1, <2>3
  <2> HIDE DEF m, A
  <2>5. LRT!Fixpoint(step, first) \in I /\ step[LRT!Fixpoint(step, first)] = LRT!Fixpoint(step, first)
    BY ONLY <1>3, <2>2, <2>4, SettledFacts
  <2> QED  BY <2>5 DEF I, end
<1>7. end \in A /\ first \subseteq end /\ step[end] = end
  <2>1. \A some \in A : step[some] \in A
    BY <1>2
  <2>2. A \in SUBSET A
    OBVIOUS
  <2> HIDE DEF A
  <2> QED  BY <1>1, <1>6, <2>1, <2>2
<1>8. GrowDerived(T, n, end) = end
  BY <1>2, <1>7
<1>9. ASSUME NEW all, first \subseteq all, \A some \in A : some \subseteq all => GrowDerived(T, n, some) \subseteq all
      PROVE  end \subseteq all
  <2> DEFINE P == {some \in A : some \subseteq all}
  <2>1. P \in SUBSET A /\ first \in P
    BY <1>1, <1>9
  <2>2. \A some \in P : step[some] \in P
    BY <1>2, <1>9
  <2> HIDE DEF P
  <2>3. end \in P
    BY <1>6, <2>1, <2>2
  <2> QED  BY <2>3 DEF P
<1> QED  BY <1>5, <1>7, <1>8, <1>9 DEF S, n, first

\* A longer word derives what the shorter one does.
LEMMA DerivedGrows ==
  ASSUME NEW T, SoundTables(T), NEW word \in Seq(Names), NEW t \in Names
  PROVE  Derived(T, word) \subseteq Derived(T, Append(word, t))
<1> DEFINE longer == Append(word, t)  all == Derived(T, longer)
<1>1. /\ longer \in Seq(Names) /\ Len(longer) = Len(word) + 1 /\ Len(word) \in Nat
      /\ \A i \in 1..Len(word) : longer[i] = word[i]
  <2>1. Len(word) \in Nat
    BY LenProperties
  <2>2. /\ longer \in Seq(Names) /\ Len(longer) = Len(word) + 1
        /\ \A i \in 1..Len(word) : longer[i] = word[i]
    BY PushFacts
  <2> QED  BY <2>1, <2>2
<1> HIDE DEF longer
<1>2. /\ all \in SUBSET Spans(T, longer) /\ Lexemes(longer) \subseteq all
      /\ GrowDerived(T, Len(longer), all) = all
  BY <1>1, DerivedFacts
<1>3. Lexemes(word) \subseteq Lexemes(longer)
  BY <1>1 DEF Lexemes
<1> HIDE DEF all
<1>4. ASSUME NEW some \in SUBSET Spans(T, word), some \subseteq all
      PROVE  GrowDerived(T, Len(word), some) \subseteq all
  <2>1. Len(word) <= Len(longer)
    BY <1>1
  <2>2. GrowDerived(T, Len(word), some) \subseteq GrowDerived(T, Len(longer), all)
    BY <1>1, <1>2, <1>4, <2>1, GrowDerivedMore
  <2> QED  BY <1>2, <2>2
<1>5. Derived(T, word) \subseteq all
  <2>1. Lexemes(word) \subseteq all
    BY <1>2, <1>3
  <2> QED  BY <1>4, <2>1, DerivedFacts
<1> QED  BY <1>5 DEF all, longer

\* A rule derives what its right-hand side does.
LEMMA RuleDerives ==
  ASSUME NEW T, SoundTables(T), NEW word \in Seq(Names), NEW r \in RuleSet(T),
         NEW p \in [0..Len(r.rhs) -> 0..Len(word)],
         \A k \in 1..Len(r.rhs) : <<r.rhs[k], p[k - 1], p[k]>> \in Derived(T, word)
  PROVE  <<r.lhs, p[0], p[Len(r.rhs)]>> \in Derived(T, word)
<1> DEFINE n == Len(word)  d == Derived(T, word)
<1>1. /\ n \in Nat /\ d \in SUBSET Triples(n) /\ GrowDerived(T, n, d) = d
      /\ r.rhs \in Seq(Names)
  BY SpansFacts, DerivedFacts
<1>2. p[0] \in 0..n
  <2>1. 0 \in 0..Len(r.rhs)
    BY <1>1, LenProperties
  <2> QED  BY <2>1
<1> DEFINE seq == r.rhs
<1>3. p[Len(seq)] \in Reach(d, seq, p[0])
  <2>1. seq \in Seq(Names) /\ p \in [0..Len(seq) -> 0..n]
        /\ \A k \in 1..Len(seq) : <<seq[k], p[k - 1], p[k]>> \in d
    BY <1>1
  <2> HIDE DEF seq, d, n
  <2> QED  BY ONLY <1>1, <2>1, ReachAlong
<1> HIDE DEF d, n
<1>4. <<r.lhs, p[0], p[Len(r.rhs)]>> \in GrowDerived(T, n, d)
  BY <1>2, <1>3, GrowDerivedIs
<1> QED  BY <1>1, <1>4 DEF d

-----------------------------------------------------------------------------
(* The values are phrases of the grammar. *)

\* What a value of the stack says of the input.
Stands(v) == <<v.sym, v.from, v.to>>

\* The buffered lookahead is the last lexeme delivered.
LookaheadOK == ready /\ symbol # EOF => symbol = pulled[Len(pulled)]

\* Until the first syntax error every value stands for a phrase of the grammar.
PhrasesOK ==
  diagnostics = <<>> => \A i \in 1..Len(values) : Stands(values[i]) \in Derived(Table, pulled)

PhraseInv == LookaheadOK /\ PhrasesOK

\* The input is a word over the names of symbols, with the position inside it.
LEMMA WordFacts ==
  ASSUME TInv
  PROVE  /\ SoundTables(Table) /\ Lookaheads \subseteq Names
         /\ pulled \in Seq(Names) /\ Len(pulled) \in Nat /\ Consumed \in 0..Len(pulled)
<1>1. SoundTables(Table) /\ pulled \in Seq(Lookaheads) /\ Len(pulled) \in Nat
  BY TopFacts, LenProperties DEF TInv, TypeOK
<1>2. Lookaheads \subseteq Names
  <2>1. \A t \in Table.terminals : t \in STRING
    BY <1>1 DEF SoundTables
  <2> QED  BY <2>1 DEF Lookaheads, Names
<1>3. pulled \in Seq(Names)
  <2> HIDE DEF Lookaheads, Names
  <2> QED  BY <1>1, <1>2
<1>4. Consumed \in 0..Len(pulled)
  <2>1. pulled # <<>> => Len(pulled) > 0
    BY <1>1, EmptySeq
  <2> QED  BY <1>1, <2>1 DEF Consumed, TInv, CursorOK
<1> QED  BY <1>1, <1>2, <1>3, <1>4

\* A lexeme derives itself.
LEMMA LexemeDerives ==
  ASSUME TInv, LookaheadOK, ready, symbol # EOF
  PROVE  Stands(LexemeValue) \in Derived(Table, pulled)
<1> DEFINE n == Len(pulled)
<1>1. n \in Nat /\ n > 0
  <2>1. Len(pulled) \in Nat /\ (pulled # <<>> => Len(pulled) > 0)
    BY EmptySeq, LenProperties DEF TInv, TypeOK
  <2> QED  BY <2>1 DEF TInv, CursorOK
<1>2. Consumed = n - 1 /\ symbol = pulled[n]
  BY DEF Consumed, LookaheadOK
<1>3. Stands(LexemeValue) = <<pulled[n], n - 1, n>>
  BY <1>1, <1>2 DEF LexemeValue, Stands
<1>4. n \in 1..n
  BY <1>1
<1>5. Stands(LexemeValue) \in Lexemes(pulled)
  BY <1>3, <1>4 DEF Lexemes
<1>6. SoundTables(Table) /\ pulled \in Seq(Names)
  BY WordFacts
<1> QED  BY <1>5, <1>6, DerivedFacts

\* A reduction derives what its handle spans.
LEMMA ReductionDerives ==
  ASSUME TInv, PathOK, OrderOK, PhrasesOK, ActionIs("reduce"), diagnostics = <<>>
  PROVE  Stands(Reduced(Rule(Action.rule).lhs, Handle)) \in Derived(Table, pulled)
<1> DEFINE r == Rule(Action.rule)  n == HandleSize  m == Len(values)  end == Len(pulled)
           v == Reduced(r.lhs, Handle)  at(k) == EndBefore(values, m - n + k + 1)
           p == [k \in 0..n |-> at(k)]
<1>1. /\ TypeOK /\ status = "running" /\ SoundTables(Table)
      /\ pulled \in Seq(Names) /\ end \in Nat /\ Consumed \in 0..end
  BY WordFacts DEF TInv, ActionIs, Deciding
<1>2. /\ r \in RuleSet(Table) /\ n \in Nat /\ n = Len(r.rhs)
      /\ \A i \in 1..n : Handle[i].sym = r.rhs[i]
  BY <1>1, ReduceFacts, ReduceSucceeds DEF RuleSet, Rule, HandleSize
<1>3. /\ m \in Nat /\ m - n \in Nat /\ Len(Handle) = n /\ Handle \in Seq(Values)
      /\ \A i \in 1..n : Handle[i] = values[m - n + i]
      /\ \A i \in 1..m : values[i] \in Values
  <2>1. HandleFits /\ m \in Nat
    BY <1>1, ReduceSucceeds, TopFacts
  <2>2. m - n \in Nat
    BY <1>2, <2>1 DEF HandleFits
  <2>3. \A i \in 1..m : values[i] \in Values
    BY <1>1, ElementOfSeq DEF TypeOK
  <2> QED  BY <1>1, <2>1, <2>2, <2>3, KeptFacts
<1>4. Gapless(values, Consumed) /\ Ascending(values, Consumed)
  BY <1>1 DEF OrderOK
<1> HIDE DEF r, n, m, end
<1>5. \A k \in 1..n : m - n + k \in 1..m /\ at(k) = values[m - n + k].to
  <2>1. \A k \in 1..n : m - n + k \in 1..m /\ m - n + k + 1 # 1 /\ m - n + k + 1 - 1 = m - n + k
    BY <1>2, <1>3
  <2> QED  BY <2>1 DEF EndBefore
<1>6. \A k \in 1..n : at(k - 1) = values[m - n + k].from
  <2>1. \A k \in 1..n : m - n + (k - 1) + 1 = m - n + k
    BY <1>2, <1>3
  <2>2. \A k \in 1..n : values[m - n + k].from = EndBefore(values, m - n + k)
    BY <1>4, <1>5 DEF Gapless, m
  <2> QED  BY <2>1, <2>2
<1>7. p \in [0..n -> 0..end]
  <2>1. \A i \in 1..m : values[i].to \in 0..end
    <3>1. \A i \in 1..m : values[i].to \in Nat /\ values[i].to <= Consumed
      BY <1>3, <1>4 DEF Ascending, Values, m
    <3> QED  BY <1>1, <3>1
  <2> SUFFICES ASSUME NEW k \in 0..n
               PROVE  at(k) \in 0..end
    OBVIOUS
  <2>2. CASE k \in 1..n
    BY <1>5, <2>1, <2>2
  <2>3. CASE k = 0
    <3>1. m - n + 0 + 1 = m - n + 1 /\ (m - n + 1 = 1 \/ m - n \in 1..m) /\ m - n + 1 - 1 = m - n
      BY <1>2, <1>3
    <3> QED  BY <1>1, <2>1, <2>3, <3>1 DEF EndBefore
  <2> QED  BY <1>2, <2>2, <2>3
<1>8. \A k \in 1..n : <<r.rhs[k], p[k - 1], p[k]>> \in Derived(Table, pulled)
  <2> SUFFICES ASSUME NEW k \in 1..n
               PROVE  <<r.rhs[k], p[k - 1], p[k]>> \in Derived(Table, pulled)
    OBVIOUS
  <2>1. k \in 0..n /\ k - 1 \in 0..n
    BY <1>2
  <2>2. p[k - 1] = values[m - n + k].from /\ p[k] = values[m - n + k].to
    BY <1>5, <1>6, <2>1
  <2>3. r.rhs[k] = values[m - n + k].sym
    BY <1>2, <1>3
  <2>4. Stands(values[m - n + k]) \in Derived(Table, pulled)
    BY <1>5 DEF PhrasesOK, m
  <2> QED  BY <2>2, <2>3, <2>4 DEF Stands
<1>9. v.sym = r.lhs /\ v.from = at(0) /\ v.to = at(n)
  <2>1. CASE n = 0
    <3>1. Handle = <<>>
      BY <1>3, <2>1, EmptySeq
    <3>2. v.sym = r.lhs /\ v.from = Consumed /\ v.to = Consumed
      BY <3>1 DEF Reduced
    <3>3. EndBefore(values, m + 1) = Consumed
      BY <1>4 DEF Gapless, m
    <3>4. m - n + n + 1 = m + 1 /\ m - n + 0 + 1 = m + 1
      BY <1>3, <2>1
    <3> QED  BY <3>2, <3>3, <3>4
  <2>2. CASE n > 0
    <3>1. Handle # <<>>
      BY <1>3, <2>2, EmptySeq
    <3>2. v.sym = r.lhs /\ v.from = Handle[1].from /\ v.to = Handle[n].to
      BY <1>3, <3>1 DEF Reduced, Top
    <3>3. 1 \in 1..n /\ n \in 1..n /\ 1 - 1 = 0
      BY <1>2, <2>2
    <3>4. Handle[1].from = at(0)
      BY <1>3, <1>6, <3>3
    <3>5. Handle[n].to = at(n)
      BY <1>3, <1>5, <3>3
    <3> QED  BY <3>2, <3>4, <3>5
  <2> QED  BY <1>2, <2>1, <2>2
<1>10. <<r.lhs, p[0], p[n]>> \in Derived(Table, pulled)
  <2>1. p \in [0..Len(r.rhs) -> 0..Len(pulled)]
    BY <1>2, <1>7 DEF end
  <2>2. \A k \in 1..Len(r.rhs) : <<r.rhs[k], p[k - 1], p[k]>> \in Derived(Table, pulled)
    BY <1>2, <1>8
  <2> HIDE DEF p
  <2>3. <<r.lhs, p[0], p[Len(r.rhs)]>> \in Derived(Table, pulled)
    BY <1>1, <1>2, <2>1, <2>2, RuleDerives
  <2> QED  BY <1>2, <2>3
<1>11. p[0] = at(0) /\ p[n] = at(n)
  <2>1. 0 \in 0..n /\ n \in 0..n
    BY <1>2
  <2> QED  BY <2>1
<1>12. Stands(v) = <<r.lhs, p[0], p[n]>>
  BY <1>9, <1>11 DEF Stands
<1> QED  BY <1>10, <1>12 DEF r

\* The lookahead stays the last lexeme delivered.
LEMMA LookaheadNext == IInv /\ LookaheadOK /\ [Next]_vars => LookaheadOK'
<1> SUFFICES ASSUME TInv, LookaheadOK, [Next]_vars PROVE LookaheadOK'
  BY DEF IInv
<1> USE DEF cursor
<1>1. CASE PeekLexeme
  <2>1. PICK t \in Table.terminals \cup {Unknown} : symbol' = t /\ pulled' = Append(pulled, t)
    BY <1>1 DEF PeekLexeme
  <2>2. t \in Lookaheads /\ pulled \in Seq(Lookaheads)
    BY <2>1 DEF Lookaheads, TInv, TypeOK
  <2>3. Len(pulled') = Len(pulled) + 1 /\ pulled'[Len(pulled) + 1] = t
    BY <2>1, <2>2, PushFacts
  <2> QED  BY <2>1, <2>3 DEF LookaheadOK
<1>2. CASE PeekEnd
  BY <1>2 DEF PeekEnd, LookaheadOK
<1>3. ASSUME pulled' = pulled, symbol' = symbol, ready' = ready \/ ready' = FALSE
      PROVE  LookaheadOK'
  BY <1>3 DEF LookaheadOK
<1>4. CASE Begin \/ PeekFails \/ ReducerFails \/ Accept
  BY <1>3, <1>4 DEF Begin, PeekFails, ReducerFails, Accept
<1>5. CASE Shift \/ Reduce
  BY <1>3, <1>5 DEF Shift, Reduce, Fail
<1>6. CASE ShiftError \/ Abort \/ Discard \/ AbortAtEnd
  BY <1>3, <1>6 DEF ShiftError, Abort, Discard, AbortAtEnd
<1>7. CASE UNCHANGED vars
  BY <1>3, <1>7 DEF vars
<1> QED  BY <1>1, <1>2, <1>4, <1>5, <1>6, <1>7 DEF Next, Peek, Act, Recover

\* A diagnostic is never taken back, and recovery always has one.
LEMMA DiagnosticsRemain ==
  ASSUME TInv, ReportInv, [Next]_vars
  PROVE  /\ diagnostics' = <<>> => diagnostics = <<>>
         /\ ShiftError \/ Abort \/ Discard \/ AbortAtEnd => diagnostics' # <<>>
<1> USE DEF report
<1>0. TypeOK /\ diagnostics \in Seq(Diagnostics) /\ active \in 0..Len(diagnostics) /\ Len(diagnostics) \in Nat
  BY LenProperties DEF TInv, TypeOK
<1>1. ASSUME NEW kind, active > 0,
             \/ diagnostics' = [diagnostics EXCEPT ![active].kind = kind]
             \/ diagnostics' = [diagnostics EXCEPT ![active].discarded = @ + 1]
      PROVE  diagnostics' # <<>>
  <2>1. active \in 1..Len(diagnostics)
    BY <1>0, <1>1
  <2>2. Len(diagnostics') = Len(diagnostics)
    BY <1>0, <1>1, <2>1, SettleFacts, ChargeFacts
  <2> QED  BY <1>0, <2>1, <2>2, EmptySeq
<1>2. CASE ShiftError \/ Abort
  <2>1. PICK kind \in {"shift-error", "recovered", "abort"} : diagnostics' = Append(diagnostics, Diagnosis(kind))
    BY <1>2 DEF ShiftError, Abort
  <2>2. diagnostics' # <<>>
    BY <1>0, <2>1, SpanFacts, PushFacts
  <2> QED  BY <2>2
<1>3. CASE Discard \/ AbortAtEnd
  <2>1. active > 0
    BY <1>3 DEF Discard, AbortAtEnd, ReportInv, RecoveryWindow
  <2>2. diagnostics' # <<>>
    BY <1>1, <1>3, <2>1 DEF Discard, AbortAtEnd
  <2> QED  BY <2>2
<1>4. CASE Shift
  <2>1. diagnostics' = diagnostics \/ (active > 0 /\ diagnostics' = [diagnostics EXCEPT ![active].kind = "recovered"])
    BY <1>4 DEF Shift, Fail, CountShift
  <2>2. diagnostics' = <<>> => diagnostics = <<>>
    BY <1>1, <2>1
  <2> QED  BY <1>2, <1>3, <2>2
<1>5. CASE Accept
  <2>1. diagnostics' = <<>> => diagnostics = <<>>
    BY <1>1, <1>5 DEF Accept
  <2> QED  BY <1>2, <1>3, <2>1
<1>6. CASE Begin \/ PeekLexeme \/ PeekEnd \/ PeekFails \/ Reduce \/ ReducerFails \/ UNCHANGED vars
  <2>1. diagnostics' = diagnostics
    BY <1>6 DEF Begin, PeekLexeme, PeekEnd, PeekFails, Reduce, Fail, ReducerFails, vars
  <2> QED  BY <1>2, <1>3, <2>1
<1> QED  BY <1>2, <1>3, <1>4, <1>5, <1>6 DEF Next, Peek, Act, Recover

\* Every action keeps the values phrases of the grammar.
LEMMA PhrasesNext == IInv /\ ReportInv /\ InputInv /\ PhraseInv /\ [Next]_vars => PhrasesOK'
<1> SUFFICES ASSUME TInv, PathOK, ReportInv, OrderOK, LookaheadOK, PhrasesOK, [Next]_vars,
                    diagnostics' = <<>>
             PROVE  \A i \in 1..Len(values') : Stands(values'[i]) \in Derived(Table, pulled)'
  BY DEF IInv, InputInv, PhraseInv, PhrasesOK, Stands
<1> USE DEF cursor, stack, report
<1>0. /\ TypeOK /\ values \in Seq(Values) /\ Len(values) \in Nat /\ SoundTables(Table)
      /\ diagnostics = <<>> /\ pulled \in Seq(Names)
      /\ \A i \in 1..Len(values) : Stands(values[i]) \in Derived(Table, pulled)
  BY WordFacts, DiagnosticsRemain, LenProperties DEF TInv, TypeOK, PhrasesOK
<1>1. ASSUME lang' = lang, pulled' = pulled
      PROVE  Derived(Table, pulled)' = Derived(Table, pulled)
  BY <1>1 DEF Table
<1>2. ASSUME lang' = lang, pulled' = pulled, values' = values
      PROVE  \A i \in 1..Len(values') : Stands(values'[i]) \in Derived(Table, pulled)'
  BY <1>0, <1>1, <1>2
<1>3. CASE Begin \/ PeekEnd \/ PeekFails \/ Accept \/ UNCHANGED vars
  BY <1>2, <1>3 DEF Begin, PeekEnd, PeekFails, Peeking, Accept, vars
<1>4. CASE PeekLexeme
  <2>1. PICK t \in Table.terminals \cup {Unknown} : pulled' = Append(pulled, t)
    BY <1>4 DEF PeekLexeme
  <2>2. t \in Names
    BY <2>1, WordFacts DEF Lookaheads
  <2>3. Derived(Table, pulled) \subseteq Derived(Table, pulled')
    BY <1>0, <2>1, <2>2, DerivedGrows
  <2>4. Derived(Table, pulled)' = Derived(Table, pulled') /\ values' = values
    BY <1>4 DEF PeekLexeme, Table
  <2> QED  BY <1>0, <2>3, <2>4
<1>5. ASSUME NEW vs \in Seq(Values), NEW v \in Values, values' = Append(vs, v),
             lang' = lang, pulled' = pulled, Stands(v) \in Derived(Table, pulled),
             Len(vs) <= Len(values), \A i \in 1..Len(vs) : vs[i] = values[i]
      PROVE  \A i \in 1..Len(values') : Stands(values'[i]) \in Derived(Table, pulled)'
  <2>1. /\ Len(vs) \in Nat /\ Len(values') = Len(vs) + 1 /\ values'[Len(vs) + 1] = v
        /\ \A i \in 1..Len(vs) : values'[i] = vs[i]
    BY <1>5, PushFacts, LenProperties
  <2> SUFFICES ASSUME NEW i \in 1..Len(values')
               PROVE  Stands(values'[i]) \in Derived(Table, pulled)
    BY <1>1, <1>5
  <2>2. CASE i = Len(vs) + 1
    BY <1>5, <2>1, <2>2
  <2>3. CASE i \in 1..Len(vs)
    <3>1. i \in 1..Len(values) /\ values'[i] = values[i]
      BY <1>0, <1>5, <2>1, <2>3
    <3> QED  BY <1>0, <3>1
  <2> QED  BY <2>1, <2>2, <2>3
<1>6. CASE Shift
  <2>1. symbol # EOF /\ ready
    BY <1>0, <1>6, ShiftFacts DEF Shift, ActionIs, Deciding
  <2>2. values' = Append(values, LexemeValue) /\ lang' = lang /\ pulled' = pulled
    BY <1>6, <2>1 DEF Shift
  <2>3. LexemeValue \in Values /\ Stands(LexemeValue) \in Derived(Table, pulled)
    BY <2>1, SpanFacts, LexemeDerives
  <2> QED  BY <1>0, <1>5, <2>2, <2>3
<1>7. CASE Reduce
  <2> DEFINE v == Reduced(Rule(Action.rule).lhs, Handle)  q == Drop(values, HandleSize)
  <2>1. /\ ActionIs("reduce") /\ HandleFits
        /\ Rule(Action.rule).lhs \in DOMAIN Table.gotos[Top(Drop(states, HandleSize))]
    BY <1>0, <1>7, ReduceSucceeds DEF Reduce
  <2>2. values' = Append(q, v) /\ lang' = lang /\ pulled' = pulled
    BY <1>7, <2>1 DEF Reduce
  <2>3. v \in Values
    BY <1>0, <2>1, ReduceFacts, KeptFacts, ReducedFacts
  <2>4. Stands(v) \in Derived(Table, pulled)
    BY <1>0, <2>1, ReductionDerives
  <2>5. q \in Seq(Values) /\ Len(q) <= Len(values) /\ \A i \in 1..Len(q) : q[i] = values[i]
    <3>1. Len(values) - HandleSize \in 0..Len(values)
      BY <1>0, <2>1, ReduceFacts DEF HandleFits
    <3> QED  BY <1>0, <3>1, PrefixFacts DEF Drop
  <2> HIDE DEF v, q
  <2> QED  BY <1>5, <2>2, <2>3, <2>4, <2>5
<1>8. CASE ReducerFails
  <2>1. Len(values) - HandleSize \in 0..Len(values)
    <3>1. HandleSize \in Nat /\ Len(values) >= HandleSize
      BY <1>0, <1>8, ReduceFacts DEF ReducerFails, HandleFits
    <3> QED  BY <1>0, <3>1
  <2>2. Len(values') = Len(values) - HandleSize /\ \A i \in 1..Len(values') : values'[i] = values[i]
    BY <1>0, <1>8, <2>1, PrefixFacts DEF ReducerFails, Drop
  <2>3. \A i \in 1..Len(values') : i \in 1..Len(values)
    BY <1>0, <2>1, <2>2
  <2>4. Derived(Table, pulled)' = Derived(Table, pulled)
    BY <1>1, <1>8 DEF ReducerFails
  <2> QED  BY <1>0, <2>2, <2>3, <2>4
<1>9. CASE ShiftError \/ Abort \/ Discard \/ AbortAtEnd
  BY <1>9, DiagnosticsRemain
<1> QED  BY <1>3, <1>4, <1>6, <1>7, <1>8, <1>9 DEF Next, Peek, Act, Recover

\* The values are phrases of the grammar in every reachable state.
LEMMA PhraseInvariance == Spec => [](IInv /\ ReportInv /\ InputInv /\ PhraseInv)
<1>1. Init => PhraseInv
  <2> SUFFICES ASSUME Init PROVE PhraseInv
    OBVIOUS
  <2>1. values = <<>> /\ Len(values) = 0 /\ ready = FALSE
    BY DEF Init
  <2> QED  BY <2>1 DEF PhraseInv, LookaheadOK, PhrasesOK
<1>2. IInv /\ ReportInv /\ InputInv /\ PhraseInv /\ [Next]_vars => PhraseInv'
  BY LookaheadNext, PhrasesNext DEF PhraseInv
<1> QED  BY <1>1, <1>2, InputInvariance, PTL DEF Spec

\* What is accepted without a syntax error is a sentence: the derivation that
\* the reductions spell out is one of the grammar of the rules.
THEOREM OnlySentencesAreAccepted == Spec => []AcceptsOnlySentences
<1>1. InputInv /\ PhraseInv => AcceptsOnlySentences
  <2> SUFFICES ASSUME StrictSuccessIsWholeInput, PhrasesOK, status = "accepted", diagnostics = <<>>
               PROVE  Derives(Table, pulled)
    BY DEF InputInv, PhraseInv, AcceptsOnlySentences
  <2>1. StrictlySucceeds
    BY DEF StrictlySucceeds, Finished, Errors, InternalErrors, SourceErrors
  <2> DEFINE v == [sym |-> Rule(0).rhs[1], from |-> 0, to |-> Len(pulled)]
  <2>2. values = <<v>>
    BY <2>1 DEF StrictSuccessIsWholeInput
  <2>3. Len(values) = 1 /\ values[1] = v
    <3> HIDE DEF v
    <3> QED  BY <2>2
  <2>4. 1 \in 1..Len(values)
    BY <2>3
  <2>5. Stands(v) \in Derived(Table, pulled)
    BY <2>3, <2>4 DEF PhrasesOK
  <2>6. Stands(v) = <<StartSymbol(Table), 0, Len(pulled)>>
    BY DEF Stands, StartSymbol, Rule
  <2> QED  BY <2>5, <2>6 DEF Derives
<1> QED  BY <1>1, PhraseInvariance, PTL

=============================================================================
