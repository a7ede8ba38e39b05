--------------------------- MODULE ScannersProofs ---------------------------
(***************************************************************************)
(* What the scanners owe their callers, for every lexer, text, number of   *)
(* callers and bound: the lexemes of the text, with the errors of their    *)
(* source and the memory they use.                                         *)
(*                                                                         *)
(* The four scanners over a reader differ in how they read; on the text    *)
(* they share they do one of a few things, ChunkStep, which keeps the      *)
(* buffer a window of the text and the locals of a match on the path of    *)
(* the tables over the whole text (ChunkInv).  The scanners over a string  *)
(* share theirs (StringInv), lf_tokenize has its own (TokenInv), and what  *)
(* a target adds - kept errors, a sticky stream, blocks of memory - is a   *)
(* conjunct of its own in Inv.                                             *)
(***************************************************************************)
EXTENDS Scanners, ScannerTablesProofs

------------------------------------------------------------------------------
(* Chunks. *)

IsLog == IsList(log)

TablesOK == LexerOK(lexer) /\ text \in Seq(ToSet(text))

WindowOK ==
  /\ buffer \in Seq(ToSet(text)) /\ unread \in Seq(ToSet(text))
  /\ Window(text, base, buffer)
  /\ base + Len(buffer) + Len(unread) = Len(text)
  /\ \A i \in 1..Len(unread) : unread[i] = text[base + Len(buffer) + i]
  /\ eof \in BOOLEAN /\ (eof => unread = <<>>)

CursorOK ==
  /\ position = PositionAt(text, base) /\ includeHidden \in BOOLEAN
  /\ mu \in Callers \cup {NoCaller} /\ IsLog

Matching == [on : {TRUE}, stateID : DOMAIN lexer.next, pos : 0..Len(buffer),
             bestRule : Nat, bestEnd : Nat]

MatchOK ==
  \/ match = NotMatching
  \/ /\ mu # NoCaller /\ match \in Matching /\ buffer # <<>>
     /\ LoopAt(lexer, text, base, base + match.pos, match.stateID, match.bestRule, base + match.bestEnd)

ChunkInv == TablesOK /\ WindowOK /\ CursorOK /\ MatchOK

\* The rune at the place of the match may be cut off: the Go and C# scanners
\* look at its units, the C and C++ ones at the first of them.
CutHere == IF target \in {"go", "csharp"} THEN CutOff(buffer, match.pos)
           ELSE AsksForMore(buffer, match.pos)

Causes == IF target = "c" THEN {"reader", "limit", "memory"} ELSE {"reader", "limit"}

ReadStep ==
  /\ mu # NoCaller
  /\ \E n \in 0..readBufferSize : Receive(n)
  /\ eof' \in BOOLEAN /\ (eof' => unread' = <<>>)
  /\ KeepCalling \/ \E cause \in Causes : Return(Interrupted(cause))

InterruptStep ==
  /\ mu # NoCaller
  /\ UNCHANGED <<source, cursor, eof>>
  /\ \E cause \in Causes : Return(Interrupted(cause))

EndStep ==
  /\ mu # NoCaller
  /\ unread = <<>> /\ eof' = TRUE
  /\ UNCHANGED <<source, cursor>> /\ KeepCalling

InvalidStep ==
  /\ Is("csharp", "reader")
  /\ Invalid(CutHere) /\ Return(Rejected(base)) /\ UNCHANGED <<source, cursor, eof>>

ChunkStep ==
  \/ \E c \in Callers : Lock(c)
  \/ \E include \in BOOLEAN : IncludeHidden(include)
  \/ ReadStep \/ InterruptStep \/ EndStep
  \/ ReturnEOF \/ StartMatch
  \/ Advance(CutHere) \/ SkipLexeme(CutHere) \/ ReturnLexeme(CutHere) \/ ReturnError(CutHere)
  \/ InvalidStep
  \/ UNCHANGED chunkVars

\* What a bound by two limits says.
LEMMA MinOfTwo ==
  ASSUME NEW a \in Nat, NEW b \in Nat, NEW n \in Nat, n <= Min({a, b})
  PROVE  n <= a /\ n <= b
<1> DEFINE Least(x) == x \in {a, b} /\ \A y \in {a, b} : x <= y
<1>1. \E x : Least(x)
  <2>1. a <= b \/ b <= a
    OBVIOUS
  <2>2. Least(a) \/ Least(b)
    BY <2>1
  <2> QED  BY <2>2
<1>2. Min({a, b}) = CHOOSE x : Least(x)
  BY DEF Min
<1> HIDE DEF Least
<1>3. PICK m : m = Min({a, b}) /\ Least(m)
  BY <1>1, <1>2
<1>4. m \in Nat /\ n <= m /\ m <= a /\ m <= b
  BY <1>3 DEF Least
<1> QED  BY <1>4

\* One more entry of the log.
LEMMA LogGrows ==
  ASSUME IsLog, NEW e, log' = Append(log, e)
  PROVE  /\ IsLog' /\ Len(log) \in Nat /\ DOMAIN log = 1..Len(log) /\ DOMAIN log' = 1..(Len(log) + 1)
         /\ \A i \in 1..Len(log) : log'[i] = log[i]
         /\ log'[Len(log) + 1] = e /\ Last(log') = e /\ log' # log
<1>1. /\ IsList(Append(log, e)) /\ Len(log) \in Nat /\ DOMAIN log = 1..Len(log)
      /\ DOMAIN Append(log, e) = 1..(Len(log) + 1)
      /\ \A i \in 1..Len(log) : Append(log, e)[i] = log[i]
      /\ Append(log, e)[Len(log) + 1] = e
  BY ListGrows DEF IsLog
<1>2. Len(log') = Len(log) + 1
  <2>1. DOMAIN log' = 1..Len(log') /\ Len(log') \in Nat
    BY <1>1, LenProperties DEF IsList
  <2> QED  BY <1>1, <2>1
<1>3. log' # log
  <2>1. \A n \in Nat : n + 1 # n
    OBVIOUS
  <2> QED  BY <1>1, <1>2, <2>1, Zenon
<1>4. Last(log') = e
  BY <1>1, <1>2 DEF Last
<1>5. IsLog'
  BY <1>1 DEF IsLog, IsList
<1> QED  BY <1>1, <1>3, <1>4, <1>5

\* What a read appends is the next part of the text.
LEMMA ReceiveFacts ==
  ASSUME TablesOK, WindowOK, NEW n \in Nat, Receive(n)
  PROVE  /\ buffer' \in Seq(ToSet(text)) /\ unread' \in Seq(ToSet(text))
         /\ Window(text, base, buffer')
         /\ base + Len(buffer') + Len(unread') = Len(text)
         /\ \A i \in 1..Len(unread') : unread'[i] = text[base + Len(buffer') + i]
         /\ Len(buffer') = Len(buffer) + n /\ n <= Len(unread) /\ n <= readBufferSize
<1> DEFINE U == ToSet(text)  part == SubSeq(unread, 1, n)  more == buffer \o part
           rest == Rest(unread, n)
<1>1. /\ buffer \in Seq(U) /\ unread \in Seq(U) /\ Len(buffer) \in Nat /\ Len(unread) \in Nat
      /\ base \in Nat /\ Len(text) \in Nat /\ base + Len(buffer) + Len(unread) = Len(text)
      /\ \A i \in 1..Len(unread) : unread[i] = text[base + Len(buffer) + i]
      /\ \A i \in 1..Len(buffer) : buffer[i] = text[base + i]
  BY LenProperties DEF WindowOK, TablesOK, Window
<1>2. n <= Len(unread) /\ n <= readBufferSize /\ n \in 0..Len(unread)
  <2>1. readBufferSize \in Nat
    BY OptionsArePositive
  <2>2. n <= Len(unread) /\ n <= readBufferSize
    BY <1>1, <2>1, MinOfTwo DEF Receive
  <2> QED  BY <1>1, <2>2
<1>3. part \in Seq(U) /\ Len(part) = n /\ \A i \in 1..n : part[i] = unread[i]
  BY <1>1, <1>2, PrefixFacts
<1>4. rest \in Seq(U) /\ Len(rest) = Len(unread) - n /\ \A i \in 1..(Len(unread) - n) : rest[i] = unread[n + i]
  BY <1>1, <1>2, RestFacts
<1> HIDE DEF part, rest, U
<1>5. /\ more \in Seq(U) /\ Len(more) = Len(buffer) + n
      /\ \A i \in 1..Len(buffer) : more[i] = buffer[i]
      /\ \A i \in 1..n : more[Len(buffer) + i] = part[i]
  <2>1. buffer \in Seq(U) /\ part \in Seq(U)
    BY <1>1, <1>3
  <2>2. /\ more \in Seq(U) /\ Len(more) = Len(buffer) + Len(part)
        /\ \A i \in 1..Len(buffer) : more[i] = buffer[i]
        /\ \A i \in 1..Len(part) : more[Len(buffer) + i] = part[i]
    BY <2>1, JoinFacts
  <2> HIDE DEF more
  <2> QED  BY <1>3, <2>2
<1> HIDE DEF more
<1>6. \A i \in 1..Len(more) : more[i] = text[base + i]
  <2> SUFFICES ASSUME NEW i \in 1..Len(more)
               PROVE  more[i] = text[base + i]
    OBVIOUS
  <2>1. CASE i <= Len(buffer)
    <3>1. i \in 1..Len(buffer)
      BY <1>1, <1>5, <2>1
    <3> QED  BY <1>1, <1>5, <3>1
  <2>2. CASE ~(i <= Len(buffer))
    <3> DEFINE j == i - Len(buffer)
    <3>1. /\ j \in 1..n /\ j \in 1..Len(unread) /\ base + Len(buffer) + j = base + i
          /\ Len(buffer) + j = i
      BY <1>1, <1>2, <1>5, <2>2
    <3>2. more[i] = part[j]
      BY <1>5, <3>1
    <3> HIDE DEF j
    <3> QED  BY <1>1, <1>3, <3>1, <3>2
  <2> QED  BY <2>1, <2>2
<1>7. \A i \in 1..Len(rest) : rest[i] = text[base + Len(more) + i]
  <2> SUFFICES ASSUME NEW i \in 1..Len(rest)
               PROVE  rest[i] = text[base + Len(more) + i]
    OBVIOUS
  <2>1. /\ i \in 1..(Len(unread) - n) /\ n + i \in 1..Len(unread)
        /\ base + Len(more) + i = base + Len(buffer) + (n + i)
    BY <1>1, <1>2, <1>4, <1>5
  <2> QED  BY <1>1, <1>4, <2>1
<1>8. base + Len(more) + Len(rest) = Len(text) /\ base + Len(more) <= Len(text)
  BY <1>1, <1>2, <1>4, <1>5
<1>9. buffer' = more /\ unread' = rest
  BY DEF Receive, more, rest, part
<1> QED  BY <1>1, <1>2, <1>4, <1>5, <1>6, <1>7, <1>8, <1>9 DEF Window, U

\* The locals of a match, and that they are those of the whole text.
LEMMA MatchTypes ==
  ASSUME ChunkInv, match # NotMatching
  PROVE  /\ mu # NoCaller /\ match \in Matching /\ match.on = TRUE
         /\ buffer # <<>> /\ base < Len(text)
         /\ match.stateID \in DOMAIN lexer.next /\ match.bestRule \in Nat
         /\ match.pos \in 0..Len(buffer) /\ match.bestEnd \in Nat /\ match.bestEnd \in 0..match.pos
         /\ LoopAt(lexer, text, base, base + match.pos, match.stateID, match.bestRule, base + match.bestEnd)
         /\ base \in Nat /\ base \in 0..Len(text) /\ Len(buffer) \in Nat /\ Len(text) \in Nat
<1>1. /\ mu # NoCaller /\ match \in Matching /\ buffer # <<>>
      /\ LoopAt(lexer, text, base, base + match.pos, match.stateID, match.bestRule, base + match.bestEnd)
  BY DEF ChunkInv, MatchOK
<1>2. /\ match.on = TRUE /\ match.stateID \in DOMAIN lexer.next /\ match.bestRule \in Nat
      /\ match.pos \in 0..Len(buffer) /\ match.bestEnd \in Nat
  BY <1>1 DEF Matching
<1>3. base \in Nat /\ base \in 0..Len(text) /\ Len(buffer) \in Nat /\ Len(text) \in Nat
  BY LenProperties DEF ChunkInv, TablesOK, WindowOK, Window
<1>4. base + match.bestEnd \in base..(base + match.pos)
  BY <1>1 DEF LoopAt
<1>5. match.bestEnd \in 0..match.pos
  BY <1>2, <1>3, <1>4
<1>6. base < Len(text)
  <2>1. Len(buffer) # 0 /\ base + Len(buffer) <= Len(text)
    BY <1>1, EmptySeq DEF ChunkInv, WindowOK, Window
  <2> QED  BY <1>3, <2>1
<1> QED  BY <1>1, <1>2, <1>3, <1>5, <1>6

\* A decided match has the longest match of the text at the cursor, or none.
LEMMA DecidedFacts ==
  ASSUME ChunkInv, Decided(CutHere)
  PROVE  /\ match # NotMatching
         /\ match.bestRule > 0 =>
              /\ HasMatch(lexer, text, base)
              /\ Longest(lexer, text, base) = [end |-> base + match.bestEnd, rule |-> match.bestRule]
         /\ match.bestRule = 0 => ~HasMatch(lexer, text, base)
<1>1. match.on = TRUE /\ match # NotMatching
  BY DEF Decided, AtBufferEnd, CanDecode, InBuffer, ChunkInv, MatchOK, NotMatching, Matching
<1>2. /\ match.pos \in 0..Len(buffer) /\ Len(buffer) \in Nat /\ match.stateID \in DOMAIN lexer.next
      /\ LoopAt(lexer, text, base, base + match.pos, match.stateID, match.bestRule, base + match.bestEnd)
      /\ base \in 0..Len(text)
  BY <1>1, MatchTypes
<1>3. /\ LexerOK(lexer) /\ text \in Seq(ToSet(text)) /\ buffer \in Seq(ToSet(text))
      /\ Window(text, base, buffer)
      /\ eof => base + Len(buffer) = Len(text)
  <2>1. base + Len(buffer) + Len(unread) = Len(text) /\ (eof => unread = <<>>) /\ Len(<<>>) = 0
        /\ base \in Nat /\ Len(buffer) \in Nat
    BY LenProperties DEF ChunkInv, WindowOK, Window
  <2>2. eof => base + Len(buffer) = Len(text)
    BY <2>1
  <2> QED  BY <2>2 DEF ChunkInv, TablesOK, WindowOK
<1>4. CutHere \/ ~CutOff(buffer, match.pos) \/ ~AsksForMore(buffer, match.pos)
  BY DEF CutHere
<1>5. \/ match.pos = Len(buffer) /\ DOMAIN lexer.next[match.stateID] = {}
      \/ /\ \/ base + Len(buffer) = Len(text)
            \/ match.pos < Len(buffer) /\ (~CutOff(buffer, match.pos) \/ ~AsksForMore(buffer, match.pos))
         /\ match.pos = Len(buffer) \/ Decode(buffer, match.pos).rune \notin DOMAIN lexer.next[match.stateID]
  <2>1. CASE AtBufferEnd /\ (eof \/ DOMAIN Transition = {})
    <3>1. match.pos = Len(buffer)
      BY <1>2, <2>1 DEF AtBufferEnd
    <3> QED  BY <1>3, <2>1, <3>1 DEF Transition
  <2>2. CASE CanDecode(CutHere) /\ Decoded.rune \notin DOMAIN Transition
    BY <1>3, <1>4, <2>2 DEF CanDecode, InBuffer, Decoded, Transition
  <2> QED  BY <2>1, <2>2 DEF Decided
<1>6. \A rune \in DOMAIN lexer.next[match.stateID] : ~Fits(rune, text, base + match.pos)
  BY <1>2, <1>3, <1>5, WindowStops
<1> QED  BY <1>1, <1>2, <1>3, <1>6, LoopStops

\* What consuming a match leaves.
LEMMA ConsumeFacts ==
  ASSUME ChunkInv, match # NotMatching, Consume
  PROVE  /\ WindowOK' /\ TablesOK'
         /\ position' = PositionAt(text', base')
         /\ Text = SubSeq(text, base + 1, base + match.bestEnd)
<1> DEFINE U == ToSet(text)  e == match.bestEnd  rest == Rest(buffer, e)
<1>1. /\ base \in Nat /\ Len(buffer) \in Nat /\ Len(text) \in Nat /\ Len(unread) \in Nat
      /\ text \in Seq(U) /\ buffer \in Seq(U) /\ unread \in Seq(U)
      /\ base + Len(buffer) + Len(unread) = Len(text)
      /\ \A i \in 1..Len(buffer) : buffer[i] = text[base + i]
      /\ \A i \in 1..Len(unread) : unread[i] = text[base + Len(buffer) + i]
  BY LenProperties DEF ChunkInv, TablesOK, WindowOK, Window
<1>2. e \in Nat /\ e <= Len(buffer) /\ e \in 0..Len(buffer)
  <2>1. e \in Nat /\ e \in 0..match.pos /\ match.pos \in 0..Len(buffer)
    BY MatchTypes
  <2> QED  BY <1>1, <2>1
<1>3. /\ lexer' = lexer /\ text' = text /\ unread' = unread /\ eof' = eof
      /\ buffer' = rest /\ base' = base + e /\ position' = AdvancePosition(Text, position)
  BY DEF Consume, source
<1>4. rest \in Seq(U) /\ Len(rest) = Len(buffer) - e /\ \A i \in 1..(Len(buffer) - e) : rest[i] = buffer[e + i]
  <2>1. buffer \in Seq(U) /\ e \in 0..Len(buffer)
    BY <1>1, <1>2
  <2> HIDE DEF U, e
  <2> QED  BY ONLY <2>1, RestFacts
<1>5. Text = SubSeq(text, base + 1, base + e)
  <2> DEFINE a == SubSeq(buffer, 1, e)  b == SubSeq(text, base + 1, base + e)
  <2>1. a \in Seq(U) /\ Len(a) = e /\ \A i \in 1..e : a[i] = buffer[i]
    BY <1>1, <1>2, PrefixFacts
  <2>2. \A i \in (base + 1)..(base + e) : text[i] \in U
    BY <1>1, <1>2, ElementOfSeq
  <2>3. /\ b \in Seq(U) /\ Len(b) = (IF base + 1 <= base + e THEN (base + e) - (base + 1) + 1 ELSE 0)
        /\ \A i \in 1..((base + e) - (base + 1) + 1) : b[i] = text[(base + 1) + i - 1]
    <3>1. base + 1 \in Int /\ base + e \in Int
      BY <1>1, <1>2
    <3> HIDE DEF U
    <3> QED  BY <2>2, <3>1, SubSeqProperties
  <2> HIDE DEF a, b, e, U
  <2>4. Len(b) = e
    BY <1>1, <1>2, <2>3
  <2>5. \A i \in 1..e : a[i] = b[i]
    <3> SUFFICES ASSUME NEW i \in 1..e
                 PROVE  a[i] = b[i]
      OBVIOUS
    <3>1. /\ i \in 1..Len(buffer) /\ i \in 1..((base + e) - (base + 1) + 1)
          /\ (base + 1) + i - 1 = base + i
      BY <1>1, <1>2
    <3> QED  BY <1>1, <2>1, <2>3, <3>1
  <2>6. a = b
    BY <2>1, <2>3, <2>4, <2>5, SeqEqual
  <2> QED  BY <2>6 DEF Text, a, b, e
<1> HIDE DEF rest, U, e
<1>6. Window(text, base + e, rest)
  <2>1. \A i \in 1..Len(rest) : rest[i] = text[base + e + i]
    <3> SUFFICES ASSUME NEW i \in 1..Len(rest)
                 PROVE  rest[i] = text[base + e + i]
      OBVIOUS
    <3>1. i \in 1..(Len(buffer) - e) /\ e + i \in 1..Len(buffer) /\ base + (e + i) = base + e + i
      BY <1>1, <1>2, <1>4
    <3> QED  BY <1>1, <1>4, <3>1
  <2> QED  BY <1>1, <1>2, <1>4, <2>1 DEF Window
<1>7. base + e + Len(rest) = base + Len(buffer)
  BY <1>1, <1>2, <1>4
<1>8. WindowOK'
  <2>1. base' + Len(buffer') = base + Len(buffer)
    BY <1>3, <1>7
  <2>2. eof \in BOOLEAN /\ (eof => unread = <<>>)
    BY DEF ChunkInv, WindowOK
  <2> QED  BY <1>1, <1>3, <1>4, <1>6, <2>1, <2>2 DEF WindowOK, U
<1>9. position' = PositionAt(text', base')
  <2>1. position = PositionAt(text, base)
    BY DEF ChunkInv, CursorOK
  <2>2. base \in 0..Len(text) /\ base + e \in base..Len(text)
    BY <1>1, <1>2
  <2>3. AdvancePosition(SubSeq(text, base + 1, base + e), PositionAt(text, base)) = PositionAt(text, base + e)
    BY <1>1, <2>2, PositionAdvances
  <2> QED  BY <1>3, <1>5, <2>1, <2>3
<1> QED  BY <1>3, <1>5, <1>8, <1>9 DEF ChunkInv, TablesOK, e

\* Every chunk step keeps the invariant.
LEMMA ChunkInvKept ==
  ASSUME ChunkInv, ChunkStep
  PROVE  ChunkInv'
<1> USE DEF chunkVars
<1>1. /\ LexerOK(lexer) /\ text \in Seq(ToSet(text)) /\ mu \in Callers \cup {NoCaller} /\ IsLog
      /\ NoCaller \notin Callers /\ Len(buffer) \in Nat
  BY LenProperties, OptionsArePositive DEF ChunkInv, TablesOK, CursorOK, WindowOK
<1>2. ASSUME NEW result, Return(result), UNCHANGED <<lexer, text>>, WindowOK', position' = PositionAt(text', base'),
             includeHidden' = includeHidden
      PROVE  ChunkInv'
  <2>1. TablesOK' /\ MatchOK'
    BY <1>1, <1>2 DEF Return, MatchOK, TablesOK
  <2>2. IsLog'
    <3>1. log' = Append(log, [caller |-> mu, result |-> result])
      BY <1>2 DEF Return
    <3> QED  BY <1>1, <3>1, LogGrows
  <2>3. CursorOK'
    BY <1>2, <2>2 DEF CursorOK, Return, ChunkInv
  <2> QED  BY <1>2, <2>1, <2>3 DEF ChunkInv
<1>3. ASSUME UNCHANGED <<source, cursor, eof>>
      PROVE  /\ WindowOK' /\ TablesOK' /\ UNCHANGED <<lexer, text>>
             /\ position' = PositionAt(text', base') /\ includeHidden' = includeHidden
  BY <1>3 DEF source, cursor, ChunkInv, WindowOK, TablesOK, CursorOK
<1>4. ASSUME NEW c \in Callers, Lock(c)
      PROVE  ChunkInv'
  <2>1. match = NotMatching
    BY <1>4 DEF Lock, ChunkInv, MatchOK
  <2> QED  BY <1>3, <1>4, <2>1 DEF Lock, ChunkInv, MatchOK, CursorOK, IsLog, IsList, cursor
<1>5. ASSUME NEW include \in BOOLEAN, IncludeHidden(include)
      PROVE  ChunkInv'
  <2>1. match = NotMatching
    BY <1>5 DEF IncludeHidden, ChunkInv, MatchOK
  <2> QED  BY <1>5, <2>1 DEF IncludeHidden, source, ChunkInv, TablesOK, WindowOK, MatchOK, CursorOK, IsLog, IsList
<1>6. CASE ReadStep
  <2>1. PICK n \in 0..readBufferSize : Receive(n)
    BY <1>6 DEF ReadStep
  <2>2. n \in Nat /\ UNCHANGED <<lexer, text, base, position, includeHidden>>
    BY <2>1, OptionsArePositive DEF Receive
  <2>3. WindowOK' /\ Len(buffer') = Len(buffer) + n
    <3>1. /\ buffer' \in Seq(ToSet(text)) /\ unread' \in Seq(ToSet(text))
          /\ Window(text, base, buffer')
          /\ base + Len(buffer') + Len(unread') = Len(text)
          /\ \A i \in 1..Len(unread') : unread'[i] = text[base + Len(buffer') + i]
          /\ Len(buffer') = Len(buffer) + n
      BY <2>1, <2>2, ReceiveFacts DEF ChunkInv
    <3>2. eof' \in BOOLEAN /\ (eof' => unread' = <<>>)
      BY <1>6 DEF ReadStep
    <3> QED  BY <2>2, <3>1, <3>2 DEF WindowOK
  <2>4. position' = PositionAt(text', base')
    BY <2>2 DEF ChunkInv, CursorOK
  <2>5. CASE KeepCalling
    <3>1. MatchOK'
      <4>1. CASE match = NotMatching
        BY <2>5, <4>1 DEF KeepCalling, MatchOK
      <4>2. CASE match # NotMatching
        <5>1. match \in Matching'
          <6>1. match \in Matching
            BY <4>2, MatchTypes
          <6>2. 0..Len(buffer) \subseteq 0..Len(buffer')
            BY <1>1, <2>2, <2>3
          <6> QED  BY <2>2, <6>1, <6>2 DEF Matching
        <5>2. buffer' # <<>>
          <6>1. Len(buffer) # 0
            BY <4>2, MatchTypes, EmptySeq DEF ChunkInv, WindowOK
          <6>2. Len(buffer') # 0
            BY <1>1, <2>2, <2>3, <6>1
          <6> QED  BY <6>2, EmptySeq
        <5> QED  BY <2>2, <2>5, <4>2, <5>1, <5>2 DEF KeepCalling, MatchOK, ChunkInv
      <4> QED  BY <4>1, <4>2
    <3> QED  BY <2>2, <2>3, <2>4, <2>5, <3>1 DEF KeepCalling, ChunkInv, TablesOK, CursorOK, IsLog, IsList
  <2>6. CASE \E cause \in Causes : Return(Interrupted(cause))
    BY <1>2, <2>2, <2>3, <2>4, <2>6
  <2> QED  BY <1>6, <2>5, <2>6 DEF ReadStep
<1>7. CASE InterruptStep
  BY <1>2, <1>3, <1>7 DEF InterruptStep
<1>8. CASE EndStep
  <2>1. WindowOK' /\ UNCHANGED <<lexer, text, buffer, base, position, includeHidden, mu, match, log>>
    BY <1>8 DEF EndStep, KeepCalling, source, cursor, ChunkInv, WindowOK
  <2> QED  BY <2>1 DEF ChunkInv, TablesOK, CursorOK, IsLog, IsList, MatchOK, Matching
<1>9. CASE ReturnEOF
  BY <1>2, <1>3, <1>9 DEF ReturnEOF
<1>10. CASE StartMatch
  <2>1. /\ mu # NoCaller /\ match' = MatchStart /\ buffer # <<>>
        /\ UNCHANGED <<lexer, text, unread, buffer, base, position, includeHidden, eof, mu, log>>
    BY <1>10 DEF StartMatch, Idle, source, cursor
  <2>2. base \in Nat /\ base \in 0..Len(text) /\ 0 \in DOMAIN lexer.next
    BY <1>1, LenProperties DEF ChunkInv, WindowOK, Window, LexerOK
  <2>3. LoopAt(lexer, text, base, base, 0, 0, base)
    BY <1>1, <2>2, LoopStarts
  <2>4. MatchOK'
    <3>1. match' \in Matching'
      BY <1>1, <2>1, <2>2 DEF Matching, MatchStart
    <3>2. match'.pos = 0 /\ match'.stateID = 0 /\ match'.bestRule = 0 /\ match'.bestEnd = 0
      BY <2>1 DEF MatchStart
    <3>3. LoopAt(lexer, text, base, base + 0, 0, 0, base + 0)
      BY <2>2, <2>3
    <3> QED  BY <2>1, <3>1, <3>2, <3>3 DEF MatchOK
  <2> QED  BY <2>1, <2>4 DEF ChunkInv, TablesOK, WindowOK, CursorOK, IsLog, IsList
<1>11. CASE Advance(CutHere)
  <2> DEFINE q == match.pos + Decoded.size  to == Transition[Decoded.rune]  rule == lexer.accept[to]
  <2>1. /\ match # NotMatching /\ match.on /\ Decode(buffer, match.pos).rune \in DOMAIN lexer.next[match.stateID]
        /\ UNCHANGED <<lexer, text, unread, buffer, base, position, includeHidden, eof, mu, log>>
    BY <1>11, SMTT(30) DEF Advance, CanDecode, InBuffer, NotMatching, Decoded, Transition, source, cursor
  <2>2. match' = [match EXCEPT !.pos = q, !.stateID = to,
                               !.bestRule = IF rule > 0 THEN rule ELSE @,
                               !.bestEnd = IF rule > 0 THEN q ELSE @]
    BY <1>11 DEF Advance
  <2>3. /\ q \in 0..Len(buffer) /\ to \in DOMAIN lexer.next /\ rule \in Nat
        /\ LoopAt(lexer, text, base, base + q, to, IF rule > 0 THEN rule ELSE match.bestRule,
                                                  base + (IF rule > 0 THEN q ELSE match.bestEnd))
    <3>1. /\ buffer \in Seq(ToSet(text)) /\ Window(text, base, buffer)
      BY DEF ChunkInv, WindowOK
    <3>2. /\ match.pos \in 0..Len(buffer) /\ match.bestEnd \in Nat
          /\ LoopAt(lexer, text, base, base + match.pos, match.stateID, match.bestRule, base + match.bestEnd)
      BY <2>1, MatchTypes
    <3>3. q = match.pos + Decode(buffer, match.pos).size /\ to = lexer.next[match.stateID][Decode(buffer, match.pos).rune]
      BY DEF Decoded, Transition
    <3>4. rule = lexer.accept[to]
      OBVIOUS
    <3> HIDE DEF q, to, rule
    <3>5. LexerOK(lexer) /\ text \in Seq(ToSet(text))
      BY <1>1
    <3>6. Decode(buffer, match.pos).rune \in DOMAIN lexer.next[match.stateID]
      BY <2>1
    <3> DEFINE p == match.pos  at == match.stateID  best == match.bestRule  end == match.bestEnd
               U == ToSet(text)  decoded == Decode(buffer, p)
    <3>7. /\ q \in 0..Len(buffer) /\ to \in DOMAIN lexer.next /\ rule \in Nat
          /\ LoopAt(lexer, text, base, base + q, to, IF rule > 0 THEN rule ELSE best,
                                                    base + (IF rule > 0 THEN q ELSE end))
      <4>1. /\ LexerOK(lexer) /\ text \in Seq(U) /\ buffer \in Seq(U) /\ Window(text, base, buffer)
            /\ p \in 0..Len(buffer) /\ end \in Nat
        BY <3>1, <3>2, <3>5
      <4>2. LoopAt(lexer, text, base, base + p, at, best, base + end)
        BY <3>2
      <4>3. /\ decoded = Decode(buffer, p) /\ decoded.rune \in DOMAIN lexer.next[at]
            /\ q = p + decoded.size /\ to = lexer.next[at][decoded.rune] /\ rule = lexer.accept[to]
        BY <3>3, <3>4, <3>6
      <4> HIDE DEF p, at, best, end, U, decoded
      <4> QED  BY <4>1, <4>2, <4>3, WindowGoesOn, SMTT(30)
    <3> QED  BY <3>7
  <2> HIDE DEF q, to, rule
  <2>4. MatchOK'
    <3>1. /\ match \in Matching /\ mu # NoCaller /\ match.bestRule \in Nat /\ match.bestEnd \in Nat
          /\ buffer # <<>>
      BY <2>1, MatchTypes
    <3>2. q \in Nat
      BY <1>1, <2>3
    <3>3. /\ match' \in Matching'
          /\ match'.pos = q /\ match'.stateID = to
          /\ match'.bestRule = (IF rule > 0 THEN rule ELSE match.bestRule)
          /\ match'.bestEnd = (IF rule > 0 THEN q ELSE match.bestEnd)
      BY <2>1, <2>2, <2>3, <3>1, <3>2 DEF Matching
    <3> QED  BY <2>1, <2>3, <3>1, <3>3 DEF MatchOK
  <2> QED  BY <2>1, <2>4 DEF ChunkInv, TablesOK, WindowOK, CursorOK, IsLog, IsList
<1>12. CASE SkipLexeme(CutHere)
  <2>1. match # NotMatching /\ Consume /\ match' = NotMatching /\ UNCHANGED <<mu, log>>
    BY <1>12, DecidedFacts DEF SkipLexeme, Matched
  <2>2. WindowOK' /\ TablesOK' /\ position' = PositionAt(text', base')
    BY <2>1, ConsumeFacts
  <2> QED  BY <2>1, <2>2 DEF ChunkInv, CursorOK, IsLog, IsList, MatchOK, Consume
<1>13. CASE ReturnLexeme(CutHere)
  <2>1. match # NotMatching /\ Consume
    BY <1>13, DecidedFacts DEF ReturnLexeme, Matched
  <2>2. WindowOK' /\ position' = PositionAt(text', base')
    BY <2>1, ConsumeFacts
  <2>3. UNCHANGED <<lexer, text>> /\ includeHidden' = includeHidden
    BY <2>1 DEF Consume, source
  <2> QED  BY <1>2, <1>13, <2>2, <2>3 DEF ReturnLexeme
<1>14. CASE ReturnError(CutHere)
  BY <1>2, <1>3, <1>14 DEF ReturnError
<1>15. CASE InvalidStep
  BY <1>2, <1>3, <1>15 DEF InvalidStep
<1>16. CASE UNCHANGED chunkVars
  BY <1>16 DEF ChunkInv, TablesOK, WindowOK, CursorOK, IsLog, IsList, MatchOK, Matching
<1> QED  BY <1>4, <1>5, <1>6, <1>7, <1>8, <1>9, <1>10, <1>11, <1>12, <1>13, <1>14, <1>15, <1>16 DEF ChunkStep

------------------------------------------------------------------------------
(* The stream of lexemes. *)

\* The abstract module and this one mean the same by the tables.
LEMMA StreamMeans ==
  ASSUME NEW l, NEW t, NEW p, NEW r, NEW m, NEW h
  PROVE  /\ Stream!HasMatch(l, t, p) = HasMatch(l, t, p)
         /\ Stream!Longest(l, t, p) = Longest(l, t, p)
         /\ Stream!MeetsInvalidText(l, t, p) = MeetsInvalidText(l, t, p)
         /\ Stream!Visible(l, r, h) = Visible(l, r, h)
         /\ Stream!LexemeOf(t, p, m) = LexemeOf(t, p, m)
         /\ Stream!EndLexeme(t) = EndLexeme(t)
         /\ Stream!Rejected(p) = Rejected(p)
<1>1. \A u, q : /\ Stream!Decode(u, q) = Decode(u, q) /\ Stream!NoRune = NoRune
                /\ \A rune : Stream!Fits(rune, u, q) = Fits(rune, u, q)
  BY DEF Stream!Decode, Stream!Fits, Stream!IsPrefix, Stream!Rest, Stream!NoRune, Stream!Runes,
         Decode, Fits, IsPrefix, Rest, NoRune, Runes
<1>2. \A n : Stream!Places(l, t, p)[n] = Places(l, t, p)[n]
  BY DEF Stream!Places, Stream!Transitions, Stream!Fits, Stream!IsPrefix, Stream!Rest,
         Places, Transitions, Fits, IsPrefix, Rest
<1>3. Stream!Reached(l, t, p) = Reached(l, t, p)
  BY <1>2 DEF Stream!Reached, Reached
<1>4. Stream!Matches(l, t, p) = Matches(l, t, p)
  BY <1>3 DEF Stream!Matches, Matches
<1>5. \A q : Stream!PositionAt(t, q) = PositionAt(t, q)
  BY DEF Stream!PositionAt, Stream!LineAt, Stream!ColumnAt, Stream!Leads, Stream!Runes,
         PositionAt, LineAt, ColumnAt, Leads, Runes, Stream!Cardinality, Cardinality, Stream!IsFiniteSet, IsFiniteSet
<1>6. Stream!HasMatch(l, t, p) = HasMatch(l, t, p) /\ Stream!Longest(l, t, p) = Longest(l, t, p)
  BY <1>4 DEF Stream!HasMatch, HasMatch, Stream!Longest, Longest
<1>7. Stream!MeetsInvalidText(l, t, p) = MeetsInvalidText(l, t, p)
  BY <1>1, <1>3 DEF Stream!MeetsInvalidText, MeetsInvalidText
<1>8. Stream!LexemeOf(t, p, m) = LexemeOf(t, p, m) /\ Stream!EndLexeme(t) = EndLexeme(t)
  BY <1>5 DEF Stream!LexemeOf, LexemeOf, Stream!EndLexeme, EndLexeme
<1>9. Stream!Visible(l, r, h) = Visible(l, r, h) /\ Stream!Rejected(p) = Rejected(p)
  BY DEF Stream!Visible, Visible, Stream!Rejected, Rejected
<1> QED  BY <1>6, <1>7, <1>8, <1>9

\* The parts of the abstract state.
InvalidText == IF target # "csharp" THEN "returned"
               ELSE IF over = "string" THEN "refused" ELSE "either"
StreamCauses == IF over = "string" THEN {}
                ELSE IF target = "c" THEN {"reader", "limit", "memory"} ELSE {"reader", "limit"}

\* A result that is returned is returned by the abstract stream.
LEMMA StreamReturns ==
  ASSUME NEW result, Return(result)
  PROVE  Stream!Return(result)
BY DEF Return, Stream!Return

\* What the stream keeps.
LEMMA StreamKeeps ==
  ASSUME UNCHANGED <<lexer, text, target, over>>
  PROVE  UNCHANGED Stream!fixed
BY DEF Stream!fixed

\* Every chunk step is a step of the stream, or none.
LEMMA ChunkDelivers ==
  ASSUME ChunkInv, ChunkStep, over = "reader", UNCHANGED <<target, over>>
  PROVE  Stream!Next \/ UNCHANGED Stream!vars
<1> USE DEF chunkVars
<1>1. ASSUME UNCHANGED <<lexer, text, base, includeHidden, mu, log>>
      PROVE  UNCHANGED Stream!vars
  BY <1>1 DEF Stream!vars
<1>2. ASSUME UNCHANGED <<lexer, text, base, includeHidden>>, mu # NoCaller,
             NEW cause \in Causes, Return(Interrupted(cause))
      PROVE  Stream!Next
  <2>1. Stream!Return(Stream!Interrupted(cause))
    BY <1>2, StreamReturns DEF Interrupted, Stream!Interrupted
  <2>2. cause \in StreamCauses
    BY DEF Causes, StreamCauses
  <2>3. UNCHANGED Stream!fixed
    BY <1>2, StreamKeeps
  <2>4. Stream!Interrupt
    BY <1>2, <2>1, <2>2, <2>3 DEF Stream!Interrupt, StreamCauses
  <2> QED  BY <2>4 DEF Stream!Next
<1>3. ASSUME UNCHANGED <<lexer, text, base, includeHidden>>, mu # NoCaller, Return(Rejected(base)),
             base < Len(text),
             ~HasMatch(lexer, text, base) \/ (MeetsInvalidText(lexer, text, base) /\ InvalidText # "returned")
      PROVE  Stream!Next
  <2>1. Stream!Return(Stream!Rejected(base))
    BY <1>3, StreamReturns, StreamMeans
  <2>2. Stream!MayRefuse
    BY <1>3, StreamMeans DEF Stream!MayRefuse, InvalidText
  <2>3. UNCHANGED Stream!fixed
    BY <1>3, StreamKeeps
  <2>4. Stream!Reject
    BY <1>3, <2>1, <2>2, <2>3 DEF Stream!Reject
  <2> QED  BY <2>4 DEF Stream!Next
<1>4. InvalidText # "refused"
  BY DEF InvalidText
<1>5. ASSUME NEW c \in Callers, Lock(c)
      PROVE  Stream!Next
  <2>1. Stream!Enter(c)
    BY <1>5, StreamKeeps DEF Lock, Stream!Enter, source, cursor
  <2> QED  BY <2>1 DEF Stream!Next
<1>6. ASSUME NEW include \in BOOLEAN, IncludeHidden(include)
      PROVE  Stream!Next
  <2>1. Stream!SetIncludeHidden(include)
    BY <1>6, StreamKeeps DEF IncludeHidden, Stream!SetIncludeHidden, source
  <2> QED  BY <2>1 DEF Stream!Next
<1>7. CASE ReadStep
  <2>1. mu # NoCaller /\ UNCHANGED <<lexer, text, base, includeHidden>>
    BY <1>7 DEF ReadStep, Receive
  <2> QED  BY <1>1, <1>2, <1>7, <2>1 DEF ReadStep, KeepCalling
<1>8. CASE InterruptStep
  BY <1>2, <1>8 DEF InterruptStep, source, cursor
<1>9. CASE EndStep
  BY <1>1, <1>9 DEF EndStep, KeepCalling, source, cursor
<1>10. CASE ReturnEOF
  <2>1. base = Len(text)
    <3>1. unread = <<>> /\ buffer = <<>> /\ base + Len(buffer) + Len(unread) = Len(text) /\ base \in Nat
      BY <1>10 DEF ReturnEOF, ChunkInv, WindowOK, Window
    <3> QED  BY <3>1, EmptySeq
  <2>2. Return(EndLexeme(text)) /\ mu # NoCaller /\ UNCHANGED <<lexer, text, base, includeHidden>>
    <3>1. position = PositionAt(text, base)
      BY DEF ChunkInv, CursorOK
    <3> QED  BY <1>10, <2>1, <3>1 DEF ReturnEOF, Idle, EndLexeme, source, cursor
  <2>3. Stream!Return(Stream!EndLexeme(text))
    BY <2>2, StreamReturns, StreamMeans
  <2>4. Stream!End
    BY <2>1, <2>2, <2>3, StreamKeeps DEF Stream!End
  <2> QED  BY <2>4 DEF Stream!Next
<1>11. CASE StartMatch
  BY <1>1, <1>11 DEF StartMatch, source, cursor
<1>12. CASE Advance(CutHere)
  BY <1>1, <1>12 DEF Advance, source, cursor
<1>13. ASSUME Matched(CutHere), Consume
       PROVE  /\ Stream!MayReturn /\ mu # NoCaller /\ UNCHANGED <<lexer, text, includeHidden>>
              /\ Stream!Longest(lexer, text, base) = [end |-> base + match.bestEnd, rule |-> match.bestRule]
              /\ base' = base + match.bestEnd
  <2>1. /\ HasMatch(lexer, text, base) /\ match # NotMatching
        /\ Longest(lexer, text, base) = [end |-> base + match.bestEnd, rule |-> match.bestRule]
    BY <1>13, DecidedFacts DEF Matched
  <2>2. mu # NoCaller
    BY <2>1, MatchTypes
  <2>3. Stream!MayReturn
    BY <1>4, <2>1, StreamMeans DEF Stream!MayReturn, InvalidText
  <2> QED  BY <1>13, <2>1, <2>2, <2>3, StreamMeans DEF Consume, source
<1>14. CASE SkipLexeme(CutHere)
  <2> DEFINE m == [end |-> base + match.bestEnd, rule |-> match.bestRule]
  <2>1. Matched(CutHere) /\ Consume /\ ~Visible(lexer, match.bestRule, includeHidden) /\ UNCHANGED <<mu, log>>
    BY <1>14 DEF SkipLexeme
  <2>2. /\ Stream!MayReturn /\ mu # NoCaller /\ UNCHANGED <<lexer, text, includeHidden>>
        /\ Stream!Longest(lexer, text, base) = m /\ base' = m.end
    BY <1>13, <2>1
  <2>3. ~Stream!Visible(lexer, m.rule, includeHidden)
    BY <2>1, StreamMeans
  <2> HIDE DEF m
  <2>4. Stream!Pass
    BY <2>1, <2>2, <2>3, StreamKeeps DEF Stream!Pass
  <2> QED  BY <2>4 DEF Stream!Next
<1>15. CASE ReturnLexeme(CutHere)
  <2> DEFINE m == [end |-> base + match.bestEnd, rule |-> match.bestRule]
  <2>1. Matched(CutHere) /\ Consume /\ Visible(lexer, match.bestRule, includeHidden)
    BY <1>15 DEF ReturnLexeme
  <2>2. /\ Stream!MayReturn /\ mu # NoCaller /\ UNCHANGED <<lexer, text, includeHidden>>
        /\ Stream!Longest(lexer, text, base) = m /\ base' = m.end
    BY <1>13, <2>1
  <2>3. Stream!Visible(lexer, m.rule, includeHidden)
    BY <2>1, StreamMeans
  <2>4. Return(LexemeOf(text, base, m))
    <3>1. match # NotMatching
      BY <2>1, DecidedFacts DEF Matched
    <3>2. /\ position' = PositionAt(text', base') /\ position = PositionAt(text, base)
          /\ Text = SubSeq(text, base + 1, base + match.bestEnd)
      BY <2>1, <3>1, ConsumeFacts DEF ChunkInv, CursorOK
    <3>3. position' = PositionAt(text, base + match.bestEnd)
      BY <2>2, <3>2
    <3> QED  BY <1>15, <3>2, <3>3 DEF ReturnLexeme, LexemeOf
  <2>5. Stream!Return(Stream!LexemeOf(text, base, m))
    BY <2>4, StreamReturns, StreamMeans
  <2> HIDE DEF m
  <2>6. Stream!Deliver
    BY <2>1, <2>2, <2>3, <2>5, StreamKeeps DEF Stream!Deliver
  <2> QED  BY <2>6 DEF Stream!Next
<1>16. CASE ReturnError(CutHere)
  <2>1. /\ ~HasMatch(lexer, text, base) /\ match # NotMatching
    BY <1>16, DecidedFacts DEF ReturnError
  <2>2. mu # NoCaller /\ base < Len(text)
    BY <2>1, MatchTypes
  <2> QED  BY <1>3, <1>16, <2>1, <2>2 DEF ReturnError, source, cursor
<1>17. CASE InvalidStep
  <2>1. CanDecode(CutHere) /\ Decode(buffer, match.pos) = NoRune /\ match.on /\ match.pos < Len(buffer)
    BY <1>17 DEF InvalidStep, Invalid, CanDecode, InBuffer, Decoded
  <2>2. match # NotMatching
    BY <2>1 DEF NotMatching
  <2>3. /\ mu # NoCaller /\ base < Len(text) /\ base \in Nat /\ base \in 0..Len(text) /\ Len(buffer) \in Nat
        /\ match.pos \in 0..Len(buffer) /\ match.stateID \in DOMAIN lexer.next /\ match.bestRule \in Nat
        /\ LoopAt(lexer, text, base, base + match.pos, match.stateID, match.bestRule, base + match.bestEnd)
    BY <2>2, MatchTypes
  <2>4. /\ LexerOK(lexer) /\ text \in Seq(ToSet(text)) /\ buffer \in Seq(ToSet(text)) /\ Window(text, base, buffer)
    BY DEF ChunkInv, TablesOK, WindowOK
  <2>5. base + Len(buffer) = Len(text) \/ ~CutOff(buffer, match.pos)
    <3>1. CASE eof
      <4>1. unread = <<>> /\ base + Len(buffer) + Len(unread) = Len(text)
        BY <3>1 DEF ChunkInv, WindowOK
      <4> QED  BY <2>3, <4>1, EmptySeq
    <3>2. CASE ~CutHere
      BY <1>17, <3>2 DEF CutHere, InvalidStep, Is
    <3> QED  BY <2>1, <3>1, <3>2 DEF CanDecode
  <2>6. Decode(text, base + match.pos) = NoRune
    BY <2>1, <2>3, <2>4, <2>5, WindowInvalid
  <2>7. base + match.pos \in 0..Len(text) /\ base + match.pos < Len(text)
    BY <2>1, <2>3, <2>4, LenProperties DEF Window
  <2>8. \A rune \in DOMAIN lexer.next[match.stateID] : ~Fits(rune, text, base + match.pos)
    <3>1. \A rune \in Runes : ~Fits(rune, text, base + match.pos)
      BY <2>4, <2>6, <2>7, DecodeFacts
    <3> QED  BY <2>3, <2>4, <3>1 DEF LexerOK
  <2>9. MeetsInvalidText(lexer, text, base)
    BY <2>3, <2>4, <2>6, <2>7, <2>8, LoopStops
  <2>10. InvalidText # "returned"
    BY <1>17 DEF InvalidText, InvalidStep, Is
  <2> QED  BY <1>3, <1>17, <2>3, <2>9, <2>10 DEF InvalidStep, source, cursor
<1>18. CASE UNCHANGED chunkVars
  BY <1>1, <1>18
<1> QED  BY <1>5, <1>6, <1>7, <1>8, <1>9, <1>10, <1>11, <1>12, <1>14, <1>15, <1>16, <1>17, <1>18 DEF ChunkStep

------------------------------------------------------------------------------
(* The scanners over a reader take chunk steps. *)

\* A read of nothing, when nothing is left, leaves nothing.
LEMMA NothingReceived ==
  ASSUME ChunkInv, Receive(0), unread = <<>>
  PROVE  unread' = <<>>
<1>1. Len(unread') \in Nat /\ base + Len(buffer') + Len(unread') = Len(text) /\ Len(buffer') = Len(buffer) + 0
      /\ unread' \in Seq(ToSet(text))
  BY ReceiveFacts, LenProperties DEF ChunkInv
<1>2. base + Len(buffer) + Len(unread) = Len(text) /\ base \in Nat /\ Len(buffer) \in Nat /\ Len(unread) = 0
  BY LenProperties, EmptySeq DEF ChunkInv, WindowOK, Window
<1>3. Len(unread') = 0
  BY <1>1, <1>2
<1> QED  BY <1>1, <1>3, EmptySeq

\* The Go scanner over a reader means the same by the tables,
LEMMA ReaderMeans ==
  /\ \A u, p : Reader!CutOff(u, p) = CutOff(u, p) /\ Reader!Decode(u, p) = Decode(u, p)
  /\ Reader!NoRune = NoRune
  /\ \A u, q : Reader!AdvancePosition(u, q) = AdvancePosition(u, q)
  /\ \A u, p : Reader!Rest(u, p) = Rest(u, p)
  /\ \A r, h : Reader!Visible(lexer, r, h) = Visible(lexer, r, h)
<1>1. \A u, p : Reader!CutOff(u, p) = CutOff(u, p) /\ Reader!Decode(u, p) = Decode(u, p)
  BY DEF Reader!CutOff, Reader!Decode, Reader!Fits, Reader!IsPrefix, Reader!IsStrictPrefix, Reader!Rest,
         Reader!NoRune, Reader!Runes, CutOff, Decode, Fits, IsPrefix, IsStrictPrefix, Rest, NoRune, Runes
<1>2. \A u, q : Reader!AdvancePosition(u, q) = AdvancePosition(u, q)
  BY DEF Reader!AdvancePosition, Reader!Advanced, Reader!Leads, Reader!Runes,
         AdvancePosition, Advanced, Leads, Runes
<1> QED  BY <1>1, <1>2 DEF Reader!NoRune, NoRune, Reader!Rest, Rest, Reader!Visible, Visible

\* and its steps are chunk steps.
LEMMA ReaderChunks ==
  ASSUME ChunkInv, Is("go", "reader"), Reader!Next
  PROVE  ChunkStep
<1>1. Reader!Cut = CutHere
  BY ReaderMeans DEF Reader!Cut, CutHere, Is
<1>2. \A result : Reader!Return(result) => Return(result)
  BY DEF Reader!Return, Reader!NotMatching, Return, NotMatching
<1>3. \A cause : Reader!Interrupted(cause) = Interrupted(cause)
  BY DEF Reader!Interrupted, Interrupted
<1>4. "reader" \in Causes /\ "limit" \in Causes
  BY DEF Causes
<1>5. Reader!KeepCalling => KeepCalling
  BY DEF Reader!KeepCalling, KeepCalling
<1>6. eof \in BOOLEAN
  BY DEF ChunkInv, WindowOK
<1>7. ASSUME NEW n \in 0..readBufferSize, NEW err, Reader!Read(n, err)
      PROVE  /\ mu # NoCaller /\ eof = FALSE /\ Receive(n)
             /\ err = "EOF" => unread' = <<>>
  BY <1>6, <1>7, ReaderMeans DEF Reader!Read, Reader!NeedsMore, Reader!Receive, Receive, Reader!Min, Min,
     Reader!Rest, Rest
<1>8. 1..readBufferSize \subseteq 0..readBufferSize /\ 0 \in 0..readBufferSize
  BY OptionsArePositive
<1>9. CASE Reader!ReportPending
  <2>1. InterruptStep
    BY <1>2, <1>3, <1>4, <1>9 DEF Reader!ReportPending, Reader!NeedsMore, InterruptStep, Reader!source, source,
       Reader!cursor, cursor
  <2> QED  BY <2>1 DEF ChunkStep
<1>10. ASSUME NEW n \in 1..readBufferSize, NEW err, Reader!ReadOverLimit(n, err)
       PROVE  ChunkStep
  <2>1. ReadStep
    BY <1>2, <1>3, <1>4, <1>7, <1>8, <1>10 DEF Reader!ReadOverLimit, ReadStep
  <2> QED  BY <2>1 DEF ChunkStep
<1>11. ASSUME NEW n \in 1..readBufferSize, Reader!ReadBytesAndError(n) \/ Reader!ReadBytes(n)
       PROVE  ChunkStep
  <2>1. PICK err : Reader!Read(n, err) /\ KeepCalling /\ UNCHANGED eof
    BY <1>5, <1>11 DEF Reader!ReadBytesAndError, Reader!ReadBytes
  <2>2. n \in 0..readBufferSize
    BY <1>8
  <2>3. mu # NoCaller /\ eof = FALSE /\ Receive(n)
    BY <1>7, <2>1, <2>2
  <2>4. ReadStep
    BY <2>1, <2>2, <2>3 DEF ReadStep
  <2> QED  BY <2>4 DEF ChunkStep
<1>12. ASSUME NEW n \in 0..readBufferSize, Reader!ReadToEOF(n)
       PROVE  ChunkStep
  <2>1. ReadStep
    BY <1>5, <1>7, <1>12 DEF Reader!ReadToEOF, ReadStep
  <2> QED  BY <2>1 DEF ChunkStep
<1>13. ASSUME NEW err, Reader!ReadNothing(err)
       PROVE  ChunkStep
  <2>1. ReadStep
    BY <1>2, <1>3, <1>4, <1>7, <1>8, <1>13 DEF Reader!ReadNothing, ReadStep
  <2> QED  BY <2>1 DEF ChunkStep
<1>14. CASE Reader!ReadMore
  BY <1>9, <1>10, <1>11, <1>12, <1>13, <1>14 DEF Reader!ReadMore
<1>15. CASE Reader!MatchBuffered
  <2>1. Advance(CutHere)
    BY <1>1, <1>15, ReaderMeans DEF Reader!MatchBuffered, Reader!Advance, Advance, Reader!CanDecode, CanDecode,
       Reader!InBuffer, InBuffer, Reader!Decoded, Decoded, Reader!Transition, Transition, Reader!source, source,
       Reader!cursor, cursor
  <2> QED  BY <2>1 DEF ChunkStep
<1>16. \A cut : Reader!Decided(cut) <=> Decided(cut)
  BY ReaderMeans DEF Reader!Decided, Decided, Reader!AtBufferEnd, AtBufferEnd, Reader!CanDecode, CanDecode,
     Reader!InBuffer, InBuffer, Reader!Decoded, Decoded, Reader!Transition, Transition
<1>17. Reader!Consume => Consume
  BY ReaderMeans DEF Reader!Consume, Consume, Reader!Text, Text, Reader!source, source
<1>18. CASE Reader!ReturnEOF
  <2>1. ReturnEOF
    BY <1>2, <1>18 DEF Reader!ReturnEOF, ReturnEOF, Reader!Idle, Idle, Reader!source, source,
       Reader!cursor, cursor
  <2> QED  BY <2>1 DEF ChunkStep
<1>19. CASE Reader!StartMatch
  <2>1. StartMatch
    BY <1>19 DEF Reader!StartMatch, StartMatch, Reader!Idle, Idle, Reader!source, source,
       Reader!cursor, cursor, Reader!MatchStart, MatchStart
  <2> QED  BY <2>1 DEF ChunkStep
<1>20. CASE Reader!SkipLexeme(Reader!Cut)
  <2>1. SkipLexeme(CutHere)
    BY <1>1, <1>16, <1>17, <1>20, ReaderMeans DEF Reader!SkipLexeme, SkipLexeme, Reader!Matched, Matched,
       Reader!NotMatching, NotMatching
  <2> QED  BY <2>1 DEF ChunkStep
<1>21. CASE Reader!ReturnLexeme(Reader!Cut)
  <2>1. ReturnLexeme(CutHere)
    BY <1>1, <1>2, <1>16, <1>17, <1>21, ReaderMeans DEF Reader!ReturnLexeme, ReturnLexeme, Reader!Matched, Matched,
       Reader!Text, Text
  <2> QED  BY <2>1 DEF ChunkStep
<1>22. CASE Reader!ReturnError(Reader!Cut)
  <2>1. ReturnError(CutHere)
    BY <1>1, <1>2, <1>16, <1>22 DEF Reader!ReturnError, ReturnError, Reader!Rejected, Rejected, Reader!source, source,
       Reader!cursor, cursor
  <2> QED  BY <2>1 DEF ChunkStep
<1>23. CASE Reader!NextLexeme
  BY <1>18, <1>19, <1>20, <1>21, <1>22, <1>23 DEF Reader!NextLexeme
<1>24. ASSUME NEW c \in Callers, Reader!Lock(c)
       PROVE  ChunkStep
  <2>1. Lock(c)
    BY <1>24 DEF Reader!Lock, Lock, Reader!source, source, Reader!cursor, cursor
  <2> QED  BY <2>1 DEF ChunkStep
<1>25. ASSUME NEW include \in BOOLEAN, Reader!IncludeHidden(include)
       PROVE  ChunkStep
  <2>1. IncludeHidden(include)
    BY <1>25 DEF Reader!IncludeHidden, IncludeHidden, Reader!source, source
  <2> QED  BY <2>1 DEF ChunkStep
<1> QED  BY <1>14, <1>15, <1>23, <1>24, <1>25 DEF Reader!Next, Reader!Step

\* The C++ scanner over a reader means the same by the tables,
LEMMA InputStreamMeans ==
  /\ \A u, p : InputStream!AsksForMore(u, p) = AsksForMore(u, p) /\ InputStream!Decode(u, p) = Decode(u, p)
  /\ InputStream!NoRune = NoRune
  /\ \A u, q : InputStream!AdvancePosition(u, q) = AdvancePosition(u, q)
  /\ \A u, p : InputStream!Rest(u, p) = Rest(u, p)
  /\ \A r, h : InputStream!Visible(lexer, r, h) = Visible(lexer, r, h)
<1>1. \A u, p : InputStream!AsksForMore(u, p) = AsksForMore(u, p) /\ InputStream!Decode(u, p) = Decode(u, p)
  BY DEF InputStream!AsksForMore, InputStream!Decode, InputStream!Fits, InputStream!IsPrefix, InputStream!Rest,
         InputStream!NoRune, InputStream!Runes, AsksForMore, Decode, Fits, IsPrefix, Rest, NoRune, Runes
<1>2. \A u, q : InputStream!AdvancePosition(u, q) = AdvancePosition(u, q)
  BY DEF InputStream!AdvancePosition, InputStream!Advanced, InputStream!Leads, InputStream!Runes,
         AdvancePosition, Advanced, Leads, Runes
<1> QED  BY <1>1, <1>2 DEF InputStream!NoRune, NoRune, InputStream!Rest, Rest, InputStream!Visible, Visible

\* and its steps are chunk steps.
LEMMA InputStreamChunks ==
  ASSUME ChunkInv, Is("cpp", "reader"), stream = "eof" => unread = <<>>, InputStream!Next
  PROVE  ChunkStep
<1>1. InputStream!Cut = CutHere
  BY InputStreamMeans DEF InputStream!Cut, CutHere, Is
<1>2. \A result : InputStream!Return(result) => Return(result)
  BY DEF InputStream!Return, InputStream!NotMatching, Return, NotMatching
<1>3. \A cause : InputStream!Interrupted(cause) = Interrupted(cause)
  BY DEF InputStream!Interrupted, Interrupted
<1>4. "reader" \in Causes /\ "limit" \in Causes
  BY DEF Causes
<1>5. InputStream!KeepCalling => KeepCalling
  BY DEF InputStream!KeepCalling, KeepCalling
<1>6. eof \in BOOLEAN
  BY DEF ChunkInv, WindowOK
<1>7. ASSUME InputStream!NeedsMore(InputStream!Cut), NEW n \in 0..readBufferSize, NEW after,
             InputStream!StreamRead(n, after)
      PROVE  /\ mu # NoCaller /\ eof = FALSE /\ Receive(n)
             /\ after = "eof" => unread' = <<>>
  <2>1. mu # NoCaller /\ eof = FALSE /\ Receive(n)
    BY <1>6, <1>7, InputStreamMeans DEF InputStream!StreamRead, InputStream!NeedsMore, InputStream!Receive, Receive,
       InputStream!Min, Min
  <2>2. ASSUME stream # "good", after = "eof"
        PROVE  unread' = <<>>
    <3>1. n = 0 /\ unread = <<>>
      BY <1>7, <2>2 DEF InputStream!StreamRead
    <3> QED  BY <2>1, <3>1, NothingReceived
  <2> QED  BY <1>7, <2>1, <2>2 DEF InputStream!StreamRead
<1>8. ASSUME InputStream!NeedsMore(InputStream!Cut), NEW n \in 0..readBufferSize, NEW after,
             InputStream!ReadOverLimit(n, after) \/ InputStream!ReadFails(n, after)
      PROVE  ChunkStep
  <2>1. PICK cause \in Causes : InputStream!StreamRead(n, after) /\ Return(Interrupted(cause)) /\ UNCHANGED eof
    BY <1>2, <1>3, <1>4, <1>8 DEF InputStream!ReadOverLimit, InputStream!ReadFails, InputStream!Throw
  <2>2. mu # NoCaller /\ eof = FALSE /\ Receive(n)
    BY <1>7, <1>8, <2>1
  <2>3. ReadStep
    BY <2>1, <2>2 DEF ReadStep
  <2> QED  BY <2>3 DEF ChunkStep
<1>9. ASSUME InputStream!NeedsMore(InputStream!Cut), NEW n \in 0..readBufferSize, NEW after,
             InputStream!ReadChunk(n, after)
      PROVE  ChunkStep
  <2>1. InputStream!StreamRead(n, after) /\ eof' = (after = "eof") /\ KeepCalling
    BY <1>5, <1>9 DEF InputStream!ReadChunk
  <2>2. mu # NoCaller /\ Receive(n) /\ (after = "eof" => unread' = <<>>)
    BY <1>7, <1>9, <2>1
  <2>3. ReadStep
    BY <2>1, <2>2 DEF ReadStep
  <2> QED  BY <2>3 DEF ChunkStep
<1>10. CASE InputStream!ReadMore
  BY <1>8, <1>9, <1>10 DEF InputStream!ReadMore
<1>11. CASE InputStream!MatchBuffered
  <2>1. Advance(CutHere)
    BY <1>1, <1>11, InputStreamMeans DEF InputStream!MatchBuffered, InputStream!Advance, Advance, InputStream!CanDecode, CanDecode,
       InputStream!InBuffer, InBuffer, InputStream!Decoded, Decoded, InputStream!Transition, Transition, InputStream!source, source,
       InputStream!cursor, cursor
  <2> QED  BY <2>1 DEF ChunkStep
<1>12. \A cut : InputStream!Decided(cut) <=> Decided(cut)
  BY InputStreamMeans DEF InputStream!Decided, Decided, InputStream!AtBufferEnd, AtBufferEnd, InputStream!CanDecode, CanDecode,
     InputStream!InBuffer, InBuffer, InputStream!Decoded, Decoded, InputStream!Transition, Transition
<1>13. InputStream!Consume => Consume
  BY InputStreamMeans DEF InputStream!Consume, Consume, InputStream!Text, Text, InputStream!source, source
<1>14. CASE InputStream!ReturnEOF
  <2>1. ReturnEOF
    BY <1>2, <1>14 DEF InputStream!ReturnEOF, ReturnEOF, InputStream!Idle, Idle, InputStream!source, source,
       InputStream!cursor, cursor
  <2> QED  BY <2>1 DEF ChunkStep
<1>15. CASE InputStream!StartMatch
  <2>1. StartMatch
    BY <1>15 DEF InputStream!StartMatch, StartMatch, InputStream!Idle, Idle, InputStream!source, source,
       InputStream!cursor, cursor, InputStream!MatchStart, MatchStart
  <2> QED  BY <2>1 DEF ChunkStep
<1>16. CASE InputStream!SkipLexeme(InputStream!Cut)
  <2>1. SkipLexeme(CutHere)
    BY <1>1, <1>12, <1>13, <1>16, InputStreamMeans DEF InputStream!SkipLexeme, SkipLexeme, InputStream!Matched, Matched,
       InputStream!NotMatching, NotMatching
  <2> QED  BY <2>1 DEF ChunkStep
<1>17. CASE InputStream!ReturnLexeme(InputStream!Cut)
  <2>1. ReturnLexeme(CutHere)
    BY <1>1, <1>2, <1>12, <1>13, <1>17, InputStreamMeans DEF InputStream!ReturnLexeme, ReturnLexeme, InputStream!Matched, Matched,
       InputStream!Text, Text
  <2> QED  BY <2>1 DEF ChunkStep
<1>18. CASE InputStream!ReturnError(InputStream!Cut)
  <2>1. ReturnError(CutHere)
    BY <1>1, <1>2, <1>12, <1>18 DEF InputStream!ReturnError, ReturnError, InputStream!Rejected, Rejected, InputStream!source, source,
       InputStream!cursor, cursor
  <2> QED  BY <2>1 DEF ChunkStep
<1>19. CASE InputStream!NextLexeme
  BY <1>14, <1>15, <1>16, <1>17, <1>18, <1>19 DEF InputStream!NextLexeme
<1>20. ASSUME NEW c \in OneCaller, InputStream!Lock(c)
       PROVE  ChunkStep
  <2>1. c \in Callers /\ Lock(c)
    BY <1>20, OptionsArePositive DEF OneCaller, InputStream!Lock, Lock, InputStream!source, source, InputStream!cursor, cursor
  <2> QED  BY <2>1 DEF ChunkStep
<1>21. ASSUME NEW include \in BOOLEAN, InputStream!IncludeHidden(include)
       PROVE  ChunkStep
  <2>1. IncludeHidden(include)
    BY <1>21 DEF InputStream!IncludeHidden, IncludeHidden, InputStream!source, source
  <2> QED  BY <2>1 DEF ChunkStep
<1> QED  BY <1>10, <1>11, <1>19, <1>20, <1>21 DEF InputStream!Next, InputStream!Step

\* The C# scanner over a reader means the same by the tables,
LEMMA TextReaderMeans ==
  /\ \A u, p : TextReader!CutOff(u, p) = CutOff(u, p) /\ TextReader!Decode(u, p) = Decode(u, p)
  /\ TextReader!NoRune = NoRune
  /\ \A u, q : TextReader!AdvancePosition(u, q) = AdvancePosition(u, q)
  /\ \A u, p : TextReader!Rest(u, p) = Rest(u, p)
  /\ \A r, h : TextReader!Visible(lexer, r, h) = Visible(lexer, r, h)
<1>1. \A u, p : TextReader!CutOff(u, p) = CutOff(u, p) /\ TextReader!Decode(u, p) = Decode(u, p)
  BY DEF TextReader!CutOff, TextReader!Decode, TextReader!Fits, TextReader!IsPrefix, TextReader!IsStrictPrefix, TextReader!Rest,
         TextReader!NoRune, TextReader!Runes, CutOff, Decode, Fits, IsPrefix, IsStrictPrefix, Rest, NoRune, Runes
<1>2. \A u, q : TextReader!AdvancePosition(u, q) = AdvancePosition(u, q)
  BY DEF TextReader!AdvancePosition, TextReader!Advanced, TextReader!Leads, TextReader!Runes,
         AdvancePosition, Advanced, Leads, Runes
<1> QED  BY <1>1, <1>2 DEF TextReader!NoRune, NoRune, TextReader!Rest, Rest, TextReader!Visible, Visible

\* and its steps are chunk steps.
LEMMA TextReaderChunks ==
  ASSUME ChunkInv, Is("csharp", "reader"), TextReader!Next
  PROVE  ChunkStep
<1>1. TextReader!Cut = CutHere
  BY TextReaderMeans DEF TextReader!Cut, CutHere, Is
<1>2. \A result : TextReader!Return(result) => Return(result)
  BY DEF TextReader!Return, TextReader!NotMatching, Return, NotMatching
<1>3. \A cause : TextReader!Interrupted(cause) = Interrupted(cause)
  BY DEF TextReader!Interrupted, Interrupted
<1>4. "reader" \in Causes /\ "limit" \in Causes
  BY DEF Causes
<1>5. TextReader!KeepCalling => KeepCalling
  BY DEF TextReader!KeepCalling, KeepCalling
<1>6. eof \in BOOLEAN
  BY DEF ChunkInv, WindowOK
<1>7. ASSUME TextReader!NeedsMore(TextReader!Cut)
      PROVE  mu # NoCaller /\ eof = FALSE
  BY <1>6, <1>7 DEF TextReader!NeedsMore
<1>8. ASSUME TextReader!NeedsMore(TextReader!Cut), TextReader!Throws
      PROVE  ChunkStep
  <2>1. InterruptStep
    BY <1>2, <1>3, <1>4, <1>7, <1>8 DEF TextReader!Throws, InterruptStep, TextReader!source, source,
       TextReader!cursor, cursor
  <2> QED  BY <2>1 DEF ChunkStep
<1>9. ASSUME TextReader!NeedsMore(TextReader!Cut), NEW n \in 1..readBufferSize, TextReader!ReadUnits(n)
      PROVE  ChunkStep
  <2>1. Receive(n) /\ UNCHANGED eof /\ (KeepCalling \/ Return(Interrupted("limit")))
    BY <1>2, <1>3, <1>5, <1>9, TextReaderMeans DEF TextReader!ReadUnits, TextReader!Receive, Receive,
       TextReader!Min, Min
  <2>2. n \in 0..readBufferSize /\ mu # NoCaller /\ eof = FALSE
    BY <1>7, <1>9, OptionsArePositive
  <2>3. ReadStep
    BY <1>4, <2>1, <2>2 DEF ReadStep
  <2> QED  BY <2>3 DEF ChunkStep
<1>10. ASSUME TextReader!NeedsMore(TextReader!Cut), TextReader!ReadEnd
       PROVE  ChunkStep
  <2>1. EndStep
    BY <1>5, <1>7, <1>10 DEF TextReader!ReadEnd, EndStep, TextReader!source, source,
       TextReader!cursor, cursor
  <2> QED  BY <2>1 DEF ChunkStep
<1>11. CASE TextReader!ReadMore
  BY <1>8, <1>9, <1>10, <1>11 DEF TextReader!ReadMore
<1>12. CASE TextReader!MatchBuffered
  <2>1. CASE TextReader!Advance(TextReader!Cut)
    <3>1. Advance(CutHere)
      BY <1>1, <2>1, TextReaderMeans DEF TextReader!Advance, Advance, TextReader!CanDecode, CanDecode,
         TextReader!InBuffer, InBuffer, TextReader!Decoded, Decoded, TextReader!Transition, Transition,
         TextReader!source, source, TextReader!cursor, cursor
    <3> QED  BY <3>1 DEF ChunkStep
  <2>2. CASE /\ TextReader!Invalid(TextReader!Cut)
             /\ TextReader!Return(TextReader!Rejected(base))
             /\ UNCHANGED <<TextReader!source, TextReader!cursor, eof>>
    <3>1. InvalidStep
      BY <1>1, <1>2, <2>2, TextReaderMeans DEF InvalidStep, TextReader!Invalid, Invalid, TextReader!CanDecode, CanDecode,
         TextReader!InBuffer, InBuffer, TextReader!Decoded, Decoded, TextReader!Rejected, Rejected,
         TextReader!source, source, TextReader!cursor, cursor
    <3> QED  BY <3>1 DEF ChunkStep
  <2> QED  BY <1>12, <2>1, <2>2 DEF TextReader!MatchBuffered
<1>13. \A cut : TextReader!Decided(cut) <=> Decided(cut)
  BY TextReaderMeans DEF TextReader!Decided, Decided, TextReader!AtBufferEnd, AtBufferEnd, TextReader!CanDecode, CanDecode,
     TextReader!InBuffer, InBuffer, TextReader!Decoded, Decoded, TextReader!Transition, Transition
<1>14. TextReader!Consume => Consume
  BY TextReaderMeans DEF TextReader!Consume, Consume, TextReader!Text, Text, TextReader!source, source
<1>15. CASE TextReader!ReturnEOF
  <2>1. ReturnEOF
    BY <1>2, <1>15 DEF TextReader!ReturnEOF, ReturnEOF, TextReader!Idle, Idle, TextReader!source, source,
       TextReader!cursor, cursor
  <2> QED  BY <2>1 DEF ChunkStep
<1>16. CASE TextReader!StartMatch
  <2>1. StartMatch
    BY <1>16 DEF TextReader!StartMatch, StartMatch, TextReader!Idle, Idle, TextReader!source, source,
       TextReader!cursor, cursor, TextReader!MatchStart, MatchStart
  <2> QED  BY <2>1 DEF ChunkStep
<1>17. CASE TextReader!SkipLexeme(TextReader!Cut)
  <2>1. SkipLexeme(CutHere)
    BY <1>1, <1>13, <1>14, <1>17, TextReaderMeans DEF TextReader!SkipLexeme, SkipLexeme, TextReader!Matched, Matched,
       TextReader!NotMatching, NotMatching
  <2> QED  BY <2>1 DEF ChunkStep
<1>18. CASE TextReader!ReturnLexeme(TextReader!Cut)
  <2>1. ReturnLexeme(CutHere)
    BY <1>1, <1>2, <1>13, <1>14, <1>18, TextReaderMeans DEF TextReader!ReturnLexeme, ReturnLexeme, TextReader!Matched, Matched,
       TextReader!Text, Text
  <2> QED  BY <2>1 DEF ChunkStep
<1>19. CASE TextReader!ReturnError(TextReader!Cut)
  <2>1. ReturnError(CutHere)
    BY <1>1, <1>2, <1>13, <1>19 DEF TextReader!ReturnError, ReturnError, TextReader!Rejected, Rejected, TextReader!source, source,
       TextReader!cursor, cursor
  <2> QED  BY <2>1 DEF ChunkStep
<1>20. CASE TextReader!NextLexeme
  BY <1>15, <1>16, <1>17, <1>18, <1>19, <1>20 DEF TextReader!NextLexeme
<1>21. ASSUME NEW c \in OneCaller, TextReader!Lock(c)
       PROVE  ChunkStep
  <2>1. c \in Callers /\ Lock(c)
    BY <1>21, OptionsArePositive DEF OneCaller, TextReader!Lock, Lock, TextReader!source, source, TextReader!cursor, cursor
  <2> QED  BY <2>1 DEF ChunkStep
<1>22. ASSUME NEW include \in BOOLEAN, TextReader!IncludeHidden(include)
       PROVE  ChunkStep
  <2>1. IncludeHidden(include)
    BY <1>22 DEF TextReader!IncludeHidden, IncludeHidden, TextReader!source, source
  <2> QED  BY <2>1 DEF ChunkStep
<1>23. CASE TextReader!Dispose
  <2>1. UNCHANGED chunkVars
    BY <1>23 DEF TextReader!Dispose, TextReader!chunkVars, chunkVars
  <2> QED  BY <2>1 DEF ChunkStep
<1> QED  BY <1>23, <1>11, <1>12, <1>20, <1>21, <1>22 DEF TextReader!Next, TextReader!Step

\* The C scanner over a reader means the same by the tables,
LEMMA CStreamMeans ==
  /\ \A u, p : CStream!AsksForMore(u, p) = AsksForMore(u, p) /\ CStream!Decode(u, p) = Decode(u, p)
  /\ CStream!NoRune = NoRune
  /\ \A u, q : CStream!AdvancePosition(u, q) = AdvancePosition(u, q)
  /\ \A u, p : CStream!Rest(u, p) = Rest(u, p)
  /\ \A r, h : CStream!Visible(lexer, r, h) = Visible(lexer, r, h)
<1>1. \A u, p : CStream!AsksForMore(u, p) = AsksForMore(u, p) /\ CStream!Decode(u, p) = Decode(u, p)
  BY DEF CStream!AsksForMore, CStream!Decode, CStream!Fits, CStream!IsPrefix, CStream!Rest,
         CStream!NoRune, CStream!Runes, AsksForMore, Decode, Fits, IsPrefix, Rest, NoRune, Runes
<1>2. \A u, q : CStream!AdvancePosition(u, q) = AdvancePosition(u, q)
  BY DEF CStream!AdvancePosition, CStream!Advanced, CStream!Leads, CStream!Runes,
         AdvancePosition, Advanced, Leads, Runes
<1> QED  BY <1>1, <1>2 DEF CStream!NoRune, NoRune, CStream!Rest, Rest, CStream!Visible, Visible

\* and its steps are chunk steps, until it is freed.
LEMMA CStreamChunks ==
  ASSUME ChunkInv, Is("c", "reader"), CStream!Next, ~CStream!Free
  PROVE  ChunkStep
<1>1. CStream!Cut = CutHere
  BY CStreamMeans DEF CStream!Cut, CutHere, Is
<1>2. \A result : CStream!Return(result) => Return(result)
  BY DEF CStream!Return, CStream!NotMatching, Return, NotMatching
<1>3. \A cause : CStream!Interrupted(cause) = Interrupted(cause)
  BY DEF CStream!Interrupted, Interrupted
<1>4. "reader" \in Causes /\ "limit" \in Causes /\ "memory" \in Causes
  BY DEF Causes, Is
<1>5. CStream!KeepCalling => KeepCalling
  BY DEF CStream!KeepCalling, KeepCalling
<1>6. eof \in BOOLEAN
  BY DEF ChunkInv, WindowOK
<1>7. ASSUME CStream!NeedsMore(CStream!Cut)
      PROVE  mu # NoCaller /\ eof = FALSE
  BY <1>6, <1>7 DEF CStream!NeedsMore
<1>8. ASSUME mu # NoCaller, NEW cause \in Causes, CStream!FailWith(cause)
      PROVE  ChunkStep
  <2>1. InterruptStep
    BY <1>2, <1>3, <1>8 DEF CStream!FailWith, InterruptStep, CStream!source, source, CStream!cursor, cursor
  <2> QED  BY <2>1 DEF ChunkStep
<1>9. ASSUME CStream!NeedsMore(CStream!Cut), CStream!GrowthFails \/ CStream!CallbackFails
      PROVE  ChunkStep
  BY <1>4, <1>7, <1>8, <1>9 DEF CStream!GrowthFails, CStream!CallbackFails
<1>10. ASSUME CStream!NeedsMore(CStream!Cut), NEW n \in 0..readBufferSize, CStream!ReadChunk(n)
       PROVE  ChunkStep
  <2>1. /\ Receive(n) /\ eof' = (n = 0) /\ (n = 0 => unread = <<>>)
        /\ KeepCalling \/ Return(Interrupted("limit"))
    BY <1>2, <1>3, <1>5, <1>10, CStreamMeans DEF CStream!ReadChunk, CStream!Receive, Receive,
       CStream!Min, Min
  <2>2. n = 0 => unread' = <<>>
    BY <2>1, NothingReceived
  <2>3. ReadStep
    BY <1>4, <1>7, <1>10, <2>1, <2>2 DEF ReadStep
  <2> QED  BY <2>3 DEF ChunkStep
<1>11. CASE CStream!ReadMore
  BY <1>9, <1>10, <1>11 DEF CStream!ReadMore
<1>12. CASE CStream!Match
  <2>1. Advance(CutHere)
    BY <1>1, <1>12, CStreamMeans DEF CStream!Match, CStream!Advance, Advance, CStream!CanDecode, CanDecode,
       CStream!InBuffer, InBuffer, CStream!Decoded, Decoded, CStream!Transition, Transition, CStream!source, source,
       CStream!cursor, cursor
  <2> QED  BY <2>1 DEF ChunkStep
<1>13. \A cut : CStream!Decided(cut) <=> Decided(cut)
  BY CStreamMeans DEF CStream!Decided, Decided, CStream!AtBufferEnd, AtBufferEnd, CStream!CanDecode, CanDecode,
     CStream!InBuffer, InBuffer, CStream!Decoded, Decoded, CStream!Transition, Transition
<1>14. CStream!Consume => Consume
  BY CStreamMeans DEF CStream!Consume, Consume, CStream!Text, Text, CStream!source, source
<1>15. CASE CStream!ReturnEOF
  <2>1. ReturnEOF
    BY <1>2, <1>15 DEF CStream!ReturnEOF, ReturnEOF, CStream!Idle, Idle, CStream!source, source,
       CStream!cursor, cursor
  <2> QED  BY <2>1 DEF ChunkStep
<1>16. CASE CStream!StartMatch
  <2>1. StartMatch
    BY <1>16 DEF CStream!StartMatch, StartMatch, CStream!Idle, Idle, CStream!source, source,
       CStream!cursor, cursor, CStream!MatchStart, MatchStart
  <2> QED  BY <2>1 DEF ChunkStep
<1>17. CASE CStream!SkipLexeme(CStream!Cut)
  <2>1. SkipLexeme(CutHere)
    BY <1>1, <1>13, <1>14, <1>17, CStreamMeans DEF CStream!SkipLexeme, SkipLexeme, CStream!Matched, Matched,
       CStream!NotMatching, NotMatching
  <2> QED  BY <2>1 DEF ChunkStep
<1>18. CASE CStream!ReturnLexeme(CStream!Cut)
  <2>1. ReturnLexeme(CutHere)
    BY <1>1, <1>2, <1>13, <1>14, <1>18, CStreamMeans DEF CStream!ReturnLexeme, ReturnLexeme, CStream!Matched, Matched,
       CStream!Text, Text
  <2> QED  BY <2>1 DEF ChunkStep
<1>19. CASE CStream!ReturnError(CStream!Cut)
  <2>1. ReturnError(CutHere)
    BY <1>1, <1>2, <1>13, <1>19 DEF CStream!ReturnError, ReturnError, CStream!Rejected, Rejected, CStream!source, source,
       CStream!cursor, cursor
  <2> QED  BY <2>1 DEF ChunkStep
<1>20. CASE CStream!CopyFails
  <2>1. match # NotMatching
    BY <1>1, <1>13, <1>20, DecidedFacts DEF CStream!CopyFails, CStream!Matched
  <2>2. mu # NoCaller
    BY <2>1, MatchTypes
  <2> QED  BY <1>4, <1>8, <1>20, <2>2 DEF CStream!CopyFails
<1>21. CASE CStream!ScannerNext
  BY <1>15, <1>16, <1>17, <1>18, <1>19, <1>21, <1>20 DEF CStream!ScannerNext
<1>22. ASSUME NEW c \in OneCaller, CStream!Lock(c)
       PROVE  ChunkStep
  <2>1. c \in Callers /\ Lock(c)
    BY <1>22, OptionsArePositive DEF OneCaller, CStream!Lock, Lock, CStream!source, source, CStream!cursor, cursor
  <2> QED  BY <2>1 DEF ChunkStep
<1>23. ASSUME NEW include \in BOOLEAN, CStream!IncludeHidden(include)
       PROVE  ChunkStep
  <2>1. IncludeHidden(include)
    BY <1>23 DEF CStream!IncludeHidden, IncludeHidden, CStream!source, source
  <2> QED  BY <2>1 DEF ChunkStep
<1> QED  BY <1>11, <1>12, <1>21, <1>22, <1>23 DEF CStream!Next, CStream!Step

------------------------------------------------------------------------------
(* The scanners over a reader. *)

(* The C++ stream ends where there is nothing left to read; the C scanner    *)
(* has forgotten its buffer once it is freed.                                *)
ReaderInv ==
  /\ over = "reader" => ChunkInv \/ (Is("c", "reader") /\ freed)
  /\ Is("cpp", "reader") /\ stream = "eof" => unread = <<>>

\* A scanner over a reader starts before the text.
LEMMA ChunkStarts ==
  ASSUME lexer \in Lexers, text \in Texts, unread = text, buffer = <<>>, base = 0,
         position = [line |-> 1, column |-> 1], includeHidden = FALSE, eof = FALSE,
         mu = NoCaller, match = NotMatching, log = <<>>
  PROVE  ChunkInv
<1>1. TablesOK
  BY LexersAreSound, TextsAreSequences DEF TablesOK
<1>2. text \in Seq(ToSet(text)) /\ Len(text) \in Nat /\ <<>> \in Seq(ToSet(text)) /\ Len(<<>>) = 0
  BY <1>1, LenProperties, EmptySeq DEF TablesOK
<1>3. Window(text, base, buffer)
  BY <1>2 DEF Window
<1>4. WindowOK
  <2>1. base + Len(buffer) + Len(unread) = Len(text)
    BY <1>2
  <2>2. \A i \in 1..Len(unread) : unread[i] = text[base + Len(buffer) + i]
    BY <1>2
  <2> QED  BY <1>2, <1>3, <2>1, <2>2 DEF WindowOK
<1>5. CursorOK
  <2>1. log \in Seq({})
    BY EmptySeq
  <2>2. PositionAt(text, 0) = [line |-> 1, column |-> 1]
    BY PositionTypes
  <2> QED  BY <2>1, <2>2 DEF CursorOK, IsLog, IsList
<1> QED  BY <1>1, <1>4, <1>5 DEF ChunkInv, MatchOK

\* What each scanner over a reader starts from.
LEMMA ReaderStarts ==
  ASSUME InitReader \/ InitInputStream \/ InitTextReader \/ InitCStream
  PROVE  ReaderInv /\ over = "reader"
<1>1. over = "reader" /\ ChunkInv
  <2>1. CASE InitReader
    BY <2>1, ChunkStarts DEF InitReader, Is, Reader!Init, Reader!ChunkInit, Reader!NotMatching, NotMatching
  <2>2. CASE InitInputStream
    BY <2>2, ChunkStarts DEF InitInputStream, Is, InputStream!Init, InputStream!ChunkInit, InputStream!NotMatching, NotMatching
  <2>3. CASE InitTextReader
    BY <2>3, ChunkStarts DEF InitTextReader, Is, TextReader!Init, TextReader!ChunkInit, TextReader!NotMatching, NotMatching, Texts16
  <2>4. CASE InitCStream
    BY <2>4, ChunkStarts DEF InitCStream, Is, CStream!Init, CStream!ChunkInit, CStream!NotMatching, NotMatching
  <2> QED  BY <2>1, <2>2, <2>3, <2>4
<1>2. Is("cpp", "reader") => stream # "eof"
  BY DEF InitReader, InitInputStream, InitTextReader, InitCStream, Is, InputStream!Init
<1> QED  BY <1>1, <1>2 DEF ReaderInv

\* The C++ stream only says it has ended when nothing is left.
LEMMA StreamEnds ==
  ASSUME ChunkInv, stream = "eof" => unread = <<>>, InputStream!Next, stream' = "eof"
  PROVE  unread' = <<>>
<1>1. ASSUME NEW n \in 0..readBufferSize, NEW after, InputStream!StreamRead(n, after)
      PROVE  unread' = <<>>
  <2>1. Receive(n)
    BY <1>1, InputStreamMeans DEF InputStream!StreamRead, InputStream!Receive, Receive, InputStream!Min, Min
  <2>2. CASE stream # "good"
    <3>1. n = 0 /\ unread = <<>>
      BY <1>1, <2>2 DEF InputStream!StreamRead
    <3> QED  BY <2>1, <3>1, NothingReceived
  <2>3. CASE stream = "good"
    BY <1>1, <2>3 DEF InputStream!StreamRead
  <2> QED  BY <2>2, <2>3
<1>2. ASSUME UNCHANGED stream, UNCHANGED unread
      PROVE  unread' = <<>>
  BY <1>2
<1>3. CASE InputStream!ReadMore
  BY <1>1, <1>3 DEF InputStream!ReadMore, InputStream!ReadOverLimit, InputStream!ReadFails, InputStream!ReadChunk
<1>4. CASE InputStream!MatchBuffered
  BY <1>2, <1>4 DEF InputStream!MatchBuffered, InputStream!Advance, InputStream!source
<1>5. CASE InputStream!NextLexeme
  BY <1>2, <1>5 DEF InputStream!NextLexeme, InputStream!ReturnEOF, InputStream!StartMatch, InputStream!SkipLexeme,
     InputStream!ReturnLexeme, InputStream!ReturnError, InputStream!Consume, InputStream!source
<1>6. CASE UNCHANGED stream /\ ((\E c \in OneCaller : InputStream!Lock(c))
                                \/ (\E include \in BOOLEAN : InputStream!IncludeHidden(include)))
  BY <1>2, <1>6 DEF InputStream!Lock, InputStream!IncludeHidden, InputStream!source
<1> QED  BY <1>3, <1>4, <1>5, <1>6 DEF InputStream!Next, InputStream!Step

\* A freed scanner does nothing, and freeing one is no step of the stream.
LEMMA FreeKeeps ==
  ASSUME CStream!Next, Is("c", "reader"), UNCHANGED <<target, over>>, freed \/ CStream!Free
  PROVE  freed' /\ Is("c", "reader")' /\ UNCHANGED Stream!vars
<1>1. CStream!Free
  BY DEF CStream!Next, CStream!Step
<1> QED  BY <1>1 DEF CStream!Free, Is, Stream!vars

\* The invariant of the scanners over a reader, and that they serve the stream.
LEMMA ReaderSteps ==
  ASSUME ReaderInv, over = "reader", Next
  PROVE  ReaderInv' /\ over' = over /\ (Stream!Next \/ UNCHANGED Stream!vars)
<1>1. ASSUME UNCHANGED <<target, over>>, ChunkInv, ChunkStep,
             Is("cpp", "reader") /\ stream' = "eof" => unread' = <<>>
      PROVE  ReaderInv' /\ over' = over /\ (Stream!Next \/ UNCHANGED Stream!vars)
  <2>1. ChunkInv'
    BY <1>1, ChunkInvKept
  <2>2. Stream!Next \/ UNCHANGED Stream!vars
    BY <1>1, ChunkDelivers
  <2> QED  BY <1>1, <2>1, <2>2 DEF ReaderInv, Is
<1>2. CASE Is("go", "reader") /\ Reader!Next /\ KeepReader
  <2>1. ChunkInv /\ UNCHANGED <<target, over>> /\ ~Is("cpp", "reader")
    BY <1>2 DEF ReaderInv, Is, KeepReader
  <2> QED  BY <1>1, <1>2, <2>1, ReaderChunks
<1>3. CASE Is("cpp", "reader") /\ InputStream!Next /\ KeepInputStream
  <2>1. ChunkInv /\ UNCHANGED <<target, over>> /\ (stream = "eof" => unread = <<>>)
    BY <1>3 DEF ReaderInv, Is, KeepInputStream
  <2> QED  BY <1>1, <1>3, <2>1, InputStreamChunks, StreamEnds
<1>4. CASE Is("csharp", "reader") /\ TextReader!Next /\ KeepTextReader
  <2>1. ChunkInv /\ UNCHANGED <<target, over>> /\ ~Is("cpp", "reader")
    BY <1>4 DEF ReaderInv, Is, KeepTextReader
  <2> QED  BY <1>1, <1>4, <2>1, TextReaderChunks
<1>5. CASE Is("c", "reader") /\ CStream!Next /\ KeepCStream
  <2>1. UNCHANGED <<target, over>> /\ ~Is("cpp", "reader") /\ over' = over
    BY <1>5 DEF Is, KeepCStream
  <2>2. CASE freed \/ CStream!Free
    <3>1. freed' /\ Is("c", "reader")' /\ UNCHANGED Stream!vars
      BY <1>5, <2>1, <2>2, FreeKeeps
    <3> QED  BY <2>1, <3>1 DEF ReaderInv, Is
  <2>3. CASE ~freed /\ ~CStream!Free
    <3>1. ChunkInv
      BY <2>3 DEF ReaderInv
    <3> QED  BY <1>1, <1>5, <2>1, <2>3, <3>1, CStreamChunks
  <2> QED  BY <2>2, <2>3
<1> QED  BY <1>2, <1>3, <1>4, <1>5 DEF Next, OverString, Is

\* The window of a match holds its best match.
LEMMA ChunksAreAccounted ==
  ASSUME ChunkInv
  PROVE  TypeOK /\ BytesAccounted
<1> DEFINE b == Len(buffer)
<1>1. /\ text \in Seq(ToSet(text)) /\ buffer \in Seq(ToSet(text)) /\ LexerOK(lexer)
      /\ base \in Nat /\ b \in Nat /\ Len(unread) \in Nat /\ Len(text) \in Nat
      /\ base + b <= Len(text) /\ base + b + Len(unread) = Len(text)
  BY LenProperties DEF ChunkInv, TablesOK, WindowOK, Window
<1>2. base \in 0..Len(text) /\ Len(buffer) + Len(unread) <= Len(text)
  BY <1>1
<1>3. match.on => match # NotMatching
  BY DEF NotMatching
<1>4. ASSUME match.on
      PROVE  /\ mu # NoCaller /\ match \in Matching
             /\ LoopAt(lexer, text, base, base + match.pos, match.stateID, match.bestRule, base + match.bestEnd)
  BY <1>3, <1>4 DEF ChunkInv, MatchOK
<1>5. ASSUME match.on
      PROVE  /\ match.stateID \in DOMAIN lexer.next
             /\ match.bestEnd <= match.pos /\ match.pos <= Len(buffer)
  <2>1. base + match.bestEnd \in base..(base + match.pos)
    BY <1>4, <1>5 DEF LoopAt
  <2>2. match.pos \in 0..b /\ match.bestEnd \in Nat /\ match.stateID \in DOMAIN lexer.next
    BY <1>4, <1>5 DEF Matching
  <2> QED  BY <1>1, <2>1, <2>2
<1>6. TypeOK
  BY <1>2, <1>4, <1>5 DEF TypeOK, ChunkInv, WindowOK, CursorOK
<1>7. buffer = SubSeq(text, base + 1, base + b)
  <2> DEFINE part == SubSeq(text, base + 1, base + b)
  <2>1. \A i \in (base + 1)..(base + b) : text[i] \in ToSet(text)
    BY <1>1, ElementOfSeq
  <2>2. /\ part \in Seq(ToSet(text)) /\ Len(part) = b
        /\ \A i \in 1..b : part[i] = text[base + 1 + i - 1]
    <3> DEFINE m == base + 1  n == base + b
    <3>1. m \in Int /\ n \in Int /\ n - m + 1 = b /\ (IF m <= n THEN b ELSE 0) = b
      BY <1>1
    <3>2. \A i \in m..n : text[i] \in ToSet(text)
      BY <2>1
    <3> HIDE DEF m, n, b
    <3>3. /\ SubSeq(text, m, n) \in Seq(ToSet(text))
          /\ Len(SubSeq(text, m, n)) = IF m <= n THEN n - m + 1 ELSE 0
          /\ \A i \in 1..(n - m + 1) : SubSeq(text, m, n)[i] = text[m + i - 1]
      BY ONLY <3>1, <3>2, SubSeqProperties
    <3> QED  BY <3>1, <3>3 DEF m, n
  <2>3. \A i \in 1..b : part[i] = buffer[i]
    <3> TAKE i \in 1..b
    <3>1. base + 1 + i - 1 = base + i
      BY <1>1
    <3> QED  BY <2>2, <3>1 DEF ChunkInv, WindowOK, Window
  <2> HIDE DEF part
  <2>4. part = buffer
    BY <1>1, <2>2, <2>3, SeqEqual
  <2> QED  BY <2>4 DEF part
<1>8. ASSUME match.on, match.bestRule > 0
      PROVE  [end |-> match.bestEnd, rule |-> match.bestRule] \in Matches(lexer, buffer, 0)
  <2> DEFINE m == [end |-> base + match.bestEnd, rule |-> match.bestRule]
  <2>1. m \in Matches(lexer, text, base)
    BY <1>4, <1>8 DEF LoopAt
  <2>2. match.bestEnd \in Nat /\ match.pos \in 0..b
    BY <1>4, <1>8 DEF Matching
  <2>3. m.end <= base + b /\ m.end - base = match.bestEnd
    BY <1>1, <1>5, <1>8, <2>2
  <2>4. Window(text, base, buffer)
    BY DEF ChunkInv, WindowOK
  <2>5. [end |-> m.end - base, rule |-> m.rule] \in Matches(lexer, buffer, 0)
    BY <1>1, <2>1, <2>3, <2>4, WindowMatches
  <2> QED  BY <2>3, <2>5
<1> QED  BY <1>1, <1>6, <1>7, <1>8 DEF BytesAccounted

------------------------------------------------------------------------------
(* The scanners over a string. *)

IsLexeme(i) == log[i].result.kind = "lexeme"

(* While only All calls have run, what they hold is what the log says they   *)
(* were given: each lexeme before the cursor, to one of them.                *)
SplitOK ==
  /\ mu # NoCaller => all[mu].state = "running"
  /\ \A i \in DOMAIN log : IsLexeme(i) =>
       /\ log[i].caller \in Callers
       /\ log[i].result.start \in Nat /\ log[i].result.start < base
       /\ all[log[i].caller].state # "failed" =>
            \E k \in DOMAIN all[log[i].caller].out : all[log[i].caller].out[k] = log[i].result
  /\ \A i, j \in DOMAIN log : IsLexeme(i) /\ IsLexeme(j) /\ i < j => log[i].result.start < log[j].result.start
  /\ \A c \in Callers : \A k \in DOMAIN all[c].out :
       \E i \in DOMAIN log : IsLexeme(i) /\ log[i].caller = c /\ log[i].result = all[c].out[k]

AllsOK ==
  /\ all = [c \in Callers |-> all[c]]
  /\ \A c \in Callers : all[c] = [state |-> all[c].state, out |-> all[c].out] /\ IsList(all[c].out)
  /\ calls \in Nat

StringInv ==
  /\ TablesOK /\ base \in 0..Len(text)
  /\ CursorOK
  /\ AllsOK
  /\ calls = 0 => SplitOK

\* The scanner over a string means the same by the tables.
LEMMA StringMeans ==
  /\ \A u, p : String!Decode(u, p) = Decode(u, p)
  /\ String!NoRune = NoRune
  /\ \A u, q : String!AdvancePosition(u, q) = AdvancePosition(u, q)
  /\ \A r, h : String!Visible(lexer, r, h) = Visible(lexer, r, h)
  /\ \A p : String!Rejected(p) = Rejected(p)
<1>1. \A u, p : String!Decode(u, p) = Decode(u, p)
  BY DEF String!Decode, String!Fits, String!IsPrefix, String!Rest, String!NoRune, String!Runes,
         Decode, Fits, IsPrefix, Rest, NoRune, Runes
<1>2. \A u, q : String!AdvancePosition(u, q) = AdvancePosition(u, q)
  BY DEF String!AdvancePosition, String!Advanced, String!Leads, String!Runes,
         AdvancePosition, Advanced, Leads, Runes
<1> QED  BY <1>1, <1>2 DEF String!NoRune, NoRune, String!Visible, Visible, String!Rejected, Rejected

\* matchAt runs its loop until it stops.
LEMMA StringMatches ==
  ASSUME TablesOK, base \in 0..Len(text)
  PROVE  /\ Standing(lexer, text, base, String!MatchAt(base))
         /\ Stopped(lexer, text, String!MatchAt(base))
<1> DEFINE Around == String!Round
           After == CHOOSE f : f = [n \in Nat |-> IF n = 0 THEN LoopStart(lexer, base) ELSE Around[f[n - 1]]]
<1>1. String!Loop = LoopSet(lexer)
  BY DEF String!Loop, LoopSet
<1>2. Around = [at \in LoopSet(lexer) |-> RoundOf(lexer, text, at)]
  BY <1>1, StringMeans DEF String!Round, RoundOf
<1>3. ASSUME NEW at \in LoopSet(lexer)
      PROVE  RoundOf(lexer, text, at) \in LoopSet(lexer)
  <2> DEFINE decoded == Decode(text, at.p)
             to == lexer.next[at.stateID][decoded.rune]
             rule == lexer.accept[to]
             p == at.p + decoded.size
  <2>1. CASE decoded.rune \notin DOMAIN lexer.next[at.stateID]
    BY <2>1 DEF RoundOf
  <2>2. CASE decoded.rune \in DOMAIN lexer.next[at.stateID]
    <3>1. at.p \in Nat /\ at.stateID \in DOMAIN lexer.next /\ at.bestRule \in Nat /\ at.bestEnd \in Nat
      BY DEF LoopSet
    <3>2. decoded.size \in Nat
      <4>1. \A rune \in Runes : Len(Spelling[rune]) \in Nat
        BY RuneFacts
      <4>2. decoded = NoRune \/ \E rune \in Runes : decoded = [rune |-> rune, size |-> Len(Spelling[rune])]
        BY DEF Decode
      <4>3. CASE decoded = NoRune
        BY <4>3 DEF NoRune
      <4>4. ASSUME NEW rune \in Runes, decoded = [rune |-> rune, size |-> Len(Spelling[rune])]
            PROVE  decoded.size \in Nat
        <5>1. decoded.size = Len(Spelling[rune])
          BY <4>4
        <5> QED  BY <4>1, <5>1
      <4> QED  BY <4>2, <4>3, <4>4
    <3>3. to \in DOMAIN lexer.next
      BY <2>2, <3>1 DEF TablesOK, LexerOK
    <3>4. rule \in Nat
      BY <3>3 DEF TablesOK, LexerOK
    <3>5. p \in Nat
      BY <3>1, <3>2
    <3>6. RoundOf(lexer, text, at) = [p |-> p, stateID |-> to,
                                     bestRule |-> IF rule > 0 THEN rule ELSE at.bestRule,
                                     bestEnd |-> IF rule > 0 THEN p ELSE at.bestEnd]
      BY <2>2 DEF RoundOf
    <3> HIDE DEF p, to, rule
    <3> QED  BY <3>1, <3>3, <3>4, <3>5, <3>6 DEF LoopSet
  <2> QED  BY <2>1, <2>2
<1>4. Around \in [LoopSet(lexer) -> LoopSet(lexer)] /\ \A at \in LoopSet(lexer) : Around[at] = RoundOf(lexer, text, at)
  BY <1>2, <1>3
<1>5. String!MatchAt(base) = After[Len(text) - base]
  BY DEF String!MatchAt, LoopStart
<1>6. LexerOK(lexer) /\ text \in Seq(ToSet(text)) /\ base \in 0..Len(text)
  BY DEF TablesOK
<1> HIDE DEF Around
<1>7. PICK run : run = After
  OBVIOUS
<1>8. run = CHOOSE f : f = [n \in Nat |-> IF n = 0 THEN LoopStart(lexer, base) ELSE Around[f[n - 1]]]
  BY <1>7
<1>9. /\ Standing(lexer, text, base, run[Len(text) - base])
      /\ Stopped(lexer, text, run[Len(text) - base])
  BY ONLY <1>4, <1>6, <1>8, LoopRuns
<1> QED  BY <1>5, <1>7, <1>9

\* What it decides.
LEMMA StringDecides ==
  ASSUME TablesOK, base \in 0..Len(text), NEW m, m = String!MatchAt(base)
  PROVE  /\ String!MatchFails(m) <=> \/ ~HasMatch(lexer, text, base)
                                     \/ target = "csharp" /\ MeetsInvalidText(lexer, text, base)
         /\ ~String!MatchFails(m) =>
              /\ Longest(lexer, text, base) = [end |-> m.bestEnd, rule |-> m.bestRule]
              /\ m.bestEnd \in Nat /\ base < m.bestEnd /\ m.bestEnd <= Len(text)
<1>1. Standing(lexer, text, base, m) /\ Stopped(lexer, text, m)
  BY StringMatches
<1>2. LexerOK(lexer) /\ text \in Seq(ToSet(text)) /\ Len(text) \in Nat
  BY LenProperties DEF TablesOK
<1>3. LoopAt(lexer, text, base, m.p, m.stateID, m.bestRule, m.bestEnd)
  BY <1>1 DEF Standing
<1>4. /\ m.p \in base..Len(text) /\ m.bestRule \in Nat /\ m.bestEnd \in base..m.p
      /\ m.bestRule > 0 => m.bestEnd > base
  BY <1>2, <1>3, LoopTypes
<1>5. /\ m.bestRule > 0 =>
           /\ HasMatch(lexer, text, base)
           /\ Longest(lexer, text, base) = [end |-> m.bestEnd, rule |-> m.bestRule]
      /\ m.bestRule = 0 => ~HasMatch(lexer, text, base)
      /\ MeetsInvalidText(lexer, text, base) <=> (m.p < Len(text) /\ Decode(text, m.p) = NoRune)
  BY <1>1, <1>2, <1>3, LoopStops DEF Stopped
<1>6. String!MatchFails(m) <=> \/ m.bestRule = 0 \/ m.bestEnd = base
                               \/ target = "csharp" /\ MeetsInvalidText(lexer, text, base)
  BY <1>5, StringMeans DEF String!MatchFails
<1>7. m.bestRule = 0 \/ m.bestRule > 0
  BY <1>4
<1>8. m.bestEnd \in Nat /\ m.bestEnd <= Len(text)
  BY <1>2, <1>4
<1>9. m.bestRule > 0 => m.bestEnd # base
  BY <1>4, <1>8
<1> QED  BY <1>4, <1>5, <1>6, <1>7, <1>8, <1>9

\* What a result leaves of the split.
LEMMA ResultsSplit ==
  ASSUME StringInv, mu # NoCaller, NEW result, String!Return(result), UNCHANGED calls,
         base' \in Nat, base <= base',
         result.kind = "lexeme" => result.start = base /\ base < base'
  PROVE  AllsOK' /\ (calls' = 0 => SplitOK')
<1> DEFINE n == Len(log)
<1>1. /\ mu \in Callers /\ AllsOK /\ IsList(log) /\ base \in Nat /\ mu' = NoCaller
      /\ log' = Append(log, [caller |-> mu, result |-> result])
  BY LenProperties DEF StringInv, CursorOK, IsLog, IsList, String!Return, TablesOK
<1>2. /\ IsList(log') /\ n \in Nat /\ DOMAIN log = 1..n /\ DOMAIN log' = 1..(n + 1)
      /\ \A i \in 1..n : log'[i] = log[i]
      /\ log'[n + 1] = [caller |-> mu, result |-> result]
  BY <1>1, ListGrows
<1> DEFINE entry == String!Received(all[mu], result)
<1>3. all' = IF all[mu].state = "running" THEN [all EXCEPT ![mu] = entry] ELSE all
  BY DEF String!Return, String!Running
<1> DEFINE o == Len(all[mu].out)
<1>4. /\ IsList(Append(all[mu].out, result)) /\ o \in Nat /\ DOMAIN all[mu].out = 1..o
      /\ DOMAIN Append(all[mu].out, result) = 1..(o + 1)
      /\ \A i \in 1..o : Append(all[mu].out, result)[i] = all[mu].out[i]
      /\ Append(all[mu].out, result)[o + 1] = result
  BY <1>1, ListGrows DEF AllsOK
<1>5. all[mu] = [state |-> all[mu].state, out |-> all[mu].out]
  BY <1>1 DEF AllsOK
<1>6. /\ result.kind = "lexeme" => entry = [state |-> all[mu].state, out |-> Append(all[mu].out, result)]
      /\ result.kind = "end" => entry = [state |-> "returned", out |-> all[mu].out]
      /\ result.kind \notin {"lexeme", "end"} => entry = [state |-> "failed", out |-> <<>>]
  BY <1>5 DEF String!Received
<1>7. IsList(<<>>) /\ DOMAIN <<>> = {}
  BY EmptySeq DEF IsList
<1> HIDE DEF entry, o, n
<1>8. entry = [state |-> entry.state, out |-> entry.out] /\ IsList(entry.out)
  <2>1. CASE result.kind = "lexeme"
    <3>1. entry = [state |-> all[mu].state, out |-> Append(all[mu].out, result)]
      BY <1>6, <2>1
    <3>2. entry.out = Append(all[mu].out, result) /\ entry = [state |-> entry.state, out |-> entry.out]
      BY <3>1
    <3>3. IsList(Append(all[mu].out, result))
      BY <1>4
    <3> QED  BY <3>2, <3>3, Zenon
  <2>2. CASE result.kind = "end"
    BY <1>1, <1>6, <2>2 DEF AllsOK
  <2>3. CASE result.kind \notin {"lexeme", "end"}
    BY <1>6, <1>7, <2>3
  <2> QED  BY <2>1, <2>2, <2>3
<1>9. AllsOK'
  BY <1>1, <1>3, <1>8 DEF AllsOK
<1>10. ASSUME calls' = 0
       PROVE  SplitOK'
  <2>1. SplitOK /\ all[mu].state = "running"
    BY <1>10 DEF StringInv, SplitOK
  <2>2. all' = [all EXCEPT ![mu] = entry]
    BY <1>3, <2>1
  <2>3. all'[mu] = entry /\ \A c \in Callers : c # mu => all'[c] = all[c]
    BY <1>1, <2>2 DEF AllsOK
  <2> DEFINE Before(i) == log[i].result.kind = "lexeme"
             Now(i) == log'[i].result.kind = "lexeme"
  <2>4. \A i \in 1..n : Now(i) <=> Before(i)
    BY <1>2
  <2>5. Now(n + 1) <=> result.kind = "lexeme"
    BY <1>2
  <2>6. \A i \in 1..n : Before(i) => /\ log[i].caller \in Callers
                                     /\ log[i].result.start \in Nat /\ log[i].result.start < base
    BY <1>2, <2>1 DEF SplitOK, IsLexeme
  <2>7. \A i \in 1..(n + 1) : i \in 1..n \/ i = n + 1
    BY <1>2
  <2>8. ASSUME NEW i \in 1..(n + 1), Now(i)
        PROVE  log'[i].caller \in Callers /\ log'[i].result.start \in Nat /\ log'[i].result.start < base'
    <3>1. CASE i \in 1..n
      BY <1>1, <1>2, <2>4, <2>6, <2>8, <3>1
    <3>2. CASE i = n + 1
      BY <1>1, <1>2, <2>5, <2>8, <3>2
    <3> QED  BY <2>7, <3>1, <3>2
  <2>9. ASSUME NEW i \in 1..(n + 1), NEW j \in 1..(n + 1), Now(i), Now(j), i < j
        PROVE  log'[i].result.start < log'[j].result.start
    <3>1. i \in 1..n
      BY <1>2, <2>9
    <3>2. CASE j \in 1..n
      BY <1>2, <2>1, <2>4, <2>9, <3>1, <3>2 DEF SplitOK, IsLexeme
    <3>3. CASE j = n + 1
      <4>1. log'[j].result = result /\ result.kind = "lexeme"
        BY <1>2, <2>5, <2>9, <3>3
      <4> QED  BY <1>2, <2>4, <2>6, <2>9, <3>1, <4>1
    <3> QED  BY <2>7, <3>2, <3>3
  <2> DEFINE Holds(c, r) == \E k \in DOMAIN all'[c].out : all'[c].out[k] = r
  <2>10. ASSUME NEW c \in Callers, NEW r, all'[c].state # "failed",
                (\E k \in DOMAIN all[c].out : all[c].out[k] = r) \/ (c = mu /\ r = result /\ result.kind = "lexeme")
         PROVE  Holds(c, r)
    <3>1. CASE c # mu
      BY <2>3, <2>10, <3>1
    <3>2. CASE c = mu
      <4>1. CASE result.kind = "lexeme"
        <5>1. all'[mu].out = Append(all[mu].out, result)
          BY <1>6, <2>3, <4>1
        <5>2. ASSUME NEW k \in 1..o, all[mu].out[k] = r
              PROVE  Holds(c, r)
          <6>1. k \in 1..(o + 1)
            BY <1>4
          <6> QED  BY <1>4, <3>2, <5>1, <5>2, <6>1
        <5>3. r = result => Holds(c, r)
          <6>1. o + 1 \in 1..(o + 1)
            BY <1>4
          <6> QED  BY <1>4, <3>2, <5>1, <6>1
        <5> QED  BY <1>4, <2>10, <3>2, <5>2, <5>3
      <4>2. CASE result.kind = "end"
        BY <1>6, <2>3, <2>10, <3>2, <4>2
      <4>3. CASE result.kind \notin {"lexeme", "end"}
        BY <1>6, <2>3, <2>10, <3>2, <4>3
      <4> QED  BY <4>1, <4>2, <4>3
    <3> QED  BY <3>1, <3>2
  <2>11. \A c \in Callers : all[c].state = "failed" => all'[c].state = "failed"
    BY <2>1, <2>3
  <2>12. ASSUME NEW i \in 1..(n + 1), Now(i), all'[log'[i].caller].state # "failed"
         PROVE  Holds(log'[i].caller, log'[i].result)
    <3>1. log'[i].caller \in Callers
      BY <2>8, <2>12
    <3>2. CASE i \in 1..n
      <4>1. log'[i] = log[i] /\ Before(i)
        BY <1>2, <2>4, <2>12, <3>2
      <4>2. all[log[i].caller].state # "failed"
        BY <2>11, <2>12, <3>1, <4>1
      <4>3. \E k \in DOMAIN all[log[i].caller].out : all[log[i].caller].out[k] = log[i].result
        BY <1>2, <2>1, <3>2, <4>1, <4>2 DEF SplitOK, IsLexeme
      <4> QED  BY <2>10, <2>12, <3>1, <4>1, <4>3
    <3>3. CASE i = n + 1
      <4>1. log'[i].caller = mu /\ log'[i].result = result /\ result.kind = "lexeme"
        BY <1>2, <2>5, <2>12, <3>3
      <4> QED  BY <2>10, <2>12, <3>1, <4>1
    <3> QED  BY <2>7, <3>2, <3>3
  <2> DEFINE Given(c, r) == \E i \in 1..(n + 1) : Now(i) /\ log'[i].caller = c /\ log'[i].result = r
  <2>13. ASSUME NEW c \in Callers, NEW k \in DOMAIN all[c].out
         PROVE  Given(c, all[c].out[k])
    <3>1. PICK i \in 1..n : Before(i) /\ log[i].caller = c /\ log[i].result = all[c].out[k]
      BY <1>2, <2>1, <2>13 DEF SplitOK, IsLexeme
    <3>2. i \in 1..(n + 1)
      BY <1>2
    <3> QED  BY <1>2, <2>4, <3>1, <3>2
  <2>14. ASSUME NEW c \in Callers, NEW k \in DOMAIN all'[c].out
         PROVE  Given(c, all'[c].out[k])
    <3>1. CASE c # mu
      BY <2>3, <2>13, <2>14, <3>1
    <3>2. CASE c = mu /\ result.kind = "lexeme"
      <4>1. all'[c].out = Append(all[c].out, result) /\ k \in 1..(o + 1)
        BY <1>4, <1>6, <2>3, <2>14, <3>2
      <4>2. CASE k = o + 1
        <5>1. n + 1 \in 1..(n + 1)
          BY <1>2
        <5> QED  BY <1>2, <1>4, <2>5, <3>2, <4>1, <4>2, <5>1
      <4>3. CASE k \in 1..o
        <5>1. k \in DOMAIN all[c].out /\ all'[c].out[k] = all[c].out[k]
          BY <1>4, <3>2, <4>1, <4>3
        <5> QED  BY <2>13, <5>1
      <4> QED  BY <1>4, <4>1, <4>2, <4>3
    <3>3. CASE c = mu /\ result.kind = "end"
      <4>1. all'[c].out = all[c].out
        BY <1>6, <2>3, <3>3
      <4> QED  BY <2>13, <2>14, <4>1
    <3>4. CASE c = mu /\ result.kind \notin {"lexeme", "end"}
      <4>1. all'[c].out = <<>>
        BY <1>6, <2>3, <3>4
      <4> QED  BY <1>7, <2>14, <4>1
    <3> QED  BY <3>1, <3>2, <3>3, <3>4
  <2>15. \A i \in DOMAIN log' : Now(i) =>
            /\ log'[i].caller \in Callers
            /\ log'[i].result.start \in Nat /\ log'[i].result.start < base'
            /\ all'[log'[i].caller].state # "failed" => Holds(log'[i].caller, log'[i].result)
    BY <1>2, <2>8, <2>12
  <2>16. \A i, j \in DOMAIN log' : Now(i) /\ Now(j) /\ i < j => log'[i].result.start < log'[j].result.start
    BY <1>2, <2>9
  <2>17. \A c \in Callers : \A k \in DOMAIN all'[c].out :
            \E i \in DOMAIN log' : Now(i) /\ log'[i].caller = c /\ log'[i].result = all'[c].out[k]
    BY <1>2, <2>14
  <2> QED  BY <1>1, <2>15, <2>16, <2>17 DEF SplitOK, IsLexeme
<1> QED  BY <1>9, <1>10

\* A scanner over a string starts before the text.
LEMMA StringStarts ==
  ASSUME InitString
  PROVE  StringInv /\ OverString
<1>1. /\ lexer \in Lexers /\ text \in Texts /\ base = 0 /\ position = [line |-> 1, column |-> 1]
      /\ includeHidden = FALSE /\ mu = NoCaller /\ calls = 0 /\ log = <<>>
      /\ all = [c \in Callers |-> [state |-> "none", out |-> <<>>]]
  BY DEF InitString, String!Init
<1>2. TablesOK /\ Len(text) \in Nat
  BY <1>1, LexersAreSound, TextsAreSequences, LenProperties DEF TablesOK
<1>3. log \in Seq({}) /\ DOMAIN log = {}
  BY <1>1, EmptySeq
<1>4. CursorOK
  <2>1. PositionAt(text, 0) = [line |-> 1, column |-> 1]
    BY PositionTypes
  <2> QED  BY <1>1, <1>3, <2>1 DEF CursorOK, IsLog, IsList
<1>5. AllsOK /\ \A c \in Callers : all[c].out = <<>>
  <2>1. IsList(<<>>)
    BY EmptySeq DEF IsList
  <2> QED  BY <1>1, <2>1 DEF AllsOK
<1>6. SplitOK
  <2>1. DOMAIN <<>> = {}
    BY EmptySeq
  <2> QED  BY <1>1, <1>3, <1>5, <2>1 DEF SplitOK
<1>7. OverString
  BY DEF InitString, OverString
<1>8. base \in 0..Len(text)
  BY <1>1, <1>2
<1> QED  BY <1>2, <1>4, <1>5, <1>6, <1>7, <1>8 DEF StringInv

\* A result is returned by the abstract stream.
LEMMA StringReturns ==
  ASSUME NEW result, String!Return(result)
  PROVE  Stream!Return(result)
BY DEF String!Return, Stream!Return

\* The steps of a scanner over a string keep its invariant, and are steps of
\* the stream.
LEMMA StringSteps ==
  ASSUME StringInv, OverString, String!Next, KeepString
  PROVE  StringInv' /\ OverString' /\ (Stream!Next \/ UNCHANGED Stream!vars)
<1>1. ASSUME UNCHANGED target
      PROVE  OverString' /\ UNCHANGED <<target, over>>
  BY <1>1 DEF KeepString, OverString
<1>2. /\ LexerOK(lexer) /\ text \in Seq(ToSet(text)) /\ Len(text) \in Nat /\ TablesOK
      /\ base \in 0..Len(text) /\ base \in Nat /\ base <= Len(text) /\ position = PositionAt(text, base)
      /\ includeHidden \in BOOLEAN /\ mu \in Callers \cup {NoCaller} /\ IsLog /\ AllsOK
      /\ NoCaller \notin Callers
  BY LenProperties, OptionsArePositive DEF StringInv, TablesOK, CursorOK
<1>3. ASSUME UNCHANGED <<lexer, text>>, base' \in 0..Len(text), position' = PositionAt(text, base'),
             includeHidden' \in BOOLEAN, mu' \in Callers \cup {NoCaller},
             IsLog', AllsOK', calls' = 0 => SplitOK'
      PROVE  StringInv'
  BY <1>2, <1>3 DEF StringInv, TablesOK, CursorOK
<1>4. ASSUME NEW result, String!Return(result), UNCHANGED <<lexer, text, includeHidden, calls>>, mu # NoCaller,
             base' \in 0..Len(text), position' = PositionAt(text, base'),
             base <= base', result.kind = "lexeme" => result.start = base /\ base < base'
      PROVE  StringInv'
  <2>1. base' \in Nat
    BY <1>2, <1>4
  <2>2. AllsOK' /\ (calls' = 0 => SplitOK')
    BY <1>4, <2>1, ResultsSplit
  <2>3. mu' = NoCaller /\ log' = Append(log, [caller |-> mu, result |-> result])
    BY <1>4 DEF String!Return
  <2>4. IsLog'
    BY <1>2, <2>3, LogGrows
  <2> QED  BY <1>2, <1>3, <1>4, <2>2, <2>3, <2>4
<1>5. ASSUME NEW c \in Callers, String!Lock(c)
      PROVE  StringInv' /\ OverString' /\ Stream!Next
  <2>1. /\ UNCHANGED <<lexer, text, target, base, position, includeHidden, all, log>>
        /\ mu = NoCaller /\ mu' = c
        /\ \/ all[c].state = "running" /\ calls' = calls
           \/ calls' = calls + 1
    BY <1>5 DEF String!Lock, String!fixed, String!Running
  <2>2. AllsOK'
    BY <1>2, <2>1 DEF AllsOK
  <2>3. calls' = 0 => SplitOK'
    <3>1. ASSUME calls' = 0
          PROVE  calls = 0 /\ all[c].state = "running"
      BY <1>2, <2>1, <3>1 DEF AllsOK
    <3>2. ASSUME calls' = 0
          PROVE  SplitOK'
      <4>1. SplitOK /\ all[c].state = "running"
        BY <3>1, <3>2 DEF StringInv
      <4> QED  BY <2>1, <4>1 DEF SplitOK, IsLexeme
    <3> QED  BY <3>2
  <2>4. StringInv'
    BY <1>2, <1>3, <2>1, <2>2, <2>3 DEF IsLog, IsList
  <2>5. UNCHANGED Stream!fixed
    BY <1>1, <2>1, StreamKeeps
  <2>6. Stream!Enter(c)
    BY <2>1, <2>5 DEF Stream!Enter
  <2> QED  BY <1>1, <2>1, <2>4, <2>6 DEF Stream!Next
<1>6. ASSUME NEW include \in BOOLEAN, String!IncludeHidden(include)
      PROVE  StringInv' /\ OverString' /\ Stream!Next
  <2>1. /\ UNCHANGED <<lexer, text, target, base, position, mu, all, calls, log>>
        /\ mu = NoCaller /\ includeHidden' = include
    BY <1>6 DEF String!IncludeHidden, String!fixed
  <2>2. AllsOK' /\ (calls' = 0 => SplitOK')
    BY <1>2, <2>1 DEF AllsOK, SplitOK, IsLexeme, StringInv
  <2>3. StringInv'
    BY <1>2, <1>3, <2>1, <2>2 DEF IsLog, IsList
  <2>4. UNCHANGED Stream!fixed
    BY <1>1, <2>1, StreamKeeps
  <2>5. Stream!SetIncludeHidden(include)
    BY <2>1, <2>4 DEF Stream!SetIncludeHidden
  <2> QED  BY <1>1, <2>1, <2>3, <2>5 DEF Stream!Next
<1>7. ASSUME NEW c \in Callers, String!StartAll(c)
      PROVE  StringInv' /\ OverString' /\ UNCHANGED Stream!vars
  <2>1. /\ UNCHANGED <<lexer, text, target, base, position, includeHidden, mu, calls, log>>
        /\ mu # c /\ all[c].state = "none" /\ all' = [all EXCEPT ![c].state = "running"]
    BY <1>7 DEF String!StartAll, String!fixed
  <2>2. all = [d \in Callers |-> all[d]] /\ \A d \in Callers : all[d] = [state |-> all[d].state, out |-> all[d].out]
    BY <1>2 DEF AllsOK
  <2>3. /\ all' = [d \in Callers |-> all'[d]]
        /\ all'[c] = [state |-> "running", out |-> all[c].out]
        /\ \A d \in Callers : d # c => all'[d] = all[d]
    BY <2>1, <2>2
  <2>4. \A d \in Callers : /\ all'[d].out = all[d].out
                           /\ all'[d] = [state |-> all'[d].state, out |-> all'[d].out]
                           /\ all'[d].state = IF d = c THEN "running" ELSE all[d].state
    BY <2>2, <2>3
  <2>5. AllsOK'
    BY <1>2, <2>1, <2>3, <2>4 DEF AllsOK
  <2>6. ASSUME calls' = 0
        PROVE  SplitOK'
    <3>1. SplitOK
      BY <2>1, <2>6 DEF StringInv
    <3>2. \A d \in Callers : all'[d].state # "failed" => all[d].state # "failed"
      BY <2>1, <2>4
    <3>3. mu' # NoCaller => all'[mu'].state = "running"
      BY <1>2, <2>1, <2>4, <3>1 DEF SplitOK
    <3>4. \A i \in DOMAIN log : IsLexeme(i) =>
            /\ log[i].caller \in Callers
            /\ log[i].result.start \in Nat /\ log[i].result.start < base
            /\ all'[log[i].caller].state # "failed" =>
                 \E k \in DOMAIN all'[log[i].caller].out : all'[log[i].caller].out[k] = log[i].result
      <4> SUFFICES ASSUME NEW i \in DOMAIN log, IsLexeme(i), NEW d, d = log[i].caller
                   PROVE  /\ d \in Callers
                          /\ log[i].result.start \in Nat /\ log[i].result.start < base
                          /\ all'[d].state # "failed" =>
                               \E k \in DOMAIN all'[d].out : all'[d].out[k] = log[i].result
        OBVIOUS
      <4>1. /\ d \in Callers /\ log[i].result.start \in Nat /\ log[i].result.start < base
            /\ all[d].state # "failed" => \E k \in DOMAIN all[d].out : all[d].out[k] = log[i].result
        BY <3>1 DEF SplitOK
      <4>2. all'[d].out = all[d].out
        BY <2>4, <4>1
      <4> QED  BY <3>2, <4>1, <4>2
    <3>5. \A d \in Callers : \A k \in DOMAIN all'[d].out :
             \E i \in DOMAIN log : IsLexeme(i) /\ log[i].caller = d /\ log[i].result = all'[d].out[k]
      <4> TAKE d \in Callers
      <4>1. all'[d].out = all[d].out
        BY <2>4
      <4>2. \A k \in DOMAIN all[d].out :
               \E i \in DOMAIN log : IsLexeme(i) /\ log[i].caller = d /\ log[i].result = all[d].out[k]
        BY <3>1 DEF SplitOK
      <4> QED  BY <4>1, <4>2
    <3> QED  BY <2>1, <3>1, <3>3, <3>4, <3>5 DEF SplitOK, IsLexeme
  <2>7. StringInv'
    BY <1>2, <1>3, <2>1, <2>5, <2>6 DEF IsLog, IsList
  <2> QED  BY <1>1, <2>1, <2>7 DEF Stream!vars
<1>8. ASSUME mu # NoCaller, base < Len(text), NEW m, m = String!MatchAt(base), String!Consume(m)
      PROVE  /\ UNCHANGED <<lexer, text, target, includeHidden, calls>> /\ OverString'
             /\ base' = m.bestEnd /\ base' \in 0..Len(text) /\ base < base'
             /\ position' = PositionAt(text, base')
             /\ Longest(lexer, text, base) = [end |-> m.bestEnd, rule |-> m.bestRule]
             /\ Stream!MayReturn /\ UNCHANGED Stream!fixed
  <2>1. /\ ~String!MatchFails(m) /\ base' = m.bestEnd
        /\ position' = AdvancePosition(SubSeq(text, base + 1, m.bestEnd), position)
        /\ UNCHANGED <<lexer, text, target, includeHidden, calls>>
    BY <1>8, StringMeans DEF String!Consume, String!fixed
  <2>2. /\ HasMatch(lexer, text, base)
        /\ ~(target = "csharp" /\ MeetsInvalidText(lexer, text, base))
        /\ Longest(lexer, text, base) = [end |-> m.bestEnd, rule |-> m.bestRule]
        /\ m.bestEnd \in Nat /\ base < m.bestEnd /\ m.bestEnd <= Len(text)
    BY <1>2, <1>8, <2>1, StringDecides
  <2>3. m.bestEnd \in base..Len(text) /\ m.bestEnd \in 0..Len(text)
    BY <1>2, <2>2
  <2>4. position' = PositionAt(text, m.bestEnd)
    BY <1>2, <2>1, <2>3, PositionAdvances
  <2>5. Stream!MayReturn
    <3>1. InvalidText = "refused" => target = "csharp"
      BY DEF InvalidText
    <3> QED  BY <2>2, <3>1, StreamMeans DEF Stream!MayReturn, InvalidText
  <2> QED  BY <1>1, <2>1, <2>2, <2>3, <2>4, <2>5, StreamKeeps
<1>9. ASSUME mu # NoCaller, base < Len(text), NEW m, m = String!MatchAt(base), String!SkipLexeme(m)
      PROVE  StringInv' /\ OverString' /\ Stream!Next
  <2> DEFINE best == [end |-> m.bestEnd, rule |-> m.bestRule]
  <2>1. /\ String!Consume(m) /\ ~Visible(lexer, m.bestRule, includeHidden) /\ UNCHANGED <<mu, all, log>>
    BY <1>9, StringMeans DEF String!SkipLexeme
  <2>2. /\ UNCHANGED <<lexer, text, target, includeHidden, calls>> /\ OverString'
        /\ base' = m.bestEnd /\ base' \in 0..Len(text) /\ base < base'
        /\ position' = PositionAt(text, base')
        /\ Longest(lexer, text, base) = best
        /\ Stream!MayReturn /\ UNCHANGED Stream!fixed
    BY <1>8, <1>9, <2>1
  <2>3. AllsOK'
    BY <1>2, <2>1, <2>2 DEF AllsOK
  <2>4. ASSUME calls' = 0
        PROVE  SplitOK'
    <3>1. SplitOK
      BY <2>2, <2>4 DEF StringInv
    <3>2. \A n \in Nat : n < base => n < base'
      BY <1>2, <2>2
    <3> QED  BY <2>1, <3>1, <3>2 DEF SplitOK, IsLexeme
  <2>5. StringInv'
    BY <1>2, <1>3, <2>1, <2>2, <2>3, <2>4 DEF IsLog, IsList
  <2>6. Stream!Longest(lexer, text, base) = best /\ ~Stream!Visible(lexer, best.rule, includeHidden) /\ base' = best.end
    BY <2>1, <2>2, StreamMeans
  <2> HIDE DEF best
  <2>7. Stream!Pass
    BY <1>9, <2>1, <2>2, <2>6 DEF Stream!Pass
  <2> QED  BY <2>2, <2>5, <2>7 DEF Stream!Next
<1>10. ASSUME mu # NoCaller, base < Len(text), NEW m, m = String!MatchAt(base), String!ReturnLexeme(m)
       PROVE  StringInv' /\ OverString' /\ Stream!Next
  <2> DEFINE best == [end |-> m.bestEnd, rule |-> m.bestRule]
             lexeme == [kind |-> "lexeme", rule |-> m.bestRule, start |-> base, end |-> m.bestEnd,
                        text |-> SubSeq(text, base + 1, m.bestEnd), startAt |-> position, endAt |-> position']
  <2>1. /\ String!Consume(m) /\ Visible(lexer, m.bestRule, includeHidden) /\ String!Return(lexeme)
    BY <1>10, StringMeans DEF String!ReturnLexeme
  <2>2. /\ UNCHANGED <<lexer, text, target, includeHidden, calls>> /\ OverString'
        /\ base' = m.bestEnd /\ base' \in 0..Len(text) /\ base < base'
        /\ position' = PositionAt(text, base')
        /\ Longest(lexer, text, base) = best
        /\ Stream!MayReturn /\ UNCHANGED Stream!fixed
    BY <1>8, <1>10, <2>1
  <2>3. lexeme = LexemeOf(text, base, best)
    BY <1>2, <2>2 DEF LexemeOf
  <2>4. StringInv'
    <3>1. lexeme.start = base /\ base <= base'
      BY <1>2, <2>2
    <3> HIDE DEF lexeme
    <3> QED  BY <1>4, <1>10, <2>1, <2>2, <3>1
  <2>5. Stream!Return(Stream!LexemeOf(text, base, best))
    <3> HIDE DEF lexeme, best
    <3> QED  BY <2>1, <2>3, StringReturns, StreamMeans
  <2>6. Stream!Longest(lexer, text, base) = best /\ Stream!Visible(lexer, best.rule, includeHidden) /\ base' = best.end
    BY <2>1, <2>2, StreamMeans
  <2> HIDE DEF best, lexeme
  <2>7. Stream!Deliver
    BY <1>10, <2>2, <2>5, <2>6 DEF Stream!Deliver
  <2> QED  BY <2>2, <2>4, <2>7 DEF Stream!Next
<1>11. ASSUME mu # NoCaller, base < Len(text), NEW m, m = String!MatchAt(base), String!ReturnError(m)
       PROVE  StringInv' /\ OverString' /\ Stream!Next
  <2>1. /\ String!MatchFails(m) /\ String!Return(Rejected(base))
        /\ UNCHANGED <<lexer, text, target, base, position, includeHidden, calls>>
    BY <1>11, StringMeans DEF String!ReturnError, String!fixed
  <2>2. ~HasMatch(lexer, text, base) \/ (target = "csharp" /\ MeetsInvalidText(lexer, text, base))
    BY <1>2, <1>11, <2>1, StringDecides
  <2>3. StringInv'
    <3>1. Rejected(base).kind # "lexeme" /\ base <= base'
      BY <1>2, <2>1 DEF Rejected
    <3> QED  BY <1>2, <1>4, <1>11, <2>1, <3>1
  <2>4. Stream!Return(Stream!Rejected(base))
    BY <2>1, StringReturns, StreamMeans
  <2>5. Stream!MayRefuse
    <3>1. target = "csharp" => InvalidText # "returned"
      BY DEF InvalidText
    <3> QED  BY <2>2, <3>1, StreamMeans DEF Stream!MayRefuse, InvalidText
  <2>6. OverString' /\ UNCHANGED Stream!fixed
    BY <1>1, <2>1, StreamKeeps
  <2>7. Stream!Reject
    BY <1>11, <2>1, <2>4, <2>5, <2>6 DEF Stream!Reject
  <2> QED  BY <2>3, <2>6, <2>7 DEF Stream!Next
<1>12. CASE String!ReturnEOF
  <2>1. /\ mu # NoCaller /\ base = Len(text)
        /\ String!Return([kind |-> "end", start |-> base, at |-> position])
        /\ UNCHANGED <<lexer, text, target, base, position, includeHidden, calls>>
    BY <1>2, <1>12 DEF String!ReturnEOF, String!fixed
  <2>2. String!Return(EndLexeme(text)) /\ EndLexeme(text).kind # "lexeme"
    BY <1>2, <2>1 DEF EndLexeme
  <2>3. StringInv'
    <3>1. base <= base'
      BY <1>2, <2>1
    <3> QED  BY <1>2, <1>4, <2>1, <2>2, <3>1
  <2>4. Stream!Return(Stream!EndLexeme(text))
    BY <2>2, StringReturns, StreamMeans
  <2>5. OverString' /\ UNCHANGED Stream!fixed
    BY <1>1, <2>1, StreamKeeps
  <2>6. Stream!End
    BY <2>1, <2>4, <2>5 DEF Stream!End
  <2> QED  BY <2>3, <2>5, <2>6 DEF Stream!Next
<1> QED  BY <1>5, <1>6, <1>7, <1>9, <1>10, <1>11, <1>12 DEF String!Next, String!Step

\* The All calls split the text.
LEMMA AllsSplit ==
  ASSUME StringInv
  PROVE  String!AllsSplitTheText
<1> SUFFICES ASSUME calls = 0, \A c \in Callers : all[c].state # "failed", NEW i \in DOMAIN log, IsLexeme(i)
             PROVE  Cardinality({c \in Callers : \E k \in DOMAIN all[c].out : all[c].out[k] = log[i].result}) = 1
  BY DEF String!AllsSplitTheText, IsLexeme, String!Cardinality, Cardinality, String!IsFiniteSet, IsFiniteSet
<1> DEFINE holders == {c \in Callers : \E k \in DOMAIN all[c].out : all[c].out[k] = log[i].result}
<1>1. SplitOK /\ DOMAIN log \subseteq Nat
  <2>1. PICK S : log \in Seq(S)
    BY DEF StringInv, CursorOK, IsLog, IsList
  <2>2. DOMAIN log = 1..Len(log) /\ Len(log) \in Nat
    BY <2>1, LenProperties
  <2> QED  BY <2>2 DEF StringInv
<1>2. log[i].caller \in holders
  BY <1>1 DEF SplitOK
<1>3. \A c \in holders : c = log[i].caller
  <2> TAKE c \in holders
  <2>1. PICK k \in DOMAIN all[c].out : all[c].out[k] = log[i].result
    OBVIOUS
  <2>2. PICK j \in DOMAIN log : IsLexeme(j) /\ log[j].caller = c /\ log[j].result = log[i].result
    BY <1>1, <2>1 DEF SplitOK
  <2>3. ~(i < j) /\ ~(j < i)
    <3>1. log[i].result.start \in Nat
      BY <1>1 DEF SplitOK
    <3>2. ~(log[i].result.start < log[i].result.start)
      BY <3>1
    <3> QED  BY <1>1, <2>2, <3>2 DEF SplitOK
  <2>4. i = j
    BY <1>1, <2>3
  <2> QED  BY <2>2, <2>4
<1>4. holders = {log[i].caller}
  BY <1>2, <1>3
<1> QED  BY <1>4, FS_Singleton

------------------------------------------------------------------------------
(* The C scanner over a string, and lf_tokenize. *)

Produced(l, t) == {LexemeOf(t, p, Longest(l, t, p)) : p \in 0..Len(t)}

(* The lexeme at an offset, if callers see it. *)
Shown(l, t, p) ==
  IF Visible(l, Longest(l, t, p).rule, FALSE) THEN <<LexemeOf(t, p, Longest(l, t, p))>> ELSE <<>>

(* The lexemes from every offset on. *)
LexemesFrom(l, t, n) ==
  CHOOSE From : From = [p \in 0..n |->
    IF ~CString!HasMatch(l, t, p) THEN <<>>
    ELSE (IF CString!Visible(l, CString!Longest(l, t, p).rule, FALSE)
          THEN <<CString!LexemeOf(t, p, CString!Longest(l, t, p))>> ELSE <<>>)
           \o From[CString!Longest(l, t, p).end]]

TokenTables == LexerOK(lexer) /\ text \in Seq(ToSet(text)) /\ length \in 0..Len(text)

TokenMatch ==
  \/ match = CString!NotMatching
  \/ /\ state = "running"
     /\ match \in [on : {TRUE}, stateID : DOMAIN lexer.next, at : 0..length, bestRule : Nat, bestEnd : Nat]
     /\ LoopAt(lexer, CString!Text, base, match.at, match.stateID, match.bestRule, match.bestEnd)

TokenCursor == base \in 0..length /\ position = PositionAt(CString!Text, base)

TokenArray ==
  /\ items \in Seq(Produced(lexer, CString!Text)) /\ capacity \in Nat
  /\ state \in {"idle", "running", "returned", "failed"} /\ heap \in BOOLEAN
  /\ heap => Len(items) <= capacity
  /\ state = "running" => heap /\ capacity >= 1
  /\ state \in {"idle", "failed"} => ~heap
  /\ state = "idle" => items = <<>>

(* The array holds the lexemes before the cursor. *)
TokenOutput ==
  /\ state # "failed" => CString!Lexemes = items \o LexemesFrom(lexer, CString!Text, length)[base]
  /\ IsPrefix(items, CString!Lexemes)
  /\ state = "returned" => base = length

TokenInv == TokenTables /\ TokenMatch /\ TokenCursor /\ TokenArray /\ TokenOutput

\* The C scanner means the same by the tables.
LEMMA CStringMeans ==
  ASSUME NEW l, NEW t
  PROVE  /\ \A p : CString!Decode(t, p) = Decode(t, p)
         /\ \A q : CString!AdvancePosition(t, q) = AdvancePosition(t, q)
         /\ \A p : CString!HasMatch(l, t, p) = HasMatch(l, t, p)
         /\ \A p : CString!Longest(l, t, p) = Longest(l, t, p)
         /\ \A r, h : CString!Visible(l, r, h) = Visible(l, r, h)
         /\ \A p, m : CString!LexemeOf(t, p, m) = LexemeOf(t, p, m)
<1>1. \A u, q : /\ CString!Decode(u, q) = Decode(u, q)
                /\ \A rune : CString!Fits(rune, u, q) = Fits(rune, u, q)
  BY DEF CString!Decode, CString!Fits, CString!IsPrefix, CString!Rest, CString!NoRune, CString!Runes,
         Decode, Fits, IsPrefix, Rest, NoRune, Runes
<1>2. \A p, n : CString!Places(l, t, p)[n] = Places(l, t, p)[n]
  BY DEF CString!Places, CString!Transitions, CString!Fits, CString!IsPrefix, CString!Rest,
         Places, Transitions, Fits, IsPrefix, Rest
<1>3. \A p : CString!Reached(l, t, p) = Reached(l, t, p)
  BY <1>2 DEF CString!Reached, Reached
<1>4. \A p : CString!Matches(l, t, p) = Matches(l, t, p)
  BY <1>3 DEF CString!Matches, Matches
<1>5. \A q : CString!PositionAt(t, q) = PositionAt(t, q)
  BY DEF CString!PositionAt, CString!LineAt, CString!ColumnAt, CString!Leads, CString!Runes,
         PositionAt, LineAt, ColumnAt, Leads, Runes, CString!Cardinality, Cardinality, CString!IsFiniteSet, IsFiniteSet
<1>6. \A p : CString!HasMatch(l, t, p) = HasMatch(l, t, p) /\ CString!Longest(l, t, p) = Longest(l, t, p)
  BY <1>4 DEF CString!HasMatch, HasMatch, CString!Longest, Longest
<1>7. \A p, m : CString!LexemeOf(t, p, m) = LexemeOf(t, p, m)
  BY <1>5 DEF CString!LexemeOf, LexemeOf
<1>8. \A r, h : CString!Visible(l, r, h) = Visible(l, r, h)
  BY DEF CString!Visible, Visible
<1>9. \A q : CString!AdvancePosition(t, q) = AdvancePosition(t, q)
  BY DEF CString!AdvancePosition, CString!Advanced, CString!Leads, CString!Runes,
         AdvancePosition, Advanced, Leads, Runes
<1> QED  BY <1>1, <1>6, <1>7, <1>8, <1>9

\* The longest match ends in the text, after its start.
LEMMA LongestFacts ==
  ASSUME NEW l, LexerOK(l), NEW U, NEW t \in Seq(U), NEW p \in 0..Len(t), HasMatch(l, t, p)
  PROVE  /\ Longest(l, t, p) \in Matches(l, t, p)
         /\ Longest(l, t, p).end \in 0..Len(t) /\ p < Longest(l, t, p).end
<1> DEFINE M == Matches(l, t, p)
           Ends == {k \in Nat : \E m \in M : k = Len(t) - m.end}
<1>1. \A m \in M : m.end \in (p + 1)..Len(t)
  BY MatchFacts
<1>2. Len(t) \in Nat /\ p \in Nat
  BY LenProperties
<1>3. Ends # {}
  <2>1. PICK m \in M : TRUE
    BY DEF HasMatch
  <2>2. Len(t) - m.end \in Nat
    BY <1>1, <1>2, <2>1
  <2> QED  BY <2>1, <2>2
<1>4. PICK k \in Ends : \A j \in Ends : k <= j
  BY <1>3, LeastElement
<1>5. PICK m \in M : k = Len(t) - m.end
  BY <1>4
<1>6. \A o \in M : o.end <= m.end
  <2> TAKE o \in M
  <2>1. Len(t) - o.end \in Nat
    BY <1>1, <1>2
  <2>2. Len(t) - o.end \in Ends
    BY <2>1
  <2>3. k <= Len(t) - o.end
    BY <1>4, <2>2
  <2> QED  BY <1>1, <1>2, <1>5, <2>3
<1>7. Longest(l, t, p) \in M
  BY <1>6 DEF Longest
<1> QED  BY <1>1, <1>2, <1>7

\* From every offset on, the lexemes are the one there, if callers see it,
\* and those that follow it.
LEMMA LexemesFollow ==
  ASSUME NEW l, LexerOK(l), NEW U, NEW t \in Seq(U), NEW n, n = Len(t)
  PROVE  \A p \in 0..n :
           /\ LexemesFrom(l, t, n)[p] \in Seq(Produced(l, t))
           /\ ~HasMatch(l, t, p) => LexemesFrom(l, t, n)[p] = <<>>
           /\ HasMatch(l, t, p) =>
                LexemesFrom(l, t, n)[p] = Shown(l, t, p) \o LexemesFrom(l, t, n)[Longest(l, t, p).end]
<1> DEFINE R == Produced(l, t)
           more == {p \in 0..n : HasMatch(l, t, p)}
           part == [p \in 0..n |-> IF p \in more /\ Visible(l, Longest(l, t, p).rule, FALSE)
                                   THEN <<LexemeOf(t, p, Longest(l, t, p))>> ELSE <<>>]
           to == [p \in 0..n |-> IF p \in more THEN Longest(l, t, p).end ELSE 0]
<1>1. n \in Nat
  BY LenProperties
<1>2. \A p \in more : to[p] \in 0..n /\ p < to[p]
  BY LongestFacts
<1>3. to \in [0..n -> 0..n]
  BY <1>1, <1>2
<1>4. part \in [0..n -> Seq(R)]
  <2>1. \A p \in 0..n : <<LexemeOf(t, p, Longest(l, t, p))>> \in Seq(R)
    BY SingletonFacts DEF Produced
  <2>2. <<>> \in Seq(R)
    BY EmptySeq
  <2> QED  BY <2>1, <2>2
<1>5. \A f : [p \in 0..n |->
                IF ~CString!HasMatch(l, t, p) THEN <<>>
                ELSE (IF CString!Visible(l, CString!Longest(l, t, p).rule, FALSE)
                      THEN <<CString!LexemeOf(t, p, CString!Longest(l, t, p))>> ELSE <<>>)
                       \o f[CString!Longest(l, t, p).end]]
             = [p \in 0..n |-> IF p \in more THEN part[p] \o f[to[p]] ELSE <<>>]
  BY CStringMeans
<1> HIDE DEF part, to
<1>6. PICK g : Chains(g, n, more, part, to)
  <2> HIDE DEF more
  <2>1. more \in SUBSET (0..n)
    BY DEF more
  <2> HIDE DEF R
  <2> QED  BY <1>1, <1>2, <1>3, <1>4, <2>1, ListsExist
<1> DEFINE From == LexemesFrom(l, t, n)
<1>7. Chains(From, n, more, part, to)
  <2> HIDE DEF more
  <2> DEFINE Solves(f) ==
        f = [p \in 0..n |->
               IF ~CString!HasMatch(l, t, p) THEN <<>>
               ELSE (IF CString!Visible(l, CString!Longest(l, t, p).rule, FALSE)
                     THEN <<CString!LexemeOf(t, p, CString!Longest(l, t, p))>> ELSE <<>>)
                      \o f[CString!Longest(l, t, p).end]]
  <2>1. From = CHOOSE f : Solves(f)
    BY DEF LexemesFrom
  <2>2. \A f : Solves(f) <=> Chains(f, n, more, part, to)
    BY <1>5 DEF Chains
  <2> HIDE DEF Solves, From
  <2>3. Solves(g)
    BY <1>6, <2>2, Zenon
  <2>4. Solves(From)
    BY <2>1, <2>3
  <2> QED  BY <2>2, <2>4, Zenon
<1> HIDE DEF From
<1>8. From \in [0..n -> Seq(R)]
  <2> HIDE DEF more, R
  <2>1. more \in SUBSET (0..n)
    BY DEF more
  <2> QED  BY <1>1, <1>2, <1>3, <1>4, <1>7, <2>1, ListsTyped
<1>9. \A p \in 0..n : From[p] = IF p \in more THEN part[p] \o From[to[p]] ELSE <<>>
  BY <1>7 DEF Chains
<1>10. \A p \in more : part[p] = Shown(l, t, p) /\ to[p] = Longest(l, t, p).end
  BY DEF part, to, Shown
<1> QED  BY <1>8, <1>9, <1>10 DEF From

\* The length of a string is at most that of its text.
LEMMA StringLength ==
  ASSUME NEW U, NEW u \in Seq(U)
  PROVE  CString!strlen(u) \in 0..Len(u)
<1> DEFINE Ends(n) == (\A i \in 1..n : u[i] # Nul) /\ (n = Len(u) \/ u[n + 1] = Nul)
           Stops == {n \in 0..Len(u) : n = Len(u) \/ u[n + 1] = Nul}
<1>1. Len(u) \in Nat
  BY LenProperties
<1>2. Stops \in SUBSET Nat /\ Len(u) \in Stops
  BY <1>1
<1>3. PICK n \in Stops : \A k \in Stops : n <= k
  <2> HIDE DEF Stops
  <2> QED  BY <1>2, LeastElement
<1>4. \A i \in 1..n : u[i] # Nul
  <2> SUFFICES ASSUME NEW i \in 1..n, u[i] = Nul
               PROVE  FALSE
    OBVIOUS
  <2>1. i - 1 \in 0..Len(u) /\ (i - 1) + 1 = i /\ i - 1 < n /\ i - 1 \in Nat /\ n \in Nat
    BY <1>1
  <2>2. i - 1 \in Stops
    BY <2>1
  <2> QED  BY <1>3, <2>1, <2>2
<1>5. n \in 0..Len(u) /\ Ends(n)
  BY <1>4
<1>6. CString!strlen(u) = CHOOSE k \in 0..Len(u) : Ends(k)
  BY DEF CString!strlen
<1> HIDE DEF Ends
<1> QED  BY <1>5, <1>6

\* What is joined to a list leaves it a prefix.
LEMMA JoinPrefix ==
  ASSUME NEW S, NEW s \in Seq(S), NEW u \in Seq(S)
  PROVE  IsPrefix(s, s \o u)
<1> DEFINE j == s \o u
<1>1. j \in Seq(S) /\ Len(j) = Len(s) + Len(u) /\ \A i \in 1..Len(s) : j[i] = s[i]
  BY JoinFacts
<1> HIDE DEF j
<1>2. Len(s) <= Len(j)
  BY <1>1, LenProperties
<1>3. IsPrefix(s, j)
  BY <1>1, <1>2, PrefixUnits
<1> QED  BY <1>3 DEF j

\* The text that the C scanner sees.
LEMMA TokenText ==
  ASSUME TokenTables
  PROVE  /\ LexerOK(lexer) /\ CString!Text \in Seq(ToSet(text)) /\ Len(CString!Text) = length /\ length \in Nat
         /\ CString!Lexemes = LexemesFrom(lexer, CString!Text, length)[0]
<1>1. length \in Nat
  BY LenProperties DEF TokenTables
<1>2. CString!Text \in Seq(ToSet(text)) /\ Len(CString!Text) = length
  BY PrefixFacts DEF TokenTables, CString!Text
<1>3. CString!Lexemes = LexemesFrom(lexer, CString!Text, length)[0]
  BY DEF CString!Lexemes, LexemesFrom
<1> QED  BY <1>1, <1>2, <1>3 DEF TokenTables

\* Once the loop of lf_match_at has stopped, it knows the longest match.
LEMMA TokenDecides ==
  ASSUME TokenInv, match # CString!NotMatching, ~CString!CanAdvance
  PROVE  /\ match.bestRule \in Nat
         /\ match.bestRule > 0 =>
              /\ HasMatch(lexer, CString!Text, base)
              /\ Longest(lexer, CString!Text, base) = [end |-> match.bestEnd, rule |-> match.bestRule]
              /\ match.bestEnd \in 0..length /\ base < match.bestEnd
         /\ match.bestRule = 0 => ~HasMatch(lexer, CString!Text, base)
<1> DEFINE T == CString!Text  U == ToSet(text)
<1>1. LexerOK(lexer) /\ T \in Seq(U) /\ Len(T) = length /\ length \in Nat
  BY TokenText DEF TokenInv
<1>2. /\ match.at \in 0..length /\ match.stateID \in DOMAIN lexer.next
      /\ LoopAt(lexer, T, base, match.at, match.stateID, match.bestRule, match.bestEnd)
  BY DEF TokenInv, TokenMatch
<1>3. base \in 0..Len(T) /\ match.at \in 0..Len(T)
  BY <1>1, <1>2 DEF TokenInv, TokenCursor
<1>4. \A p : CString!Decode(T, p) = Decode(T, p)
  BY CStringMeans
<1>5. ~(match.at < length) \/ Decode(T, match.at).rune \notin DOMAIN lexer.next[match.stateID]
  BY <1>4 DEF CString!CanAdvance, CString!Decoded, CString!Transition
<1> HIDE DEF T, U
<1>6. \A rune \in DOMAIN lexer.next[match.stateID] : ~Fits(rune, T, match.at)
  <2>1. CASE ~(match.at < length)
    <3>1. match.at = Len(T)
      BY <1>1, <1>2, <2>1
    <3> SUFFICES ASSUME NEW rune \in DOMAIN lexer.next[match.stateID], Fits(rune, T, match.at)
                 PROVE  FALSE
      OBVIOUS
    <3>2. rune \in Runes
      BY <1>1, <1>2 DEF LexerOK
    <3> DEFINE k == Len(Spelling[rune])
    <3>3. k \in Nat /\ k >= 1
      BY <3>2, RuneFacts
    <3>4. match.at + k <= Len(T)
      BY <1>1, <1>3, <3>2, FitsUnits
    <3> HIDE DEF k
    <3> QED  BY <1>1, <3>1, <3>3, <3>4
  <2>2. CASE Decode(T, match.at).rune \notin DOMAIN lexer.next[match.stateID]
    BY <1>1, <1>2, <1>3, <2>2, DecodedDecides
  <2> QED  BY <1>5, <2>1, <2>2
<1>7. /\ match.bestRule > 0 =>
           /\ HasMatch(lexer, T, base)
           /\ Longest(lexer, T, base) = [end |-> match.bestEnd, rule |-> match.bestRule]
      /\ match.bestRule = 0 => ~HasMatch(lexer, T, base)
  BY <1>1, <1>2, <1>3, <1>6, LoopStops
<1>8. /\ match.bestRule \in Nat /\ match.bestEnd \in base..match.at
      /\ match.bestRule > 0 => match.bestEnd > base
  BY <1>1, <1>2, <1>3, LoopTypes
<1>9. match.bestEnd \in 0..length
  BY <1>1, <1>3, <1>8
<1> QED  BY <1>7, <1>8, <1>9 DEF T

\* lf_tokenize starts before the text, with nothing in its array.
LEMMA TokenStarts ==
  ASSUME InitCString
  PROVE  TokenInv /\ Is("c", "string")
<1>1. /\ lexer \in Lexers /\ text \in Texts \cup NulTexts /\ length = CString!strlen(text)
      /\ base = 0 /\ position = [line |-> 1, column |-> 1] /\ match = CString!NotMatching
      /\ items = <<>> /\ capacity = 0 /\ state = "idle" /\ heap = FALSE
  BY DEF InitCString, CString!Init
<1>2. TokenTables
  <2>1. text \in Seq(ToSet(text))
    BY <1>1, TextsAreSequences, NulTextsAreSequences
  <2> QED  BY <1>1, <2>1, LexersAreSound, StringLength DEF TokenTables
<1> DEFINE T == CString!Text  L == LexemesFrom(lexer, T, length)[0]
<1>3. LexerOK(lexer) /\ T \in Seq(ToSet(text)) /\ Len(T) = length /\ length \in Nat /\ CString!Lexemes = L
  BY <1>2, TokenText
<1>4. TokenCursor
  <2>1. PositionAt(T, 0) = [line |-> 1, column |-> 1]
    BY PositionTypes
  <2> QED  BY <1>1, <1>3, <2>1 DEF TokenCursor
<1>5. TokenArray
  BY <1>1, EmptySeq DEF TokenArray
<1>6. TokenOutput
  <2> HIDE DEF L
  <2>1. L \in Seq(Produced(lexer, T))
    <3> HIDE DEF T
    <3>1. 0 \in 0..length
      BY <1>3
    <3>2. \A p \in 0..length : LexemesFrom(lexer, T, length)[p] \in Seq(Produced(lexer, T))
      BY <1>3, LexemesFollow
    <3> QED  BY <3>1, <3>2 DEF L
  <2>2. L = <<>> \o L /\ IsPrefix(<<>>, <<>> \o L)
    BY <2>1, EmptySeq, ConcatEmptySeq, JoinPrefix
  <2> QED  BY <1>1, <1>3, <2>2 DEF TokenOutput, L
<1> QED  BY <1>1, <1>2, <1>4, <1>5, <1>6 DEF TokenInv, TokenMatch, InitCString

\* What is left after a lexeme, and the lexeme, are what was left before it.
LEMMA TokenGoesOn ==
  ASSUME TokenInv, HasMatch(lexer, CString!Text, base), NEW best, best = Longest(lexer, CString!Text, base),
         state # "failed"
  PROVE  LET From == LexemesFrom(lexer, CString!Text, length)
             e    == LexemeOf(CString!Text, base, best)
         IN  /\ ~Visible(lexer, best.rule, FALSE) => CString!Lexemes = items \o From[best.end]
             /\ Visible(lexer, best.rule, FALSE) =>
                  /\ Append(items, e) \in Seq(Produced(lexer, CString!Text))
                  /\ Len(Append(items, e)) = Len(items) + 1
                  /\ CString!Lexemes = Append(items, e) \o From[best.end]
                  /\ IsPrefix(Append(items, e), CString!Lexemes)
<1> DEFINE T == CString!Text  From == LexemesFrom(lexer, T, length)  R == Produced(lexer, T)
           e == LexemeOf(T, base, best)
<1>1. /\ LexerOK(lexer) /\ T \in Seq(ToSet(text)) /\ Len(T) = length /\ length \in Nat
      /\ CString!Lexemes = items \o From[base] /\ items \in Seq(R) /\ base \in 0..length
  BY TokenText DEF TokenInv, TokenOutput, TokenArray, TokenCursor
<1>2. base \in 0..Len(T) /\ best.end \in 0..length
  BY <1>1, LongestFacts
<1>3. /\ From[base] = (IF Visible(lexer, best.rule, FALSE) THEN <<e>> ELSE <<>>) \o From[best.end]
      /\ From[best.end] \in Seq(R)
  <2> HIDE DEF T
  <2>1. \A p \in 0..length : LexemesFrom(lexer, T, length)[p] \in Seq(Produced(lexer, T))
    BY <1>1, LexemesFollow
  <2>2. \A p \in 0..length : HasMatch(lexer, T, p) =>
           LexemesFrom(lexer, T, length)[p]
             = Shown(lexer, T, p) \o LexemesFrom(lexer, T, length)[Longest(lexer, T, p).end]
    BY <1>1, LexemesFollow
  <2>3. HasMatch(lexer, T, base) /\ base \in 0..length
    BY <1>1 DEF T
  <2>4. best = Longest(lexer, T, base)
    BY DEF T
  <2> QED  BY <1>2, <2>1, <2>2, <2>3, <2>4 DEF Shown
<1>4. e \in R
  BY <1>2 DEF Produced
<1> DEFINE rest == From[best.end]
<1> HIDE DEF T, From, R, e, rest
<1>5. ASSUME ~Visible(lexer, best.rule, FALSE)
      PROVE  CString!Lexemes = items \o rest
  <2>1. <<>> \o rest = rest
    BY <1>3, ConcatEmptySeq DEF rest
  <2> QED  BY <1>1, <1>3, <1>5, <2>1 DEF rest
<1>6. ASSUME Visible(lexer, best.rule, FALSE)
      PROVE  /\ Append(items, e) \in Seq(R) /\ Len(Append(items, e)) = Len(items) + 1
             /\ CString!Lexemes = Append(items, e) \o rest
             /\ IsPrefix(Append(items, e), CString!Lexemes)
  <2>1. Append(items, e) \in Seq(R) /\ Len(Append(items, e)) = Len(items) + 1
    BY <1>1, <1>4, PushFacts
  <2>2. <<e>> \in Seq(R) /\ rest \in Seq(R)
    BY <1>3, <1>4, SingletonFacts DEF rest
  <2>3. (items \o <<e>>) \o rest = items \o (<<e>> \o rest)
    BY <1>1, <2>2, ConcatAssociative
  <2>4. items \o <<e>> = Append(items, e)
    BY <1>1, <1>4, AppendIsConcat
  <2>5. CString!Lexemes = Append(items, e) \o rest
    BY <1>1, <1>3, <1>6, <2>3, <2>4 DEF rest
  <2>6. IsPrefix(Append(items, e), Append(items, e) \o rest)
    BY <2>1, <2>2, JoinPrefix
  <2> QED  BY <2>1, <2>5, <2>6
<1> QED  BY <1>5, <1>6 DEF T, From, R, e, rest

\* Every step of lf_tokenize keeps its invariant.
LEMMA TokenSteps ==
  ASSUME TokenInv, CString!Next
  PROVE  TokenInv'
<1> DEFINE T == CString!Text  U == ToSet(text)  From == LexemesFrom(lexer, T, length)  R == Produced(lexer, T)
<1>1. /\ LexerOK(lexer) /\ T \in Seq(U) /\ Len(T) = length /\ length \in Nat /\ base \in 0..length
      /\ position = PositionAt(T, base) /\ TokenTables
  BY TokenText DEF TokenInv, TokenCursor
<1>2. /\ UNCHANGED <<lexer, text, length>> /\ T' = T /\ CString!Lexemes' = CString!Lexemes
      /\ From' = From /\ R' = R
  <2>1. UNCHANGED <<lexer, text, length>>
    BY DEF CString!Next, CString!Step, CString!Start, CString!StartMatch, CString!Advance, CString!SkipLexeme,
           CString!AppendLexeme, CString!ReturnError, CString!ReturnItems, CString!FreeLexemes, CString!constant
  <2>2. T' = T
    BY <2>1 DEF CString!Text
  <2>3. From' = From /\ R' = R
    BY <2>1, <2>2
  <2>4. TokenTables'
    BY <1>1, <2>1 DEF TokenTables
  <2>5. CString!Lexemes' = LexemesFrom(lexer', CString!Text', length')[0]
    BY DEF CString!Lexemes, LexemesFrom
  <2>6. CString!Lexemes = LexemesFrom(lexer, CString!Text, length)[0]
    BY <1>1, TokenText
  <2> QED  BY <2>1, <2>2, <2>3, <2>5, <2>6
<1>3. ASSUME UNCHANGED <<base, position>>
      PROVE  TokenTables' /\ TokenCursor'
  BY <1>1, <1>2, <1>3 DEF TokenTables, TokenCursor
<1>4. ASSUME match' = CString!NotMatching
      PROVE  TokenMatch'
  BY <1>4 DEF TokenMatch, CString!NotMatching
<1>5. match.on => match # CString!NotMatching
  BY DEF CString!NotMatching
<1>6. ASSUME UNCHANGED <<items, capacity>>, heap' \in BOOLEAN, state' \in {"idle", "running", "returned", "failed"},
             heap' => heap, state' = "running" => heap' /\ state = "running",
             state' \in {"idle", "failed"} => ~heap', state' = "idle" => state = "idle"
      PROVE  TokenArray'
  <2>1. TokenArray
    BY DEF TokenInv
  <2> HIDE DEF R
  <2>2. items \in Seq(R)
    BY <2>1 DEF TokenArray, R
  <2>3. items' \in Seq(R')
    BY <1>2, <1>6, <2>2
  <2> QED  BY <1>6, <2>1, <2>3 DEF TokenArray, R
<1>7. ASSUME UNCHANGED <<items, base>>, state' # "failed" => state # "failed", state' = "returned" => base = length
      PROVE  TokenOutput'
  <2> HIDE DEF From
  <2>1. state # "failed" => CString!Lexemes = items \o From[base]
    BY DEF TokenInv, TokenOutput, From
  <2>2. state' # "failed" => CString!Lexemes' = items' \o From'[base']
    BY <1>2, <1>7, <2>1
  <2>3. IsPrefix(items', CString!Lexemes')
    BY <1>2, <1>7 DEF TokenInv, TokenOutput
  <2> QED  BY <1>2, <1>7, <2>2, <2>3 DEF TokenOutput, From
<1>8. CASE CString!Start
  <2>1. /\ state = "idle" /\ UNCHANGED <<base, position, match, items>> /\ TokenArray
        /\ \/ state' = "failed" /\ heap' = FALSE /\ capacity' = capacity
           \/ state' = "running" /\ heap' = TRUE /\ capacity' = FirstCapacity
    BY <1>8 DEF CString!Start, CString!Fail, TokenInv
  <2>2. match = CString!NotMatching
    BY <2>1 DEF TokenInv, TokenMatch
  <2>3. TokenArray'
    <3>1. CASE state' = "failed" /\ heap' = FALSE /\ capacity' = capacity
      BY <1>6, <2>1, <3>1
    <3>2. CASE state' = "running" /\ heap' = TRUE /\ capacity' = FirstCapacity
      <4>1. items = <<>> /\ Len(items) = 0 /\ items' = items
        BY <2>1, EmptySeq DEF TokenArray
      <4>2. items' \in Seq(Produced(lexer, CString!Text)')
        BY <4>1, EmptySeq
      <4>3. capacity' \in Nat /\ capacity' >= 1
        BY <3>2, FirstCapacityIsPositive
      <4> QED  BY <3>2, <4>1, <4>2, <4>3 DEF TokenArray
    <3> QED  BY <2>1, <3>1, <3>2
  <2>4. TokenOutput'
    BY <1>7, <2>1
  <2> QED  BY <1>3, <1>4, <2>1, <2>2, <2>3, <2>4 DEF TokenInv
<1>9. CASE CString!StartMatch
  <2>1. /\ state = "running" /\ base < length /\ UNCHANGED <<base, position, items, capacity, state, heap>>
        /\ match' = [on |-> TRUE, stateID |-> 0, at |-> base, bestRule |-> 0, bestEnd |-> base]
    BY <1>9 DEF CString!StartMatch
  <2>2. LoopAt(lexer, T, base, base, 0, 0, base)
    <3> HIDE DEF T
    <3> QED  BY <1>1, LoopStarts
  <2>3. TokenMatch'
    <3>1. 0 \in DOMAIN lexer.next /\ base \in Nat
      BY <1>1 DEF LexerOK
    <3>2. match' \in [on : {TRUE}, stateID : DOMAIN lexer'.next, at : 0..length', bestRule : Nat, bestEnd : Nat]
      BY <1>1, <1>2, <2>1, <3>1
    <3>3. /\ match'.at = base' /\ match'.stateID = 0 /\ match'.bestRule = 0 /\ match'.bestEnd = base'
      BY <2>1
    <3> QED  BY <1>2, <2>1, <2>2, <3>2, <3>3 DEF TokenMatch
  <2>4. TokenArray' /\ TokenOutput'
    BY <1>6, <1>7, <2>1 DEF TokenInv, TokenArray
  <2> QED  BY <1>3, <2>1, <2>3, <2>4 DEF TokenInv
<1>10. CASE CString!Advance
  <2> DEFINE rune == Decode(T, match.at).rune  q == match.at + Decode(T, match.at).size
             to == lexer.next[match.stateID][rune]  rule == lexer.accept[to]
  <2>1. \A p : CString!Decode(T, p) = Decode(T, p)
    BY CStringMeans
  <2>2. /\ state = "running" /\ match.on /\ match.at < length /\ rune \in DOMAIN lexer.next[match.stateID]
        /\ UNCHANGED <<base, position, items, capacity, state, heap>>
        /\ match' = [match EXCEPT !.stateID = to, !.at = q,
                                  !.bestRule = IF rule > 0 THEN rule ELSE @,
                                  !.bestEnd = IF rule > 0 THEN q ELSE @]
    <3>1. CString!Decoded = Decode(T, match.at)
      BY <2>1 DEF CString!Decoded
    <3> HIDE DEF T
    <3>2. /\ state = "running" /\ match.on /\ match.at < length /\ CString!Decoded.rune \in DOMAIN lexer.next[match.stateID]
          /\ UNCHANGED <<base, position, items, capacity, state, heap>>
      BY <1>10 DEF CString!Advance, CString!CanAdvance, CString!Transition
    <3>3. LET next == lexer.next[match.stateID][CString!Decoded.rune]
              at   == match.at + CString!Decoded.size
              accepted == lexer.accept[next]
          IN  match' = [match EXCEPT !.stateID = next, !.at = at,
                                     !.bestRule = IF accepted > 0 THEN accepted ELSE @,
                                     !.bestEnd = IF accepted > 0 THEN at ELSE @]
      BY <1>10 DEF CString!Advance, CString!Transition
    <3> QED  BY <3>1, <3>2, <3>3
  <2>3. /\ match \in [on : {TRUE}, stateID : DOMAIN lexer.next, at : 0..length, bestRule : Nat, bestEnd : Nat]
        /\ LoopAt(lexer, T, base, match.at, match.stateID, match.bestRule, match.bestEnd)
    BY <1>5, <2>2 DEF TokenInv, TokenMatch
  <2> HIDE DEF T, to, rule, rune, q
  <2>4. /\ Fits(rune, T, match.at) /\ q = match.at + Len(Spelling[rune]) /\ rune \in Runes
        /\ q \in 0..length /\ q \in Nat
    <3>1. match.at \in 0..Len(T) /\ match.stateID \in DOMAIN lexer.next
      BY <1>1, <2>3
    <3>2. /\ rune \in Runes /\ Fits(rune, T, match.at) /\ Decode(T, match.at).size = Len(Spelling[rune])
      BY <1>1, <2>2, <3>1, DecodedDecides DEF rune
    <3>3. match.at + Len(Spelling[rune]) <= Len(T)
      BY <1>1, <3>1, <3>2, FitsUnits
    <3>4. Len(Spelling[rune]) \in Nat
      BY <3>2, RuneFacts
    <3>5. q = match.at + Len(Spelling[rune])
      BY <3>2 DEF q
    <3> QED  BY <1>1, <3>1, <3>2, <3>3, <3>4, <3>5
  <2>5. LoopAt(lexer, T, base, q, to, IF rule > 0 THEN rule ELSE match.bestRule,
                                      IF rule > 0 THEN q ELSE match.bestEnd)
    <3>1. base \in 0..Len(T) /\ to = lexer.next[match.stateID][rune] /\ rule = lexer.accept[to]
      BY <1>1 DEF to, rule
    <3>2. LexerOK(lexer) /\ T \in Seq(ToSet(text))
      BY <1>1
    <3>3. rune \in DOMAIN lexer.next[match.stateID] /\ Fits(rune, T, match.at) /\ q = match.at + Len(Spelling[rune])
      BY <2>2, <2>4
    <3>4. LoopAt(lexer, T, base, match.at, match.stateID, match.bestRule, match.bestEnd)
      BY <2>3
    <3> QED  BY <3>1, <3>2, <3>3, <3>4, LoopGoesOn, SMTT(30)
  <2>6. to \in DOMAIN lexer.next /\ rule \in Nat
    <3>1. to \in DOMAIN lexer.next
      BY <1>1, <2>2, <2>3 DEF LexerOK, to
    <3> QED  BY <1>1, <3>1 DEF LexerOK, rule
  <2>7. TokenMatch'
    <3>1. /\ match' \in [on : {TRUE}, stateID : DOMAIN lexer.next, at : 0..length, bestRule : Nat, bestEnd : Nat]
          /\ match'.at = q /\ match'.stateID = to
          /\ match'.bestRule = (IF rule > 0 THEN rule ELSE match.bestRule)
          /\ match'.bestEnd = (IF rule > 0 THEN q ELSE match.bestEnd)
      BY <2>2, <2>3, <2>4, <2>6
    <3> QED  BY <1>2, <2>2, <2>5, <3>1 DEF TokenMatch, T
  <2>8. TokenArray' /\ TokenOutput'
    BY <1>6, <1>7, <2>2 DEF TokenInv, TokenArray
  <2> QED  BY <1>3, <2>2, <2>7, <2>8 DEF TokenInv
<1> DEFINE best == [end |-> match.bestEnd, rule |-> match.bestRule]
<1>11. ASSUME CString!Matched
       PROVE  /\ HasMatch(lexer, T, base) /\ Longest(lexer, T, base) = best
              /\ match.bestEnd \in 0..length /\ base < match.bestEnd /\ state = "running"
  BY <1>5, <1>11, TokenDecides DEF CString!Matched
<1>12. ASSUME CString!Matched, CString!Consume
       PROVE  TokenTables' /\ TokenCursor' /\ TokenMatch' /\ base' = best.end
  <2>1. /\ base' = match.bestEnd /\ match' = CString!NotMatching
        /\ position' = AdvancePosition(SubSeq(T, base + 1, match.bestEnd), position)
    <3>1. \A u, q : CString!AdvancePosition(u, q) = AdvancePosition(u, q)
      BY CStringMeans
    <3> QED  BY <1>12, <3>1 DEF CString!Consume
  <2>2. base \in 0..Len(T) /\ match.bestEnd \in base..Len(T)
    BY <1>1, <1>11, <1>12
  <2> HIDE DEF T
  <2>3. AdvancePosition(SubSeq(T, base + 1, match.bestEnd), PositionAt(T, base)) = PositionAt(T, match.bestEnd)
    BY <1>1, <2>2, PositionAdvances
  <2> QED  BY <1>1, <1>2, <1>4, <1>11, <1>12, <2>1, <2>3 DEF TokenTables, TokenCursor, T
<1>13. CASE CString!SkipLexeme
  <2>1. /\ CString!Matched /\ CString!Consume /\ ~Visible(lexer, best.rule, FALSE)
        /\ UNCHANGED <<items, capacity, state, heap>>
    BY <1>13, CStringMeans DEF CString!SkipLexeme
  <2>2. TokenArray'
    BY <1>6, <1>11, <2>1 DEF TokenInv, TokenArray
  <2>3. TokenOutput'
    <3>1. CString!Lexemes = items \o From[best.end] /\ base' = best.end /\ state = "running"
      BY <1>11, <1>12, <2>1, TokenGoesOn
    <3> HIDE DEF From, best
    <3>2. CString!Lexemes' = items' \o From'[base']
      BY <1>2, <2>1, <3>1
    <3>3. IsPrefix(items', CString!Lexemes')
      BY <1>2, <2>1 DEF TokenInv, TokenOutput
    <3> QED  BY <2>1, <3>1, <3>2, <3>3 DEF TokenOutput, From
  <2> QED  BY <1>12, <2>1, <2>2, <2>3 DEF TokenInv
<1>14. CASE CString!AppendLexeme
  <2> DEFINE e == LexemeOf(T, base, best)
             lexeme == [kind |-> "lexeme", rule |-> match.bestRule, start |-> base,
                        end |-> match.bestEnd, text |-> SubSeq(T, base + 1, match.bestEnd),
                        startAt |-> position, endAt |-> position']
  <2>1. /\ CString!Matched /\ CString!Consume /\ Visible(lexer, best.rule, FALSE)
        /\ \/ Len(items) = capacity /\ CString!Fail /\ capacity' = capacity * 2 /\ items' = items
           \/ /\ capacity' = IF Len(items) = capacity THEN capacity * 2 ELSE capacity
              /\ items' = Append(items, lexeme)
              /\ UNCHANGED <<state, heap>>
    BY <1>14, CStringMeans DEF CString!AppendLexeme
  <2>2. lexeme = e
    <3>1. position' = PositionAt(T, match.bestEnd)
      BY <1>2, <1>12, <2>1 DEF TokenCursor
    <3> QED  BY <1>1, <3>1 DEF LexemeOf
  <2>3. TokenArray /\ state = "running" /\ items \in Seq(R) /\ capacity \in Nat /\ Len(items) <= capacity
        /\ capacity >= 1 /\ heap /\ Len(items) \in Nat
    BY <1>11, <2>1, LenProperties DEF TokenInv, TokenArray
  <2>4. /\ Append(items, e) \in Seq(R) /\ Len(Append(items, e)) = Len(items) + 1
        /\ CString!Lexemes = Append(items, e) \o From[best.end]
        /\ IsPrefix(Append(items, e), CString!Lexemes) /\ base' = best.end
    BY <1>11, <1>12, <2>1, <2>3, TokenGoesOn
  <2> HIDE DEF lexeme, e, R, From, best
  <2>5. CASE Len(items) = capacity /\ CString!Fail /\ capacity' = capacity * 2 /\ items' = items
    <3>1. state' = "failed" /\ heap' = FALSE /\ capacity' \in Nat /\ items' \in Seq(R')
      BY <1>2, <2>3, <2>5 DEF CString!Fail
    <3>2. TokenArray'
      BY <3>1 DEF TokenArray, R
    <3>3. TokenOutput'
      BY <1>2, <2>5, <3>1 DEF TokenInv, TokenOutput
    <3> QED  BY <1>12, <2>1, <3>2, <3>3 DEF TokenInv
  <2>6. CASE /\ capacity' = IF Len(items) = capacity THEN capacity * 2 ELSE capacity
             /\ items' = Append(items, lexeme)
             /\ UNCHANGED <<state, heap>>
    <3>1. items' = Append(items, e) /\ items' \in Seq(R')
      BY <1>2, <2>2, <2>4, <2>6
    <3>2. capacity' \in Nat /\ capacity' >= 1 /\ Len(items) + 1 <= capacity'
      BY <2>3, <2>6
    <3>3. TokenArray'
      BY <2>3, <2>4, <2>6, <3>1, <3>2 DEF TokenArray, R
    <3>4. CString!Lexemes' = items' \o From'[base'] /\ IsPrefix(items', CString!Lexemes')
      BY <1>2, <2>4, <3>1
    <3>5. TokenOutput'
      BY <2>3, <2>6, <3>4 DEF TokenOutput, From
    <3> QED  BY <1>12, <2>1, <3>3, <3>5 DEF TokenInv
  <2> QED  BY <2>1, <2>5, <2>6
<1>15. CASE CString!ReturnError
  <2>1. /\ state' = "failed" /\ heap' = FALSE /\ match' = CString!NotMatching
        /\ UNCHANGED <<base, position, items, capacity>>
    BY <1>15 DEF CString!ReturnError, CString!Fail
  <2> QED  BY <1>3, <1>4, <1>6, <1>7, <2>1 DEF TokenInv
<1>16. CASE CString!ReturnItems
  <2>1. /\ state = "running" /\ ~match.on /\ base = length /\ state' = "returned"
        /\ UNCHANGED <<base, position, match, items, capacity, heap>>
    BY <1>16 DEF CString!ReturnItems
  <2>2. match' = CString!NotMatching
    BY <2>1 DEF TokenInv, TokenMatch
  <2>3. TokenArray'
    BY <1>6, <2>1 DEF TokenInv, TokenArray
  <2> QED  BY <1>3, <1>4, <1>7, <2>1, <2>2, <2>3 DEF TokenInv
<1>17. CASE CString!FreeLexemes
  <2>1. /\ state = "returned" /\ heap' = FALSE
        /\ UNCHANGED <<base, position, match, items, capacity, state>>
    BY <1>17 DEF CString!FreeLexemes
  <2>2. match' = CString!NotMatching
    BY <2>1 DEF TokenInv, TokenMatch
  <2>3. base = length
    BY <2>1 DEF TokenInv, TokenOutput
  <2> QED  BY <1>3, <1>4, <1>6, <1>7, <2>1, <2>2, <2>3 DEF TokenInv
<1> QED  BY <1>8, <1>9, <1>10, <1>13, <1>14, <1>15, <1>16, <1>17 DEF CString!Next, CString!Step

\* What the array holds, and when.
LEMMA TokensAreWhole ==
  ASSUME TokenInv
  PROVE  CString!OutputIsTheStream /\ CString!ArraySound
<1> DEFINE T == CString!Text
<1>1. LexerOK(lexer) /\ T \in Seq(ToSet(text)) /\ Len(T) = length /\ length \in Nat
  BY TokenText DEF TokenInv
<1>2. ASSUME state = "returned"
      PROVE  items = CString!Lexemes /\ base = length
  <2>1. /\ CString!Lexemes = items \o LexemesFrom(lexer, T, length)[length] /\ base = length
        /\ items \in Seq(Produced(lexer, T))
    BY <1>2 DEF TokenInv, TokenOutput, TokenArray
  <2> HIDE DEF T
  <2>2. length \in 0..Len(T) /\ length \in 0..length
    BY <1>1
  <2>3. ~HasMatch(lexer, T, length)
    <3> SUFFICES ASSUME HasMatch(lexer, T, length)
                 PROVE  FALSE
      OBVIOUS
    <3>1. Longest(lexer, T, length).end \in 0..Len(T) /\ length < Longest(lexer, T, length).end
      BY <1>1, <2>2, LongestFacts
    <3> QED  BY <1>1, <3>1
  <2>4. \A p \in 0..length : ~HasMatch(lexer, T, p) => LexemesFrom(lexer, T, length)[p] = <<>>
    BY <1>1, LexemesFollow
  <2>5. LexemesFrom(lexer, T, length)[length] = <<>>
    BY <2>2, <2>3, <2>4
  <2> QED  BY <2>1, <2>5, ConcatEmptySeq
<1>3. IsPrefix(items, CString!Lexemes)
  BY DEF TokenInv, TokenOutput
<1>4. CString!IsPrefix(items, CString!Lexemes)
  BY <1>3 DEF CString!IsPrefix, IsPrefix
<1> QED  BY <1>2, <1>4 DEF CString!OutputIsTheStream, CString!ArraySound, TokenInv, TokenArray

------------------------------------------------------------------------------
(* The memory of the C scanner over a reader. *)

BufferBlock == [block |-> "buffer"]
OwnedBlock  == [block |-> "owned"]
TextsOf(list) == {list[i] : i \in DOMAIN list}

Blocks == TextsOf(owned) \cup (IF capacity > 0 THEN {BufferBlock} ELSE {})
                        \cup (IF ownedCapacity > 0 THEN {OwnedBlock} ELSE {})

(* The texts of the lexemes that calls returned are retained. *)
TextsRetained ==
  \A i \in DOMAIN log : IsLexeme(i) => CStream!TextAt(log[i].result.start) \in TextsOf(owned)

MemoryInv ==
  /\ capacity \in Nat /\ ownedCapacity \in Nat /\ IsList(owned)
  /\ Len(buffer) <= capacity /\ Len(owned) <= ownedCapacity
  /\ heap = Blocks
  /\ ~freed => TextsRetained

\* The invariant is what the properties say.
LEMMA MemoryIsSound ==
  ASSUME MemoryInv
  PROVE  CStream!BlocksSound /\ CStream!TextsStayAlive
<1>1. CStream!BlocksSound
  BY DEF MemoryInv, Blocks, TextsOf, BufferBlock, OwnedBlock, CStream!BlocksSound
<1>2. CStream!TextsStayAlive
  BY DEF MemoryInv, Blocks, TextsRetained, IsLexeme, CStream!TextsStayAlive
<1> QED  BY <1>1, <1>2

\* The buffer never shrinks, and is known.
LEMMA BuffersGrow ==
  ASSUME MemoryInv, ~freed, IsLog, UNCHANGED <<owned, ownedCapacity, freed>>,
         capacity' \in Nat, Len(buffer') <= capacity',
         (capacity' = capacity /\ heap' = heap) \/ (capacity' > 0 /\ heap' = heap \cup {BufferBlock}),
         \/ log' = log
         \/ \E entry : entry.result.kind # "lexeme" /\ log' = Append(log, entry)
  PROVE  MemoryInv'
<1>1. heap' = Blocks'
  BY DEF MemoryInv, Blocks, BufferBlock, OwnedBlock, TextsOf
<1>2. TextsRetained'
  <2>1. TextsRetained
    BY DEF MemoryInv
  <2>2. CASE log' = log
    BY <2>1, <2>2 DEF TextsRetained, IsLexeme, TextsOf, CStream!TextAt
  <2>3. ASSUME NEW entry, entry.result.kind # "lexeme", log' = Append(log, entry)
        PROVE  TextsRetained'
    <3>1. /\ Len(log) \in Nat /\ DOMAIN log = 1..Len(log) /\ DOMAIN log' = 1..(Len(log) + 1)
          /\ \A i \in 1..Len(log) : log'[i] = log[i]
          /\ log'[Len(log) + 1] = entry
      BY <2>3, LogGrows
    <3>2. ASSUME NEW i \in DOMAIN log', log'[i].result.kind = "lexeme"
          PROVE  i \in DOMAIN log /\ log'[i] = log[i]
      <4>1. i # Len(log) + 1
        BY <2>3, <3>1, <3>2
      <4> QED  BY <3>1, <3>2, <4>1
    <3>3. owned' = owned
      OBVIOUS
    <3> QED  BY <2>1, <3>2, <3>3 DEF TextsRetained, IsLexeme, TextsOf, CStream!TextAt
  <2> QED  BY <2>2, <2>3
<1> QED  BY <1>1, <1>2 DEF MemoryInv

\* A buffer that a chunk fits in.
LEMMA ChunkFits ==
  ASSUME MemoryInv, ChunkInv, CStream!EnsureCapacity
  PROVE  /\ capacity' \in Nat /\ capacity' > 0 /\ Len(buffer) + readBufferSize <= capacity'
         /\ heap' = heap \cup {BufferBlock}
<1>1. Len(buffer) \in Nat /\ readBufferSize \in Nat /\ readBufferSize >= 1 /\ capacity \in Nat
  BY LenProperties, OptionsArePositive DEF ChunkInv, WindowOK, MemoryInv
<1>2. CStream!Needed = Len(buffer) + readBufferSize
  BY DEF CStream!Needed
<1>3. CASE capacity >= CStream!Needed
  <2>1. UNCHANGED <<capacity, heap>>
    BY <1>3 DEF CStream!EnsureCapacity
  <2>2. capacity > 0
    BY <1>1, <1>2, <1>3
  <2>3. BufferBlock \in heap
    BY <2>2 DEF MemoryInv, Blocks
  <2> QED  BY <1>1, <1>2, <1>3, <2>1, <2>2, <2>3
<1>4. CASE ~(capacity >= CStream!Needed)
  <2>1. capacity' \in CStream!Doubled /\ heap' = heap \cup {BufferBlock}
    BY <1>4 DEF CStream!EnsureCapacity, BufferBlock
  <2>2. capacity' \in CStream!Needed .. 2 * CStream!Needed
    BY <2>1 DEF CStream!Doubled
  <2> QED  BY <1>1, <1>2, <2>1, <2>2
<1> QED  BY <1>3, <1>4

\* A lexeme that is consumed leaves the buffer shorter.
LEMMA ConsumedFits ==
  ASSUME ChunkInv, match # NotMatching, Consume
  PROVE  Len(buffer') <= Len(buffer) /\ Len(buffer') \in Nat
<1>1. WindowOK' /\ WindowOK
  BY ConsumeFacts DEF ChunkInv
<1>2. match.bestEnd \in Nat /\ base \in Nat /\ Len(buffer) \in Nat
  BY MatchTypes
<1>3. base' = base + match.bestEnd /\ unread' = unread /\ text' = text
  BY DEF Consume, source
<1>4. /\ Len(buffer') \in Nat /\ Len(unread) \in Nat /\ Len(text) \in Nat
      /\ base' + Len(buffer') + Len(unread) = Len(text)
      /\ base + Len(buffer) + Len(unread) = Len(text)
  <2>1. buffer' \in Seq(ToSet(text)) /\ unread \in Seq(ToSet(text)) /\ text \in Seq(ToSet(text))
    BY <1>1, <1>3 DEF WindowOK, ChunkInv, TablesOK
  <2> QED  BY <1>1, <1>3, <2>1, LenProperties DEF WindowOK
<1> QED  BY <1>2, <1>3, <1>4

\* Every step of the C scanner keeps the invariant of its memory.
LEMMA MemoryKept ==
  ASSUME ChunkInv, MemoryInv, Is("c", "reader"), CStream!Next, ~freed
  PROVE  MemoryInv'
<1> USE DEF CStream!memory, CStream!source, CStream!cursor
<1>1. IsLog /\ Len(buffer) \in Nat /\ capacity \in Nat /\ Len(buffer) <= capacity
  BY LenProperties DEF ChunkInv, CursorOK, WindowOK, MemoryInv
<1>2. ASSUME UNCHANGED <<buffer, CStream!memory>>,
             \/ log' = log
             \/ \E result : result.kind # "lexeme" /\ CStream!Return(result)
      PROVE  MemoryInv'
  <2>1. \/ log' = log
        \/ \E entry : entry.result.kind # "lexeme" /\ log' = Append(log, entry)
    <3>1. ASSUME NEW result, result.kind # "lexeme", CStream!Return(result)
          PROVE  \E entry : entry.result.kind # "lexeme" /\ log' = Append(log, entry)
      <4> DEFINE entry == [caller |-> mu, result |-> result]
      <4>1. log' = Append(log, entry) /\ entry.result = result
        BY <3>1 DEF CStream!Return
      <4> QED  BY <3>1, <4>1
    <3> QED  BY <1>2, <3>1
  <2> QED  BY <1>1, <1>2, <2>1, BuffersGrow
<1>3. \A cause : CStream!Interrupted(cause).kind # "lexeme"
  BY DEF CStream!Interrupted
<1>4. ASSUME CStream!EnsureCapacity, UNCHANGED <<owned, ownedCapacity, freed>>,
             Len(buffer') <= Len(buffer) + readBufferSize, Len(buffer') \in Nat,
             log' = log \/ \E cause : CStream!Return(CStream!Interrupted(cause))
      PROVE  MemoryInv'
  <2>1. /\ capacity' \in Nat /\ capacity' > 0 /\ Len(buffer) + readBufferSize <= capacity'
        /\ heap' = heap \cup {BufferBlock}
    BY <1>4, ChunkFits
  <2>2. Len(buffer') <= capacity'
    BY <1>1, <1>4, <2>1, OptionsArePositive
  <2>3. \/ log' = log
        \/ \E entry : entry.result.kind # "lexeme" /\ log' = Append(log, entry)
    <3>1. ASSUME NEW cause, CStream!Return(CStream!Interrupted(cause))
          PROVE  \E entry : entry.result.kind # "lexeme" /\ log' = Append(log, entry)
      <4> DEFINE entry == [caller |-> mu, result |-> CStream!Interrupted(cause)]
      <4>1. log' = Append(log, entry) /\ entry.result.kind # "lexeme"
        BY <1>3, <3>1 DEF CStream!Return
      <4> QED  BY <4>1
    <3> QED  BY <1>4, <3>1
  <2> QED  BY <1>1, <1>4, <2>1, <2>2, <2>3, BuffersGrow
<1>5. ASSUME NEW cause, CStream!FailWith(cause)
      PROVE  UNCHANGED buffer /\ CStream!Return(CStream!Interrupted(cause))
  BY <1>5 DEF CStream!FailWith
<1>6. CASE CStream!GrowthFails
  BY <1>2, <1>3, <1>5, <1>6 DEF CStream!GrowthFails
<1>7. CASE CStream!CallbackFails
  BY <1>1, <1>4, <1>5, <1>7, OptionsArePositive DEF CStream!CallbackFails
<1>8. ASSUME NEW n \in 0..readBufferSize, CStream!ReadChunk(n)
      PROVE  MemoryInv'
  <2>1. Receive(n) /\ n \in Nat
    BY <1>8, CStreamMeans, OptionsArePositive DEF CStream!ReadChunk, CStream!Receive, Receive, CStream!Min, Min
  <2>2. Len(buffer') = Len(buffer) + n
    BY <2>1, ReceiveFacts DEF ChunkInv
  <2>3. CStream!EnsureCapacity /\ UNCHANGED <<owned, ownedCapacity, freed>>
    BY <1>8 DEF CStream!ReadChunk
  <2>4. log' = log \/ \E cause : CStream!Return(CStream!Interrupted(cause))
    BY <1>8 DEF CStream!ReadChunk, CStream!KeepCalling
  <2> QED  BY <1>1, <1>4, <2>1, <2>2, <2>3, <2>4, OptionsArePositive
<1>9. CASE CStream!ReadMore
  BY <1>6, <1>7, <1>8, <1>9 DEF CStream!ReadMore
<1>10. CASE CStream!Match
  BY <1>2, <1>10 DEF CStream!Match, CStream!Advance
<1>11. ASSUME CStream!Matched(CStream!Cut)
       PROVE  match # NotMatching
  BY <1>11 DEF CStream!Matched, CStream!Decided, CStream!AtBufferEnd, CStream!CanDecode, CStream!InBuffer, NotMatching
<1>12. ASSUME CStream!Consume
       PROVE  Consume
  BY <1>12, CStreamMeans DEF CStream!Consume, Consume, CStream!Text, Text, source
<1>13. CASE CStream!ReturnLexeme(CStream!Cut) /\ CStream!RetainText
  <2>1. Len(buffer') <= Len(buffer) /\ Len(buffer') \in Nat
    BY <1>11, <1>12, <1>13, ConsumedFits DEF CStream!ReturnLexeme
  <2> DEFINE e == CStream!TextAt(base)  n == Len(owned)
  <2>2. /\ owned' = Append(owned, e) /\ heap' = heap \cup {e, OwnedBlock}
        /\ ownedCapacity' = IF Len(owned) < ownedCapacity THEN ownedCapacity
                            ELSE IF ownedCapacity = 0 THEN FirstCapacity ELSE ownedCapacity * 2
        /\ UNCHANGED <<capacity, freed>>
    BY <1>13 DEF CStream!RetainText, OwnedBlock
  <2>3. /\ IsList(Append(owned, e)) /\ n \in Nat /\ DOMAIN owned = 1..n
        /\ DOMAIN Append(owned, e) = 1..(n + 1)
        /\ \A i \in 1..n : Append(owned, e)[i] = owned[i]
        /\ Append(owned, e)[n + 1] = e
    BY ListGrows DEF MemoryInv
  <2>4. Len(owned') = n + 1
    <3>1. DOMAIN owned' = 1..Len(owned') /\ Len(owned') \in Nat
      BY <2>2, <2>3, LenProperties DEF IsList
    <3> QED  BY <2>2, <2>3, <3>1
  <2> HIDE DEF e
  <2>5. TextsOf(owned') = TextsOf(owned) \cup {e}
    <3>1. \A x : x \in TextsOf(owned') <=> \E i \in 1..(n + 1) : owned'[i] = x
      BY <2>2, <2>3 DEF TextsOf
    <3>2. \A x : x \in TextsOf(owned) <=> \E i \in 1..n : owned[i] = x
      BY <2>3 DEF TextsOf
    <3>3. \A i \in 1..(n + 1) : i \in 1..n \/ i = n + 1
      BY <2>3
    <3>4. 1..n \subseteq 1..(n + 1) /\ n + 1 \in 1..(n + 1)
      BY <2>3
    <3>5. /\ \A i \in 1..n : owned'[i] = owned[i]
          /\ owned'[n + 1] = e
      BY <2>2, <2>3
    <3>6. \A x : x \in TextsOf(owned') <=> x \in TextsOf(owned) \/ x = e
      BY <3>1, <3>2, <3>3, <3>4, <3>5
    <3> QED  BY <3>6
  <2>6. ownedCapacity' \in Nat /\ Len(owned') <= ownedCapacity' /\ ownedCapacity' > 0
    <3>1. n <= ownedCapacity /\ ownedCapacity \in Nat
      BY DEF MemoryInv
    <3> HIDE DEF n
    <3> QED  BY <2>2, <2>3, <2>4, <3>1, FirstCapacityIsPositive DEF n
  <2>7. heap' = Blocks'
    <3>1. heap = TextsOf(owned) \cup (IF capacity > 0 THEN {BufferBlock} ELSE {})
                   \cup (IF ownedCapacity > 0 THEN {OwnedBlock} ELSE {})
      BY DEF MemoryInv, Blocks
    <3>2. heap' = (TextsOf(owned) \cup {e}) \cup (IF capacity > 0 THEN {BufferBlock} ELSE {}) \cup {OwnedBlock}
      BY <2>2, <3>1
    <3> QED  BY <2>2, <2>5, <2>6, <3>2 DEF Blocks, BufferBlock, OwnedBlock, TextsOf
  <2>8. TextsRetained'
    <3>1. /\ TextsRetained
          /\ \E entry : entry.result.start = base /\ log' = Append(log, entry)
      BY <1>13 DEF MemoryInv, CStream!ReturnLexeme, CStream!Return
    <3>2. PICK entry : entry.result.start = base /\ log' = Append(log, entry)
      BY <3>1
    <3>3. /\ Len(log) \in Nat /\ DOMAIN log = 1..Len(log) /\ DOMAIN log' = 1..(Len(log) + 1)
          /\ \A i \in 1..Len(log) : log'[i] = log[i]
          /\ log'[Len(log) + 1] = entry
      BY <1>1, <3>2, LogGrows
    <3>4. ASSUME NEW i \in DOMAIN log', log'[i].result.kind = "lexeme"
          PROVE  CStream!TextAt(log'[i].result.start) \in TextsOf(owned')
      <4>1. CASE i = Len(log) + 1
        BY <2>5, <3>2, <3>3, <4>1 DEF e
      <4>2. CASE i \in 1..Len(log)
        <5>1. CStream!TextAt(log[i].result.start) \in TextsOf(owned)
          BY <3>1, <3>3, <3>4, <4>2 DEF TextsRetained, IsLexeme
        <5> QED  BY <2>5, <3>3, <4>2, <5>1
      <4> QED  BY <3>3, <4>1, <4>2
    <3> QED  BY <3>4 DEF TextsRetained, IsLexeme, TextsOf, CStream!TextAt
  <2>9. IsList(owned') /\ capacity' \in Nat /\ Len(buffer') <= capacity'
    BY <1>1, <2>1, <2>2, <2>3
  <2> QED  BY <2>6, <2>7, <2>8, <2>9 DEF MemoryInv, IsList
<1>14. CASE CStream!CopyFails
  BY <1>2, <1>3, <1>5, <1>14 DEF CStream!CopyFails
<1>15. CASE (CStream!ReturnEOF \/ CStream!StartMatch \/ CStream!ReturnError(CStream!Cut)) /\ UNCHANGED CStream!memory
  <2>1. UNCHANGED buffer
    BY <1>15 DEF CStream!ReturnEOF, CStream!StartMatch, CStream!ReturnError
  <2>2. \/ log' = log
        \/ \E result : result.kind # "lexeme" /\ CStream!Return(result)
    <3>1. CASE CStream!ReturnEOF
      <4> DEFINE result == [kind |-> "end", start |-> base, at |-> position]
      <4>1. CStream!Return(result) /\ result.kind # "lexeme"
        BY <3>1 DEF CStream!ReturnEOF
      <4> QED  BY <4>1
    <3>2. CASE CStream!StartMatch
      BY <3>2 DEF CStream!StartMatch
    <3>3. CASE CStream!ReturnError(CStream!Cut)
      <4>1. CStream!Return(CStream!Rejected(base)) /\ CStream!Rejected(base).kind # "lexeme"
        BY <3>3 DEF CStream!ReturnError, CStream!Rejected
      <4> QED  BY <4>1
    <3> QED  BY <1>15, <3>1, <3>2, <3>3
  <2> QED  BY <1>2, <1>15, <2>1, <2>2
<1>16. CASE CStream!SkipLexeme(CStream!Cut) /\ UNCHANGED CStream!memory
  <2>1. Len(buffer') <= Len(buffer) /\ Len(buffer') \in Nat /\ log' = log
    BY <1>11, <1>12, <1>16, ConsumedFits DEF CStream!SkipLexeme
  <2>2. Len(buffer') <= capacity' /\ capacity' \in Nat
    BY <1>1, <1>16, <2>1
  <2> QED  BY <1>1, <1>16, <2>1, <2>2, BuffersGrow
<1>17. CASE CStream!ScannerNext
  BY <1>13, <1>14, <1>15, <1>16, <1>17 DEF CStream!ScannerNext
<1>18. CASE CStream!Free
  <2>1. /\ buffer' = <<>> /\ capacity' = 0 /\ owned' = <<>> /\ ownedCapacity' = 0 /\ freed'
        /\ heap' = heap \ (TextsOf(owned) \cup {OwnedBlock, BufferBlock})
    BY <1>18 DEF CStream!Free, TextsOf, OwnedBlock, BufferBlock
  <2>2. heap' = {}
    BY <2>1 DEF MemoryInv, Blocks
  <2>3. DOMAIN <<>> = {} /\ Len(<<>>) = 0 /\ IsList(<<>>)
    BY EmptySeq DEF IsList
  <2>4. Blocks' = {}
    BY <2>1, <2>3 DEF Blocks, TextsOf
  <2> QED  BY <2>1, <2>2, <2>3, <2>4 DEF MemoryInv, IsList
<1>19. CASE /\ UNCHANGED CStream!memory
            /\ (\E c \in OneCaller : CStream!Lock(c)) \/ (\E include \in BOOLEAN : CStream!IncludeHidden(include))
  BY <1>2, <1>19 DEF CStream!Lock, CStream!IncludeHidden
<1> QED  BY <1>9, <1>10, <1>17, <1>18, <1>19 DEF CStream!Next, CStream!Step

\* The C scanner starts with no memory.
LEMMA MemoryStarts ==
  ASSUME InitCStream
  PROVE  MemoryInv
<1>1. capacity = 0 /\ owned = <<>> /\ ownedCapacity = 0 /\ heap = {} /\ buffer = <<>> /\ log = <<>>
  BY DEF InitCStream, CStream!Init, CStream!ChunkInit
<1>2. DOMAIN <<>> = {} /\ Len(<<>>) = 0 /\ IsList(<<>>)
  BY EmptySeq DEF IsList
<1> QED  BY <1>1, <1>2 DEF MemoryInv, Blocks, TextsOf, TextsRetained

------------------------------------------------------------------------------
(* Failures, and where more is read. *)

\* What a log of one more result reports.
LEMMA ReportedGrows ==
  ASSUME IsLog, NEW result, NEW cause, Return(result)
  PROVE  /\ Reported(cause) \in Nat
         /\ Reported(cause)' = Reported(cause) + (IF result = Interrupted(cause) THEN 1 ELSE 0)
<1> DEFINE n == Len(log)
           Here == {i \in DOMAIN log : log[i].result = Interrupted(cause)}
           Then == {i \in DOMAIN log' : log'[i].result = Interrupted(cause)}
           e == [caller |-> mu, result |-> result]
<1>1. /\ n \in Nat /\ DOMAIN log = 1..n /\ DOMAIN log' = 1..(n + 1)
      /\ \A i \in 1..n : log'[i] = log[i]
      /\ log'[n + 1] = e
  BY LogGrows DEF Return
<1>2. e.result = result
  OBVIOUS
<1> HIDE DEF n, e
<1>3. /\ \A i \in 1..(n + 1) : i \in 1..n \/ i = n + 1
      /\ 1..n \subseteq 1..(n + 1) /\ n + 1 \in 1..(n + 1) /\ n + 1 \notin 1..n
  BY <1>1
<1>4. IsFiniteSet(Here)
  <2>1. IsFiniteSet(1..n)
    <3>1. 1 \in Int /\ n \in Int
      BY <1>1
    <3> QED  BY ONLY <3>1, FS_Interval
  <2> QED  BY <1>1, <2>1, FS_Subset
<1>5. Then = IF result = Interrupted(cause) THEN Here \cup {n + 1} ELSE Here
  <2>1. \A i : i \in Then <=> i \in 1..(n + 1) /\ log'[i].result = Interrupted(cause)
    BY <1>1
  <2>2. \A i : i \in Here <=> i \in 1..n /\ log[i].result = Interrupted(cause)
    BY <1>1
  <2> HIDE DEF Here, Then
  <2>3. ASSUME NEW i
        PROVE  i \in Then <=> i \in Here \/ (i = n + 1 /\ result = Interrupted(cause))
    BY <1>1, <1>2, <1>3, <2>1, <2>2
  <2> QED  BY <2>3
<1>6. n + 1 \notin Here
  BY <1>1, <1>3
<1>7. Cardinality(Here) \in Nat /\ Cardinality(Here \cup {n + 1}) = Cardinality(Here) + 1
  BY <1>4, <1>6, FS_CardinalityType, FS_AddElement
<1>8. Reported(cause) = Cardinality(Here) /\ Reported(cause)' = Cardinality(Then)
  BY DEF Reported, Interrupted
<1> HIDE DEF Here, Then
<1> QED  BY <1>5, <1>7, <1>8

\* How many calls reported a cause.
LEMMA ReportedIsNat ==
  ASSUME IsLog, NEW cause
  PROVE  Reported(cause) \in Nat
<1>1. IsFiniteSet(DOMAIN log)
  <2>1. Len(log) \in Nat /\ DOMAIN log = 1..Len(log)
    BY LenProperties DEF IsLog, IsList
  <2> QED  BY <2>1, FS_Interval
<1>2. IsFiniteSet({i \in DOMAIN log : log[i].result = Interrupted(cause)})
  BY <1>1, FS_Subset
<1> QED  BY <1>2, FS_CardinalityType DEF Reported

\* What the Go scanner knows of the failures of its reader.
FailuresOK ==
  /\ faults \in Nat /\ lost \in Nat /\ pendingErr \in BOOLEAN
  /\ Reported("reader") + lost + (IF pendingErr THEN 1 ELSE 0) = faults
  /\ lost <= Reported("limit")

\* A failure is kept, reported, or dropped with the bytes over the limit.
LEMMA FailuresKept ==
  ASSUME IsLog, FailuresOK, Reader!Next
  PROVE  FailuresOK'
<1> DEFINE r == Reported("reader")  l == Reported("limit")
<1>1. \A cause : Reader!Interrupted(cause) = Interrupted(cause)
  BY DEF Reader!Interrupted, Interrupted
<1>2. Interrupted("reader") # Interrupted("limit")
  BY DEF Interrupted
<1>3. ASSUME NEW cause \in {"reader", "limit"}, Reader!Return(Reader!Interrupted(cause))
      PROVE  /\ r \in Nat /\ l \in Nat
             /\ r' = r + (IF cause = "reader" THEN 1 ELSE 0)
             /\ l' = l + (IF cause = "limit" THEN 1 ELSE 0)
  <2>1. Return(Interrupted(cause))
    BY <1>1, <1>3 DEF Reader!Return, Return, Reader!NotMatching, NotMatching
  <2>2. /\ Reported("reader") \in Nat
        /\ Reported("reader")' = Reported("reader") + (IF Interrupted(cause) = Interrupted("reader") THEN 1 ELSE 0)
    BY <2>1, ReportedGrows
  <2>3. /\ Reported("limit") \in Nat
        /\ Reported("limit")' = Reported("limit") + (IF Interrupted(cause) = Interrupted("limit") THEN 1 ELSE 0)
    BY <2>1, ReportedGrows
  <2> QED  BY <1>2, <1>3, <2>2, <2>3
<1>4. ASSUME NEW result, result.kind # "interrupted", Reader!Return(result)
      PROVE  r' = r /\ l' = l
  <2>1. Return(result)
    BY <1>4 DEF Reader!Return, Return, Reader!NotMatching, NotMatching
  <2>2. result # Interrupted("reader") /\ result # Interrupted("limit")
    BY <1>4 DEF Interrupted
  <2>3. r \in Nat /\ r' = r + 0
    BY <2>1, <2>2, ReportedGrows
  <2>4. l \in Nat /\ l' = l + 0
    BY <2>1, <2>2, ReportedGrows
  <2> QED  BY <2>3, <2>4
<1>5. ASSUME UNCHANGED log
      PROVE  r' = r /\ l' = l
  BY <1>5 DEF Reported, Interrupted
<1>6. ASSUME r' = r, l' = l, UNCHANGED <<faults, lost, pendingErr>>
      PROVE  FailuresOK'
  BY <1>6 DEF FailuresOK
<1> HIDE DEF r, l
<1>7. FailuresOK <=> /\ faults \in Nat /\ lost \in Nat /\ pendingErr \in BOOLEAN
                     /\ r + lost + (IF pendingErr THEN 1 ELSE 0) = faults
                     /\ lost <= l
  BY DEF FailuresOK, r, l
<1>8. FailuresOK' <=> /\ faults' \in Nat /\ lost' \in Nat /\ pendingErr' \in BOOLEAN
                      /\ r' + lost' + (IF pendingErr' THEN 1 ELSE 0) = faults'
                      /\ lost' <= l'
  BY DEF FailuresOK, r, l
<1>9. CASE Reader!ReportPending
  <2>1. /\ pendingErr /\ pendingErr' = FALSE /\ UNCHANGED <<faults, lost>>
        /\ Reader!Return(Reader!Interrupted("reader"))
    BY <1>9 DEF Reader!ReportPending
  <2>2. r \in Nat /\ l \in Nat /\ r' = r + 1 /\ l' = l + 0
    BY <1>3, <2>1
  <2>3. faults \in Nat /\ lost \in Nat /\ r + lost + 1 = faults /\ lost <= l
    BY <1>7, <2>1
  <2>4. (IF pendingErr' THEN 1 ELSE 0) = 0 /\ pendingErr' \in BOOLEAN
    BY <2>1
  <2>5. r' + lost' + 0 = faults' /\ lost' <= l' /\ faults' \in Nat /\ lost' \in Nat
    BY <2>1, <2>2, <2>3
  <2> QED  BY <1>8, <2>4, <2>5
<1>10. ASSUME NEW n, NEW err, Reader!Read(n, err)
       PROVE  /\ ~pendingErr
              /\ faults' = IF err = "failed" \/ (err = "none" /\ n = 0) THEN faults + 1 ELSE faults
  BY <1>10 DEF Reader!Read
<1>11. ASSUME NEW n \in 1..readBufferSize, NEW err \in {"none", "EOF", "failed"}, Reader!ReadOverLimit(n, err)
       PROVE  FailuresOK'
  <2>1. /\ ~pendingErr /\ n # 0
        /\ faults' = IF err = "failed" \/ (err = "none" /\ n = 0) THEN faults + 1 ELSE faults
        /\ lost' = IF err = "failed" THEN lost + 1 ELSE lost
        /\ UNCHANGED pendingErr
        /\ Reader!Return(Reader!Interrupted("limit"))
    BY <1>10, <1>11, OptionsArePositive DEF Reader!ReadOverLimit
  <2>2. r \in Nat /\ l \in Nat /\ r' = r + 0 /\ l' = l + 1
    BY <1>3, <2>1
  <2>3. CASE err = "failed"
    <3>1. faults' = faults + 1 /\ lost' = lost + 1
      BY <2>1, <2>3
    <3> QED  BY <1>7, <1>8, <2>1, <2>2, <3>1
  <2>4. CASE err # "failed"
    <3>1. faults' = faults /\ lost' = lost
      BY <2>1, <2>4
    <3> QED  BY <1>7, <1>8, <2>1, <2>2, <3>1
  <2> QED  BY <2>3, <2>4
<1>12. ASSUME NEW n \in 0..readBufferSize, Reader!ReadToEOF(n)
       PROVE  FailuresOK'
  <2>1. faults' = faults /\ UNCHANGED <<log, pendingErr, lost>>
    BY <1>10, <1>12 DEF Reader!ReadToEOF, Reader!KeepCalling
  <2> QED  BY <1>5, <1>6, <2>1
<1>13. ASSUME NEW n \in 1..readBufferSize, Reader!ReadBytesAndError(n)
       PROVE  FailuresOK'
  <2>1. /\ ~pendingErr /\ pendingErr' = TRUE /\ faults' = faults + 1 /\ UNCHANGED <<log, lost>>
    BY <1>10, <1>13 DEF Reader!ReadBytesAndError, Reader!KeepCalling
  <2>2. r' = r /\ l' = l /\ r \in Nat
    <3>1. r \in Nat
      BY ReportedIsNat DEF r
    <3> QED  BY <1>5, <2>1, <3>1
  <2> QED  BY <1>7, <1>8, <2>1, <2>2
<1>14. ASSUME NEW n \in 1..readBufferSize, Reader!ReadBytes(n)
       PROVE  FailuresOK'
  <2>1. n # 0
    BY OptionsArePositive
  <2>2. faults' = faults /\ UNCHANGED <<log, pendingErr, lost>>
    BY <1>10, <1>14, <2>1 DEF Reader!ReadBytes, Reader!KeepCalling
  <2> QED  BY <1>5, <1>6, <2>2
<1>15. ASSUME NEW err \in {"failed", "none"}, Reader!ReadNothing(err)
       PROVE  FailuresOK'
  <2>1. /\ ~pendingErr /\ UNCHANGED <<pendingErr, lost>> /\ faults' = faults + 1
        /\ Reader!Return(Reader!Interrupted("reader"))
    BY <1>10, <1>15 DEF Reader!ReadNothing
  <2>2. r \in Nat /\ l \in Nat /\ r' = r + 1 /\ l' = l + 0
    BY <1>3, <2>1
  <2> QED  BY <1>7, <1>8, <2>1, <2>2
<1>16. CASE Reader!ReadMore
  BY <1>9, <1>11, <1>12, <1>13, <1>14, <1>15, <1>16 DEF Reader!ReadMore
<1>17. CASE Reader!MatchBuffered
  BY <1>5, <1>6, <1>17 DEF Reader!MatchBuffered, Reader!Advance
<1>18. CASE Reader!NextLexeme
  <2>1. UNCHANGED <<pendingErr, faults, lost>>
    BY <1>18 DEF Reader!NextLexeme
  <2>2. UNCHANGED log \/ \E result : result.kind # "interrupted" /\ Reader!Return(result)
    <3>1. CASE Reader!ReturnEOF
      <4> DEFINE result == [kind |-> "end", start |-> base, at |-> position]
      <4>1. result.kind # "interrupted" /\ Reader!Return(result)
        BY <3>1 DEF Reader!ReturnEOF
      <4> QED  BY <4>1
    <3>2. CASE Reader!StartMatch \/ Reader!SkipLexeme(Reader!Cut)
      BY <3>2 DEF Reader!StartMatch, Reader!SkipLexeme
    <3>3. CASE Reader!ReturnLexeme(Reader!Cut)
      <4> DEFINE result == [kind |-> "lexeme", rule |-> match.bestRule,
                            start |-> base, end |-> base + match.bestEnd, text |-> Reader!Text,
                            startAt |-> position, endAt |-> position']
      <4>1. result.kind # "interrupted"
        OBVIOUS
      <4>2. Reader!Return(result)
        BY <3>3 DEF Reader!ReturnLexeme
      <4>3. PICK entry : entry = result
        OBVIOUS
      <4> HIDE DEF result
      <4> QED  BY <4>1, <4>2, <4>3
    <3>4. CASE Reader!ReturnError(Reader!Cut)
      <4>1. Reader!Rejected(base).kind # "interrupted" /\ Reader!Return(Reader!Rejected(base))
        BY <3>4 DEF Reader!ReturnError, Reader!Rejected
      <4> QED  BY <4>1
    <3> QED  BY <1>18, <3>1, <3>2, <3>3, <3>4 DEF Reader!NextLexeme
  <2> QED  BY <1>4, <1>5, <1>6, <2>1, <2>2
<1>19. CASE /\ (\E c \in Callers : Reader!Lock(c)) \/ (\E include \in BOOLEAN : Reader!IncludeHidden(include))
            /\ UNCHANGED <<pendingErr, faults, lost>>
  BY <1>5, <1>6, <1>19 DEF Reader!Lock, Reader!IncludeHidden
<1> QED  BY <1>16, <1>17, <1>18, <1>19 DEF Reader!Next, Reader!Step

\* Every failure of the reader of the Go scanner is reported once.
LEMMA FailuresReported ==
  ASSUME FailuresOK
  PROVE  Reader!ErrorsReportedOnce
<1>1. \A cause : Reader!Reported(cause) = Reported(cause)
  BY DEF Reader!Reported, Reported, Reader!Interrupted, Interrupted,
         Reader!Cardinality, Cardinality, Reader!IsFiniteSet, IsFiniteSet
<1> QED  BY <1>1 DEF FailuresOK, Reader!ErrorsReportedOnce

\* The C++ scanner knows the end of its stream from the stream alone.
LEMMA EndIsTheStreams ==
  ASSUME eof => stream = "eof", InputStream!Next
  PROVE  eof' => stream' = "eof"
<1>1. ASSUME UNCHANGED <<eof, stream>>
      PROVE  eof' => stream' = "eof"
  BY <1>1
<1>2. CASE InputStream!ReadMore
  <2>1. ~eof
    BY <1>2 DEF InputStream!ReadMore, InputStream!NeedsMore
  <2>2. ASSUME NEW n, NEW after, InputStream!ReadOverLimit(n, after) \/ InputStream!ReadFails(n, after)
        PROVE  eof' = eof
    BY <2>2 DEF InputStream!ReadOverLimit, InputStream!ReadFails, InputStream!Throw
  <2>3. ASSUME NEW n, NEW after, InputStream!ReadChunk(n, after)
        PROVE  eof' => stream' = "eof"
    BY <2>3 DEF InputStream!ReadChunk, InputStream!StreamRead
  <2> QED  BY <1>2, <2>1, <2>2, <2>3 DEF InputStream!ReadMore
<1>3. CASE InputStream!MatchBuffered
  BY <1>1, <1>3 DEF InputStream!MatchBuffered, InputStream!Advance
<1>4. CASE InputStream!NextLexeme
  BY <1>1, <1>4 DEF InputStream!NextLexeme, InputStream!ReturnEOF, InputStream!StartMatch, InputStream!SkipLexeme,
     InputStream!ReturnLexeme, InputStream!ReturnError, InputStream!Consume
<1>5. CASE UNCHANGED stream /\ ((\E c \in OneCaller : InputStream!Lock(c))
                                \/ (\E include \in BOOLEAN : InputStream!IncludeHidden(include)))
  BY <1>1, <1>5 DEF InputStream!Lock, InputStream!IncludeHidden
<1> QED  BY <1>2, <1>3, <1>4, <1>5 DEF InputStream!Next, InputStream!Step

\* Only the end of the source ends a call with the end of the text.
LEMMA EndIsReal ==
  ASSUME ChunkInv, ChunkStep, log' # log, Last(log').result.kind = "end"
  PROVE  eof /\ unread = <<>>
<1>1. IsLog
  BY DEF ChunkInv, CursorOK
<1>2. ASSUME NEW result, Return(result)
      PROVE  result.kind = "end"
  <2>1. Last(log') = [caller |-> mu, result |-> result]
    BY <1>1, <1>2, LogGrows DEF Return
  <2> QED  BY <2>1
<1>3. CASE ReadStep \/ InterruptStep
  <2>1. PICK cause \in Causes : Return(Interrupted(cause))
    BY <1>3 DEF ReadStep, InterruptStep, KeepCalling
  <2>2. Interrupted(cause).kind = "interrupted"
    BY DEF Interrupted
  <2> QED  BY <1>2, <2>1, <2>2
<1>4. CASE ReturnError(CutHere) \/ InvalidStep
  <2>1. Return(Rejected(base)) /\ Rejected(base).kind = "rejected"
    BY <1>4 DEF ReturnError, InvalidStep, Rejected
  <2> QED  BY <1>2, <2>1
<1>5. CASE ReturnLexeme(CutHere)
  <2> DEFINE result == [kind |-> "lexeme", rule |-> match.bestRule,
                        start |-> base, end |-> base + match.bestEnd, text |-> Text,
                        startAt |-> position, endAt |-> position']
  <2>1. result.kind = "lexeme"
    OBVIOUS
  <2>2. Return(result)
    BY <1>5 DEF ReturnLexeme
  <2>3. PICK entry : entry = [caller |-> mu, result |-> result]
    OBVIOUS
  <2>4. Last(log') = entry
    BY <1>1, <2>2, <2>3, LogGrows DEF Return
  <2>5. entry.result = result
    BY <2>3
  <2> HIDE DEF result
  <2> QED  BY <2>1, <2>4, <2>5
<1>6. CASE ReturnEOF
  BY <1>6 DEF ReturnEOF, ChunkInv, WindowOK
<1> QED  BY <1>3, <1>4, <1>5, <1>6 DEF ChunkStep, Lock, IncludeHidden, EndStep, KeepCalling, StartMatch, Advance,
            SkipLexeme, chunkVars

\* The Go scanner reads, and reports a kept error, only where it needs more.
LEMMA ReadsWhenNeeded ==
  ASSUME Reader!Next,
         unread' # unread \/ faults' # faults \/ eof' # eof \/ (pendingErr /\ ~pendingErr')
  PROVE  Reader!NeedsMore(Reader!Cut)
<1>1. CASE Reader!ReadMore
  BY <1>1 DEF Reader!ReadMore, Reader!ReportPending, Reader!ReadOverLimit, Reader!ReadBytesAndError,
     Reader!ReadBytes, Reader!ReadToEOF, Reader!ReadNothing, Reader!Read
<1>2. CASE Reader!MatchBuffered
  BY <1>2 DEF Reader!MatchBuffered, Reader!Advance, Reader!source
<1>3. CASE Reader!NextLexeme
  BY <1>3 DEF Reader!NextLexeme, Reader!ReturnEOF, Reader!StartMatch, Reader!SkipLexeme,
     Reader!ReturnLexeme, Reader!ReturnError, Reader!Consume, Reader!source
<1>4. CASE /\ (\E c \in Callers : Reader!Lock(c)) \/ (\E include \in BOOLEAN : Reader!IncludeHidden(include))
           /\ UNCHANGED <<pendingErr, faults, lost>>
  BY <1>4 DEF Reader!Lock, Reader!IncludeHidden, Reader!source
<1> QED  BY <1>1, <1>2, <1>3, <1>4 DEF Reader!Next, Reader!Step

\* Where more text is needed the running match has come to a place that Undecided
\* names, of the buffered text alone.
LEMMA ReadsWhereUndecided ==
  ASSUME ChunkInv, Reader!NeedsMore(Reader!Cut)
  PROVE  Reader!Undecided
<1>1. /\ LexerOK(lexer) /\ text \in Seq(ToSet(text)) /\ buffer \in Seq(ToSet(text))
      /\ Len(buffer) \in Nat /\ 0 \in 0..Len(buffer) /\ Window(text, base, buffer) /\ base \in Nat
  BY LenProperties DEF ChunkInv, TablesOK, WindowOK, Window
<1>2. CASE buffer = <<>>
  BY <1>2 DEF Reader!Undecided
<1>3. CASE match.on
  <2>1. match # NotMatching
    BY <1>3 DEF NotMatching
  <2>2. /\ match.pos \in 0..Len(buffer)
        /\ LoopAt(lexer, text, base, base + match.pos, match.stateID, match.bestRule, base + match.bestEnd)
    BY <2>1, MatchTypes
  <2> DEFINE a == [end |-> base + match.pos, state |-> match.stateID]
             b == [end |-> a.end - base, state |-> a.state]
             here == [end |-> match.pos, state |-> match.stateID]
  <2>3. a \in Path(lexer, text, base) /\ a.end = base + match.pos
    BY <2>2 DEF LoopAt
  <2>4. a.end <= base + Len(buffer) /\ a.end - base = match.pos
    BY <1>1, <2>2, <2>3
  <2>5. b \in Path(lexer, buffer, 0)
    <3> HIDE DEF a
    <3> QED  BY <1>1, <2>3, <2>4, WindowPath
  <2>6. b = here
    BY <2>4
  <2>7. here \in UNION {Reader!Places(lexer, buffer, 0)[n] : n \in 0..Len(buffer)}
    <3>1. \A n : Reader!Places(lexer, buffer, 0)[n] = Places(lexer, buffer, 0)[n]
      BY DEF Reader!Places, Reader!Transitions, Reader!Fits, Reader!IsPrefix, Reader!Rest,
             Places, Transitions, Fits, IsPrefix, Rest
    <3>2. here \in UNION {Places(lexer, buffer, 0)[n] : n \in 0..Len(buffer)}
      BY <2>5, <2>6 DEF Path
    <3> HIDE DEF here
    <3> QED  BY <3>1, <3>2
  <2>8. \/ match.pos = Len(buffer) /\ DOMAIN lexer.next[match.stateID] # {}
        \/ match.pos < Len(buffer) /\ CutOff(buffer, match.pos)
    <3>1. ~Reader!Idle
      BY <1>3 DEF Reader!Idle
    <3>2. \/ Reader!AtBufferEnd /\ DOMAIN Reader!Transition # {}
          \/ Reader!InBuffer /\ Reader!Cut
      BY <3>1 DEF Reader!NeedsMore
    <3> QED  BY <1>1, <2>2, <3>2, ReaderMeans DEF Reader!AtBufferEnd, Reader!InBuffer, Reader!Transition, Reader!Cut
  <2>9. here.end = match.pos /\ here.state = match.stateID
    OBVIOUS
  <2> HIDE DEF here
  <2> QED  BY <2>7, <2>8, <2>9, ReaderMeans DEF Reader!Undecided
<1> QED  BY <1>2, <1>3 DEF Reader!NeedsMore, Reader!Idle, Reader!AtBufferEnd, Reader!InBuffer

------------------------------------------------------------------------------
(* All scanners. *)

Inv ==
  /\ ReaderInv
  /\ Is("go", "reader")  => FailuresOK
  /\ Is("cpp", "reader") => (eof => stream = "eof")
  /\ Is("c", "reader")   => MemoryInv
  /\ OverString          => StringInv
  /\ Is("c", "string")   => TokenInv

\* Every scanner starts with the invariant, and the stream with it.
LEMMA InvStarts ==
  ASSUME Init
  PROVE  Inv /\ (~Is("c", "string") => Stream!Init)
<1>1. CASE InitReader \/ InitInputStream \/ InitTextReader \/ InitCStream
  <2>1. ReaderInv /\ over = "reader"
    BY <1>1, ReaderStarts
  <2>2. Is("go", "reader") => FailuresOK
    <3> SUFFICES ASSUME Is("go", "reader")
                 PROVE  FailuresOK
      OBVIOUS
    <3>1. pendingErr = FALSE /\ faults = 0 /\ lost = 0 /\ log = <<>>
      BY <1>1 DEF InitReader, InitInputStream, InitTextReader, InitCStream, Is, Reader!Init, Reader!ChunkInit
    <3>2. {i \in DOMAIN log : log[i].result = Interrupted("reader")} = {}
          /\ {i \in DOMAIN log : log[i].result = Interrupted("limit")} = {}
      BY <3>1, EmptySeq
    <3>3. Reported("reader") = 0 /\ Reported("limit") = 0
      BY <3>2, FS_EmptySet DEF Reported
    <3>4. (IF pendingErr THEN 1 ELSE 0) = 0 /\ pendingErr \in BOOLEAN
      BY <3>1
    <3>5. Reported("reader") + lost + 0 = faults /\ lost <= Reported("limit") /\ faults \in Nat /\ lost \in Nat
      BY <3>1, <3>3
    <3> QED  BY <3>4, <3>5 DEF FailuresOK
  <2>3. Is("cpp", "reader") => ~eof
    BY <1>1 DEF InitReader, InitInputStream, InitTextReader, InitCStream, Is, InputStream!Init, InputStream!ChunkInit
  <2>4. Is("c", "reader") => MemoryInv
    BY <1>1, MemoryStarts DEF InitReader, InitInputStream, InitTextReader, Is
  <2>5. Stream!Init
    BY <1>1 DEF Stream!Init, InitReader, InitInputStream, InitTextReader, InitCStream, Reader!Init, Reader!ChunkInit,
       InputStream!Init, InputStream!ChunkInit, TextReader!Init, TextReader!ChunkInit, CStream!Init, CStream!ChunkInit
  <2> QED  BY <2>1, <2>2, <2>3, <2>4, <2>5 DEF Inv, OverString, Is
<1>2. CASE InitString
  <2>1. StringInv /\ OverString
    BY <1>2, StringStarts
  <2>2. Stream!Init
    BY <1>2 DEF Stream!Init, InitString, String!Init
  <2> QED  BY <2>1, <2>2 DEF Inv, ReaderInv, OverString, Is
<1>3. CASE InitCString
  <2>1. TokenInv /\ Is("c", "string")
    BY <1>3, TokenStarts
  <2> QED  BY <2>1 DEF Inv, ReaderInv, OverString, Is
<1> QED  BY <1>1, <1>2, <1>3 DEF Init

\* Nothing changes when no scanner takes a step.
LEMMA InvStutters ==
  ASSUME Inv, UNCHANGED vars
  PROVE  Inv' /\ UNCHANGED Stream!vars
<1>1. ChunkInv => ChunkInv'
  <2>1. ChunkStep
    BY DEF vars, ChunkStep
  <2> QED  BY <2>1, ChunkInvKept
<1>2. UNCHANGED chunkVars /\ UNCHANGED <<target, over, all, calls, pendingErr, lost, stream, owned, ownedCapacity,
                                         freed, length, items, state, capacity, heap, faults>>
  BY DEF vars, OfScanner, OfReader, OfStream, OfTokenizer, OfC
<1>3. ReaderInv'
  BY <1>1, <1>2 DEF Inv, ReaderInv, Is, chunkVars
<1>4. Is("go", "reader")' => FailuresOK'
  BY <1>2 DEF Inv, FailuresOK, Is, Reported, Interrupted, chunkVars
<1>5. Is("cpp", "reader")' => (eof' => stream' = "eof")
  BY <1>2 DEF Inv, Is, chunkVars
<1>6. Is("c", "reader")' => MemoryInv'
  BY <1>2 DEF Inv, Is, chunkVars, MemoryInv, Blocks, TextsOf, IsList, TextsRetained, IsLexeme, CStream!TextAt
<1>7. OverString' => StringInv'
  BY <1>2 DEF Inv, OverString, chunkVars, StringInv, TablesOK, CursorOK, IsLog, AllsOK, IsList, SplitOK, IsLexeme
<1>8. Is("c", "string")' => TokenInv'
  <2>1. /\ CString!Text' = CString!Text /\ CString!Lexemes' = CString!Lexemes
        /\ CString!NotMatching' = CString!NotMatching
        /\ UNCHANGED <<lexer, text, length, base, position, match, items, capacity, state, heap, target, over>>
    BY <1>2 DEF chunkVars, CString!Text, CString!Lexemes, CString!HasMatch, CString!Matches, CString!Reached,
       CString!Places, CString!Transitions, CString!Fits, CString!Rest, CString!Longest, CString!Visible,
       CString!LexemeOf, CString!PositionAt, CString!LineAt, CString!ColumnAt, CString!NotMatching
  <2> QED  BY <2>1 DEF Inv, Is, TokenInv, TokenTables, TokenMatch, TokenCursor, TokenArray, TokenOutput
<1>9. UNCHANGED Stream!vars
  BY <1>2 DEF chunkVars, Stream!vars
<1> QED  BY <1>3, <1>4, <1>5, <1>6, <1>7, <1>8, <1>9 DEF Inv

\* What each scanner keeps, and what it serves.
LEMMA InvKept ==
  ASSUME Inv, [Next]_vars
  PROVE  Inv' /\ (~Is("c", "string") => [Stream!Next]_(Stream!vars))
<1>1. CASE UNCHANGED vars
  BY <1>1, InvStutters
<1>2. ASSUME Next, over = "reader", UNCHANGED target,
             Is("go", "reader")  => FailuresOK',
             Is("cpp", "reader") => (eof' => stream' = "eof"),
             Is("c", "reader")   => MemoryInv'
      PROVE  Inv' /\ (~Is("c", "string") => [Stream!Next]_(Stream!vars))
  <2>1. ReaderInv' /\ over' = over /\ (Stream!Next \/ UNCHANGED Stream!vars)
    BY <1>2, ReaderSteps DEF Inv
  <2> QED  BY <1>2, <2>1 DEF Inv, Is, OverString
<1>3. CASE Next /\ Is("go", "reader") /\ Reader!Next /\ KeepReader
  <2>1. ChunkInv /\ FailuresOK /\ over = "reader" /\ UNCHANGED target
    BY <1>3 DEF Inv, ReaderInv, Is, KeepReader
  <2>2. FailuresOK'
    BY <1>3, <2>1, FailuresKept DEF ChunkInv, CursorOK
  <2> QED  BY <1>2, <1>3, <2>1, <2>2 DEF Is
<1>4. CASE Next /\ Is("cpp", "reader") /\ InputStream!Next /\ KeepInputStream
  <2>1. (eof => stream = "eof") /\ over = "reader" /\ UNCHANGED target
    BY <1>4 DEF Inv, Is, KeepInputStream
  <2>2. eof' => stream' = "eof"
    BY <1>4, <2>1, EndIsTheStreams
  <2> QED  BY <1>2, <1>4, <2>1, <2>2 DEF Is
<1>5. CASE Next /\ Is("csharp", "reader") /\ TextReader!Next /\ KeepTextReader
  BY <1>2, <1>5 DEF Is, KeepTextReader
<1>6. CASE Next /\ Is("c", "reader") /\ CStream!Next /\ KeepCStream
  <2>1. MemoryInv /\ over = "reader" /\ UNCHANGED <<target, over>>
    BY <1>6 DEF Inv, Is, KeepCStream
  <2>2. ~freed
    BY <1>6 DEF CStream!Next, CStream!Step, CStream!Free
  <2>3. ChunkInv
    BY <2>1, <2>2 DEF Inv, ReaderInv
  <2>4. MemoryInv'
    BY <1>6, <2>1, <2>2, <2>3, MemoryKept
  <2> QED  BY <1>2, <1>6, <2>1, <2>4 DEF Is
<1>7. CASE OverString /\ String!Next /\ KeepString
  <2>1. StringInv' /\ OverString' /\ (Stream!Next \/ UNCHANGED Stream!vars)
    BY <1>7, StringSteps DEF Inv
  <2> QED  BY <2>1 DEF Inv, ReaderInv, OverString, Is
<1>8. CASE Is("c", "string") /\ CString!Next /\ KeepCString
  <2>1. TokenInv'
    BY <1>8, TokenSteps DEF Inv
  <2>2. UNCHANGED <<target, over>>
    BY <1>8 DEF KeepCString
  <2> QED  BY <1>8, <2>1, <2>2 DEF Inv, ReaderInv, OverString, Is
<1> QED  BY <1>1, <1>3, <1>4, <1>5, <1>6, <1>7, <1>8 DEF Next

\* The invariant holds in every state of every scanner.
THEOREM Invariance == Spec => []Inv
<1>1. Init => Inv
  BY InvStarts
<1>2. Inv /\ [Next]_vars => Inv'
  BY InvKept
<1> QED  BY <1>1, <1>2, PTL DEF Spec

\* However the text arrives, whoever asks and wherever the source or an
\* allocation fails, each scanner implements the stream of lexemes: a call
\* returns the next lexeme of the text with its positions, its end, or a failure
\* that leaves the cursor where it was.
THEOREM ScannersDeliverTheStream == Spec => DeliversTheStream
<1> DEFINE Served == ~Is("c", "string") => [Stream!Next]_(Stream!vars)
           Begun  == ~Is("c", "string") => Stream!Init
<1>1. Init => Begun
  BY InvStarts
<1>2. Inv /\ [Next]_vars => [Served]_vars
  BY InvKept
<1>3. Spec => Begun /\ [][Served]_vars
  <2> HIDE DEF Served, Begun
  <2> QED  BY <1>1, <1>2, Invariance, PTL DEF Spec
<1> QED  BY <1>3 DEF DeliversTheStream

\* Chunks, limits and failures lose no unit of the text, the All calls split its
\* lexemes among them, and the array of lf_tokenize holds all of them.
THEOREM NothingIsEverLost == Spec => []NothingIsLost
<1>1. Inv => NothingIsLost
  <2>1. ASSUME Inv, OverReader, ~(Is("c", "reader") /\ freed)
        PROVE  TypeOK /\ BytesAccounted
    <3>1. ChunkInv
      BY <2>1 DEF Inv, ReaderInv, OverReader
    <3> QED  BY <3>1, ChunksAreAccounted
  <2>2. ASSUME Inv, OverString
        PROVE  String!AllsSplitTheText
    BY <2>2, AllsSplit DEF Inv
  <2>3. ASSUME Inv, Is("c", "string")
        PROVE  CString!OutputIsTheStream
    BY <2>3, TokensAreWhole DEF Inv
  <2> QED  BY <2>1, <2>2, <2>3 DEF NothingIsLost
<1> QED  BY <1>1, Invariance, PTL

\* Every block of the C scanners is known and freed once, nothing is written
\* past a capacity, and returned texts live until the scanner is freed.
THEOREM MemoryIsAlwaysSound == Spec => []MemorySound
<1>1. Inv => MemorySound
  BY MemoryIsSound, TokensAreWhole DEF Inv, MemorySound
<1> QED  BY <1>1, Invariance, PTL

\* Every failure of the Go reader is reported by one call, or dropped for the
\* error of the limit, and a C++ call that ends the text has seen its stream end.
THEOREM FailuresAreAlwaysReported == Spec => FailuresAreReported
<1> DEFINE Told ==
      /\ Is("go", "reader") => Reader!ErrorsReportedOnce'
      /\ (Is("cpp", "reader") /\ log' # log /\ Last(log').result.kind = "end")
           => stream = "eof" /\ unread = <<>>
<1>1. Inv /\ Inv' /\ [Next]_vars => [Told]_vars
  <2> SUFFICES ASSUME Inv, Inv', Next
               PROVE  Told
    OBVIOUS
  <2>1. ASSUME Is("go", "reader")
        PROVE  Reader!ErrorsReportedOnce'
    <3>1. Is("go", "reader")'
      BY <2>1 DEF Next, Is, OverString, KeepReader
    <3>2. FailuresOK'
      BY <3>1 DEF Inv
    <3>3. (FailuresOK => Reader!ErrorsReportedOnce)'
      BY FailuresReported, PTL
    <3> QED  BY <3>2, <3>3
  <2>2. ASSUME Is("cpp", "reader"), log' # log, Last(log').result.kind = "end"
        PROVE  stream = "eof" /\ unread = <<>>
    <3>1. InputStream!Next
      BY <2>2 DEF Next, Is, OverString
    <3>2. ChunkInv /\ (stream = "eof" => unread = <<>>) /\ (eof => stream = "eof")
      BY <2>2 DEF Inv, ReaderInv, Is
    <3>3. ChunkStep
      BY <2>2, <3>1, <3>2, InputStreamChunks
    <3>4. eof
      BY <2>2, <3>2, <3>3, EndIsReal
    <3> QED  BY <3>2, <3>4
  <2> QED  BY <2>1, <2>2
<1>2. Spec => [][Told]_vars
  <2> HIDE DEF Told
  <2> QED  BY <1>1, Invariance, PTL DEF Spec
<1> QED  BY <1>2 DEF FailuresAreReported

\* The Go scanner reads, and reports a kept error, only where the buffer is empty,
\* ends in a state with transitions or cuts a rune where the tables lead.
THEOREM ReadsStayAtTheFrontier == Spec => ReadsAtTheFrontier
<1> DEFINE Open ==
      (Is("go", "reader") /\ (unread' # unread \/ faults' # faults \/ eof' # eof
                                \/ (pendingErr /\ ~pendingErr')))
        => Reader!Undecided
<1>1. Inv /\ [Next]_vars => [Open]_vars
  <2> SUFFICES ASSUME Inv, Next, Is("go", "reader"),
                      unread' # unread \/ faults' # faults \/ eof' # eof \/ (pendingErr /\ ~pendingErr')
               PROVE  Reader!Undecided
    OBVIOUS
  <2>1. Reader!Next /\ ChunkInv
    BY DEF Next, Is, OverString, Inv, ReaderInv
  <2>2. Reader!NeedsMore(Reader!Cut)
    BY <2>1, ReadsWhenNeeded
  <2> QED  BY <2>1, <2>2, ReadsWhereUndecided
<1>2. Spec => [][Open]_vars
  <2> HIDE DEF Open
  <2> QED  BY <1>1, Invariance, PTL DEF Spec
<1> QED  BY <1>2 DEF ReadsAtTheFrontier

=============================================================================
