------------------------------ MODULE Scanners ------------------------------
(***************************************************************************)
(* The scanners of the four targets, over a string and over a reader, on   *)
(* the same tables and texts: a behaviour is one of any of them.  What     *)
(* they promise is stated once, for all of them.                           *)
(***************************************************************************)
EXTENDS ChunkScanner

CONSTANTS
  Nul,             (* The unit that ends a C string.                       *)
  NulTexts,        (* Further texts for the C string scanner.              *)
  Units16,         (* Units of the texts C# reads: runes of one or two.    *)
  MaxNexts,        (* Bound on the Next calls beside All.                  *)
  MaxFaults, FirstCapacity

ASSUME FirstCapacityIsPositive == FirstCapacity \in Nat \ {0}

ASSUME NulTextsAreSequences == \A units \in NulTexts : units \in Seq(ToSet(units))

VARIABLES
  target,          (* go, csharp, cpp or c.                                *)
  over,            (* string or reader.                                    *)
  all, calls,                                         (* Scanner           *)
  pendingErr, lost,                                   (* ReaderScanner     *)
  stream,                                             (* InputStreamScanner*)
  ownsReader, disposed,                               (* TextReaderScanner *)
  owned, ownedCapacity, freed,                        (* StreamScanner     *)
  length, items, state,                               (* Tokenizer         *)
  capacity, heap, faults                              (* Several.          *)

OfScanner    == <<all, calls>>
OfReader     == <<pendingErr, lost>>
OfTextReader == <<ownsReader, disposed>>
OfStream     == <<owned, ownedCapacity, freed>>
OfTokenizer  == <<length, items, state>>
OfC          == <<capacity, heap>>
OfMatching   == <<unread, buffer, eof, match>>

vars == <<chunkVars, target, over, OfScanner, OfReader, stream, OfTextReader,
          OfStream, OfTokenizer, OfC, faults>>

Texts16  == {t \in Texts : ToSet(t) \subseteq Units16}
OneCaller == {CHOOSE c \in Callers : TRUE}

String      == INSTANCE Scanner WITH pos <- base, MaxCalls <- MaxNexts, Targets <- {"go", "csharp", "cpp"}
Reader      == INSTANCE ReaderScanner
InputStream == INSTANCE InputStreamScanner WITH Callers <- OneCaller
TextReader  == INSTANCE TextReaderScanner WITH Callers <- OneCaller, Texts <- Texts16
CStream     == INSTANCE StreamScanner WITH Callers <- OneCaller, FirstOwned <- FirstCapacity
CString     == INSTANCE Tokenizer WITH input <- text, pos <- base, Texts <- Texts \cup NulTexts

Is(t, s) == target = t /\ over = s

Unused == "unused"

NoScanner    == all = Unused /\ calls = Unused
NoReader     == pendingErr = Unused /\ lost = Unused
NoTextReader == ownsReader = Unused /\ disposed = Unused
NoCStream    == owned = Unused /\ ownedCapacity = Unused /\ freed = Unused
NoTokenizer  == length = Unused /\ items = Unused /\ state = Unused
NoC          == capacity = Unused /\ heap = Unused
NoMatching   == unread = Unused /\ buffer = Unused /\ eof = Unused /\ match = Unused

InitString ==
  /\ over = "string" /\ target \in {"go", "csharp", "cpp"}
  /\ target = "csharp" => text \in Texts16
  /\ String!Init
  /\ NoMatching /\ NoReader /\ stream = Unused /\ NoTextReader /\ NoCStream /\ NoTokenizer /\ NoC
  /\ faults = Unused

InitReader ==
  /\ Is("go", "reader") /\ Reader!Init
  /\ NoScanner /\ stream = Unused /\ NoTextReader /\ NoCStream /\ NoTokenizer /\ NoC

InitInputStream ==
  /\ Is("cpp", "reader") /\ InputStream!Init
  /\ NoScanner /\ NoReader /\ NoTextReader /\ NoCStream /\ NoTokenizer /\ NoC /\ faults = Unused

InitTextReader ==
  /\ Is("csharp", "reader") /\ TextReader!Init
  /\ NoScanner /\ NoReader /\ stream = Unused /\ NoCStream /\ NoTokenizer /\ NoC

InitCStream ==
  /\ Is("c", "reader") /\ CStream!Init
  /\ NoScanner /\ NoReader /\ stream = Unused /\ NoTextReader /\ NoTokenizer

InitCString ==
  /\ Is("c", "string") /\ CString!Init
  /\ unread = Unused /\ buffer = Unused /\ eof = Unused
  /\ mu = NoCaller /\ includeHidden = FALSE /\ log = <<>>
  /\ NoScanner /\ NoReader /\ stream = Unused /\ NoTextReader /\ NoCStream /\ faults = Unused

Init == \/ InitString \/ InitReader \/ InitInputStream
        \/ InitTextReader \/ InitCStream \/ InitCString

(* What the scanners that do not run keep. *)
KeepString      == UNCHANGED <<over, OfMatching, OfReader, stream, OfTextReader, OfStream, OfTokenizer, OfC, faults>>
KeepReader      == UNCHANGED <<target, over, OfScanner, stream, OfTextReader, OfStream, OfTokenizer, OfC>>
KeepInputStream == UNCHANGED <<target, over, OfScanner, OfReader, OfTextReader, OfStream, OfTokenizer, OfC, faults>>
KeepTextReader  == UNCHANGED <<target, over, OfScanner, OfReader, stream, OfStream, OfTokenizer, OfC>>
KeepCStream     == UNCHANGED <<target, over, OfScanner, OfReader, stream, OfTextReader, OfTokenizer>>
KeepCString     == UNCHANGED <<target, over, unread, buffer, eof, mu, includeHidden, log,
                               OfScanner, OfReader, stream, OfTextReader, OfStream, faults>>

OverString == over = "string" /\ target # "c"
OverReader == over = "reader"

Next ==
  \/ OverString             /\ String!Next      /\ KeepString
  \/ Is("go", "reader")     /\ Reader!Next      /\ KeepReader
  \/ Is("cpp", "reader")    /\ InputStream!Next /\ KeepInputStream
  \/ Is("csharp", "reader") /\ TextReader!Next  /\ KeepTextReader
  \/ Is("c", "reader")      /\ CStream!Next     /\ KeepCStream
  \/ Is("c", "string")      /\ CString!Next     /\ KeepCString

(* The steps of a running call, which the thread that runs it takes. *)
Step ==
  \/ OverString             /\ String!Step      /\ KeepString
  \/ Is("go", "reader")     /\ Reader!Step      /\ KeepReader
  \/ Is("cpp", "reader")    /\ InputStream!Step /\ KeepInputStream
  \/ Is("csharp", "reader") /\ TextReader!Step  /\ KeepTextReader
  \/ Is("c", "reader")      /\ CStream!Step     /\ KeepCStream
  \/ Is("c", "string")      /\ CString!Step     /\ KeepCString

(* A waiting All gets a free mutex. *)
AllLocks == OverString /\ (\E c \in Callers : String!Running(c) /\ String!Lock(c)) /\ KeepString

Spec == Init /\ [][Next]_vars /\ WF_vars(Step) /\ WF_vars(AllLocks)

(***************************************************************************)
(* Properties.                                                             *)
(***************************************************************************)
(* What each scanner owes its callers.  A lexeme followed by invalid text is *)
(* refused by the C# scanner over a string; over a reader that depends on    *)
(* which chunk brings the text; the other targets return it.                 *)
Stream ==
  INSTANCE LexemeStream
  WITH pos <- base, holder <- mu,
       invalidText <- IF target # "csharp" THEN "returned"
                      ELSE IF over = "string" THEN "refused" ELSE "either",
       causes <- IF over = "string" THEN {}
                 ELSE IF target = "c" THEN {"reader", "limit", "memory"} ELSE {"reader", "limit"}

(* However the text arrives, in one piece or cut into chunks, whatever       *)
(* thread asks and wherever the source or an allocation fails: the calls     *)
(* return the lexemes of the text in order, each once, with their positions, *)
(* and a call that fails does not move the cursor.                           *)
DeliversTheStream ==
  /\ ~Is("c", "string") => Stream!Init
  /\ [][~Is("c", "string") => [Stream!Next]_(Stream!vars)]_vars

(* No unit of the text is lost, duplicated or reordered by chunks, limits    *)
(* and failures, and the locals of a running match are those of the          *)
(* buffered text alone; the calls of All split the lexemes of the text among *)
(* them, and the array of lf_tokenize holds all of them.                     *)
NothingIsLost ==
  /\ OverReader /\ ~(Is("c", "reader") /\ freed) => TypeOK /\ BytesAccounted
  /\ OverString        => String!AllsSplitTheText
  /\ Is("c", "string") => CString!OutputIsTheStream

(* A failing source is reported, once, and never mistaken for the end of     *)
(* the text.                                                                 *)
FailuresAreReported ==
  [][/\ Is("go", "reader") => Reader!ErrorsReportedOnce'
     /\ (Is("cpp", "reader") /\ log' # log /\ Last(log').result.kind = "end")
          => stream = "eof" /\ unread = <<>>]_vars

(* The Go reader is only asked for more, and a kept error is only reported,  *)
(* where the buffer is empty, ends in a state that has transitions, or cuts  *)
(* a rune where the tables lead: after whole runes a goroutine never waits   *)
(* for input that the lexeme does not need.  For the rest of a cut rune it   *)
(* may wait although the lexeme is decided, because the code looks for       *)
(* transitions only when the rune is whole.                                  *)
ReadsAtTheFrontier ==
  [][(Is("go", "reader") /\ (unread' # unread \/ faults' # faults \/ eof' # eof
                               \/ (pendingErr /\ ~pendingErr')))
       => Reader!Undecided]_vars

(* The memory of the C scanners: every block is known and freed once,        *)
(* nothing is written past a capacity, and the texts that calls returned     *)
(* stay alive until the scanner is freed.                                    *)
MemorySound ==
  /\ Is("c", "reader") => CStream!BlocksSound /\ CStream!TextsStayAlive
  /\ Is("c", "string") => CString!ArraySound

(* Every call returns when the source answers its reads; every All returns,  *)
(* whichever thread the mutex favours; lf_tokenize returns.                  *)
Working ==
  \/ mu # NoCaller
  \/ OverString /\ \E c \in Callers : String!Running(c)
  \/ Is("c", "string") /\ state \notin {"returned", "failed"}

CallsReturn == Working ~> ~Working

=============================================================================
