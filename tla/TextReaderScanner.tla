------------------------- MODULE TextReaderScanner --------------------------
(***************************************************************************)
(* The generated C# TextReaderScanner: text from a TextReader, whose Read  *)
(* returns some units, 0 at the end, or throws.  The lock is held for the  *)
(* whole of a Next call; Dispose does not take it, and makes a reader the  *)
(* scanner owns throw from then on.                                        *)
(***************************************************************************)
EXTENDS ChunkScanner

CONSTANT MaxFaults   (* Bound on reads that throw. *)

VARIABLES ownsReader, disposed, faults

vars == <<lexer, text, unread, buffer, base, position, includeHidden,
          eof, mu, match, log, ownsReader, disposed, faults>>

Init == ChunkInit /\ ownsReader \in BOOLEAN /\ disposed = FALSE /\ faults = 0

reader == <<ownsReader, disposed, faults>>

Cut == CutOff(buffer, match.pos)

Dispose ==
  /\ ~disposed
  /\ disposed' = ownsReader
  /\ UNCHANGED <<chunkVars, ownsReader, faults>>

Throws ==
  /\ disposed \/ faults < MaxFaults
  /\ faults' = IF disposed THEN faults ELSE faults + 1
  /\ Return(Interrupted("reader"))
  /\ UNCHANGED <<source, cursor, eof, ownsReader, disposed>>

ReadUnits(n) ==
  /\ ~disposed
  /\ n > 0
  /\ Receive(n)
  /\ IF OverLimit(n) THEN Return(Interrupted("limit")) ELSE KeepCalling
  /\ UNCHANGED <<eof, reader>>

ReadEnd ==
  /\ ~disposed
  /\ unread = <<>>
  /\ eof' = TRUE
  /\ KeepCalling
  /\ UNCHANGED <<source, cursor, reader>>

ReadMore ==
  /\ NeedsMore(Cut)
  /\ Throws \/ ReadEnd \/ \E n \in 1 .. readBufferSize : ReadUnits(n)

(* An invalid unit throws out of MatchBuffered, whatever matched before it. *)
MatchBuffered ==
  /\ UNCHANGED reader
  /\ \/ Advance(Cut)
     \/ /\ Invalid(Cut)
        /\ Return(Rejected(base))
        /\ UNCHANGED <<source, cursor, eof>>

NextLexeme ==
  /\ UNCHANGED reader
  /\ \/ ReturnEOF \/ StartMatch
     \/ ~Invalid(Cut) /\ (SkipLexeme(Cut) \/ ReturnLexeme(Cut) \/ ReturnError(Cut))

Step == ReadMore \/ MatchBuffered \/ NextLexeme

Next ==
  \/ /\ \/ \E c \in Callers : Lock(c)
        \/ \E include \in BOOLEAN : IncludeHidden(include)
     /\ UNCHANGED reader
  \/ Dispose
  \/ Step

(* A read returns or throws, and the thread in the lock keeps running. *)
Spec == Init /\ [][Next]_vars /\ WF_vars(Step)

=============================================================================
