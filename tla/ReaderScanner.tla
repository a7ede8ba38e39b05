--------------------------- MODULE ReaderScanner ---------------------------
(***************************************************************************)
(* The generated Go ReaderScanner: text from an io.Reader, one mutex held  *)
(* for the whole of a Next call, reads included.                           *)
(*                                                                         *)
(* The reader may return fewer bytes than asked for, an error with or      *)
(* without bytes, io.EOF with the last bytes or after them, and nothing at *)
(* all.                                                                    *)
(***************************************************************************)
EXTENDS ChunkScanner

CONSTANT MaxFaults  (* Bound on reads that fail or return nothing.  *)

VARIABLES
  pendingErr,     (* An error kept until its bytes are used up.            *)
  faults,         (* History: how many reads failed or returned nothing.   *)
  lost            (* History: errors that came with bytes over the limit.  *)

vars == <<lexer, text, unread, buffer, base, position, includeHidden,
          eof, mu, match, log, pendingErr, faults, lost>>

Init == ChunkInit /\ pendingErr = FALSE /\ faults = 0 /\ lost = 0

Cut == CutOff(buffer, match.pos)

ReportPending ==
  /\ NeedsMore(Cut)
  /\ pendingErr
  /\ pendingErr' = FALSE
  /\ Return(Interrupted("reader"))
  /\ UNCHANGED <<source, cursor, eof, faults, lost>>

(* One Read that returned n bytes and err. *)
Read(n, err) ==
  /\ NeedsMore(Cut)
  /\ ~pendingErr
  /\ Receive(n)
  /\ err = "EOF" => unread' = <<>>
  /\ faults' = IF err = "failed" \/ (err = "none" /\ n = 0) THEN faults + 1 ELSE faults
  /\ faults' <= MaxFaults

ReadOverLimit(n, err) ==
  /\ Read(n, err)
  /\ OverLimit(n)
  /\ lost' = IF err = "failed" THEN lost + 1 ELSE lost
  /\ Return(Interrupted("limit"))
  /\ UNCHANGED <<eof, pendingErr>>

ReadToEOF(n) ==
  /\ Read(n, "EOF")
  /\ ~OverLimit(n)
  /\ eof' = TRUE
  /\ KeepCalling
  /\ UNCHANGED <<pendingErr, lost>>

\* Mutant: the error of a read that returned bytes is forgotten.
ReadBytesDropsError(n) ==
  /\ Read(n, "failed")
  /\ n > 0 /\ ~OverLimit(n)
  /\ KeepCalling
  /\ UNCHANGED <<eof, pendingErr, lost>>

ReadBytesAndError(n) ==
  /\ Read(n, "failed")
  /\ n > 0 /\ ~OverLimit(n)
  /\ pendingErr' = TRUE
  /\ KeepCalling
  /\ UNCHANGED <<eof, lost>>

(* An error without bytes, or neither bytes nor an error (io.ErrNoProgress). *)
ReadNothing(err) ==
  /\ Read(0, err)
  /\ Return(Interrupted("reader"))
  /\ UNCHANGED <<eof, pendingErr, lost>>

ReadBytes(n) ==
  /\ Read(n, "none")
  /\ n > 0 /\ ~OverLimit(n)
  /\ KeepCalling
  /\ UNCHANGED <<eof, pendingErr, lost>>

ReadMore ==
  \/ ReportPending
  \/ \E n \in 1 .. readBufferSize :
       \/ \E err \in {"none", "EOF", "failed"} : ReadOverLimit(n, err)
       \/ ReadBytesAndError(n)
       \/ ReadBytes(n)
  \/ \E n \in 0 .. readBufferSize : ReadToEOF(n)
  \/ \E err \in {"failed", "none"} : ReadNothing(err)

MatchBuffered == Advance(Cut) /\ UNCHANGED <<pendingErr, faults, lost>>

NextLexeme ==
  /\ ReturnEOF \/ StartMatch \/ SkipLexeme(Cut) \/ ReturnLexeme(Cut) \/ ReturnError(Cut)
  /\ UNCHANGED <<pendingErr, faults, lost>>

Step == ReadMore \/ MatchBuffered \/ NextLexeme

Next ==
  \/ /\ \/ \E c \in Callers : Lock(c)
        \/ \E include \in BOOLEAN : IncludeHidden(include)
     /\ UNCHANGED <<pendingErr, faults, lost>>
  \/ Step

(* A read returns, and the goroutine that holds the mutex keeps running. *)
Spec == Init /\ [][Next]_vars /\ WF_vars(Step)

(* Every failure of the reader is reported by exactly one call, at once or   *)
(* when its bytes are used up, except one that came with bytes over the      *)
(* limit: that one is dropped for the limit error.                           *)
ErrorsReportedOnce ==
  /\ Reported("reader") + lost + (IF pendingErr THEN 1 ELSE 0) = faults
  /\ lost <= Reported("limit")

(* What Next may read for: a first unit; the next rune, where the tables     *)
(* lead from the cursor to the end of the buffer and on from there; the rest *)
(* of a rune that the buffer cuts where the tables lead, whether or not the  *)
(* state reached has transitions.                                            *)
Undecided ==
  \/ buffer = <<>>
  \/ \E place \in UNION {Places(lexer, buffer, 0)[n] : n \in 0 .. Len(buffer)} :
       \/ place.end = Len(buffer) /\ DOMAIN lexer.next[place.state] # {}
       \/ place.end < Len(buffer) /\ CutOff(buffer, place.end)

=============================================================================
