------------------------- MODULE InputStreamScanner -------------------------
(***************************************************************************)
(* The generated C++ InputStreamScanner: text from a std::istream.  read() *)
(* fills the whole chunk unless the stream ends or fails, and the state of *)
(* the stream is sticky: after a failure every later read fails again.     *)
(* decode_utf8_stream waits for as many bytes as the first one announces.  *)
(***************************************************************************)
EXTENDS ChunkScanner

VARIABLE stream   (* The stream's own state: good, fail, bad or eof. *)

vars == <<lexer, text, unread, buffer, base, position, includeHidden,
          eof, mu, match, log, stream>>

(* A stream that failed to open is handed in with its failbit set. *)
Init == ChunkInit /\ stream \in {"good", "fail"}

Cut == AsksForMore(buffer, match.pos)

(* input_->read: n is gcount(), state the stream's state afterwards. *)
StreamRead(n, state) ==
  /\ Receive(n)
  /\ stream' = state
  /\ IF stream # "good" THEN n = 0 /\ state = stream
     ELSE \/ state = "good" /\ n = readBufferSize
          \/ state = "eof" /\ n < readBufferSize /\ unread' = <<>>
          \/ state = "bad"

Throw(cause) == Return(Interrupted(cause)) /\ UNCHANGED eof

ReadOverLimit(n, state) ==
  /\ StreamRead(n, state) /\ OverLimit(n)
  /\ Throw("limit")

ReadFails(n, state) ==
  /\ StreamRead(n, state) /\ ~OverLimit(n)
  /\ state = "bad" \/ (n = 0 /\ state # "eof")
  /\ Throw("reader")

ReadChunk(n, state) ==
  /\ StreamRead(n, state) /\ ~OverLimit(n)
  /\ state = "eof" \/ (n > 0 /\ state = "good")
  /\ eof' = (state = "eof")
  /\ KeepCalling

ReadMore ==
  /\ NeedsMore(Cut)
  /\ \E n \in 0 .. readBufferSize, state \in {"good", "fail", "bad", "eof"} :
       ReadOverLimit(n, state) \/ ReadFails(n, state) \/ ReadChunk(n, state)

MatchBuffered == Advance(Cut) /\ UNCHANGED stream

NextLexeme ==
  /\ ReturnEOF \/ StartMatch \/ SkipLexeme(Cut) \/ ReturnLexeme(Cut) \/ ReturnError(Cut)
  /\ UNCHANGED stream

Step == ReadMore \/ MatchBuffered \/ NextLexeme

Next ==
  \/ /\ \/ \E c \in Callers : Lock(c)
        \/ \E include \in BOOLEAN : IncludeHidden(include)
     /\ UNCHANGED stream
  \/ Step

(* A read returns, and the thread that holds the mutex keeps running. *)
Spec == Init /\ [][Next]_vars /\ WF_vars(Step)

=============================================================================
