--------------------------- MODULE StreamScanner ----------------------------
(***************************************************************************)
(* The generated C stream scanner: text from a read callback, in memory it *)
(* manages itself.  Every allocation may fail.  The scanner belongs to one *)
(* thread, and the texts of the lexemes it returned stay alive until       *)
(* lf_stream_scanner_free.                                                 *)
(***************************************************************************)
EXTENDS ChunkScanner

CONSTANTS
  MaxFaults,       (* Bound on failing callbacks and allocations.          *)
  FirstOwned       (* First capacity of owned_texts: 16 in the code.       *)

VARIABLES
  capacity,        (* Of the buffer; 0 while it is not allocated.          *)
  owned,           (* The lexeme texts retained, as allocated blocks.      *)
  ownedCapacity,
  heap,            (* The blocks allocated and not freed.                  *)
  freed,           (* Whether the scanner was freed.                       *)
  faults

memory == <<capacity, owned, ownedCapacity, heap, freed>>
vars == <<lexer, text, unread, buffer, base, position, includeHidden, eof, mu,
          match, log, capacity, owned, ownedCapacity, heap, freed, faults>>

Init ==
  /\ ChunkInit
  /\ capacity = 0 /\ owned = <<>> /\ ownedCapacity = 0
  /\ heap = {} /\ freed = FALSE /\ faults = 0

Cut == AsksForMore(buffer, match.pos)

Fault == faults < MaxFaults /\ faults' = faults + 1

FailWith(cause) == Return(Interrupted(cause)) /\ UNCHANGED <<source, cursor, eof>>

(***************************************************************************)
(* lf_stream_read_more.                                                    *)
(***************************************************************************)
Needed == Len(buffer) + readBufferSize

(* Doubling from the read size until the chunk fits: it then fits in less    *)
(* than twice what is needed.                                                *)
Doubled ==
  LET start == IF capacity = 0 THEN readBufferSize ELSE capacity
  IN  {size \in Needed .. 2 * Needed :
         \E k \in 0 .. Needed : size = start * 2 ^ k /\ (k = 0 \/ size < 2 * Needed)}

\* Mutant: the buffer grows when it is full, not when a chunk may not fit.
EnsureCapacityIfFull ==
  IF capacity > Len(buffer) THEN UNCHANGED <<capacity, heap>>
  ELSE capacity' \in Doubled /\ heap' = heap \cup {[block |-> "buffer"]}

EnsureCapacity ==
  IF capacity >= Needed THEN UNCHANGED <<capacity, heap>>
  ELSE capacity' \in Doubled /\ heap' = heap \cup {[block |-> "buffer"]}

GrowthFails ==
  /\ capacity < Needed
  /\ Fault
  /\ FailWith("memory")
  /\ UNCHANGED memory

CallbackFails ==
  /\ Fault
  /\ EnsureCapacity
  /\ FailWith("reader")
  /\ UNCHANGED <<owned, ownedCapacity, freed>>

ReadChunk(n) ==
  /\ EnsureCapacity
  /\ n = 0 => unread = <<>>
  /\ Receive(n)
  /\ eof' = (n = 0)
  /\ IF OverLimit(n) THEN Return(Interrupted("limit")) ELSE KeepCalling
  /\ UNCHANGED <<owned, ownedCapacity, freed, faults>>

ReadMore ==
  /\ NeedsMore(Cut)
  /\ GrowthFails \/ CallbackFails \/ \E n \in 0 .. readBufferSize : ReadChunk(n)

(***************************************************************************)
(* lf_stream_match, and the copy of a returned lexeme's text.              *)
(***************************************************************************)
Match == Advance(Cut) /\ UNCHANGED <<memory, faults>>

(* The copy of the lexeme that starts at an offset. *)
TextAt(start) == [block |-> "text", start |-> start]

RetainText ==
  /\ owned' = Append(owned, TextAt(base))
  /\ heap' = heap \cup {TextAt(base), [block |-> "owned"]}
  /\ ownedCapacity' = IF Len(owned) < ownedCapacity THEN ownedCapacity
                      ELSE IF ownedCapacity = 0 THEN FirstOwned ELSE ownedCapacity * 2
  /\ UNCHANGED <<capacity, freed, faults>>

(* malloc fails, or the list cannot grow and the copy is freed again. *)
CopyFails ==
  /\ Matched(Cut)
  /\ Visible(lexer, match.bestRule, includeHidden)
  /\ Fault
  /\ FailWith("memory")
  /\ UNCHANGED memory

ScannerNext ==
  \/ ReturnLexeme(Cut) /\ RetainText
  \/ CopyFails
  \/ /\ ReturnEOF \/ StartMatch \/ SkipLexeme(Cut) \/ ReturnError(Cut)
     /\ UNCHANGED <<memory, faults>>

(* lf_stream_scanner_free: between calls, and the end of the scanner. *)
Free ==
  /\ ~freed
  /\ mu = NoCaller
  /\ heap' = heap \ ({owned[i] : i \in DOMAIN owned} \cup {[block |-> "owned"], [block |-> "buffer"]})
  /\ freed' = TRUE
  /\ buffer' = <<>> /\ capacity' = 0 /\ owned' = <<>> /\ ownedCapacity' = 0
  /\ UNCHANGED <<lexer, text, unread, base, position, includeHidden, eof, mu,
                 match, log, faults>>

Step == ~freed /\ (ReadMore \/ Match \/ ScannerNext)

Next ==
  \/ /\ ~freed
     /\ \/ \E c \in Callers : Lock(c)
        \/ \E include \in BOOLEAN : IncludeHidden(include)
     /\ UNCHANGED <<memory, faults>>
  \/ Step
  \/ Free

(* The callback returns, and the caller runs on. *)
Spec == Init /\ [][Next]_vars /\ WF_vars(Step)

(* Every block the scanner allocated is known to it, nothing is written past *)
(* a block's capacity, and freeing the scanner frees them all.               *)
BlocksSound ==
  /\ Len(buffer) <= capacity
  /\ Len(owned) <= ownedCapacity
  /\ heap = {owned[i] : i \in DOMAIN owned}
              \cup (IF capacity > 0 THEN {[block |-> "buffer"]} ELSE {})
              \cup (IF ownedCapacity > 0 THEN {[block |-> "owned"]} ELSE {})

(* The usage guide: the text of a returned lexeme is owned by the scanner,   *)
(* and valid as long as it is not freed.                                     *)
TextsStayAlive ==
  ~freed => \A i \in DOMAIN log :
              log[i].result.kind = "lexeme" => TextAt(log[i].result.start) \in heap

=============================================================================
