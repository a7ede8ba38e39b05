-------------------------- MODULE GenerationProofs --------------------------
(***************************************************************************)
(* The output directory and the exit codes, for every set of command       *)
(* lines, every fault, every set of files and any number of runs, edits    *)
(* and interruptions.                                                      *)
(***************************************************************************)
EXTENDS Generation, ProofLemmas

-----------------------------------------------------------------------------
(* The inductive invariant. *)

Versions == {Missing} \cup [version : Nat, fault : UNION {Faults[k] : k \in DOMAIN Faults}]
Reads    == Seq(Versions)
Entries  == [command : Commands \cup {NoCommand}, read : Reads,
             code : {"ok", "usage", "io", "validate", "conflict"}]

TypeOK ==
  /\ source \in [{"spec", "lex", "yacc"} -> Versions]
  /\ out \in [AllFiles -> {Absent, Cut} \cup {Whole(r) : r \in Reads}]
  /\ stage \in {"idle", "load", "write"}
  /\ command \in Commands \cup {NoCommand}
  /\ read \in Reads
  /\ finished \in Seq(Entries)
  /\ edits \in Nat

HasFault(r, faults) == \E k \in DOMAIN r : r[k].fault \in faults
SpecFaults == {"syntax", "lexer", "grammar"}

\* What the specification that was read makes of it, whichever command it was.
Verdict(r) == IF HasFault(r, SpecFaults) THEN "validate"
              ELSE IF HasFault(r, {"conflict"}) THEN "conflict" ELSE "ok"

VerdictsOK ==
  \A i \in 1..Len(finished) :
    finished[i].code \in {"ok", "validate", "conflict"} => finished[i].code = Verdict(finished[i].read)

\* While files are written, the files that are done are those of what was read.
WritingOK ==
  stage = "write" =>
    /\ command.name = "generate" /\ command.target \in Targets
    /\ read # <<>> /\ Verdict(read) = "ok"
    /\ todo \subseteq Files(Ranks(command.target))
    /\ \A f \in Files(Ranks(command.target)) \ todo :
         out[f] = IF f \in LegacyFiles THEN Absent ELSE Whole(read)

IInv == TypeOK /\ VerdictsOK /\ WritingOK /\ PackageIsWhole

-----------------------------------------------------------------------------
(* The files of a target. *)

\* The files of two lists of ranks.
LEMMA FilesOfBoth ==
  ASSUME NEW S, NEW s \in Seq(S), NEW t \in Seq(S)
  PROVE  Files(s \o t) = Files(s) \cup Files(t)
<1>1. Range(s \o t) = Range(s) \cup Range(t)
  BY RangeConcatenation
<1>2. \A q : ToSet(q) = Range(q)
  BY DEF ToSet, Range
<1>3. ToSet(s \o t) = ToSet(s) \cup ToSet(t)
  BY <1>1, <1>2
<1> QED  BY <1>3 DEF Files

\* A target writes the JSON files first, then its own; C# also removes the
\* files of earlier versions.
LEMMA RankFacts ==
  ASSUME NEW t \in Targets
  PROVE  /\ \A k \in DOMAIN Ranks(t) : Ranks(t)[k] \subseteq Files(Ranks(t))
         /\ Files(Json \o SourcesOf[t]) \subseteq Files(Ranks(t))
         /\ t = "csharp" => LegacyFiles \subseteq Files(Ranks(t))
         /\ Files(Ranks(t)) \subseteq AllFiles
         /\ Files(Json \o SourcesOf[t]) \cap LegacyFiles = {}
         /\ "tables" \in Files(Json \o SourcesOf[t]) /\ DOMAIN Ranks(t) \subseteq Int
         /\ \A k \in DOMAIN Ranks(t) :
              \/ Ranks(t)[k] \subseteq Files(Json)
              \/ k > 3 /\ 3 \in DOMAIN Ranks(t) /\ Ranks(t)[3] = {"tables"}
<1> DEFINE U == STRING \cup {"manifest", "actions", "tables"}  S == SUBSET U
           old == IF t = "csharp" THEN Legacy ELSE <<>>
           rest == old \o SourcesOf[t]
<1>1. SourcesOf[t] \in Seq(S) /\ old \in Seq(S) /\ Json \in Seq(S)
  <2>1. Json \in Seq(SUBSET {"manifest", "actions", "tables"})
    BY DEF Json
  <2>2. Json \in Seq(S)
    BY <2>1, SeqMonotonic
  <2>3. SourcesOf[t] \in Seq(S) /\ Legacy \in Seq(S)
    BY FilesAssumption, SeqMonotonic
  <2> QED  BY <2>2, <2>3, EmptySeq
<1>2. Len(Json) = 3 /\ Json[3] = {"tables"} /\ \A k \in 1..3 : Json[k] \subseteq Files(Json)
  BY DEF Json, Files, ToSet
<1> HIDE DEF S, old
<1>3. rest \in Seq(S) /\ Files(rest) = Files(old) \cup Files(SourcesOf[t])
  BY <1>1, ConcatProperties, FilesOfBoth
<1>4. Ranks(t) = Json \o rest
  <2>1. Ranks(t) = (Json \o old) \o SourcesOf[t]
    BY DEF Ranks, old
  <2>2. (Json \o old) \o SourcesOf[t] = Json \o (old \o SourcesOf[t])
    <3> DEFINE new == SourcesOf[t]  js == Json
    <3>1. js \in Seq(S) /\ old \in Seq(S) /\ new \in Seq(S)
      BY <1>1
    <3> HIDE DEF new, js
    <3>2. (js \o old) \o new = js \o (old \o new)
      BY <3>1, ConcatAssociative
    <3> QED  BY <3>2 DEF new, js
  <2> QED  BY <2>1, <2>2
<1> HIDE DEF rest
<1>5. Files(Ranks(t)) = Files(Json) \cup Files(rest)
  BY <1>1, <1>3, <1>4, FilesOfBoth
<1>6. Files(Json \o SourcesOf[t]) = Files(Json) \cup Files(SourcesOf[t])
  BY <1>1, FilesOfBoth
<1>7. \A k \in DOMAIN Ranks(t) : Ranks(t)[k] \subseteq Files(Ranks(t))
  BY DEF Files, ToSet
<1>8. Files(Ranks(t)) \subseteq AllFiles
  BY DEF AllFiles
<1>9. t = "csharp" => LegacyFiles \subseteq Files(Ranks(t))
  BY <1>3, <1>5 DEF old, LegacyFiles
<1>10. /\ Ranks(t) \in Seq(S) /\ Len(Ranks(t)) = 3 + Len(rest)
       /\ \A k \in 1..3 : Ranks(t)[k] = Json[k]
  <2> DEFINE both == Json \o rest
  <2>1. /\ both \in Seq(S) /\ Len(both) = Len(Json) + Len(rest)
        /\ \A k \in 1..(Len(Json) + Len(rest)) :
             both[k] = IF k <= Len(Json) THEN Json[k] ELSE rest[k - Len(Json)]
    BY <1>1, <1>3, ConcatProperties, Zenon
  <2>2. Len(rest) \in Nat
    BY <1>3, LenProperties
  <2> HIDE DEF both
  <2>3. Len(both) = 3 + Len(rest) /\ \A k \in 1..3 : both[k] = Json[k]
    BY <1>2, <2>1, <2>2
  <2> QED  BY <1>4, <2>1, <2>3 DEF both
<1>11. \A k \in DOMAIN Ranks(t) :
         \/ Ranks(t)[k] \subseteq Files(Json)
         \/ k > 3 /\ 3 \in DOMAIN Ranks(t) /\ Ranks(t)[3] = {"tables"}
  <2>1. Len(rest) \in Nat /\ DOMAIN Ranks(t) = 1..(3 + Len(rest))
    BY <1>3, <1>10, LenProperties
  <2>2. 3 \in 1..3 /\ 3 \in DOMAIN Ranks(t)
    BY <2>1
  <2> TAKE k \in DOMAIN Ranks(t)
  <2>3. k \in 1..3 \/ k > 3
    BY <2>1
  <2> QED  BY <1>2, <1>10, <2>2, <2>3
<1>12. "tables" \in Files(Json) /\ DOMAIN Ranks(t) \subseteq Int
  <2>1. 3 \in 1..3 /\ DOMAIN Ranks(t) = 1..Len(Ranks(t))
    BY <1>10, LenProperties
  <2> QED  BY <1>2, <2>1
<1> QED  BY <1>3, <1>5, <1>6, <1>7, <1>8, <1>9, <1>11, <1>12, FilesAssumption

-----------------------------------------------------------------------------
(* The runs that have ended. *)

\* An exit records the run and forgets the one before the last.
LEMMA ExitFacts ==
  ASSUME TypeOK, VerdictsOK, NEW code \in {"ok", "usage", "io", "validate", "conflict"}, Exit(code),
         code \in {"ok", "validate", "conflict"} => code = Verdict(read)
  PROVE  /\ finished' \in Seq(Entries) /\ finished' # <<>> /\ VerdictsOK'
         /\ Last(finished') = [command |-> command, read |-> read, code |-> code]
<1> DEFINE old == IF Len(finished) = 2 THEN Tail(finished) ELSE finished
           e == [command |-> command, read |-> read, code |-> code]
<1>1. finished \in Seq(Entries) /\ e \in Entries
  BY DEF TypeOK, Entries
<1>2. /\ old \in Seq(Entries) /\ Len(old) \in Nat
      /\ \A i \in 1..Len(old) : \E j \in 1..Len(finished) : old[i] = finished[j]
  <2>1. CASE Len(finished) = 2
    <3>1. finished # <<>>
      BY <1>1, <2>1, EmptySeq
    <3>2. /\ Tail(finished) \in Seq(Entries) /\ Len(Tail(finished)) = Len(finished) - 1
          /\ \A i \in 1..Len(Tail(finished)) : Tail(finished)[i] = finished[i + 1]
      BY <1>1, <3>1, HeadTailProperties
    <3>3. \A i \in 1..Len(Tail(finished)) : i + 1 \in 1..Len(finished)
      <4>1. Len(Tail(finished)) = 1
        BY <2>1, <3>2
      <4>2. \A i \in 1..1 : i + 1 \in 1..2
        OBVIOUS
      <4> QED  BY <2>1, <4>1, <4>2
    <3> QED  BY <2>1, <3>2, <3>3
  <2>2. CASE Len(finished) # 2
    BY <1>1, <2>2, LenProperties
  <2> QED  BY <2>1, <2>2
<1>3. finished' = old \o <<e>>
  BY DEF Exit
<1> HIDE DEF old, e
<1>4. finished' = Append(old, e)
  BY <1>1, <1>2, <1>3, AppendIsConcat
<1>5. /\ finished' \in Seq(Entries) /\ finished' # <<>> /\ Len(finished') = Len(old) + 1
      /\ finished'[Len(old) + 1] = e /\ \A i \in 1..Len(old) : finished'[i] = old[i]
  BY <1>1, <1>2, <1>4, PushFacts
<1>6. Last(finished') = e
  BY <1>5 DEF Last
<1>7. VerdictsOK'
  <2> SUFFICES ASSUME NEW i \in 1..Len(finished'),
                      finished'[i].code \in {"ok", "validate", "conflict"}
               PROVE  finished'[i].code = Verdict(finished'[i].read)
    BY DEF VerdictsOK
  <2>1. CASE i = Len(old) + 1
    <3>1. finished'[i].code = code /\ finished'[i].read = read
      BY <1>5, <2>1 DEF e
    <3> QED  BY <3>1
  <2>2. CASE i # Len(old) + 1
    <3>1. i \in 1..Len(old)
      BY <1>2, <1>5, <2>2
    <3>2. PICK j \in 1..Len(finished) : finished'[i] = finished[j]
      BY <1>2, <1>5, <3>1
    <3> QED  BY <3>2 DEF VerdictsOK
  <2> QED  BY <2>1, <2>2
<1> QED  BY <1>5, <1>6, <1>7 DEF e

\* The guards of the commands decide as Verdict does.
LEMMA VerdictFacts ==
  /\ Verdict(read) = "validate" <=> Invalid
  /\ ~Invalid => (Verdict(read) = "conflict" <=> Found("conflict"))
  /\ Verdict(read) \in {"ok", "validate", "conflict"}
BY DEF Verdict, HasFault, SpecFaults, Invalid, Found

\* A run that ends without a package leaves the last statement about one alone.
LEMMA ExitStep ==
  ASSUME IInv, stage # "idle", NEW code \in {"ok", "usage", "io", "validate", "conflict"}, Exit(code),
         code \in {"ok", "validate", "conflict"} => code = Verdict(read),
         code = "ok" => command.name # "generate",
         out' \in [AllFiles -> {Absent, Cut} \cup {Whole(r) : r \in Reads}]
  PROVE  IInv'
<1>1. /\ finished' \in Seq(Entries) /\ finished' # <<>> /\ VerdictsOK'
      /\ Last(finished') = [command |-> command, read |-> read, code |-> code]
  BY ExitFacts DEF IInv
<1>2. TypeOK'
  BY <1>1, EmptySeq DEF IInv, TypeOK, Exit, Reads
<1>3. PackageIsWhole'
  BY <1>1 DEF PackageIsWhole
<1>4. WritingOK'
  BY DEF Exit, WritingOK
<1> QED  BY <1>1, <1>2, <1>3, <1>4 DEF IInv

-----------------------------------------------------------------------------
(* The files that are written. *)

\* A file that is due is one of the target, and one beside the JSON files is
\* only due once the table dump is written.
LEMMA DueFacts ==
  ASSUME WritingOK, stage = "write", NEW file \in todo, Due(file)
  PROVE  /\ file \in Files(Ranks(command.target)) /\ file \in AllFiles
         /\ file \notin Files(Json) => out["tables"] = Whole(read)
<1> DEFINE t == command.target
<1>1. t \in Targets /\ todo \subseteq Files(Ranks(t))
  BY DEF WritingOK
<1>2. file \in Files(Ranks(t)) /\ file \in AllFiles
  BY <1>1, RankFacts
<1>3. ASSUME file \notin Files(Json) PROVE out["tables"] = Whole(read)
  <2>1. PICK k \in DOMAIN Ranks(t) :
          file \in Ranks(t)[k] /\ \A j \in 1..(k - 1) : Ranks(t)[j] \cap todo = {}
    BY DEF Due
  <2>2. k > 3 /\ 3 \in DOMAIN Ranks(t) /\ Ranks(t)[3] = {"tables"}
    <3>1. ~(Ranks(t)[k] \subseteq Files(Json))
      BY <1>3, <2>1
    <3> QED  BY <1>1, <3>1, RankFacts
  <2>3. k \in Int
    BY <1>1, RankFacts
  <2>4. "tables" \notin todo
    <3>1. 3 \in 1..(k - 1)
      BY <2>2, <2>3
    <3> QED  BY <2>1, <2>2, <3>1
  <2>5. "tables" \in Files(Ranks(t))
    BY <1>1, <2>2, RankFacts
  <2>6. "tables" \notin LegacyFiles
    <3>1. "tables" \in Files(Json \o SourcesOf[t])
      BY <1>1, RankFacts
    <3> QED  BY <1>1, <3>1, RankFacts
  <2> QED  BY <1>1, <2>4, <2>5, <2>6 DEF WritingOK
<1> QED  BY <1>2, <1>3

\* What a write, also one that is not completed, leaves is a directory again.
LEMMA DirectoryFacts ==
  ASSUME TypeOK, NEW file
  PROVE  /\ [out EXCEPT ![file] = Cut] \in [AllFiles -> {Absent, Cut} \cup {Whole(r) : r \in Reads}]
         /\ [out EXCEPT ![file] = Absent] \in [AllFiles -> {Absent, Cut} \cup {Whole(r) : r \in Reads}]
         /\ [out EXCEPT ![file] = Whole(read)] \in [AllFiles -> {Absent, Cut} \cup {Whole(r) : r \in Reads}]
         /\ Leaves(file) => out' \in [AllFiles -> {Absent, Cut} \cup {Whole(r) : r \in Reads}]
<1> DEFINE States == {Absent, Cut} \cup {Whole(r) : r \in Reads}
<1>1. out \in [AllFiles -> States] /\ Whole(read) \in States /\ Absent \in States /\ Cut \in States
  BY DEF TypeOK
<1> HIDE DEF States
<1>2. \A s \in States : [out EXCEPT ![file] = s] \in [AllFiles -> States]
  BY <1>1
<1>3. Leaves(file) => out' \in [AllFiles -> States]
  BY <1>1, <1>2 DEF Leaves
<1> QED  BY <1>1, <1>2, <1>3 DEF States

-----------------------------------------------------------------------------
(* Every step keeps the invariant. *)

\* Exits leave the directory as it is or with one file cut, writes bring it
\* closer to the package, and only the last file written ends a success.
LEMMA InvNext == IInv /\ [Next]_vars => IInv'
<1> SUFFICES ASSUME IInv, [Next]_vars PROVE IInv'
  OBVIOUS
<1>0. TypeOK /\ VerdictsOK /\ WritingOK /\ PackageIsWhole
  BY DEF IInv
<1>t. out \in [AllFiles -> {Absent, Cut} \cup {Whole(r) : r \in Reads}]
  BY <1>0 DEF TypeOK
\* Steps before anything is written.
<1>1. ASSUME TypeOK', UNCHANGED <<out, finished>>, stage # "write", stage' # "write"
      PROVE  IInv'
  <2>1. VerdictsOK' /\ WritingOK'
    BY <1>0, <1>1 DEF VerdictsOK, WritingOK
  <2>2. PackageIsWhole'
    BY <1>0, <1>1 DEF PackageIsWhole
  <2> QED  BY <1>1, <2>1, <2>2 DEF IInv
<1>2. CASE Edit
  <2>1. PICK k \in DOMAIN source, f \in UNION {Faults[j] : j \in DOMAIN Faults} :
          source' = [source EXCEPT ![k] = [version |-> edits + 1, fault |-> f]]
    BY <1>2 DEF Edit
  <2>2. source' \in [{"spec", "lex", "yacc"} -> Versions] /\ edits' \in Nat
    <3>1. edits + 1 \in Nat
      BY <1>0 DEF TypeOK
    <3>2. [version |-> edits + 1, fault |-> f] \in Versions
      BY <2>1, <3>1 DEF Versions
    <3>3. source' \in [{"spec", "lex", "yacc"} -> Versions]
      BY <1>0, <2>1, <3>2 DEF TypeOK
    <3> QED  BY <1>2, <3>1, <3>3 DEF Edit
  <2>3. TypeOK'
    BY <1>0, <1>2, <2>2 DEF TypeOK, Edit
  <2>4. VerdictsOK' /\ WritingOK'
    BY <1>0, <1>2 DEF VerdictsOK, WritingOK, Edit
  <2>5. PackageIsWhole'
    BY <1>0, <1>2 DEF PackageIsWhole, Edit
  <2> QED  BY <2>3, <2>4, <2>5 DEF IInv
<1>3. CASE Run
  <2>1. TypeOK'
    BY <1>0, <1>3 DEF TypeOK, Run
  <2> QED  BY <1>1, <1>3, <2>1 DEF Run
<1>4. CASE Load
  <2>1. /\ stage = "load" /\ Len(read) < Len(Inputs(command)) /\ read \in Seq(Versions)
        /\ read' = Append(read, NextInput)
        /\ UNCHANGED <<source, out, stage, command, todo, finished, runs, edits>>
    BY <1>0, <1>4 DEF Load, Loading, TypeOK, Reads
  <2>2. NextInput \in Versions
    <3> DEFINE i == Len(read) + 1  given == Inputs(command)
    <3>1. i \in 1..Len(given)
      <4>1. Len(read) \in Nat /\ Len(given) \in {0, 1, 2}
        BY <2>1, LenProperties DEF Inputs
      <4> HIDE DEF given
      <4>2. i <= Len(given) /\ i >= 1 /\ i \in Int /\ Len(given) \in Int
        BY <2>1, <4>1 DEF given
      <4> QED  BY <4>2
    <3>2. given[i] \in {"spec", "lex", "yacc"}
      BY <3>1 DEF Inputs
    <3> HIDE DEF i, given
    <3>3. source[given[i]] \in Versions
      BY <1>0, <3>2 DEF TypeOK
    <3> QED  BY <3>3 DEF NextInput, i, given
  <2>3. read' \in Reads
    BY <2>1, <2>2, PushFacts DEF Reads
  <2>4. TypeOK'
    BY <1>0, <2>1, <2>3 DEF TypeOK
  <2> QED  BY <1>1, <2>1, <2>4
<1>5. CASE Misuse \/ LoadFails \/ UnknownTarget \/ PrepareFails
  <2>1. PICK code \in {"usage", "io"} : Exit(code)
    BY <1>5 DEF Misuse, LoadFails, UnknownTarget, PrepareFails
  <2>2. stage # "idle" /\ out' = out
    BY <1>5 DEF Misuse, LoadFails, UnknownTarget, PrepareFails, Loading, Generating, Loaded
  <2> QED  BY <1>t, <2>1, <2>2, ExitStep
<1>6. CASE Reject
  <2>1. stage # "idle" /\ out' = out /\ Exit("validate") /\ Verdict(read) = "validate"
    BY <1>6, VerdictFacts DEF Reject, Loaded
  <2> QED  BY <1>t, <2>1, ExitStep
<1>7. CASE Conflicts
  <2>1. stage # "idle" /\ out' = out /\ Exit("conflict") /\ Verdict(read) = "conflict"
    BY <1>7, VerdictFacts DEF Conflicts, Loaded
  <2> QED  BY <1>t, <2>1, ExitStep
<1>8. CASE Validate
  <2>1. stage # "idle" /\ out' = out /\ Exit("ok") /\ Verdict(read) = "ok" /\ command.name # "generate"
    BY <1>8, VerdictFacts DEF Validate, Loaded
  <2> QED  BY <1>t, <2>1, ExitStep
<1>9. CASE Inspect
  <2>1. stage # "idle" /\ out' = out /\ command.name # "generate" /\ ~Invalid
    BY <1>9 DEF Inspect, Loaded
  <2>2. \/ \E code \in {"usage", "io"} : Exit(code)
        \/ Exit(Verdict(read)) /\ Verdict(read) \in {"ok", "conflict"}
    BY <1>9, <2>1, VerdictFacts DEF Inspect
  <2>3. ASSUME NEW code \in {"usage", "io"}, Exit(code) PROVE IInv'
    BY <1>t, <2>1, <2>3, ExitStep
  <2>4. ASSUME Exit(Verdict(read)), Verdict(read) \in {"ok", "conflict"} PROVE IInv'
    BY <1>t, <2>1, <2>4, ExitStep
  <2> QED  BY <2>2, <2>3, <2>4
<1>10. CASE Prepare
  <2>1. /\ stage = "load" /\ stage' = "write" /\ todo' = Files(Ranks(command.target))
        /\ command.name = "generate" /\ command.target \in Targets
        /\ Inputs(command) # <<>> /\ Len(read) = Len(Inputs(command))
        /\ ~Invalid /\ ~Found("conflict")
        /\ UNCHANGED <<source, out, command, read, finished, runs, edits>>
    BY <1>10 DEF Prepare, Generating, Loaded
  <2>2. read # <<>>
    <3>1. Len(Inputs(command)) \in {1, 2}
      BY <2>1 DEF Inputs
    <3>2. Len(<<>>) = 0
      OBVIOUS
    <3> QED  BY <2>1, <3>1, <3>2
  <2>3. Verdict(read) = "ok"
    BY <2>1, VerdictFacts
  <2>4. TypeOK' /\ VerdictsOK' /\ PackageIsWhole'
    BY <1>0, <2>1 DEF TypeOK, VerdictsOK, PackageIsWhole
  <2>5. WritingOK'
    BY <2>1, <2>2, <2>3 DEF WritingOK
  <2> QED  BY <2>4, <2>5 DEF IInv
<1>11. ASSUME NEW file \in todo, Write(file) PROVE IInv'
  <2>1. /\ stage = "write" /\ Due(file) /\ todo' = todo \ {file}
        /\ out' = [out EXCEPT ![file] = IF file \in LegacyFiles THEN Absent ELSE Whole(read)]
        /\ UNCHANGED <<source, stage, command, read, finished, runs, edits>>
    BY <1>11 DEF Write
  <2>2. out' \in [AllFiles -> {Absent, Cut} \cup {Whole(r) : r \in Reads}]
    BY <1>0, <2>1, DirectoryFacts
  <2>3. TypeOK' /\ VerdictsOK' /\ PackageIsWhole'
    BY <1>0, <2>1, <2>2 DEF TypeOK, VerdictsOK, PackageIsWhole
  <2>4. file \in Files(Ranks(command.target)) /\ file \in DOMAIN out
    BY <1>0, <1>t, <2>1, DueFacts
  <2>5. \A f : out'[f] = IF f = file THEN (IF file \in LegacyFiles THEN Absent ELSE Whole(read)) ELSE out[f]
    BY <1>t, <2>1, <2>4
  <2>6. WritingOK'
    BY <1>0, <2>1, <2>5 DEF WritingOK
  <2> QED  BY <2>3, <2>6 DEF IInv
<1>12. ASSUME NEW file \in todo, FormatFails(file) \/ WriteFails(file) PROVE IInv'
  <2>1. stage # "idle" /\ Exit("io")
    BY <1>12 DEF FormatFails, WriteFails
  <2>2. out' \in [AllFiles -> {Absent, Cut} \cup {Whole(r) : r \in Reads}]
    BY <1>0, <1>t, <1>12, DirectoryFacts DEF FormatFails, WriteFails
  <2> QED  BY <2>1, <2>2, ExitStep
<1>13. CASE Generated
  <2>1. /\ stage = "write" /\ todo = {} /\ Exit("ok") /\ out' = out
        /\ command.name = "generate" /\ command.target \in Targets /\ Verdict(read) = "ok"
    BY <1>0, <1>13 DEF Generated, WritingOK
  <2>2. /\ finished' \in Seq(Entries) /\ finished' # <<>> /\ VerdictsOK'
        /\ Last(finished') = [command |-> command, read |-> read, code |-> "ok"]
    BY <1>0, <2>1, ExitFacts
  <2>3. TypeOK'
    BY <1>0, <2>1, <2>2, EmptySeq DEF TypeOK, Exit, Reads
  <2>4. WritingOK'
    BY <2>1 DEF Exit, WritingOK
  <2>5. \A f \in Files(Ranks(command.target)) :
          out[f] = IF f \in LegacyFiles THEN Absent ELSE Whole(read)
    BY <1>0, <2>1 DEF WritingOK
  <2>6. /\ \A f \in Files(Json \o SourcesOf[command.target]) : out[f] = Whole(read)
        /\ command.target = "csharp" => \A f \in LegacyFiles : out[f] = Absent
    BY <2>1, <2>5, RankFacts
  <2>7. PackageIsWhole'
    BY <2>1, <2>2, <2>6 DEF PackageIsWhole
  <2> QED  BY <2>2, <2>3, <2>4, <2>7 DEF IInv
<1>14. CASE Killed
  <2>1. /\ stage' = "idle" /\ finished' = <<>> /\ command' = NoCommand /\ read' = <<>>
        /\ UNCHANGED <<source, runs, edits>>
    BY <1>14 DEF Killed
  <2>2. out' \in [AllFiles -> {Absent, Cut} \cup {Whole(r) : r \in Reads}]
    BY <1>0, <1>t, <1>14, DirectoryFacts DEF Killed
  <2>3. TypeOK'
    BY <1>0, <2>1, <2>2, EmptySeq DEF TypeOK, Reads
  <2>4. VerdictsOK' /\ WritingOK' /\ PackageIsWhole'
    <3>1. Len(finished') = 0
      BY <2>1
    <3> QED  BY <2>1, <3>1 DEF VerdictsOK, WritingOK, PackageIsWhole
  <2> QED  BY <2>3, <2>4 DEF IInv
<1>15. CASE UNCHANGED vars
  <2>1. TypeOK' /\ VerdictsOK' /\ WritingOK' /\ PackageIsWhole'
    BY <1>0, <1>15 DEF vars, TypeOK, VerdictsOK, WritingOK, PackageIsWhole
  <2> QED  BY <2>1 DEF IInv
<1> QED
  BY <1>2, <1>3, <1>4, <1>5, <1>6, <1>7, <1>8, <1>9, <1>10, <1>11, <1>12, <1>13, <1>14, <1>15 DEF Next

\* Before the first run there is no package, but there may be old files.
LEMMA InvInit == Init => IInv
<1> SUFFICES ASSUME Init PROVE IInv
  OBVIOUS
<1>1. source \in [{"spec", "lex", "yacc"} -> Versions]
  <2>1. \A f \in UNION {Faults[k] : k \in DOMAIN Faults} : [version |-> 0, fault |-> f] \in Versions
    BY DEF Versions
  <2> QED  BY <2>1 DEF Init, Versions
<1>2. out \in [AllFiles -> {Absent, Cut} \cup {Whole(r) : r \in Reads}]
  <2>1. <<>> \in Reads
    BY EmptySeq DEF Reads
  <2> QED  BY <2>1 DEF Init
<1>3. TypeOK
  BY <1>1, <1>2, EmptySeq DEF Init, TypeOK, Reads
<1>4. VerdictsOK /\ WritingOK /\ PackageIsWhole
  <2>1. Len(finished) = 0 /\ finished = <<>> /\ stage = "idle"
    BY DEF Init
  <2> QED  BY <2>1 DEF VerdictsOK, WritingOK, PackageIsWhole
<1> QED  BY <1>3, <1>4 DEF IInv

\* The inductive invariant holds in every reachable state.
LEMMA Invariance == Spec => []IInv
BY InvInit, InvNext, PTL DEF Spec

-----------------------------------------------------------------------------

\* After a generate that succeeded the output directory holds the package of what
\* it read, whatever earlier runs left, for every set of files of the targets.
THEOREM PackagesAreWhole == Spec => []PackageIsWhole
<1>1. IInv => PackageIsWhole
  BY DEF IInv
<1> QED  BY <1>1, Invariance, PTL

\* Two runs in a row that read the same come to the same verdict.
THEOREM CommandsDoAgree == Spec => []CommandsAgree
<1>1. IInv => CommandsAgree
  <2> SUFFICES ASSUME VerdictsOK, Len(finished) = 2 PROVE CommandsAgree
    BY DEF IInv, CommandsAgree
  <2>1. 1 \in 1..Len(finished) /\ 2 \in 1..Len(finished)
    OBVIOUS
  <2> QED  BY <2>1 DEF VerdictsOK, CommandsAgree
<1> QED  BY <1>1, Invariance, PTL

\* The directory only changes for a specification without errors and conflicts,
\* and the sources only once the dump beside them is that of the specification.
THEOREM WritesAreAlwaysJustified == Spec => WritesAreJustified
<1> DEFINE Justified ==
      \A f \in AllFiles : out'[f] # out[f] =>
        /\ command.name = "generate" /\ read # <<>>
        /\ \A k \in DOMAIN read : read[k].fault \notin {"syntax", "lexer", "grammar", "conflict"}
        /\ f \notin Files(Json) => out["tables"] = Whole(read)
<1>1. IInv /\ [Next]_vars => [Justified]_vars
  <2> SUFFICES ASSUME IInv, [Next]_vars, NEW f \in AllFiles, out'[f] # out[f]
               PROVE  /\ command.name = "generate" /\ read # <<>>
                      /\ \A k \in DOMAIN read :
                           read[k].fault \notin {"syntax", "lexer", "grammar", "conflict"}
                      /\ f \notin Files(Json) => out["tables"] = Whole(read)
    OBVIOUS
  <2>1. out' # out
    OBVIOUS
  <2>2. PICK file \in todo :
          /\ stage = "write" /\ Due(file)
          /\ \E s : out' = [out EXCEPT ![file] = s]
    <3>1. CASE \E file \in todo : Write(file) \/ FormatFails(file) \/ WriteFails(file)
      BY <2>1, <3>1 DEF Write, FormatFails, WriteFails, Leaves
    <3>2. CASE Killed
      BY <2>1, <3>2 DEF Killed, Leaves
    <3>3. CASE \/ Edit \/ Run \/ Misuse \/ Load \/ LoadFails \/ Reject \/ Conflicts \/ Validate \/ Inspect
               \/ UnknownTarget \/ PrepareFails \/ Prepare \/ Generated \/ UNCHANGED vars
      BY <2>1, <3>3 DEF Edit, Run, Misuse, Load, LoadFails, Reject, Conflicts, Validate, Inspect,
                        UnknownTarget, PrepareFails, Prepare, Generated, vars
    <3> QED  BY <3>1, <3>2, <3>3 DEF Next
  <2>3. f = file
    BY <2>2 DEF IInv, TypeOK
  <2>4. WritingOK
    BY DEF IInv
  <2>5. \A k \in DOMAIN read : read[k].fault \notin {"syntax", "lexer", "grammar", "conflict"}
    BY <2>2, <2>4 DEF WritingOK, Verdict, HasFault, SpecFaults
  <2> QED  BY <2>2, <2>3, <2>4, <2>5, DueFacts DEF WritingOK
<1>2. Spec => [][Justified]_vars
  BY <1>1, Invariance, PTL DEF Spec
<1> QED  BY <1>2 DEF WritesAreJustified

=============================================================================
