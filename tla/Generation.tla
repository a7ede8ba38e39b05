----------------------------- MODULE Generation -----------------------------
(***************************************************************************)
(* The commands of lang-forge, one process after the other: what they read *)
(* of the specification, with which code they exit, and what generate      *)
(* leaves in the output directory when the specification is edited while   *)
(* it is read, when a file cannot be written, or when the process is       *)
(* killed.                                                                 *)
(***************************************************************************)
EXTENDS Integers, Sequences, SequencesExt, FiniteSets

CONSTANTS
  Commands,       (* The command lines.                                    *)
  Faults,         (* What may be wrong with each source file.              *)
  SourcesOf,      (* The files of a target after the JSON files, in ranks. *)
  Legacy,         (* Names of C# files of earlier versions of the tool.    *)
  MaxRuns, MaxEdits

VARIABLES
  source,         (* The specification: a version and its fault, by file.  *)
  out,            (* The output directory.                                 *)
  stage,          (* idle, load or write.                                  *)
  command,        (* The running command.                                  *)
  read,           (* What it has read of its inputs.                       *)
  todo,           (* The files it still has to write or to remove.         *)
  finished,       (* The last two runs that exited by themselves.          *)
  runs, edits

vars == <<source, out, stage, command, read, todo, finished, runs, edits>>

(***************************************************************************)
(* The specification.                                                      *)
(***************************************************************************)
NoCommand == [name |-> "none"]

Missing == [version |-> 0, fault |-> "missing"]

(* --spec wins over --lex and --yacc, which only work together. *)
Inputs(c) ==
  CASE "spec" \in c.given              -> <<"spec">>
    [] c.given = {"lex", "yacc"}       -> <<"lex", "yacc">>
    [] OTHER                           -> <<>>

Found(f) == \E k \in DOMAIN read : read[k].fault = f

(* Diagnostics of the parser, the lexer compiler and FromSpec. *)
Invalid == Found("syntax") \/ Found("lexer") \/ Found("grammar")

(* What only a generator finds before it writes: a package name that is no   *)
(* name of the target, and a Go semantic type that does not parse.           *)
Unsuitable ==
  \/ Found("package") /\ command.target # "c"
  \/ Found("type")    /\ command.target = "go"

(***************************************************************************)
(* The output directory.                                                   *)
(***************************************************************************)
Json == <<{"manifest"}, {"actions"}, {"tables"}>>

Targets == DOMAIN SourcesOf

(* The files of a target in the order they are written: those of a rank in   *)
(* any order, as the C and C++ generators walk a map.                        *)
Ranks(target) ==
  Json \o (IF target = "csharp" THEN Legacy ELSE <<>>) \o SourcesOf[target]

Files(ranks) == UNION ToSet(ranks)

LegacyFiles == Files(Legacy)

(* No target writes a file under a name it has to remove.                    *)
ASSUME FilesAssumption ==
  /\ Legacy \in Seq(SUBSET STRING)
  /\ \A t \in Targets : /\ SourcesOf[t] \in Seq(SUBSET STRING)
                        /\ Files(Json \o SourcesOf[t]) \cap LegacyFiles = {}

AllFiles    == UNION {Files(Ranks(t)) : t \in Targets}

Absent    == [state |-> "absent", of |-> <<>>]
Cut       == [state |-> "cut", of |-> <<>>]
Whole(of) == [state |-> "whole", of |-> of]

Due(file) ==
  /\ file \in todo
  /\ \E k \in DOMAIN Ranks(command.target) :
       /\ file \in Ranks(command.target)[k]
       /\ \A j \in 1 .. k - 1 : Ranks(command.target)[j] \cap todo = {}

(***************************************************************************)
(* Actions.                                                                *)
(***************************************************************************)
Exit(code) ==
  /\ stage' = "idle" /\ todo' = {}
  /\ finished' = (IF Len(finished) = 2 THEN Tail(finished) ELSE finished)
                   \o <<[command |-> command, read |-> read, code |-> code]>>
  /\ command' = NoCommand /\ read' = <<>>
  /\ UNCHANGED <<source, runs, edits>>

Init ==
  /\ source \in [{"spec", "lex", "yacc"} -> {Missing} \cup
                   {[version |-> 0, fault |-> f] : f \in UNION {Faults[k] : k \in DOMAIN Faults}}]
  /\ \A k \in DOMAIN source : source[k] = Missing \/ source[k].fault \in Faults[k]
  /\ source["spec"] = Missing <=> source["lex"] # Missing
  /\ \E old \in {Absent, Whole(<<>>)} : out = [f \in AllFiles |-> IF f \in LegacyFiles THEN old ELSE Absent]
  /\ stage = "idle" /\ command = NoCommand /\ read = <<>> /\ todo = {} /\ finished = <<>>
  /\ runs = 0 /\ edits = 0

Edit ==
  /\ edits < MaxEdits
  /\ edits' = edits + 1
  /\ \E k \in DOMAIN source, f \in UNION {Faults[k] : k \in DOMAIN Faults} :
       /\ source[k] # Missing /\ f \in Faults[k]
       /\ source' = [source EXCEPT ![k] = [version |-> edits + 1, fault |-> f]]
  /\ UNCHANGED <<out, stage, command, read, todo, finished, runs>>

Run ==
  /\ stage = "idle" /\ runs < MaxRuns
  /\ runs' = runs + 1
  /\ command' \in Commands
  /\ stage' = "load"
  /\ UNCHANGED <<source, out, read, todo, finished, edits>>

Loading == stage = "load" /\ command.usable /\ Len(read) < Len(Inputs(command))
Loaded  == stage = "load" /\ command.usable /\ Inputs(command) # <<>> /\ Len(read) = Len(Inputs(command))

(* Flags that do not parse, no --out, or no input. *)
Misuse == stage = "load" /\ (~command.usable \/ Inputs(command) = <<>>) /\ Exit("usage") /\ UNCHANGED out

NextInput == source[Inputs(command)[Len(read) + 1]]

Load ==
  /\ Loading /\ NextInput # Missing
  /\ read' = Append(read, NextInput)
  /\ UNCHANGED <<source, out, stage, command, todo, finished, runs, edits>>

(* A file that is missing or cannot be read. *)
LoadFails == Loading /\ Exit("io") /\ UNCHANGED out

Reject == Loaded /\ Invalid /\ Exit("validate") /\ UNCHANGED out

(* Conflicts fail validate and generate at once, before the target is        *)
(* looked at.                                                                *)
Conflicts ==
  /\ Loaded /\ ~Invalid /\ Found("conflict") /\ command.name # "inspect"
  /\ Exit("conflict") /\ UNCHANGED out

Validate ==
  /\ Loaded /\ ~Invalid /\ ~Found("conflict") /\ command.name = "validate"
  /\ Exit("ok") /\ UNCHANGED out

\* Mutant: a table that could be shown is a success.
InspectAnyway ==
  /\ Loaded /\ ~Invalid /\ command.name = "inspect"
  /\ \/ command.format \notin {"text", "json"} /\ Exit("usage")
     \/ command.format = "json" /\ Exit("io")
     \/ command.format \in {"text", "json"} /\ Exit("ok")
  /\ UNCHANGED out

(* inspect shows the table first; standard output may fail. *)
Inspect ==
  /\ Loaded /\ ~Invalid /\ command.name = "inspect"
  /\ \/ command.format \notin {"text", "json"} /\ Exit("usage")
     \/ command.format = "json" /\ Exit("io")
     \/ command.format \in {"text", "json"} /\ Exit(IF Found("conflict") THEN "conflict" ELSE "ok")
  /\ UNCHANGED out

Generating == Loaded /\ ~Invalid /\ ~Found("conflict") /\ command.name = "generate"

UnknownTarget == Generating /\ command.target \notin Targets /\ Exit("usage") /\ UNCHANGED out

(* The directory cannot be made, or the generator refuses the specification. *)
PrepareFails == Generating /\ command.target \in Targets /\ Exit("io") /\ UNCHANGED out

\* Mutant: a generator that starts before it looks at conflicts.
PrepareUnchecked ==
  /\ Loaded /\ ~Invalid /\ command.name = "generate" /\ command.target \in Targets /\ ~Unsuitable
  /\ stage' = "write" /\ todo' = Files(Ranks(command.target))
  /\ UNCHANGED <<source, out, command, read, finished, runs, edits>>

Prepare ==
  /\ Generating /\ command.target \in Targets /\ ~Unsuitable
  /\ stage' = "write" /\ todo' = Files(Ranks(command.target))
  /\ UNCHANGED <<source, out, command, read, finished, runs, edits>>

(* Go sources are formatted before they are written, and inline actions are  *)
(* in the parser.                                                            *)
Formats(file) == ~(file = "parser.go" /\ Found("code"))

Write(file) ==
  /\ stage = "write" /\ Due(file) /\ Formats(file)
  /\ out' = [out EXCEPT ![file] = IF file \in LegacyFiles THEN Absent ELSE Whole(read)]
  /\ todo' = todo \ {file}
  /\ UNCHANGED <<source, stage, command, read, finished, runs, edits>>

FormatFails(file) == stage = "write" /\ Due(file) /\ ~Formats(file) /\ Exit("io") /\ UNCHANGED out

(* What a write or a removal that is not completed leaves: nothing changed,  *)
(* or a file that was truncated.                                             *)
Leaves(file) ==
  out' \in {out} \cup (IF file \in LegacyFiles THEN {} ELSE {[out EXCEPT ![file] = Cut]})

\* Mutant: the generator goes on after a file it could not write.
WriteFailsUnnoticed(file) ==
  /\ stage = "write" /\ Due(file) /\ Formats(file) /\ Leaves(file)
  /\ todo' = todo \ {file}
  /\ UNCHANGED <<source, stage, command, read, finished, runs, edits>>

WriteFails(file) == stage = "write" /\ Due(file) /\ Formats(file) /\ Leaves(file) /\ Exit("io")

Generated == stage = "write" /\ todo = {} /\ Exit("ok") /\ UNCHANGED out

(* The process ends at any moment, also in the middle of a write. *)
Killed ==
  /\ stage # "idle"
  /\ \/ UNCHANGED out
     \/ stage = "write" /\ \E file \in todo : Due(file) /\ Formats(file) /\ Leaves(file)
  /\ stage' = "idle" /\ todo' = {} /\ finished' = <<>>
  /\ command' = NoCommand /\ read' = <<>>
  /\ UNCHANGED <<source, runs, edits>>

Next ==
  \/ Edit \/ Run \/ Misuse \/ Load \/ LoadFails \/ Reject \/ Conflicts \/ Validate \/ Inspect
  \/ UnknownTarget \/ PrepareFails \/ Prepare \/ Generated \/ Killed
  \/ \E file \in todo : Write(file) \/ FormatFails(file) \/ WriteFails(file)

Spec == Init /\ [][Next]_vars

(***************************************************************************)
(* Properties.                                                             *)
(***************************************************************************)
(* After a generate that succeeded the directory holds the whole package of  *)
(* the specification that run has read, whatever runs were killed or failed  *)
(* before it, and none of the C# files of earlier versions.                  *)
PackageIsWhole ==
  (stage # "write" /\ finished # <<>>) =>
    LET last == Last(finished)
    IN  (last.command.name = "generate" /\ last.code = "ok") =>
          LET target == last.command.target
          IN  /\ \A f \in Files(Json \o SourcesOf[target]) : out[f] = Whole(last.read)
              /\ target = "csharp" => \A f \in LegacyFiles : out[f] = Absent

(* The directory only changes for a specification without errors and         *)
(* conflicts, and the sources in it only once the table dump beside them is  *)
(* that of the same specification: no interruption leaves sources newer than *)
(* the dump.                                                                 *)
WritesAreJustified ==
  [][\A f \in AllFiles : out'[f] # out[f] =>
       /\ command.name = "generate" /\ read # <<>>
       /\ \A k \in DOMAIN read : read[k].fault \notin {"syntax", "lexer", "grammar", "conflict"}
       /\ f \notin Files(Json) => out["tables"] = Whole(read)]_vars

(* The commands agree on a specification: when two runs in a row read the    *)
(* same of it, they both find it invalid, both find conflicts, or neither.   *)
(* "conflicts are never hidden" (doc/compiler-pipeline.md:286).              *)
CommandsAgree ==
  Len(finished) = 2 =>
    LET a == finished[1]
        b == finished[2]
    IN  (a.read = b.read /\ {a.code, b.code} \subseteq {"ok", "validate", "conflict"}) => a.code = b.code

=============================================================================
