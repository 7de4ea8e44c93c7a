---------------------------------- MODULE Main ----------------------------------
(***************************************************************************)
(* The compiler as a process, main of src/src/main.cpp: it reads the       *)
(* command line, opens the source, compiles it and exits.  The status says *)
(* whether the command line was accepted, not whether the program was      *)
(* compiled.  No option sets stop_after: the tests do, src/tests/tests.cpp,*)
(* and call Compile as main does.                                          *)
(***************************************************************************)
EXTENDS Driver, Integers

CONSTANTS Words, MaxWords, Targets, None

VARIABLES
  argv, arg_index, flags, output, target, source,
  parsed,       \* what became of the command line: outcome of Options
  file,         \* whether the source was opened: "unknown", "open" or "none"
  exit_status   \* None before the process ends; "assertion" when it is stopped

commandLine == <<argv, arg_index, flags, output, target, source, parsed>>
mainVars    == <<vars, commandLine, file, exit_status>>

Parse == INSTANCE Options WITH outcome <- parsed

(* A word begins with none, one or more dashes.  Of all files only the     *)
(* source can be named on the command line.                                *)
ASSUME WordsAssumption ==
  /\ MaxWords \in Nat
  /\ None \notin DOMAIN Parse!Table
  /\ \A word \in Words :
       /\ word.dashes \in 0 .. 2
       /\ word.dashes = 0 => word.text \notin Files \ {Source}

-----------------------------------------------------------------------------

MainStart(p, phase, line) ==
  /\ Start(p, phase)
  /\ Parse!Start(line)
  /\ file = "unknown"
  /\ exit_status = None

MainInit ==
  \E p \in Programs, phase \in StopAfter, line \in Parse!CommandLines : MainStart(p, phase, line)

Alive == exit_status = None

ParseWord ==
  /\ Alive
  /\ Parse!Next
  /\ UNCHANGED <<vars, file, exit_status>>

(* OpenFile, for the word taken as the source.                             *)
OpenSource ==
  /\ Alive /\ parsed = "compile" /\ file = "unknown"
  /\ file' = IF source = Source THEN "open" ELSE "none"
  /\ UNCHANGED <<vars, commandLine, exit_status>>

Compile ==
  /\ Alive /\ file = "open"
  /\ Next
  /\ UNCHANGED <<commandLine, file, exit_status>>

(* Every return of main.                                                   *)
Exit ==
  /\ Alive
  /\ \/ /\ parsed = "rejected"
        /\ exit_status' = -1
     \/ /\ parsed = "shown" \/ file = "none" \/ outcome \in {"ok", "failed"}
        /\ exit_status' = 0
     \/ /\ outcome = "aborted"
        /\ exit_status' = "assertion"
  /\ UNCHANGED <<vars, commandLine, file>>

MainNext == ParseWord \/ OpenSource \/ Compile \/ Exit

MainSpec == MainInit /\ [][MainNext]_mainVars

-----------------------------------------------------------------------------

(* All short options with letters select their flags and no other word on  *)
(* the command line selects one: see Options.                              *)
LettersSelect == Parse!LettersSelect

(* A command line that is compiled was understood: see Options.            *)
CompiledIsUnderstood == Parse!CompiledIsUnderstood
=================================================================================
