------------------------------ MODULE MainProofs ------------------------------
(***************************************************************************)
(* Proofs about Driver, Options and Main, for any files, programs, names   *)
(* and words and any bounds: a compilation that succeeds is complete, what *)
(* the process does between the command line and its exit is a run of the  *)
(* driver, a command line that is compiled was understood, and the modules *)
(* are checked as if each import were the text of its module.              *)
(***************************************************************************)
EXTENDS Main, Lemmas, FiniteSetTheorems, SequenceTheorems, TLAPS

FrameType ==
  [file : DOMAIN program, phase : {"lexing", "parsing", "begin check", "check"}, next : Nat]

(* The types of the variables.                                             *)
Shape ==
  /\ program \in Programs
  /\ stop_after \in StopAfter
  /\ frames \in Seq(FrameType)
  /\ \A i \in DOMAIN frames :
       frames[i].next \in 1 .. Len(program[frames[i].file].statements) + 1
  /\ IsFiniteSet(declared)
  /\ ambiguous \subseteq declared /\ declared \subseteq Names
  /\ routine \in Nat
  /\ checked \in Seq(DOMAIN program)
  /\ outcome \in {"running", "ok", "failed", "aborted"}

(* The least last phase with which Compile_ comes to a stage.              *)
Wanted ==
  [irgen |-> 4, open |-> 5, select |-> 5, allocate |-> 5, optimize |-> 5, output |-> 5,
   assembling |-> 6, linking |-> 7]

FilesBefore(st) ==
  CASE st = "assembling" -> {"out.s"} [] st = "linking" -> {"out.s", "out.o"} [] OTHER -> {}

(* While it runs, the outermost module is the source, until it has passed  *)
(* without an error; then the stages come in their order.                  *)
Progress ==
  outcome = "running" =>
    IF stage = "modules"
      THEN frames # <<>> /\ frames[1].file = Source /\ made = {}
      ELSE /\ frames = <<>>
           /\ stage \in DOMAIN Wanted
           /\ PhaseOf(stop_after) >= Wanted[stage]
           /\ made = FilesBefore(stage)
           /\ error_count = 0
           /\ checked # <<>> /\ checked[Len(checked)] = Source

(* The loops over the routines stay within their number.                   *)
Routines ==
  /\ routine < RoutineCount
  /\ outcome = "running" /\ stage \notin {"select", "allocate", "optimize"} => routine = 0

MadeFiles == made \subseteq {"out.s", "out.o", "binary"}

IInv == Shape /\ Progress /\ Routines /\ MadeFiles /\ SuccessIsComplete

-----------------------------------------------------------------------------

(* The phases are numbered in their order.                                 *)
LEMMA PhaseNumbers ==
  /\ PhaseOf("lexing") = 1 /\ PhaseOf("parsing") = 2 /\ PhaseOf("check") = 3
  /\ PhaseOf("irgen") = 4 /\ PhaseOf("codegen") = 5 /\ PhaseOf("assembling") = 6
  /\ PhaseOf("linking") = 7
  /\ \A p \in StopAfter :
       p \in {"lexing", "parsing", "check", "irgen", "codegen", "assembling", "linking"}
<1>1. DOMAIN Phases = 1 .. 7
  BY DEF Phases
<1>2. /\ Phases[1] = "lexing" /\ Phases[2] = "parsing" /\ Phases[3] = "check"
      /\ Phases[4] = "irgen" /\ Phases[5] = "codegen" /\ Phases[6] = "assembling"
      /\ Phases[7] = "linking"
  BY DEF Phases
<1>3. \A i \in 1 .. 7 : i = 1 \/ i = 2 \/ i = 3 \/ i = 4 \/ i = 5 \/ i = 6 \/ i = 7
  OBVIOUS
<1>4. ASSUME NEW i \in 1 .. 7
      PROVE  PhaseOf(Phases[i]) = i
  <2>1. \A j \in 1 .. 7 : Phases[j] = Phases[i] => j = i
    BY <1>2, <1>3
  <2>2. \E j \in DOMAIN Phases : Phases[j] = Phases[i]
    BY <1>1
  <2>3. PhaseOf(Phases[i]) \in DOMAIN Phases /\ Phases[PhaseOf(Phases[i])] = Phases[i]
    BY <2>2 DEF PhaseOf
  <2>. QED  BY <1>1, <2>1, <2>3
<1>5. /\ PhaseOf("lexing") = 1 /\ PhaseOf("parsing") = 2 /\ PhaseOf("check") = 3
      /\ PhaseOf("irgen") = 4 /\ PhaseOf("codegen") = 5 /\ PhaseOf("assembling") = 6
      /\ PhaseOf("linking") = 7
  <2>1. 1 \in 1 .. 7 /\ 2 \in 1 .. 7 /\ 3 \in 1 .. 7 /\ 4 \in 1 .. 7 /\ 5 \in 1 .. 7
        /\ 6 \in 1 .. 7 /\ 7 \in 1 .. 7
    OBVIOUS
  <2>. QED  BY <1>2, <1>4, <2>1
<1>6. ASSUME NEW p \in StopAfter
      PROVE  p \in {"lexing", "parsing", "check", "irgen", "codegen", "assembling", "linking"}
  <2>1. PICK i \in 1 .. 7 : p = Phases[i]
    BY <1>1, StopAssumption
  <2>. QED  BY <1>2, <1>3, <2>1
<1>. QED  BY <1>5, <1>6

(* The routines are at least the top level code and sqrt.                  *)
LEMMA RoutineCountIsPositive ==
  ASSUME IsFiniteSet(declared)
  PROVE  RoutineCount \in Nat /\ RoutineCount >= 2
<1>1. IsFiniteSet(declared \ {init_code[i].name : i \in DOMAIN init_code})
  BY FS_Difference
<1>2. Cardinality(declared \ {init_code[i].name : i \in DOMAIN init_code}) \in Nat
  BY <1>1, FS_CardinalityType
<1>. QED  BY <1>2 DEF RoutineCount

(* The files of a compilation that ends after phase p.                     *)
Written(p) ==
  {f \in {"out.s", "out.o", "binary"} :
     PhaseOf(p) >= PhaseOf(CASE f = "out.s" -> "codegen"
                              [] f = "out.o" -> "assembling"
                              [] f = "binary" -> "linking")}

(* The files that are written when a compilation stops after a phase.      *)
LEMMA WrittenFiles ==
  ASSUME NEW p \in StopAfter
  PROVE  /\ PhaseOf(p) \in 1 .. 7
         /\ PhaseOf(p) <= 4 => Written(p) = {}
         /\ p = "codegen" => Written(p) = {"out.s"}
         /\ p = "assembling" => Written(p) = {"out.s", "out.o"}
         /\ p = "linking" => Written(p) = {"out.s", "out.o", "binary"}
<1>1. PhaseOf(p) \in 1 .. 7
  BY PhaseNumbers
<1>2. /\ "out.s" \in Written(p) <=> PhaseOf(p) >= 5
      /\ "out.o" \in Written(p) <=> PhaseOf(p) >= 6
      /\ "binary" \in Written(p) <=> PhaseOf(p) >= 7
      /\ Written(p) \subseteq {"out.s", "out.o", "binary"}
  BY PhaseNumbers DEF Written
<1>. QED  BY <1>1, <1>2, PhaseNumbers

-----------------------------------------------------------------------------
(* The modules.                                                            *)

(* The innermost activation and the text it reads.                         *)
LEMMA AtWork ==
  ASSUME IInv, frames # <<>>
  PROVE  /\ frames \in Seq(FrameType) /\ Len(frames) \in Nat \ {0}
         /\ DOMAIN frames = 1 .. Len(frames)
         /\ Frame = frames[Len(frames)] /\ Frame \in FrameType
         /\ Frame.file \in DOMAIN program
         /\ Text.statements \in Seq(AnyStatement)
         /\ Frame.next \in 1 .. Len(Text.statements) + 1
         /\ Source \in DOMAIN program
         /\ \A f \in DOMAIN program : program[f].statements \in Seq(AnyStatement)
<1>1. /\ frames \in Seq(FrameType) /\ Len(frames) \in Nat \ {0}
      /\ DOMAIN frames = 1 .. Len(frames)
  BY DEF IInv, Shape
<1>2. Frame = frames[Len(frames)] /\ Frame \in FrameType /\ Len(frames) \in DOMAIN frames
  BY <1>1 DEF Frame
<1>3. Frame.file \in DOMAIN program
  BY <1>2 DEF FrameType
<1>4. program \in Programs
  BY DEF IInv, Shape
<1>5. Frame.next \in 1 .. Len(Text.statements) + 1
  BY <1>2 DEF IInv, Shape, Text
<1>. QED  BY <1>1, <1>2, <1>3, <1>4, <1>5, ProgramsAssumption DEF Text

(* The activations after the innermost one changed.                        *)
LEMMA FramesChanged ==
  ASSUME IInv, frames # <<>>, NEW new \in FrameType, new.file = Frame.file,
         new.next \in 1 .. Len(Text.statements) + 1
  PROVE  LET fs == [frames EXCEPT ![Len(frames)] = new]
         IN  /\ fs \in Seq(FrameType) /\ Len(fs) = Len(frames) /\ fs # <<>>
             /\ \A i \in DOMAIN fs :
                  fs[i].next \in 1 .. Len(program[fs[i].file].statements) + 1
             /\ fs[1].file = frames[1].file
<1> DEFINE fs == [frames EXCEPT ![Len(frames)] = new]
<1>1. /\ fs \in Seq(FrameType) /\ Len(fs) = Len(frames) /\ fs # <<>>
      /\ DOMAIN fs = DOMAIN frames /\ 1 \in DOMAIN frames
      /\ \A i \in DOMAIN fs : fs[i] = IF i = Len(frames) THEN new ELSE frames[i]
  BY AtWork
<1>. HIDE DEF fs
<1>2. ASSUME NEW i \in DOMAIN fs
      PROVE  /\ fs[i].next \in 1 .. Len(program[fs[i].file].statements) + 1
             /\ fs[i].file = frames[i].file
  <2>1. CASE i = Len(frames)
    BY <1>1, <2>1, AtWork DEF Text
  <2>2. CASE i # Len(frames)
    BY <1>1, <2>2 DEF IInv, Shape
  <2>. QED  BY <2>1, <2>2
<1>. QED  BY <1>1, <1>2 DEF fs

(* A step of the modules that leaves their activations running.            *)
LEMMA ModulesGoOn ==
  ASSUME IInv, Running, frames # <<>>,
         UNCHANGED <<inputs, backEnd, stage, outcome, checked>>,
         frames' \in Seq(FrameType), frames' # <<>>, frames'[1].file = Source,
         \A i \in DOMAIN frames' :
           frames'[i].next \in 1 .. Len(program[frames'[i].file].statements) + 1,
         IsFiniteSet(declared'), declared' \subseteq Names, ambiguous' \subseteq declared'
  PROVE  IInv'
<1>1. /\ outcome = "running" /\ outcome' = "running" /\ stage = "modules"
      /\ stage' = "modules" /\ made = {} /\ made' = {} /\ routine = 0 /\ routine' = 0
      /\ UNCHANGED <<program, stop_after, checked>>
  BY DEF IInv, Progress, Running, Routines, inputs, backEnd
<1>2. Shape'
  BY <1>1 DEF IInv, Shape, FrameType
<1>3. Progress' /\ MadeFiles' /\ SuccessIsComplete'
  BY <1>1 DEF Progress, MadeFiles, SuccessIsComplete
<1>4. Routines'
  <2>1. RoutineCount' \in Nat /\ RoutineCount' >= 2
    <3>1. IsFiniteSet(declared' \ {init_code'[i].name : i \in DOMAIN init_code'})
      BY FS_Difference
    <3>2. Cardinality(declared' \ {init_code'[i].name : i \in DOMAIN init_code'}) \in Nat
      BY <3>1, FS_CardinalityType
    <3>. QED  BY <3>2 DEF RoutineCount
  <2>. QED  BY <1>1, <2>1 DEF Routines
<1>. QED  BY <1>2, <1>3, <1>4 DEF IInv

(* CompileModule returns.                                                  *)
LEMMA ReturnKeeps ==
  ASSUME IInv, Running, frames # <<>>, UNCHANGED <<inputs, backEnd, symbols>>,
         NEW success \in BOOLEAN, NEW code, Return(success, code),
         success => error_count' = 0 /\ code = "ok"
  PROVE  IInv'
<1> DEFINE rest == SubSeq(frames, 1, Len(frames) - 1)
<1>1. /\ outcome = "running" /\ stage = "modules" /\ made = {} /\ routine = 0
      /\ frames[1].file = Source
      /\ UNCHANGED <<program, stop_after, made, routine, init_code, declared, ambiguous>>
  BY DEF IInv, Progress, Running, Routines, inputs, backEnd, symbols
<1>2. /\ result' = code
      /\ frames' = rest
      /\ checked' = IF success THEN Append(checked, Frame.file) ELSE checked
      /\ rest # <<>> => UNCHANGED <<stage, outcome>>
      /\ rest = <<>> =>
           /\ stage' = IF success /\ ~ (PhaseOf(stop_after) <= PhaseOf("check"))
                       THEN "irgen" ELSE "done"
           /\ outcome' = IF ~ success THEN "failed"
                         ELSE IF PhaseOf(stop_after) <= PhaseOf("check") THEN "ok" ELSE outcome
  BY DEF Return
<1>3. /\ rest \in Seq(FrameType) /\ Len(rest) = Len(frames) - 1
      /\ DOMAIN rest = 1 .. Len(frames) - 1
      /\ \A i \in DOMAIN rest : i \in DOMAIN frames /\ rest[i] = frames[i]
  <2>1. /\ rest \in Seq(FrameType) /\ Len(rest) = Len(frames) - 1
        /\ \A i \in 1 .. Len(frames) - 1 : rest[i] = frames[i]
    BY AtWork
  <2>2. Len(frames) \in Nat /\ DOMAIN frames = 1 .. Len(frames)
    BY AtWork
  <2>. HIDE DEF rest
  <2>. QED  BY <2>1, <2>2
<1>. HIDE DEF rest
<1>4. stop_after \in StopAfter /\ PhaseOf("check") = 3 /\ PhaseOf(stop_after) \in 1 .. 7
  BY WrittenFiles, PhaseNumbers DEF IInv, Shape
<1>5. Shape'
  <2>1. checked' \in Seq(DOMAIN program)
    <3>1. checked \in Seq(DOMAIN program) /\ Frame.file \in DOMAIN program
      BY AtWork DEF IInv, Shape
    <3>2. Append(checked, Frame.file) \in Seq(DOMAIN program)
      BY <3>1
    <3>. QED  BY <1>2, <3>1, <3>2
  <2>2. outcome' \in {"running", "ok", "failed", "aborted"}
    BY <1>1, <1>2
  <2>3. \A i \in DOMAIN frames' :
          frames'[i].next \in 1 .. Len(program[frames'[i].file].statements) + 1
    BY <1>2, <1>3 DEF IInv, Shape
  <2>. QED  BY <1>1, <1>2, <1>3, <2>1, <2>2, <2>3 DEF IInv, Shape, FrameType
<1>6. success /\ rest = <<>> => /\ error_count' = 0 /\ checked' # <<>>
                                /\ checked'[Len(checked')] = Source
  <2>. SUFFICES ASSUME success, rest = <<>>
                PROVE  checked' # <<>> /\ checked'[Len(checked')] = Source
    OBVIOUS
  <2>1. Len(frames) = 1 /\ Frame.file = Source
    <3>1. Len(rest) = 0 /\ Len(frames) \in Nat
      BY AtWork
    <3>2. Len(frames) = 1
      BY <1>3, <3>1
    <3>. QED  BY <1>1, <3>2, AtWork
  <2>2. checked \in Seq(DOMAIN program) /\ Source \in DOMAIN program
    BY AtWork DEF IInv, Shape
  <2>. QED  BY <1>2, <2>1, <2>2
<1>7. Progress'
  <2>1. CASE rest # <<>>
    <3>1. 1 \in DOMAIN rest
      BY <1>3, <2>1
    <3>. QED  BY <1>1, <1>2, <1>3, <2>1, <3>1 DEF Progress
  <2>2. CASE rest = <<>> /\ success /\ ~ (PhaseOf(stop_after) <= 3)
    BY <1>1, <1>2, <1>4, <1>6, <2>2 DEF Progress, Wanted, FilesBefore
  <2>3. CASE rest = <<>> /\ ~ (success /\ ~ (PhaseOf(stop_after) <= 3))
    BY <1>1, <1>2, <1>4, <2>3 DEF Progress
  <2>. QED  BY <2>1, <2>2, <2>3
<1>8. SuccessIsComplete'
  <2>. SUFFICES ASSUME outcome' = "ok"
                PROVE  SuccessIsComplete'
    BY DEF SuccessIsComplete
  <2>1. rest = <<>> /\ success /\ PhaseOf(stop_after) <= 3
    BY <1>1, <1>2, <1>4
  <2>2. Written(stop_after) = {} /\ made' = {} /\ stop_after' = stop_after
    BY <1>1, <1>4, <2>1, WrittenFiles
  <2>. QED  BY <1>2, <1>6, <2>1, <2>2, SMTT(30) DEF SuccessIsComplete, Written
<1>9. Routines' /\ MadeFiles'
  <2>1. RoutineCount' = RoutineCount
    BY <1>1 DEF RoutineCount
  <2>. QED  BY <1>1, <2>1 DEF IInv, Routines, MadeFiles
<1>. QED  BY <1>5, <1>7, <1>8, <1>9 DEF IInv

(* A phase of a module ends with errors or goes on.                        *)
LEMMA PhaseDoneKeeps ==
  ASSUME IInv, Running, frames # <<>>, UNCHANGED <<inputs, backEnd, symbols>>,
         NEW found, NEW failure, NEW next \in {"parsing", "begin check"},
         PhaseDone(found, failure, next)
  PROVE  IInv'
<1>1. CASE HasError(error_count + found)
  <2>1. Return(FALSE, failure)
    BY <1>1 DEF PhaseDone
  <2>. QED  BY <2>1, ReturnKeeps
<1>2. CASE ~ HasError(error_count + found) /\ stop_after = Frame.phase
  <2>1. Return(TRUE, "ok") /\ error_count' = 0
    BY <1>2 DEF PhaseDone, HasError
  <2>. QED  BY <2>1, ReturnKeeps
<1>3. CASE ~ HasError(error_count + found) /\ stop_after # Frame.phase
  <2>. DEFINE new == [frames[Len(frames)] EXCEPT !.phase = next]
  <2>1. /\ frames' = [frames EXCEPT ![Len(frames)] = new]
        /\ UNCHANGED <<result, checked, stage, outcome>>
    BY <1>3 DEF PhaseDone
  <2>2. /\ new \in FrameType /\ new.file = Frame.file
        /\ new.next \in 1 .. Len(Text.statements) + 1
    <3>1. /\ Frame \in FrameType /\ Frame = frames[Len(frames)]
          /\ Frame.next \in 1 .. Len(Text.statements) + 1
      BY AtWork
    <3>. QED  BY <3>1 DEF FrameType
  <2>. HIDE DEF new
  <2>3. /\ frames' \in Seq(FrameType) /\ frames' # <<>>
        /\ \A i \in DOMAIN frames' :
             frames'[i].next \in 1 .. Len(program[frames'[i].file].statements) + 1
        /\ frames'[1].file = frames[1].file
    BY <2>1, <2>2, FramesChanged
  <2>4. frames[1].file = Source
    BY DEF IInv, Progress, Running
  <2>5. /\ IsFiniteSet(declared') /\ declared' \subseteq Names /\ ambiguous' \subseteq declared'
    BY DEF IInv, Shape, symbols
  <2>. QED  BY <2>1, <2>3, <2>4, <2>5, ModulesGoOn
<1>. QED  BY <1>1, <1>2, <1>3

(* A failed assertion ends the compilation without success.                *)
LEMMA AbortKeeps ==
  ASSUME IInv, Abort
  PROVE  IInv'
<1>1. /\ outcome' = "aborted"
      /\ UNCHANGED <<program, stop_after, modules, frames, declared, ambiguous, error_count,
                     checked, init_code, routine, made, stage>>
  BY DEF Abort, inputs, moduleState, symbols, backEnd
<1>2. Shape'
  BY <1>1 DEF IInv, Shape, FrameType
<1>3. Progress' /\ MadeFiles' /\ SuccessIsComplete'
  BY <1>1 DEF IInv, Progress, MadeFiles, SuccessIsComplete
<1>4. Routines'
  BY <1>1 DEF IInv, Routines, RoutineCount
<1>. QED  BY <1>2, <1>3, <1>4 DEF IInv

(* Lexing and parsing change the frame of their module alone.              *)
LEMMA LexAndParseKeeps ==
  ASSUME IInv, LexModule \/ ParseModule
  PROVE  IInv'
<1>1. Running /\ frames # <<>>
  BY DEF LexModule, ParseModule
<1>2. CASE Abort
  BY <1>2, AbortKeeps
<1>3. CASE ~ Abort
  <2>1. UNCHANGED <<inputs, backEnd, symbols>>
    BY <1>3 DEF LexModule, ParseModule, LexAndParse
  <2>2. CASE LexModule
    <3>1. PhaseDone(IF ~ Text.lexes THEN 1 ELSE 0, "lexing failed", "parsing")
      BY <1>3, <2>2 DEF LexModule, LexAndParse
    <3>. QED  BY <1>1, <2>1, <3>1, PhaseDoneKeeps
  <2>3. CASE ParseModule
    <3>1. PhaseDone(IF ~ Text.parses THEN 1 ELSE 0, "parsing failed", "begin check")
      BY <1>3, <2>3 DEF ParseModule, LexAndParse
    <3>. QED  BY <1>1, <2>1, <3>1, PhaseDoneKeeps
  <2>. QED  BY <2>2, <2>3
<1>. QED  BY <1>2, <1>3

(* The check of a module starts at its first statement.                    *)
LEMMA BeginCheckKeeps ==
  ASSUME IInv, BeginCheck
  PROVE  IInv'
<1>1. CASE Abort
  BY <1>1, AbortKeeps
<1>2. CASE ~ Abort
  <2>. DEFINE new == [frames[Len(frames)] EXCEPT !.phase = "check"]
  <2>1. /\ Running /\ frames # <<>>
        /\ frames' = [frames EXCEPT ![Len(frames)] = new]
        /\ UNCHANGED <<inputs, symbols, checked, stage, backEnd, outcome>>
    BY <1>2 DEF BeginCheck
  <2>2. /\ new \in FrameType /\ new.file = Frame.file
        /\ new.next \in 1 .. Len(Text.statements) + 1
    <3>1. /\ Frame \in FrameType /\ Frame = frames[Len(frames)]
          /\ Frame.next \in 1 .. Len(Text.statements) + 1
      BY <2>1, AtWork
    <3>. QED  BY <3>1 DEF FrameType
  <2>. HIDE DEF new
  <2>3. /\ frames' \in Seq(FrameType) /\ frames' # <<>>
        /\ \A i \in DOMAIN frames' :
             frames'[i].next \in 1 .. Len(program[frames'[i].file].statements) + 1
        /\ frames'[1].file = frames[1].file
    BY <2>1, <2>2, FramesChanged
  <2>4. frames[1].file = Source
    BY <2>1 DEF IInv, Progress, Running
  <2>5. /\ IsFiniteSet(declared') /\ declared' \subseteq Names /\ ambiguous' \subseteq declared'
    BY <2>1 DEF IInv, Shape, symbols
  <2>. QED  BY <2>1, <2>3, <2>4, <2>5, ModulesGoOn
<1>. QED  BY <1>1, <1>2

(* The statement at hand, and the activations after it.                    *)
LEMMA AtStatement ==
  ASSUME IInv, Checking, HasStatement
  PROVE  /\ Running /\ frames # <<>>
         /\ Statement \in AnyStatement
         /\ Advanced \in Seq(FrameType) /\ Advanced # <<>> /\ Len(Advanced) \in Nat \ {0}
         /\ \A i \in DOMAIN Advanced :
              Advanced[i].next \in 1 .. Len(program[Advanced[i].file].statements) + 1
         /\ Advanced[1].file = Source
<1> DEFINE new == [frames[Len(frames)] EXCEPT !.next = @ + 1]
<1>1. Running /\ frames # <<>> /\ Frame.next <= Len(Text.statements)
  BY DEF Checking, HasStatement
<1>2. /\ Frame \in FrameType /\ Frame = frames[Len(frames)]
      /\ Frame.next \in 1 .. Len(Text.statements) + 1
      /\ Text.statements \in Seq(AnyStatement) /\ Len(Text.statements) \in Nat
  BY <1>1, AtWork
<1>3. Statement \in AnyStatement
  BY <1>1, <1>2 DEF Statement
<1>4. /\ new \in FrameType /\ new.file = Frame.file
      /\ new.next \in 1 .. Len(Text.statements) + 1
  <2>1. /\ Frame.next + 1 \in Nat
        /\ Frame.next + 1 \in 1 .. Len(Text.statements) + 1
    BY <1>1, <1>2
  <2>. QED  BY <1>2, <2>1 DEF FrameType
<1>5. Advanced = [frames EXCEPT ![Len(frames)] = new]
  BY DEF Advanced
<1>. HIDE DEF new
<1>6. /\ Advanced \in Seq(FrameType) /\ Advanced # <<>>
      /\ \A i \in DOMAIN Advanced :
           Advanced[i].next \in 1 .. Len(program[Advanced[i].file].statements) + 1
      /\ Advanced[1].file = frames[1].file
  BY <1>1, <1>4, <1>5, FramesChanged
<1>7. frames[1].file = Source
  BY <1>1 DEF IInv, Progress, Running
<1>. QED  BY <1>1, <1>3, <1>6, <1>7

(* An import suspends the check of its importer, or is found loaded.       *)
LEMMA CheckImportKeeps ==
  ASSUME IInv, CheckImport
  PROVE  IInv'
<1>1. /\ Checking /\ HasStatement
      /\ UNCHANGED <<inputs, symbols, checked, stage, backEnd, outcome>>
  BY DEF CheckImport
<1>2. /\ IsFiniteSet(declared') /\ declared' \subseteq Names /\ ambiguous' \subseteq declared'
  BY <1>1 DEF IInv, Shape, symbols
<1>3. CASE frames' = Advanced
  BY <1>1, <1>2, <1>3, AtStatement, ModulesGoOn
<1>4. CASE frames' # Advanced
  <2>. DEFINE new == NewFrame(Statement.name)
  <2>1. /\ Statement.name \in DOMAIN program
        /\ frames' = Append(Advanced, new)
    BY <1>4 DEF CheckImport
  <2>2. /\ Advanced \in Seq(FrameType) /\ Len(Advanced) \in Nat \ {0}
        /\ \A i \in DOMAIN Advanced :
             Advanced[i].next \in 1 .. Len(program[Advanced[i].file].statements) + 1
        /\ Advanced[1].file = Source
        /\ Running /\ frames # <<>>
    BY <1>1, AtStatement
  <2>3. /\ new \in FrameType /\ new.file = Statement.name /\ new.next = 1
    BY <2>1 DEF NewFrame, FrameType
  <2>4. Len(program[Statement.name].statements) \in Nat
    <3>1. program[Statement.name].statements \in Seq(AnyStatement)
      BY <2>1, <2>2, AtWork
    <3>. QED  BY <3>1
  <2>. HIDE DEF new
  <2>5. /\ frames' \in Seq(FrameType) /\ frames' # <<>> /\ frames'[1] = Advanced[1]
        /\ \A i \in DOMAIN frames' :
             frames'[i] = IF i = Len(Advanced) + 1 THEN new ELSE Advanced[i]
        /\ \A i \in DOMAIN frames' : i # Len(Advanced) + 1 => i \in DOMAIN Advanced
    BY <2>1, <2>2, <2>3
  <2>6. ASSUME NEW i \in DOMAIN frames'
        PROVE  frames'[i].next \in 1 .. Len(program[frames'[i].file].statements) + 1
    <3>1. CASE i = Len(Advanced) + 1
      BY <2>3, <2>4, <2>5, <3>1
    <3>2. CASE i # Len(Advanced) + 1
      BY <2>2, <2>5, <3>2
    <3>. QED  BY <3>1, <3>2
  <2>7. frames'[1].file = Source
    BY <2>2, <2>5
  <2>. QED  BY <1>1, <1>2, <2>2, <2>5, <2>6, <2>7, ModulesGoOn
<1>. QED  BY <1>3, <1>4

(* A definition adds its name to those declared.                           *)
LEMMA CheckDefinitionKeeps ==
  ASSUME IInv, CheckFunction \/ CheckVariable
  PROVE  IInv'
<1>1. /\ Checking /\ HasStatement /\ Statement.kind \in {"function", "variable"}
      /\ frames' = Advanced /\ declared' = declared \cup {Statement.name}
      /\ ambiguous' \subseteq ambiguous \cup ({Statement.name} \cap declared)
      /\ UNCHANGED <<inputs, checked, stage, backEnd, outcome>>
  BY DEF CheckFunction, CheckVariable
<1>2. Statement.name \in Names
  <2>1. Statement \in AnyStatement
    BY <1>1, AtStatement
  <2>. QED  BY <1>1, <2>1 DEF AnyStatement
<1>3. IsFiniteSet(declared')
  BY <1>1, FS_AddElement DEF IInv, Shape
<1>4. declared' \subseteq Names /\ ambiguous' \subseteq declared'
  BY <1>1, <1>2 DEF IInv, Shape
<1>. QED  BY <1>1, <1>3, <1>4, AtStatement, ModulesGoOn

(* A module that is checked is left, and its importer goes on.             *)
LEMMA CheckDoneKeeps ==
  ASSUME IInv, CheckDone
  PROVE  IInv'
<1>1. Running /\ frames # <<>> /\ UNCHANGED <<inputs, backEnd, symbols>>
  BY DEF CheckDone, Checking
<1>2. CASE HasError(error_count)
  BY <1>1, <1>2, ReturnKeeps DEF CheckDone
<1>3. CASE ~ HasError(error_count)
  BY <1>1, <1>3, ReturnKeeps DEF CheckDone, HasError
<1>. QED  BY <1>2, <1>3

-----------------------------------------------------------------------------
(* The back end.                                                           *)

(* A stage that goes on, with the next one or the end of the compilation.  *)
LEMMA StageGoesOn ==
  ASSUME IInv, Running, stage # "modules",
         UNCHANGED <<inputs, moduleState>>,
         NEW phase \in {"irgen", "codegen", "assembling", "linking"}, NEW next,
         GoOn(phase, next),
         PhaseOf(stop_after) >= PhaseOf(phase),
         made' = Written(phase),
         phase # "linking" =>
           /\ next \in DOMAIN Wanted \ {"select", "allocate", "optimize"}
           /\ Wanted[next] = PhaseOf(phase) + 1
           /\ FilesBefore(next) = Written(phase),
         routine' = routine,
         RoutineCount' \in Nat, RoutineCount' >= 2, routine = 0
  PROVE  IInv'
<1>1. /\ frames = <<>> /\ error_count = 0
      /\ checked # <<>> /\ checked[Len(checked)] = Source
      /\ UNCHANGED <<program, stop_after, frames, error_count, checked, declared, ambiguous>>
      /\ stop_after \in StopAfter
  BY DEF IInv, Progress, Running, inputs, moduleState, symbols, Shape
<1>2. Shape'
  <2>1. outcome' \in {"running", "ok", "failed", "aborted"}
    BY DEF IInv, Shape, GoOn
  <2>. QED  BY <1>1, <2>1 DEF IInv, Shape, FrameType
<1>3. Routines' /\ MadeFiles'
  <2>1. made' \subseteq {"out.s", "out.o", "binary"}
    BY DEF Written
  <2>. QED  BY <2>1 DEF Routines, MadeFiles
<1>4. CASE stop_after = phase
  <2>1. outcome' = "ok" /\ result' = "ok"
    BY <1>4 DEF GoOn
  <2>. QED  BY <1>1, <1>2, <1>3, <1>4, <2>1 DEF IInv, Progress, SuccessIsComplete, Written
<1>5. CASE stop_after # phase
  <2>1. stage' = next /\ outcome' = "running"
    BY <1>5 DEF GoOn, Running
  <2>2. phase # "linking" /\ PhaseOf(stop_after) >= PhaseOf(phase) + 1
    BY <1>1, <1>5, PhaseNumbers
  <2>3. Progress'
    <3>1. next # "modules"
      BY <2>2 DEF Wanted
    <3>. QED  BY <1>1, <2>1, <2>2, <3>1 DEF Progress
  <2>. QED  BY <1>2, <1>3, <2>1, <2>3 DEF IInv, SuccessIsComplete
<1>. QED  BY <1>4, <1>5

(* A stage that fails.                                                     *)
LEMMA StageFails ==
  ASSUME IInv, UNCHANGED <<inputs, moduleState, init_code, routine, made>>, outcome' = "failed"
  PROVE  IInv'
<1>1. UNCHANGED <<program, stop_after, frames, error_count, checked, declared, ambiguous>>
  BY DEF inputs, moduleState, symbols
<1>2. Shape'
  BY <1>1 DEF IInv, Shape, FrameType
<1>3. Progress' /\ MadeFiles' /\ SuccessIsComplete'
  BY DEF IInv, Progress, MadeFiles, SuccessIsComplete
<1>4. Routines'
  BY <1>1 DEF IInv, Routines, RoutineCount
<1>. QED  BY <1>2, <1>3, <1>4 DEF IInv

(* A step within a stage or to the next that changes no file.              *)
LEMMA StageSteps ==
  ASSUME IInv, Running, stage # "modules",
         UNCHANGED <<inputs, moduleState, init_code, made, outcome>>,
         stage \in {"open", "select", "allocate", "optimize"},
         stage' \in {"select", "allocate", "optimize", "output"},
         routine' \in Nat, routine' < RoutineCount,
         stage' = "output" => routine' = 0
  PROVE  IInv'
<1>1. /\ UNCHANGED <<program, stop_after, frames, error_count, checked, declared, ambiguous>>
      /\ outcome = "running"
  BY DEF inputs, moduleState, symbols, Running
<1>2. Shape'
  BY <1>1 DEF IInv, Shape, FrameType
<1>3. MadeFiles' /\ SuccessIsComplete'
  BY <1>1 DEF IInv, MadeFiles, SuccessIsComplete
<1>4. Progress'
  BY <1>1 DEF IInv, Progress, Wanted, FilesBefore
<1>5. Routines'
  <2>1. RoutineCount' = RoutineCount
    BY <1>1 DEF RoutineCount
  <2>. QED  BY <1>1, <2>1 DEF IInv, Routines
<1>. QED  BY <1>2, <1>3, <1>4, <1>5 DEF IInv

(* Lowering starts when every module is checked without an error.          *)
LEMMA IrGenKeeps ==
  ASSUME IInv, IrGen
  PROVE  IInv'
<1>1. CASE Abort
  BY <1>1, AbortKeeps
<1>2. CASE ~ Abort
  <2>1. /\ Running /\ stage = "irgen" /\ GoOn("irgen", "open")
        /\ UNCHANGED <<inputs, moduleState, routine, made>>
    BY <1>2 DEF IrGen
  <2>2. /\ made = {} /\ routine = 0 /\ PhaseOf(stop_after) >= 4
    BY <2>1 DEF IInv, Progress, Running, Wanted, FilesBefore, Routines
  <2>3. PhaseOf("irgen") = 4 /\ Written("irgen") = {}
    <3>1. PhaseOf("irgen") = 4
      BY PhaseNumbers
    <3>. QED  BY <3>1, PhaseNumbers DEF Written
  <2>4. RoutineCount' \in Nat /\ RoutineCount' >= 2
    <3>1. IsFiniteSet(declared')
      BY <2>1 DEF IInv, Shape, moduleState, symbols
    <3>2. IsFiniteSet(declared' \ {init_code'[i].name : i \in DOMAIN init_code'})
      BY <3>1, FS_Difference
    <3>3. Cardinality(declared' \ {init_code'[i].name : i \in DOMAIN init_code'}) \in Nat
      BY <3>2, FS_CardinalityType
    <3>. QED  BY <3>3 DEF RoutineCount
  <2>5. /\ "open" \in DOMAIN Wanted \ {"select", "allocate", "optimize"}
        /\ Wanted["open"] = 5 /\ FilesBefore("open") = {}
    BY DEF Wanted, FilesBefore
  <2>. QED  BY <2>1, <2>2, <2>3, <2>4, <2>5, StageGoesOn
<1>. QED  BY <1>1, <1>2

(* The output is opened before anything is selected, or the compilation    *)
(* fails.                                                                  *)
LEMMA OpenOutputKeeps ==
  ASSUME IInv, NEW opens \in BOOLEAN, OpenOutput(opens)
  PROVE  IInv'
<1>1. CASE Abort
  BY <1>1, AbortKeeps
<1>2. CASE ~ Abort
  <2>1. /\ Running /\ stage = "open"
        /\ UNCHANGED <<inputs, moduleState, init_code, routine, made>>
        /\ \/ stage' = "select" /\ UNCHANGED outcome
           \/ outcome' = "failed"
    BY <1>2 DEF OpenOutput, Fail, backEnd
  <2>2. routine = 0 /\ 0 < RoutineCount
    BY <2>1 DEF IInv, Running, Routines
  <2>. QED  BY <2>1, <2>2, StageSteps, StageFails
<1>. QED  BY <1>1, <1>2

(* The loops of code generation go over every routine, one after the       *)
(* other.                                                                  *)
LEMMA GenerateRoutineKeeps ==
  ASSUME IInv, NEW i \in DOMAIN Loops, GenerateRoutine(i)
  PROVE  IInv'
<1>1. CASE Abort
  BY <1>1, AbortKeeps
<1>2. CASE ~ Abort
  <2>1. /\ Running /\ stage = Loops[i]
        /\ routine' = IF IsLastRoutine THEN 0 ELSE routine + 1
        /\ stage' = IF ~ IsLastRoutine THEN stage
                    ELSE IF i < Len(Loops) THEN Loops[i + 1] ELSE "output"
        /\ UNCHANGED <<inputs, moduleState, init_code, made, outcome>>
    BY <1>2 DEF GenerateRoutine
  <2>2. /\ i \in {1, 2, 3} /\ Len(Loops) = 3
        /\ Loops[1] = "select" /\ Loops[2] = "allocate" /\ Loops[3] = "optimize"
    BY DEF Loops
  <2>3. /\ stage \in {"select", "allocate", "optimize"}
        /\ stage' \in {"select", "allocate", "optimize", "output"}
        /\ stage' = "output" => IsLastRoutine
    BY <2>1, <2>2
  <2>4. routine \in Nat /\ RoutineCount \in Nat /\ RoutineCount >= 2 /\ routine < RoutineCount
    BY RoutineCountIsPositive DEF IInv, Shape, Routines
  <2>5. routine' \in Nat /\ routine' < RoutineCount /\ (IsLastRoutine => routine' = 0)
    BY <2>1, <2>4 DEF IsLastRoutine
  <2>. QED  BY <2>1, <2>3, <2>5, StageSteps
<1>. QED  BY <1>1, <1>2

(* The assembly text is written after the last loop.                       *)
LEMMA OutputCodeKeeps ==
  ASSUME IInv, OutputCode
  PROVE  IInv'
<1>1. /\ Running /\ stage = "output" /\ GoOn("codegen", "assembling")
      /\ made' = made \cup {"out.s"}
      /\ UNCHANGED <<inputs, moduleState, init_code, routine>>
  BY DEF OutputCode
<1>2. /\ made = {} /\ routine = 0 /\ PhaseOf(stop_after) >= 5
  BY <1>1 DEF IInv, Progress, Running, Wanted, FilesBefore, Routines
<1>3. PhaseOf("codegen") = 5 /\ Written("codegen") = {"out.s"}
  <2>1. PhaseOf("codegen") = 5
    BY PhaseNumbers
  <2>. QED  BY <2>1, PhaseNumbers DEF Written
<1>4. RoutineCount' \in Nat /\ RoutineCount' >= 2
  <2>1. RoutineCount' = RoutineCount
    BY <1>1 DEF RoutineCount, moduleState, symbols
  <2>. QED  BY <2>1, RoutineCountIsPositive DEF IInv, Shape
<1>5. /\ "assembling" \in DOMAIN Wanted \ {"select", "allocate", "optimize"}
      /\ Wanted["assembling"] = 6 /\ FilesBefore("assembling") = {"out.s"}
  BY DEF Wanted, FilesBefore
<1>. QED  BY <1>1, <1>2, <1>3, <1>4, <1>5, StageGoesOn

(* A tool makes its file, or the compilation fails.                        *)
LEMMA ToolKeeps ==
  ASSUME IInv, NEW succeeds \in BOOLEAN, Assemble(succeeds) \/ Link(succeeds)
  PROVE  IInv'
<1>1. CASE Abort
  BY <1>1, AbortKeeps
<1>2. CASE ~ Abort /\ outcome' = "failed"
  <2>1. CASE succeeds
    <3>1. outcome' = "ok" \/ outcome' = outcome
      BY <1>2, <2>1 DEF Assemble, Link, Tool, GoOn
    <3>2. outcome = "running"
      BY DEF Assemble, Link, Tool, Running
    <3>. QED  BY <1>2, <3>1, <3>2
  <2>2. CASE ~ succeeds
    <3>1. UNCHANGED <<inputs, moduleState, init_code, routine, made>>
      BY <1>2, <2>2 DEF Assemble, Link, Tool
    <3>. QED  BY <1>2, <3>1, StageFails
  <2>. QED  BY <2>1, <2>2
<1>3. CASE ~ Abort /\ outcome' # "failed"
  <2>1. RoutineCount' \in Nat /\ RoutineCount' >= 2
    <3>1. RoutineCount' = RoutineCount
      BY <1>3 DEF Assemble, Link, Tool, RoutineCount, moduleState, symbols
    <3>. QED  BY <3>1, RoutineCountIsPositive DEF IInv, Shape
  <2>2. CASE Assemble(succeeds)
    <3>1. /\ Running /\ stage = "assembling" /\ GoOn("assembling", "linking")
          /\ made' = made \cup {"out.o"}
          /\ UNCHANGED <<inputs, moduleState, init_code, routine>>
      BY <1>3, <2>2 DEF Assemble, Tool, Fail
    <3>2. /\ made = {"out.s"} /\ routine = 0 /\ PhaseOf(stop_after) >= 6
      BY <3>1 DEF IInv, Progress, Running, Wanted, FilesBefore, Routines
    <3>3. PhaseOf("assembling") = 6 /\ Written("assembling") = {"out.s", "out.o"}
      <4>1. PhaseOf("assembling") = 6
        BY PhaseNumbers
      <4>. QED  BY <4>1, PhaseNumbers DEF Written
    <3>4. /\ "linking" \in DOMAIN Wanted \ {"select", "allocate", "optimize"}
          /\ Wanted["linking"] = 7 /\ FilesBefore("linking") = {"out.s", "out.o"}
      BY DEF Wanted, FilesBefore
    <3>5. made' = Written("assembling")
      BY <3>1, <3>2, <3>3
    <3>. QED  BY <2>1, <3>1, <3>2, <3>3, <3>4, <3>5, StageGoesOn
  <2>3. CASE Link(succeeds)
    <3>1. /\ Running /\ stage = "linking" /\ GoOn("linking", "done")
          /\ made' = made \cup {"binary"}
          /\ UNCHANGED <<inputs, moduleState, init_code, routine>>
      BY <1>3, <2>3 DEF Link, Tool, Fail
    <3>2. /\ made = {"out.s", "out.o"} /\ routine = 0 /\ PhaseOf(stop_after) >= 7
      BY <3>1 DEF IInv, Progress, Running, Wanted, FilesBefore, Routines
    <3>3. PhaseOf("linking") = 7 /\ Written("linking") = {"out.s", "out.o", "binary"}
      <4>1. PhaseOf("linking") = 7
        BY PhaseNumbers
      <4>. QED  BY <4>1, PhaseNumbers DEF Written
    <3>4. made' = Written("linking")
      BY <3>1, <3>2, <3>3
    <3>. QED  BY <2>1, <3>1, <3>2, <3>3, <3>4, StageGoesOn
  <2>. QED  BY <2>2, <2>3
<1>. QED  BY <1>1, <1>2, <1>3

-----------------------------------------------------------------------------
(* The invariant of the driver, and what follows from it.                  *)

(* A compilation begins with the invariant.                                *)
LEMMA InitEstablishes ==
  ASSUME Init
  PROVE  IInv
<1>1. PICK contents \in Programs, phase \in StopAfter : Start(contents, phase)
  BY DEF Init
<1>2. /\ program = contents /\ stop_after = phase /\ declared = {} /\ ambiguous = {}
      /\ routine = 0 /\ checked = <<>> /\ made = {} /\ outcome = "running"
      /\ stage = "modules" /\ frames = <<NewFrame(Source)>>
  BY <1>1 DEF Start
<1>3. /\ Source \in DOMAIN program
      /\ Len(program[Source].statements) \in Nat
  <2>1. Source \in DOMAIN program /\ program[Source].statements \in Seq(AnyStatement)
    BY <1>2, ProgramsAssumption
  <2>. QED  BY <2>1
<1>4. /\ NewFrame(Source) \in FrameType /\ NewFrame(Source).file = Source
      /\ NewFrame(Source).next = 1
  BY <1>3 DEF NewFrame, FrameType
<1>5. /\ frames \in Seq(FrameType) /\ frames # <<>> /\ DOMAIN frames = {1}
      /\ frames[1] = NewFrame(Source)
  BY <1>2, <1>4
<1>6. IsFiniteSet(declared)
  BY <1>2, FS_EmptySet
<1>7. Shape
  BY <1>2, <1>3, <1>4, <1>5, <1>6 DEF Shape
<1>8. Routines
  <2>1. RoutineCount \in Nat /\ RoutineCount >= 2
    BY <1>6, RoutineCountIsPositive
  <2>. QED  BY <1>2, <2>1 DEF Routines
<1>9. Progress /\ MadeFiles /\ SuccessIsComplete
  BY <1>2, <1>4, <1>5 DEF Progress, MadeFiles, SuccessIsComplete
<1>. QED  BY <1>7, <1>8, <1>9 DEF IInv

(* Each step of the driver keeps the invariant.                            *)
LEMMA NextKeeps ==
  ASSUME IInv, [Next]_vars
  PROVE  IInv'
<1>1. CASE LexModule \/ ParseModule \/ BeginCheck
  BY <1>1, LexAndParseKeeps, BeginCheckKeeps
<1>2. CASE CheckImport \/ CheckFunction \/ CheckVariable \/ CheckDone
  BY <1>2, CheckImportKeeps, CheckDefinitionKeeps, CheckDoneKeeps
<1>3. CASE BackEnd
  <2>1. CASE IrGen \/ OutputCode
    BY <2>1, IrGenKeeps, OutputCodeKeeps
  <2>2. CASE \E b \in BOOLEAN : OpenOutput(b) \/ Assemble(b) \/ Link(b)
    BY <2>2, OpenOutputKeeps, ToolKeeps
  <2>3. CASE \E i \in DOMAIN Loops : GenerateRoutine(i)
    BY <2>3, GenerateRoutineKeeps
  <2>. QED  BY <1>3, <2>1, <2>2, <2>3 DEF BackEnd
<1>4. CASE UNCHANGED vars
  <2>1. UNCHANGED <<program, stop_after, frames, stage, routine, declared, ambiguous, init_code,
                    error_count, result, made, outcome, checked>>
    BY <1>4 DEF vars
  <2>2. Shape' /\ Progress'
    BY <2>1 DEF IInv, Shape, Progress, FrameType
  <2>3. Routines' /\ MadeFiles' /\ SuccessIsComplete'
    BY <2>1 DEF IInv, Routines, RoutineCount, MadeFiles, SuccessIsComplete
  <2>. QED  BY <2>2, <2>3 DEF IInv
<1>. QED  BY <1>1, <1>2, <1>3, <1>4 DEF Next

(* The invariant of the driver holds in every reachable state.             *)
THEOREM Invariance == Spec => []IInv
<1>1. Init => IInv
  BY InitEstablishes
<1>2. IInv /\ [Next]_vars => IInv'
  BY NextKeeps
<1>. QED  BY <1>1, <1>2, PTL DEF Spec

(* Every variable of the driver keeps its type: an activation stands at a  *)
(* statement of its file or at its end, a routine is one of those counted. *)
THEOREM TypeCorrect == Spec => []TypeOK
<1>1. IInv => TypeOK
  <2>. SUFFICES ASSUME IInv  PROVE TypeOK
    OBVIOUS
  <2>1. ASSUME NEW i \in DOMAIN frames
        PROVE  /\ frames[i].file \in DOMAIN program
               /\ frames[i].phase \in {"lexing", "parsing", "begin check", "check"}
               /\ frames[i].next \in 1 .. Len(program[frames[i].file].statements) + 1
    <3>1. frames[i] \in FrameType
      BY DEF IInv, Shape
    <3>. QED  BY <3>1 DEF FrameType, IInv, Shape
  <2>2. routine \in 0 .. RoutineCount - 1
    BY RoutineCountIsPositive DEF IInv, Shape, Routines
  <2>. QED  BY <2>1, <2>2 DEF TypeOK, IInv, Shape, MadeFiles
<1>. QED  BY <1>1, Invariance, PTL

(* Compile returns true only when it is done: no error anywhere, the       *)
(* source passed last, and the files of the phases asked for were written. *)
THEOREM DriverSucceedsComplete == Spec => []SuccessIsComplete
<1>1. IInv => SuccessIsComplete
  BY DEF IInv
<1>. QED  BY <1>1, Invariance, PTL

-----------------------------------------------------------------------------
(* The process.                                                            *)

(* What the process does to the driver's state is a run of the driver: the *)
(* command line, the opening of the file and the exit leave it alone.      *)
THEOREM MainRunsDriver == MainSpec => Spec
<1>1. MainInit => Init
  BY DEF MainInit, MainStart, Init
<1>2. [MainNext]_mainVars => [Next]_vars
  <2>. SUFFICES ASSUME [MainNext]_mainVars
                PROVE  [Next]_vars
    OBVIOUS
  <2>1. CASE Compile
    BY <2>1 DEF Compile
  <2>2. CASE ParseWord \/ OpenSource \/ Exit
    BY <2>2 DEF ParseWord, OpenSource, Exit
  <2>3. CASE UNCHANGED mainVars
    BY <2>3 DEF mainVars
  <2>. QED  BY <2>1, <2>2, <2>3 DEF MainNext
<1>. QED  BY <1>1, <1>2, PTL DEF MainSpec, Spec

(* In a run of the process, too, success is complete.                      *)
THEOREM SucceedsComplete == MainSpec => []SuccessIsComplete
BY MainRunsDriver, DriverSucceedsComplete, PTL

-----------------------------------------------------------------------------
(* The command line.                                                       *)

(* Whether the word before position i takes it as its argument.            *)
Taken(i) ==
  LET o == Parse!Named(argv[i])
  IN argv[i].dashes > 0 /\ o # None /\ Parse!TakesArg(argv[i], o)

StandsAfter(f, i) == IF i = 1 THEN TRUE ELSE ~ (f[i - 1] /\ Taken(i - 1))

(* That Stands is a function with its equation is an induction over the    *)
(* number of words.                                                        *)
LEMMA StandsExists ==
  ASSUME NEW m \in Nat
  PROVE  \E f : f = [i \in 1 .. m |-> StandsAfter(f, i)]
<1> DEFINE Solves(f, k) == f = [i \in 1 .. k |-> StandsAfter(f, i)]
           Unsolved == {k \in Nat : ~ \E f : Solves(f, k)}
<1>1. \E f : Solves(f, 0)
  <2>1. Solves([i \in 1 .. 0 |-> TRUE], 0)
    OBVIOUS
  <2>. QED  BY <2>1
<1>2. ASSUME NEW k \in Nat, NEW f, Solves(f, k)
      PROVE  \E h : Solves(h, k + 1)
  <2>. DEFINE h == [i \in 1 .. k + 1 |-> IF i = k + 1 THEN StandsAfter(f, i) ELSE f[i]]
  <2>1. \A i \in 1 .. k : f[i] = StandsAfter(f, i)
    BY <1>2
  <2>2. \A i \in 2 .. k + 1 : h[i - 1] = f[i - 1]
    OBVIOUS
  <2>3. ASSUME NEW i \in 1 .. k + 1  PROVE StandsAfter(h, i) = StandsAfter(f, i)
    <3>. HIDE DEF h
    <3>1. i # 1 => h[i - 1] = f[i - 1]
      BY <2>2
    <3>. QED  BY <3>1 DEF StandsAfter
  <2>4. \A i \in 1 .. k + 1 : h[i] = StandsAfter(h, i)
    BY <2>1, <2>3
  <2>5. h = [i \in 1 .. k + 1 |-> h[i]]
    OBVIOUS
  <2>6. Solves(h, k + 1)
    <3>. HIDE DEF h
    <3>. QED  BY <2>4, <2>5
  <2>. QED  BY <2>6
<1>3. Unsolved = {}
  <2>. SUFFICES ASSUME Unsolved # {}  PROVE FALSE
    OBVIOUS
  <2>1. PICK k \in Unsolved : \A j \in Unsolved : k <= j
    <3>1. Unsolved \subseteq Nat
      OBVIOUS
    <3>. HIDE DEF Unsolved
    <3>. QED  BY <3>1, LeastNatural
  <2>2. k \in Nat /\ k # 0 /\ ~ \E f : Solves(f, k)
    BY <1>1
  <2>3. k - 1 \in Nat /\ k - 1 \notin Unsolved /\ (k - 1) + 1 = k
    <3>. HIDE DEF Unsolved
    <3>. QED  BY <2>1, <2>2
  <2>4. PICK f : Solves(f, k - 1)
    <3>. HIDE DEF Solves
    <3>. QED  BY <2>3
  <2>5. \E h : Solves(h, (k - 1) + 1)
    <3>. HIDE DEF Solves, Unsolved
    <3>. QED  BY <1>2, <2>3, <2>4
  <2>. QED  BY <2>2, <2>3, <2>5
<1>. QED  BY <1>3

(* The first word stands for itself; another does unless the word before   *)
(* it stands and takes it.                                                 *)
LEMMA StandsUnfolds ==
  ASSUME argv \in Seq(Words)
  PROVE  \A i \in DOMAIN argv : Parse!Stands[i] <=> StandsAfter(Parse!Stands, i)
<1> DEFINE Solves(f) == f = [i \in DOMAIN argv |-> StandsAfter(f, i)]
<1>1. Parse!Stands = CHOOSE f : Solves(f)
  BY DEF Parse!Stands, StandsAfter, Taken
<1>2. \E f : Solves(f)
  <2>1. DOMAIN argv = 1 .. Len(argv) /\ Len(argv) \in Nat
    OBVIOUS
  <2>2. PICK f : f = [i \in 1 .. Len(argv) |-> StandsAfter(f, i)]
    BY <2>1, StandsExists
  <2>3. Solves(f)
    BY <2>1, <2>2
  <2>. QED  BY <2>3
<1>3. Solves(Parse!Stands)
  <2>. HIDE DEF Solves
  <2>. QED  BY <1>1, <1>2
<1>. QED  BY <1>3

(* The words read so far that stand for themselves, and what they select.  *)
Read == {i \in Parse!Standing : i < arg_index}

LettersOf(i) == {Parse!FlagOf[c] : c \in argv[i].letters}

Selected == UNION {LettersOf(i) : i \in {j \in Read : Parse!Lettered(argv[j])}}

(* A long option that is read takes no argument from a list.               *)
NoListed(word) == word.dashes = 2 => Parse!Table[word.text].long_args = <<>>

(* A word is in the table when it is an option, and so are its letters.    *)
Known(word) ==
  word.dashes > 0 =>
    /\ Parse!Named(word) # None
    /\ Parse!Lettered(word) => word.letters \subseteq Parse!Table[Parse!Named(word)].short_args

(* What is read next stands for itself, as the user reads it.              *)
Position ==
  /\ argv \in Seq(Words)
  /\ arg_index \in Nat \ {0}
  /\ Parse!HasArg(arg_index) => Parse!Stands[arg_index]
  /\ parsed \in {"parsing", "compile", "shown", "rejected"}
  /\ parsed = "compile" => ~ Parse!HasArg(arg_index) /\ source # None

LastPlain ==
  \E i \in Read : /\ argv[i].dashes = 0 /\ argv[i].text = source
                  /\ \A j \in Read : j > i => argv[j].dashes > 0

(* So far the line is understood: unless it has been rejected or answered, *)
(* the properties hold of the words read.                                  *)
Understood ==
  parsed \in {"parsing", "compile"} =>
    /\ target \in Targets \cup {"default"}
    /\ \A i \in Read : Known(argv[i])
    /\ (\A i \in Read : NoListed(argv[i])) => flags = Selected
    /\ source # None => LastPlain

LineInv == Position /\ Understood

(* What the table says of the six options.                                 *)
LEMMA OptionsListed ==
  /\ DOMAIN Parse!Table = {"output", "target", "diagnostic", "profile", "help", "version"}
  /\ \A o \in {"diagnostic", "profile"} :
       Parse!Table[o].short_args # {} /\ Parse!Table[o].long_args # <<>>
  /\ \A o \in {"output", "target", "help", "version"} :
       Parse!Table[o].short_args = {} /\ Parse!Table[o].long_args = <<>>
<1>1. DOMAIN Parse!Table = {"output", "target", "diagnostic", "profile", "help", "version"}
  BY DEF Parse!Table
<1>2. /\ Parse!Table["diagnostic"].short_args = {"M", "A", "I", "R"}
      /\ Parse!Table["diagnostic"].long_args = <<"memory", "ast", "ir", "regalloc">>
      /\ Parse!Table["profile"].short_args = {"t", "i"}
      /\ Parse!Table["profile"].long_args = <<"time", "instrcount">>
  BY DEF Parse!Table
<1>3. /\ Parse!Table["output"].short_args = {} /\ Parse!Table["output"].long_args = <<>>
      /\ Parse!Table["target"].short_args = {} /\ Parse!Table["target"].long_args = <<>>
      /\ Parse!Table["help"].short_args = {} /\ Parse!Table["help"].long_args = <<>>
      /\ Parse!Table["version"].short_args = {} /\ Parse!Table["version"].long_args = <<>>
  BY DEF Parse!Table
<1>4. {"M", "A", "I", "R"} # {} /\ {"t", "i"} # {}
  OBVIOUS
<1>5. <<"memory", "ast", "ir", "regalloc">> # <<>> /\ <<"time", "instrcount">> # <<>>
  OBVIOUS
<1>. QED  BY <1>1, <1>2, <1>3, <1>4, <1>5

(* A name that is found is that of an option; a long option has its text.  *)
LEMMA NameFound ==
  ASSUME NEW word, Parse!Named(word) # None
  PROVE  /\ Parse!Named(word) \in DOMAIN Parse!Table
         /\ word.dashes = 2 => Parse!Named(word) = word.text
BY DEF Parse!Named

(* What stands for itself depends on the line alone.                       *)
LEMMA SameStanding ==
  ASSUME argv' = argv
  PROVE  Parse!Stands' = Parse!Stands /\ Parse!Standing' = Parse!Standing
<1>1. Parse!Stands' = Parse!Stands
  BY DEF Parse!Stands
<1>. QED  BY <1>1 DEF Parse!Standing

(* A word is read, with its argument where it takes one: the next position *)
(* stands for itself again, and one more word is read.                     *)
LEMMA ReadGrows ==
  ASSUME Position, Parse!HasArg(arg_index), argv' = argv,
         arg_index' = arg_index + (IF Taken(arg_index) /\ Parse!HasArg(arg_index + 1) THEN 2 ELSE 1)
  PROVE  /\ arg_index \in DOMAIN argv
         /\ Read' = Read \cup {arg_index}
         /\ \A i \in Read : i < arg_index
         /\ arg_index' \in Nat \ {0}
         /\ Parse!HasArg(arg_index)' => Parse!Stands'[arg_index']
<1>1. /\ argv \in Seq(Words) /\ arg_index \in DOMAIN argv /\ Parse!Stands[arg_index]
      /\ Len(argv) \in Nat /\ DOMAIN argv = 1 .. Len(argv)
  BY DEF Position, Parse!HasArg
<1>2. arg_index + 1 \in DOMAIN argv => (Parse!Stands[arg_index + 1] <=> ~ Taken(arg_index))
  BY <1>1, StandsUnfolds DEF StandsAfter
<1>3. arg_index + 2 \in DOMAIN argv /\ Taken(arg_index) => Parse!Stands[arg_index + 2]
  <2>. SUFFICES ASSUME arg_index + 2 \in DOMAIN argv, Taken(arg_index)
                PROVE  Parse!Stands[arg_index + 2]
    OBVIOUS
  <2>1. arg_index + 1 \in DOMAIN argv /\ ~ Parse!Stands[arg_index + 1]
    BY <1>1, <1>2
  <2>2. (arg_index + 2) - 1 = arg_index + 1 /\ arg_index + 2 # 1
    BY <1>1
  <2>. QED  BY <1>1, <2>1, <2>2, StandsUnfolds DEF StandsAfter
<1>4. Parse!Stands' = Parse!Stands /\ Parse!Standing' = Parse!Standing
  BY SameStanding
<1>5. Read' = {i \in Parse!Standing : i < arg_index'}
  BY <1>4 DEF Read
<1>6. \A i \in Parse!Standing : i < arg_index' <=> i < arg_index \/ i = arg_index
  <2>1. \A i \in Parse!Standing : i \in 1 .. Len(argv) /\ Parse!Stands[i]
    BY <1>1 DEF Parse!Standing
  <2>2. CASE Taken(arg_index) /\ Parse!HasArg(arg_index + 1)
    BY <1>1, <1>2, <2>1, <2>2 DEF Parse!HasArg
  <2>3. CASE ~ (Taken(arg_index) /\ Parse!HasArg(arg_index + 1))
    BY <1>1, <2>1, <2>3
  <2>. QED  BY <2>2, <2>3
<1>7. arg_index \in Parse!Standing
  BY <1>1 DEF Parse!Standing
<1>8. Read' = Read \cup {arg_index}
  BY <1>5, <1>6, <1>7 DEF Read
<1>9. Parse!HasArg(arg_index)' => Parse!Stands'[arg_index']
  <2>. SUFFICES ASSUME Parse!HasArg(arg_index)'  PROVE Parse!Stands[arg_index']
    BY <1>4
  <2>1. arg_index' \in DOMAIN argv
    BY <1>1 DEF Parse!HasArg
  <2>. QED  BY <1>1, <1>2, <1>3, <2>1 DEF Parse!HasArg
<1>10. arg_index' \in Nat \ {0}
  BY <1>1
<1>. QED  BY <1>1, <1>8, <1>9, <1>10 DEF Read

(* A word that is understood keeps the invariant: what it selects is added *)
(* to what was selected before it.                                         *)
LEMMA WordIsUnderstood ==
  ASSUME LineInv, parsed = "parsing", Parse!HasArg(arg_index), argv' = argv,
         arg_index' = arg_index + (IF Taken(arg_index) /\ Parse!HasArg(arg_index + 1) THEN 2 ELSE 1),
         parsed' = "parsing",
         target' \in Targets \cup {"default"},
         Known(argv[arg_index]),
         NoListed(argv[arg_index]) =>
           flags' = flags \cup (IF Parse!Lettered(argv[arg_index]) THEN LettersOf(arg_index) ELSE {}),
         \/ argv[arg_index].dashes = 0 /\ source' = argv[arg_index].text
         \/ argv[arg_index].dashes > 0 /\ source' = source
  PROVE  LineInv'
<1>1. /\ Read' = Read \cup {arg_index}
      /\ \A i \in Read : i < arg_index
      /\ arg_index \in Nat \ {0} /\ Read \subseteq Nat
      /\ Position'
  <2>1. Position
    BY DEF LineInv
  <2>2. Read \subseteq Nat
    BY DEF Read, Parse!Standing, LineInv, Position
  <2>. QED  BY <2>1, <2>2, ReadGrows DEF Position
<1>2. \A i \in Read' : Known(argv'[i])
  BY <1>1 DEF LineInv, Understood
<1>3. ASSUME \A i \in Read' : NoListed(argv'[i])
      PROVE  flags' = Selected'
  <2>1. NoListed(argv[arg_index]) /\ \A i \in Read : NoListed(argv[i])
    BY <1>1, <1>3
  <2>2. flags = Selected
    BY <2>1 DEF LineInv, Understood
  <2>3. Selected' = UNION {LettersOf(i) : i \in {j \in Read' : Parse!Lettered(argv[j])}}
    BY DEF Selected, LettersOf
  <2>4. {j \in Read' : Parse!Lettered(argv[j])} =
          {j \in Read : Parse!Lettered(argv[j])} \cup
            (IF Parse!Lettered(argv[arg_index]) THEN {arg_index} ELSE {})
    BY <1>1
  <2>5. UNION {LettersOf(i) : i \in {j \in Read' : Parse!Lettered(argv[j])}} =
          Selected \cup (IF Parse!Lettered(argv[arg_index]) THEN LettersOf(arg_index) ELSE {})
    BY <2>4 DEF Selected
  <2>. QED  BY <2>1, <2>2, <2>3, <2>5
<1>4. source' # None => LastPlain'
  <2>. SUFFICES ASSUME source' # None
                PROVE  \E i \in Read' : /\ argv[i].dashes = 0 /\ argv[i].text = source'
                                        /\ \A j \in Read' : j > i => argv[j].dashes > 0
    BY DEF LastPlain
  <2>1. CASE argv[arg_index].dashes = 0 /\ source' = argv[arg_index].text
    <3>1. \A j \in Read' : ~ j > arg_index
      BY <1>1
    <3>. QED  BY <1>1, <2>1, <3>1
  <2>2. CASE argv[arg_index].dashes > 0 /\ source' = source
    <3>1. PICK i \in Read : /\ argv[i].dashes = 0 /\ argv[i].text = source
                            /\ \A j \in Read : j > i => argv[j].dashes > 0
      BY <2>2 DEF LineInv, Understood, LastPlain
    <3>. QED  BY <1>1, <2>2, <3>1
  <2>. QED  BY <2>1, <2>2
<1>5. Understood'
  BY <1>2, <1>3, <1>4 DEF Understood
<1>. QED  BY <1>1, <1>5 DEF LineInv

(* The line has been rejected or answered: nothing more is said of it.     *)
LEMMA WordEndsReading ==
  ASSUME LineInv, Parse!HasArg(arg_index), argv' = argv,
         arg_index' = arg_index + (IF Taken(arg_index) /\ Parse!HasArg(arg_index + 1) THEN 2 ELSE 1),
         parsed' \in {"shown", "rejected"}
  PROVE  LineInv'
BY ReadGrows DEF LineInv, Position, Understood

(* A word that is no option is the source.                                 *)
LEMMA PlainKeeps ==
  ASSUME LineInv, Parse!TakePlain
  PROVE  LineInv'
<1>1. /\ parsed = "parsing" /\ Parse!HasArg(arg_index) /\ argv[arg_index].dashes = 0
      /\ source' = argv[arg_index].text /\ arg_index' = arg_index + 1
      /\ argv' = argv /\ flags' = flags /\ target' = target /\ parsed' = parsed
  BY DEF Parse!TakePlain, Parse!Parsing
<1>2. ~ Taken(arg_index) /\ ~ Parse!Lettered(argv[arg_index]) /\ Known(argv[arg_index])
  BY <1>1 DEF Taken, Parse!Lettered, Known
<1>3. target \in Targets \cup {"default"}
  BY <1>1 DEF LineInv, Understood
<1>. QED  BY <1>1, <1>2, <1>3, WordIsUnderstood

(* An option does what the switch of main does with it.                    *)
LEMMA OptionKeeps ==
  ASSUME LineInv, Parse!NextOption
  PROVE  LineInv'
<1> DEFINE word == argv[arg_index]
           o == Parse!Named(word)
<1>1. /\ parsed = "parsing" /\ Parse!HasArg(arg_index) /\ word.dashes > 0 /\ argv' = argv
      /\ IF o = None THEN Parse!Reject /\ arg_index' = arg_index + 1
                     ELSE Parse!TakeOption(word, o) /\ Parse!Advance(word, o)
  BY DEF Parse!NextOption, Parse!Parsing
<1>2. arg_index' = arg_index + (IF Taken(arg_index) /\ Parse!HasArg(arg_index + 1) THEN 2 ELSE 1)
  BY <1>1 DEF Parse!Advance, Taken
<1>3. word.dashes \in {1, 2}
  <2>1. word \in Words
    BY <1>1 DEF LineInv, Position, Parse!HasArg
  <2>. QED  BY <1>1, <2>1, WordsAssumption
<1>4. target \in Targets \cup {"default"}
  BY <1>1 DEF LineInv, Understood
<1>. HIDE DEF word
<1>5. CASE parsed' \in {"shown", "rejected"}
  BY <1>1, <1>2, <1>5, WordEndsReading
<1>6. CASE parsed' \notin {"shown", "rejected"}
  <2>1. o # None /\ Parse!TakeOption(word, o) /\ o \in DOMAIN Parse!Table
    BY <1>1, <1>6, NameFound DEF Parse!Reject
  <2>2. word.dashes = 2 => word.text = o
    BY <2>1, NameFound
  <2>3. /\ parsed' = parsed /\ source' = source
        /\ target' \in Targets \cup {"default"}
        /\ Known(word)
        /\ NoListed(word) =>
             flags' = flags \cup (IF Parse!Lettered(word) THEN LettersOf(arg_index) ELSE {})
    <3>1. CASE o = "output"
      <4>1. flags' = flags /\ target' = target /\ source' = source /\ parsed' = parsed
        BY <2>1, <3>1 DEF Parse!TakeOption
      <4>2. ~ Parse!Lettered(word)
        BY <3>1, OptionsListed DEF Parse!Lettered
      <4>. QED  BY <1>4, <2>1, <4>1, <4>2 DEF Known
    <3>2. CASE o = "target"
      <4>1. Parse!SelectTarget(Parse!ArgOf(word, o))
        BY <2>1, <3>2 DEF Parse!TakeOption
      <4>2. flags' = flags /\ target' \in Targets /\ source' = source /\ parsed' = parsed
        BY <1>6, <4>1 DEF Parse!SelectTarget, Parse!Reject
      <4>3. ~ Parse!Lettered(word)
        BY <3>2, OptionsListed DEF Parse!Lettered
      <4>. QED  BY <2>1, <4>2, <4>3 DEF Known
    <3>3. CASE o \in {"diagnostic", "profile"} /\ word.dashes = 2
      <4>1. Parse!SelectLong(Parse!ArgOf(word, o))
        BY <2>1, <3>3 DEF Parse!TakeOption
      <4>2. target' = target /\ source' = source /\ parsed' = parsed
        BY <4>1 DEF Parse!SelectLong
      <4>3. ~ Parse!Lettered(word) /\ ~ NoListed(word)
        BY <2>2, <3>3, OptionsListed DEF Parse!Lettered, NoListed
      <4>. QED  BY <1>4, <2>1, <4>2, <4>3 DEF Known
    <3>4. CASE o \in {"diagnostic", "profile"} /\ word.dashes = 1
      <4>1. Parse!SelectLetters(word, o)
        BY <2>1, <3>4 DEF Parse!TakeOption
      <4>2. /\ word.letters \subseteq Parse!Table[o].short_args
            /\ flags' = flags \cup {Parse!FlagOf[c] : c \in word.letters}
            /\ target' = target /\ source' = source /\ parsed' = parsed
        BY <1>6, <4>1 DEF Parse!SelectLetters, Parse!Reject
      <4>3. Parse!Lettered(word)
        BY <2>1, <3>4, OptionsListed DEF Parse!Lettered
      <4>4. LettersOf(arg_index) = {Parse!FlagOf[c] : c \in word.letters}
        BY DEF LettersOf, word
      <4>. QED  BY <1>4, <2>1, <4>2, <4>3, <4>4 DEF Known
    <3>5. o \notin {"help", "version"}
      BY <1>6, <2>1 DEF Parse!TakeOption
    <3>. QED  BY <1>3, <2>1, <3>1, <3>2, <3>3, <3>4, <3>5, OptionsListed
  <2>. QED  BY <1>1, <1>2, <2>3, WordIsUnderstood DEF word
<1>. QED  BY <1>5, <1>6

(* As long as the same words are read the same is selected.                *)
LEMMA SameWords ==
  ASSUME UNCHANGED <<argv, arg_index, source>>
  PROVE  /\ Read' = Read /\ Selected' = Selected /\ LastPlain' = LastPlain
         /\ Parse!HasArg(arg_index)' <=> Parse!HasArg(arg_index)
         /\ Parse!Stands' = Parse!Stands
<1>1. Read' = Read /\ Parse!Stands' = Parse!Stands
  BY SameStanding DEF Read
<1>. QED  BY <1>1 DEF Selected, LettersOf, LastPlain, Parse!HasArg

(* At the end of the line all words that stand for themselves are read.    *)
LEMMA EndKeeps ==
  ASSUME LineInv, Parse!ParsingDone
  PROVE  LineInv'
<1>1. /\ parsed = "parsing" /\ ~ Parse!HasArg(arg_index)
      /\ parsed' = (IF source = None THEN "shown" ELSE "compile")
      /\ UNCHANGED <<argv, arg_index, flags, target, source>>
  BY DEF Parse!ParsingDone
<1>. QED  BY <1>1, SameWords DEF LineInv, Position, Understood

(* The driver and the exit leave the line alone.                           *)
LEMMA LineStutters ==
  ASSUME LineInv, UNCHANGED commandLine
  PROVE  LineInv'
BY SameWords DEF LineInv, Position, Understood, commandLine

(* Nothing is read at first, and nothing is selected.                      *)
LEMMA LineStarts ==
  ASSUME MainInit
  PROVE  LineInv
<1>1. PICK line \in Parse!CommandLines : Parse!Start(line)
  BY DEF MainInit, MainStart
<1>2. /\ argv = line /\ arg_index = 1 /\ flags = {} /\ target = "default" /\ source = None
      /\ parsed = "parsing"
  BY <1>1 DEF Parse!Start
<1>3. line \in Seq(Words)
  <2>1. PICK n \in 0 .. MaxWords : line \in [1 .. n -> Words]
    BY DEF Parse!CommandLines
  <2>. QED  BY <2>1, WordsAssumption
<1>4. Parse!HasArg(1) => Parse!Stands[1]
  BY <1>2, <1>3, StandsUnfolds DEF StandsAfter, Parse!HasArg
<1>5. Read = {}
  BY <1>2, <1>3 DEF Read, Parse!Standing
<1>6. Selected = {}
  BY <1>5 DEF Selected
<1>. QED  BY <1>2, <1>3, <1>4, <1>5, <1>6 DEF LineInv, Position, Understood

(* The invariant of the command line holds in every reachable state.       *)
THEOREM LineInvariance == MainSpec => []LineInv
<1>1. MainInit => LineInv
  BY LineStarts
<1>2. LineInv /\ [MainNext]_mainVars => LineInv'
  <2>. SUFFICES ASSUME LineInv, [MainNext]_mainVars
                PROVE  LineInv'
    OBVIOUS
  <2>1. CASE ParseWord
    BY <2>1, PlainKeeps, OptionKeeps, EndKeeps DEF ParseWord, Parse!Next
  <2>2. CASE OpenSource \/ Compile \/ Exit
    BY <2>2, LineStutters DEF OpenSource, Compile, Exit
  <2>3. CASE UNCHANGED mainVars
    BY <2>3, LineStutters DEF mainVars
  <2>. QED  BY <2>1, <2>2, <2>3 DEF MainNext
<1>. QED  BY <1>1, <1>2, PTL DEF MainSpec

(* When the line is accepted every word is read.                           *)
LEMMA AllRead ==
  ASSUME LineInv, parsed = "compile"
  PROVE  Read = Parse!Standing /\ source # None
<1>1. Parse!Standing \subseteq 1 .. Len(argv) /\ Len(argv) \in Nat /\ arg_index \in Nat
      /\ ~ arg_index <= Len(argv) /\ source # None
  BY DEF LineInv, Position, Parse!HasArg, Parse!Standing
<1>2. \A i \in Parse!Standing : i < arg_index
  BY <1>1
<1>. QED  BY <1>1, <1>2 DEF Read

(* For every command line that is compiled, the flags selected are those   *)
(* of the letters behind its short options, however the words before them  *)
(* take words as arguments.                                                *)
THEOREM FlagsAreSelected == MainSpec => []LettersSelect
<1>1. LineInv => LettersSelect
  <2>. SUFFICES ASSUME LineInv, parsed = "compile",
                       \A i \in Parse!Standing :
                         argv[i].dashes = 2 => Parse!Table[argv[i].text].long_args = <<>>
                PROVE  flags = UNION {{Parse!FlagOf[c] : c \in argv[i].letters} :
                                        i \in {j \in Parse!Standing : Parse!Lettered(argv[j])}}
    BY DEF LettersSelect, Parse!LettersSelect
  <2>1. Read = Parse!Standing
    BY AllRead
  <2>2. flags = Selected
    BY <2>1 DEF LineInv, Understood, NoListed
  <2>. QED  BY <2>1, <2>2 DEF Selected, LettersOf
<1>. QED  BY <1>1, LineInvariance, PTL

(* Every command line that is compiled was understood: options, letters,   *)
(* target and source.                                                      *)
THEOREM LineIsUnderstood == MainSpec => []CompiledIsUnderstood
<1>1. LineInv => CompiledIsUnderstood
  <2>. SUFFICES ASSUME LineInv, parsed = "compile"
                PROVE  Parse!CompiledIsUnderstood
    BY DEF CompiledIsUnderstood, Parse!CompiledIsUnderstood
  <2>1. Read = Parse!Standing /\ source # None
    BY AllRead
  <2>2. /\ target \in Targets \cup {"default"}
        /\ \A i \in Read : Known(argv[i])
        /\ LastPlain
    BY <2>1 DEF LineInv, Understood
  <2>. QED  BY <2>1, <2>2 DEF Parse!CompiledIsUnderstood, Known, LastPlain
<1>. QED  BY <1>1, LineInvariance, PTL

-----------------------------------------------------------------------------

(* Imports are textual inclusions: the texts.                              *)

(* Each suffix of joined texts is its first text and the next suffix.      *)
LEMMA JoinedUnfolds ==
  ASSUME NEW S, NEW texts \in Seq(Seq(S))
  PROVE  /\ Joined(texts) \in [1 .. Len(texts) + 1 -> Seq(S)]
         /\ Joined(texts)[Len(texts) + 1] = <<>>
         /\ \A i \in 1 .. Len(texts) : Joined(texts)[i] = texts[i] \o Joined(texts)[i + 1]
<1> DEFINE len == Len(texts)
           Joins(g, n) ==
             /\ g \in [len + 1 - n .. len + 1 -> Seq(S)]
             /\ g[len + 1] = <<>>
             /\ \A i \in len + 1 - n .. len : g[i] = texts[i] \o g[i + 1]
           Wrong == {n \in Nat : n <= len /\ ~ \E g : Joins(g, n)}
           Equation(g) ==
             g = [i \in 1 .. len + 1 |-> IF i > len THEN <<>> ELSE texts[i] \o g[i + 1]]
<1>1. len \in Nat /\ \A i \in 1 .. len : texts[i] \in Seq(S)
  OBVIOUS
<1>. HIDE DEF len
<1>2. Wrong \subseteq Nat
  OBVIOUS
<1>3. \E g : Joins(g, 0)
  <2> DEFINE g == [i \in len + 1 .. len + 1 |-> <<>>]
  <2>1. <<>> \in Seq(S)
    OBVIOUS
  <2>2. len + 1 - 0 = len + 1 /\ \A i \in len + 1 .. len : FALSE
    BY <1>1
  <2>3. g \in [len + 1 .. len + 1 -> Seq(S)] /\ g[len + 1] = <<>>
    BY <1>1, <2>1
  <2>. HIDE DEF g
  <2>4. Joins(g, 0)
    BY <2>2, <2>3
  <2>. HIDE DEF Joins
  <2>. QED  BY <2>4
<1>4. ASSUME NEW n \in Nat, n + 1 <= len, NEW g, Joins(g, n)
      PROVE  \E h : Joins(h, n + 1)
  <2> DEFINE at == len - n
             h  == [i \in at .. len + 1 |-> IF i = at THEN texts[at] \o g[at + 1] ELSE g[i]]
  <2>1. /\ at \in 1 .. len /\ len + 1 - n = at + 1 /\ len + 1 - (n + 1) = at
    BY <1>1, <1>4
  <2>2. /\ g \in [at + 1 .. len + 1 -> Seq(S)]
        /\ g[len + 1] = <<>>
        /\ \A i \in at + 1 .. len : g[i] = texts[i] \o g[i + 1]
    BY <1>4, <2>1
  <2>. HIDE DEF at
  <2>3. texts[at] \o g[at + 1] \in Seq(S)
    <3>1. texts[at] \in Seq(S) /\ g[at + 1] \in Seq(S)
      BY <1>1, <2>1, <2>2
    <3>. QED  BY <3>1
  <2>4. h \in [at .. len + 1 -> Seq(S)]
    BY <1>1, <2>1, <2>2, <2>3
  <2>5. h[len + 1] = <<>>
    BY <1>1, <2>1, <2>2
  <2>6. ASSUME NEW i \in at .. len
        PROVE  h[i] = texts[i] \o h[i + 1]
    <3>1. i \in at .. len + 1 /\ i + 1 \in at .. len + 1 /\ i + 1 # at
      BY <1>1, <2>1
    <3>2. h[i + 1] = g[i + 1]
      BY <3>1
    <3>3. CASE i = at
      BY <3>1, <3>2, <3>3
    <3>4. CASE i # at
      <4>1. h[i] = g[i] /\ i \in at + 1 .. len
        BY <1>1, <2>1, <3>1, <3>4
      <4>. QED  BY <2>2, <3>2, <4>1
    <3>. QED  BY <3>3, <3>4
  <2>. HIDE DEF h
  <2>7. Joins(h, n + 1)
    BY <2>1, <2>4, <2>5, <2>6
  <2>. HIDE DEF Joins
  <2>. QED  BY <2>7
<1>5. ASSUME Wrong # {}
      PROVE  FALSE
  <2>1. PICK n \in Wrong : \A m \in Wrong : n <= m
    BY <1>2, <1>5, LeastNatural
  <2>2. n \in Nat /\ n <= len /\ ~ \E g : Joins(g, n)
    BY <2>1
  <2>. HIDE DEF Joins
  <2>3. n # 0
    BY <1>3, <2>2
  <2>4. n - 1 \in Nat /\ n - 1 <= len /\ ~ (n <= n - 1) /\ (n - 1) + 1 = n
    BY <1>1, <2>2, <2>3
  <2>5. \E g : Joins(g, n - 1)
    BY <2>1, <2>4
  <2>. QED  BY <1>4, <2>2, <2>4, <2>5
<1>6. \E g : Joins(g, len)
  <2>. SUFFICES ASSUME ~ \E g : Joins(g, len)
                PROVE  len \in Wrong
    BY <1>5
  <2>. HIDE DEF Joins
  <2>. QED  BY <1>1
<1>7. PICK g : Joins(g, len)
  BY <1>6
<1>8. /\ g \in [1 .. len + 1 -> Seq(S)]
      /\ g[len + 1] = <<>>
      /\ \A i \in 1 .. len : g[i] = texts[i] \o g[i + 1]
  <2>1. len + 1 - len = 1
    BY <1>1
  <2>. QED  BY <1>7, <2>1
<1>9. Equation(g)
  <2>1. \A i \in 1 .. len + 1 : g[i] = IF i > len THEN <<>> ELSE texts[i] \o g[i + 1]
    <3>1. len + 1 > len /\ \A i \in 1 .. len + 1 : i # len + 1 => i \in 1 .. len /\ ~ (i > len)
      BY <1>1
    <3>. QED  BY <1>8, <3>1
  <2>. QED  BY <1>8, <2>1
<1>10. Joined(texts) = CHOOSE f : Equation(f)
  BY DEF Joined, len
<1>. HIDE DEF Equation
<1>11. Equation(Joined(texts))
  BY <1>9, <1>10
<1> DEFINE J == Joined(texts)
<1>. HIDE DEF J
<1>12. J = [i \in 1 .. len + 1 |-> IF i > len THEN <<>> ELSE texts[i] \o J[i + 1]]
  BY <1>11 DEF Equation, J
<1>13. /\ DOMAIN J = 1 .. len + 1
       /\ J[len + 1] = <<>>
       /\ \A i \in 1 .. len : J[i] = texts[i] \o J[i + 1]
  <2>1. /\ len + 1 \in 1 .. len + 1 /\ len + 1 > len
        /\ \A i \in 1 .. len : i \in 1 .. len + 1 /\ ~ (i > len)
    BY <1>1
  <2>2. DOMAIN J = 1 .. len + 1
    BY <1>12
  <2>3. \A i \in 1 .. len + 1 : J[i] = IF i > len THEN <<>> ELSE texts[i] \o J[i + 1]
    BY <1>12
  <2>. QED  BY <2>1, <2>2, <2>3
<1>14. \A i \in 1 .. len + 1 : J[i] = g[i]
  <2> DEFINE Bad == {n \in Nat : n <= len /\ J[len + 1 - n] # g[len + 1 - n]}
  <2>1. Bad \subseteq Nat
    OBVIOUS
  <2>2. ASSUME Bad # {}
        PROVE  FALSE
    <3>1. PICK n \in Bad : \A m \in Bad : n <= m
      BY <2>1, <2>2, LeastNatural
    <3>2. n \in Nat /\ n <= len /\ J[len + 1 - n] # g[len + 1 - n]
      BY <3>1
    <3>3. n # 0
      <4>1. n = 0 => len + 1 - n = len + 1
        BY <1>1
      <4>. QED  BY <1>8, <1>13, <3>2, <4>1
    <3>4. /\ n - 1 \in Nat /\ n - 1 <= len /\ ~ (n <= n - 1)
          /\ len + 1 - n \in 1 .. len /\ len + 1 - (n - 1) = (len + 1 - n) + 1
      BY <1>1, <3>2, <3>3
    <3>5. J[(len + 1 - n) + 1] = g[(len + 1 - n) + 1]
      BY <3>1, <3>4
    <3>. QED  BY <1>8, <1>13, <3>2, <3>4, <3>5
  <2>3. ASSUME NEW i \in 1 .. len + 1
        PROVE  J[i] = g[i]
    <3>1. len + 1 - i \in Nat /\ len + 1 - i <= len /\ len + 1 - (len + 1 - i) = i
      BY <1>1
    <3>. QED  BY <2>2, <3>1
  <2>. QED  BY <2>3
<1>15. J \in [1 .. len + 1 -> Seq(S)]
  <2>1. J = [i \in DOMAIN J |-> J[i]]
    BY <1>12
  <2>. QED  BY <1>8, <1>13, <1>14, <2>1
<1>. QED  BY <1>13, <1>15 DEF J, len

(* What stands in a text: the definitions, and gaps; and the nesting up to *)
(* which imports are replaced.                                             *)
Item  == AnyStatement \cup {[kind |-> "gap"]}
Depth == Cardinality(Files)

(* A module that cannot be read.                                           *)
Unlexed(p, f)    == ~ p[f].lexes
Unparsed(p, f)   == ~ p[f].parses
Unreadable(p, f) == Unlexed(p, f) \/ Unparsed(p, f)

(* The pieces of a module are texts.                                       *)
LEMMA PiecesAreTexts ==
  ASSUME NEW p \in Programs, NEW f \in DOMAIN p, NEW text \in [Files -> Seq(Item)]
  PROVE  /\ Pieces(p, f, text) \in Seq(Seq(Item))
         /\ Len(Pieces(p, f, text)) = Len(p[f].statements)
         /\ \A i \in DOMAIN p[f].statements :
              Pieces(p, f, text)[i] =
                IF p[f].statements[i].kind = "import" THEN text[p[f].statements[i].name]
                ELSE <<p[f].statements[i]>>
<1> DEFINE list == p[f].statements
           P    == Pieces(p, f, text)
<1>1. list \in Seq(AnyStatement)
  BY ProgramsAssumption
<1>2. /\ P = [i \in DOMAIN list |->
                IF list[i].kind = "import" THEN text[list[i].name] ELSE <<list[i]>>]
  BY DEF Pieces
<1>. HIDE DEF P, list
<1>3. /\ Len(list) \in Nat /\ DOMAIN list = 1 .. Len(list)
      /\ \A i \in 1 .. Len(list) : list[i] \in AnyStatement
  BY <1>1
<1>4. ASSUME NEW i \in 1 .. Len(list)
      PROVE  P[i] \in Seq(Item)
  <2>1. CASE list[i].kind = "import"
    <3>1. list[i].name \in Files
      BY <1>3, <2>1 DEF AnyStatement
    <3>. QED  BY <1>2, <1>3, <2>1, <3>1
  <2>2. CASE list[i].kind # "import"
    <3>1. list[i] \in Item
      BY <1>3 DEF Item
    <3>2. <<list[i]>> \in Seq(Item)
      BY <3>1
    <3>. QED  BY <1>2, <1>3, <2>2, <3>2
  <2>. QED  BY <2>1, <2>2
<1>5. DOMAIN P = 1 .. Len(list)
  BY <1>2, <1>3
<1>6. P \in [1 .. Len(list) -> Seq(Item)]
  BY <1>2, <1>3, <1>4, <1>5
<1>7. P \in Seq(Seq(Item)) /\ Len(P) = Len(list)
  BY <1>3, <1>6
<1>. QED  BY <1>2, <1>7 DEF P, list

(* The texts at a level of nesting, from those below it.                   *)
Level(p, d, below) ==
  [f \in Files |->
     IF d = 0 \/ f \notin DOMAIN p THEN Gap
     ELSE IF Unreadable(p, f) THEN Gap
     ELSE Joined(Pieces(p, f, below))[1]]

(* A level of nesting consists of texts when the one below does.           *)
LEMMA LevelsAreTexts ==
  ASSUME NEW p \in Programs, NEW d, NEW below, d # 0 => below \in [Files -> Seq(Item)]
  PROVE  Level(p, d, below) \in [Files -> Seq(Item)]
<1>1. Gap \in Seq(Item)
  BY DEF Gap, Item
<1>2. ASSUME NEW f \in DOMAIN p, d # 0
      PROVE  Joined(Pieces(p, f, below))[1] \in Seq(Item)
  <2>1. Pieces(p, f, below) \in Seq(Seq(Item))
    BY <1>2, PiecesAreTexts
  <2> DEFINE P == Pieces(p, f, below)
  <2>. HIDE DEF P
  <2>2. P \in Seq(Seq(Item))
    BY <2>1 DEF P
  <2>3. Joined(P) \in [1 .. Len(P) + 1 -> Seq(Item)]
    BY <2>2, JoinedUnfolds
  <2>4. 1 \in 1 .. Len(P) + 1
    BY <2>2
  <2>5. Joined(P)[1] \in Seq(Item)
    BY <2>3, <2>4
  <2>. QED  BY <2>5 DEF P
<1>. QED  BY <1>1, <1>2 DEF Level

(* The text of a module, with the texts of its imports one level below.    *)
LEMMA IncludedUnfolds ==
  ASSUME NEW p \in Programs
  PROVE  /\ Depth \in Nat
         /\ \A d \in 0 .. Depth :
              /\ Included(p)[d] \in [Files -> Seq(Item)]
              /\ Included(p)[d] = Level(p, d, Included(p)[d - 1])
<1> DEFINE Texts == [Files -> Seq(Item)]
           Levels(g, n) ==
             g \in [0 .. n -> Texts] /\ \A d \in 0 .. n : g[d] = Level(p, d, g[d - 1])
           Wrong == {n \in Nat : ~ \E g : Levels(g, n)}
           Equation(g) == g = [d \in 0 .. Depth |-> Level(p, d, g[d - 1])]
<1>1. Depth \in Nat
  BY SourceAssumption, FS_CardinalityType DEF Depth
<1>2. Wrong \subseteq Nat
  OBVIOUS
<1>3. \A a, b : Level(p, 0, a) = Level(p, 0, b)
  BY DEF Level
<1>4. \A d, t : (d # 0 => t \in Texts) => Level(p, d, t) \in Texts
  BY LevelsAreTexts
<1>. HIDE DEF Texts
<1>5. \E g : Levels(g, 0)
  <2> DEFINE g == [d \in 0 .. 0 |-> Level(p, 0, <<>>)]
  <2>1. g \in [0 .. 0 -> Texts]
    BY <1>4
  <2>2. ASSUME NEW d \in 0 .. 0
        PROVE  g[d] = Level(p, d, g[d - 1])
    <3>1. d = 0 /\ g[d] = Level(p, 0, <<>>)
      OBVIOUS
    <3>. HIDE DEF g
    <3>2. Level(p, 0, g[d - 1]) = Level(p, 0, <<>>)
      BY <1>3
    <3>. QED  BY <3>1, <3>2
  <2>. HIDE DEF g
  <2>3. Levels(g, 0)
    BY <2>1, <2>2
  <2>. HIDE DEF Levels
  <2>. QED  BY <2>3
<1>6. ASSUME NEW n \in Nat, NEW g, Levels(g, n)
      PROVE  \E h : Levels(h, n + 1)
  <2> DEFINE h == [d \in 0 .. n + 1 |-> IF d = n + 1 THEN Level(p, n + 1, g[n]) ELSE g[d]]
  <2>1. g \in [0 .. n -> Texts] /\ \A d \in 0 .. n : g[d] = Level(p, d, g[d - 1])
    BY <1>6
  <2>2. Level(p, n + 1, g[n]) \in Texts
    <3>1. g[n] \in Texts
      BY <2>1
    <3>. QED  BY <1>4, <3>1
  <2>3. h \in [0 .. n + 1 -> Texts]
    BY <2>1, <2>2
  <2>4. \A d \in 0 .. n : h[d] = g[d]
    OBVIOUS
  <2>5. h[n + 1] = Level(p, n + 1, g[n])
    OBVIOUS
  <2>. HIDE DEF h
  <2>6. ASSUME NEW d \in 0 .. n + 1
        PROVE  h[d] = Level(p, d, h[d - 1])
    <3>1. CASE d = 0
      <4>1. h[d] = Level(p, 0, g[d - 1])
        BY <2>1, <2>4, <3>1
      <4>. QED  BY <1>3, <3>1, <4>1
    <3>2. CASE d # 0 /\ d # n + 1
      <4>1. d \in 0 .. n /\ d - 1 \in 0 .. n
        BY <3>2
      <4>. QED  BY <2>1, <2>4, <4>1
    <3>3. CASE d = n + 1
      <4>1. d - 1 = n /\ n \in 0 .. n
        BY <3>3
      <4>. QED  BY <2>4, <2>5, <3>3, <4>1
    <3>. QED  BY <3>1, <3>2, <3>3
  <2>7. Levels(h, n + 1)
    BY <2>3, <2>6
  <2>. HIDE DEF Levels
  <2>. QED  BY <2>7
<1>. HIDE DEF Levels
<1>7. ASSUME Wrong # {}
      PROVE  FALSE
  <2>1. PICK n \in Wrong : \A m \in Wrong : n <= m
    BY <1>2, <1>7, LeastNatural
  <2>2. n \in Nat /\ ~ \E g : Levels(g, n)
    BY <2>1
  <2>3. n # 0
    BY <1>5, <2>2
  <2>4. n - 1 \in Nat /\ ~ (n <= n - 1) /\ (n - 1) + 1 = n
    BY <2>2, <2>3
  <2>5. \E g : Levels(g, n - 1)
    BY <2>1, <2>4
  <2>. QED  BY <1>6, <2>2, <2>4, <2>5
<1>8. \E g : Levels(g, Depth)
  <2>. SUFFICES ASSUME ~ \E g : Levels(g, Depth)
                PROVE  Depth \in Wrong
    BY <1>7
  <2>. QED  BY <1>1
<1>9. PICK g : Levels(g, Depth)
  BY <1>8
<1>10. g \in [0 .. Depth -> Texts] /\ \A d \in 0 .. Depth : g[d] = Level(p, d, g[d - 1])
  BY <1>9 DEF Levels
<1>11. Equation(g)
  BY <1>10
<1>12. Included(p) = CHOOSE f : Equation(f)
  BY DEF Included, Level, Unreadable, Unlexed, Unparsed, Depth
<1>. HIDE DEF Equation
<1>13. Equation(Included(p))
  BY <1>11, <1>12
<1> DEFINE I == Included(p)
<1>. HIDE DEF I
<1>14. \A d \in 0 .. Depth : I[d] = Level(p, d, I[d - 1])
  BY <1>13 DEF Equation, I
<1>15. \A d \in 0 .. Depth : I[d] = g[d]
  <2> DEFINE Bad == {d \in Nat : d <= Depth /\ I[d] # g[d]}
  <2>1. Bad \subseteq Nat
    OBVIOUS
  <2>2. ASSUME Bad # {}
        PROVE  FALSE
    <3>1. PICK d \in Bad : \A m \in Bad : d <= m
      BY <2>1, <2>2, LeastNatural
    <3>2. d \in 0 .. Depth /\ I[d] # g[d]
      BY <1>1, <3>1
    <3>3. CASE d = 0
      BY <1>3, <1>10, <1>14, <3>2, <3>3
    <3>4. CASE d # 0
      <4>1. d - 1 \in Nat /\ d - 1 <= Depth /\ ~ (d <= d - 1)
        BY <1>1, <3>2, <3>4
      <4>2. I[d - 1] = g[d - 1]
        BY <3>1, <4>1
      <4>. QED  BY <1>10, <1>14, <3>2, <4>2
    <3>. QED  BY <3>3, <3>4
  <2>. QED  BY <1>1, <2>2
<1>. QED  BY <1>1, <1>10, <1>14, <1>15 DEF I, Texts

(* The text of a file from statement i on, imports taken at depth d.       *)
Ahead(p, f, i, d) ==
  IF Unreadable(p, f) THEN Gap ELSE Joined(Pieces(p, f, Included(p)[d]))[i]

(* What is ahead in a file is its next statement and what is behind that.  *)
LEMMA AheadUnfolds ==
  ASSUME NEW p \in Programs, NEW f \in DOMAIN p, NEW d \in 0 .. Depth,
         NEW i \in 1 .. Len(p[f].statements) + 1
  PROVE  /\ Ahead(p, f, i, d) \in Seq(Item)
         /\ i = 1 /\ d + 1 <= Depth => Included(p)[d + 1][f] = Ahead(p, f, i, d)
         /\ ~ Unreadable(p, f) /\ i = Len(p[f].statements) + 1 => Ahead(p, f, i, d) = <<>>
         /\ ~ Unreadable(p, f) /\ i <= Len(p[f].statements) =>
              LET s == p[f].statements[i]
              IN  Ahead(p, f, i, d) =
                    (IF s.kind = "import" THEN Included(p)[d][s.name] ELSE <<s>>)
                    \o Ahead(p, f, i + 1, d)
<1> DEFINE list  == p[f].statements
           P     == Pieces(p, f, Included(p)[d])
           At(j) == IF list[j].kind = "import" THEN Included(p)[d][list[j].name] ELSE <<list[j]>>
<1>1. list \in Seq(AnyStatement) /\ Len(list) \in Nat /\ DOMAIN list = 1 .. Len(list)
  BY ProgramsAssumption
<1>2. Included(p)[d] \in [Files -> Seq(Item)] /\ Depth \in Nat
  BY IncludedUnfolds
<1>3. P \in Seq(Seq(Item)) /\ Len(P) = Len(list) /\ \A j \in DOMAIN list : P[j] = At(j)
  BY <1>2, PiecesAreTexts
<1>. HIDE DEF P, At
<1>4. /\ Joined(P) \in [1 .. Len(P) + 1 -> Seq(Item)]
      /\ Joined(P)[Len(P) + 1] = <<>>
      /\ \A j \in 1 .. Len(P) : Joined(P)[j] = P[j] \o Joined(P)[j + 1]
  BY <1>3, JoinedUnfolds
<1>5. \A j : ~ Unreadable(p, f) => Ahead(p, f, j, d) = Joined(P)[j]
  BY DEF Ahead, P
<1>6. Ahead(p, f, i, d) \in Seq(Item)
  <2>1. CASE Unreadable(p, f)
    <3>1. Ahead(p, f, i, d) = Gap
      BY <2>1 DEF Ahead
    <3>2. Gap \in Seq(Item)
      BY DEF Gap, Item
    <3>. QED  BY <3>1, <3>2
  <2>2. CASE ~ Unreadable(p, f)
    <3>1. i \in 1 .. Len(P) + 1
      BY <1>3
    <3>2. Joined(P)[i] \in Seq(Item)
      BY <1>4, <3>1
    <3>. QED  BY <1>5, <2>2, <3>2
  <2>. QED  BY <2>1, <2>2
<1>7. ASSUME i = 1, d + 1 <= Depth
      PROVE  Included(p)[d + 1][f] = Ahead(p, f, i, d)
  <2>1. d + 1 \in 0 .. Depth /\ d + 1 # 0 /\ (d + 1) - 1 = d
    BY <1>2, <1>7
  <2>2. Included(p)[d + 1] = Level(p, d + 1, Included(p)[d])
    BY <2>1, IncludedUnfolds
  <2>3. f \in Files
    BY ProgramsAssumption
  <2>4. Included(p)[d + 1][f] = IF Unreadable(p, f) THEN Gap ELSE Joined(P)[1]
    BY <2>1, <2>2, <2>3 DEF Level, P
  <2>. QED  BY <1>7, <2>4 DEF Ahead, P
<1>8. ASSUME ~ Unreadable(p, f), i <= Len(list)
      PROVE  Ahead(p, f, i, d) = At(i) \o Ahead(p, f, i + 1, d)
  <2>1. i \in 1 .. Len(P) /\ i \in DOMAIN list
    BY <1>1, <1>3, <1>8
  <2>2. Joined(P)[i] = P[i] \o Joined(P)[i + 1] /\ P[i] = At(i)
    BY <1>3, <1>4, <2>1
  <2>. QED  BY <1>5, <1>8, <2>2
<1>9. ~ Unreadable(p, f) /\ i = Len(list) + 1 => Ahead(p, f, i, d) = <<>>
  BY <1>3, <1>4, <1>5
<1>. QED  BY <1>6, <1>7, <1>8, <1>9 DEF At

-----------------------------------------------------------------------------

(* The names that a text defines.                                          *)
NamesIn(t) == {t[j].name : j \in DOMAIN t}

(* A text in which each name is defined once and before its uses.          *)
GoodText(t) ==
  \A i \in DOMAIN t :
    /\ t[i].kind # "gap"
    /\ \A j \in 1 .. i - 1 : t[j].name # t[i].name
    /\ t[i].uses \subseteq
         {t[j].name : j \in 1 .. (IF t[i].kind = "function" THEN i ELSE i - 1)}

(* A text with a gap is not well formed.                                   *)
LEMMA GapSpoils ==
  ASSUME NEW a \in Seq(Item), NEW b \in Seq(Item)
  PROVE  ~ GoodText(a \o (Gap \o b))
<1>1. Gap \in Seq(Item) /\ Len(Gap) = 1 /\ Gap[1].kind = "gap"
  BY DEF Gap, Item
<1>2. Len(a) \in Nat /\ Len(b) \in Nat
  OBVIOUS
<1> DEFINE c == Gap \o b
<1>3. c \in Seq(Item) /\ Len(c) = 1 + Len(b) /\ c[1] = Gap[1]
  <2>1. /\ c \in Seq(Item) /\ Len(c) = Len(Gap) + Len(b)
        /\ \A j \in 1 .. Len(Gap) + Len(b) :
             c[j] = IF j <= Len(Gap) THEN Gap[j] ELSE b[j - Len(Gap)]
    BY <1>1, ConcatProperties, ZenonT(30)
  <2>. HIDE DEF c
  <2>2. 1 \in 1 .. Len(Gap) + Len(b) /\ 1 <= Len(Gap)
    BY <1>1, <1>2
  <2>. QED  BY <1>1, <2>1, <2>2
<1>. HIDE DEF c
<1>4. Len(a) + 1 \in DOMAIN (a \o c) /\ (a \o c)[Len(a) + 1] = c[1]
  BY <1>2, <1>3
<1>. QED  BY <1>1, <1>3, <1>4 DEF c, GoodText

(* The next definition of a text.                                          *)
LEMMA NextDefinition ==
  ASSUME NEW a \in Seq(Item), NEW b \in Seq(Item), NEW s \in Item,
         GoodText(a), s.kind # "gap"
  PROVE  LET fine == /\ s.name \notin NamesIn(a)
                     /\ s.uses \subseteq
                          NamesIn(a) \cup (IF s.kind = "function" THEN {s.name} ELSE {})
         IN  /\ Append(a, s) \in Seq(Item)
             /\ a \o (<<s>> \o b) = Append(a, s) \o b
             /\ NamesIn(Append(a, s)) = NamesIn(a) \cup {s.name}
             /\ fine => GoodText(Append(a, s))
             /\ ~ fine => ~ GoodText(a \o (<<s>> \o b))
<1> DEFINE c == Append(a, s)
           t == c \o b
           n == Len(a) + 1
           fine == /\ s.name \notin NamesIn(a)
                   /\ s.uses \subseteq
                        NamesIn(a) \cup (IF s.kind = "function" THEN {s.name} ELSE {})
<1>1. /\ c \in Seq(Item) /\ Len(c) = n /\ DOMAIN c = 1 .. n /\ c[n] = s
      /\ n \in Nat \ {0} /\ Len(b) \in Nat /\ DOMAIN a = 1 .. n - 1
      /\ \A j \in 1 .. n - 1 : c[j] = a[j]
  OBVIOUS
<1>2. a \o (<<s>> \o b) = t
  <2>1. c = a \o <<s>> /\ <<s>> \in Seq(Item)
    OBVIOUS
  <2>2. (a \o <<s>>) \o b = a \o (<<s>> \o b)
    BY <2>1, ConcatAssociative
  <2>. QED  BY <2>1, <2>2
<1>. HIDE DEF c, n
<1>3. n \in DOMAIN t /\ \A j \in 1 .. n : t[j] = c[j]
  BY <1>1
<1>4. \A j \in 1 .. n : j = n \/ j \in 1 .. n - 1
  BY <1>1
<1>5. NamesIn(c) = NamesIn(a) \cup {s.name}
  BY <1>1, <1>4 DEF NamesIn
<1>6. /\ {a[j].name : j \in 1 .. n - 1} = NamesIn(a)
      /\ {c[j].name : j \in 1 .. n - 1} = NamesIn(a)
      /\ {c[j].name : j \in 1 .. n} = NamesIn(a) \cup {s.name}
  BY <1>1, <1>5 DEF NamesIn
<1>7. ASSUME fine
      PROVE  GoodText(c)
  <2>1. ASSUME NEW i \in 1 .. n - 1
        PROVE  /\ c[i].kind # "gap"
               /\ \A j \in 1 .. i - 1 : c[j].name # c[i].name
               /\ c[i].uses \subseteq
                    {c[j].name : j \in 1 .. (IF c[i].kind = "function" THEN i ELSE i - 1)}
    <3>1. /\ a[i].kind # "gap"
          /\ \A j \in 1 .. i - 1 : a[j].name # a[i].name
          /\ a[i].uses \subseteq
               {a[j].name : j \in 1 .. (IF a[i].kind = "function" THEN i ELSE i - 1)}
      BY <1>1 DEF GoodText
    <3>2. c[i] = a[i] /\ \A j \in 1 .. i : c[j] = a[j]
      BY <1>1
    <3>3. \A j \in 1 .. i - 1 : j \in 1 .. i
      OBVIOUS
    <3>4. {c[j].name : j \in 1 .. i} = {a[j].name : j \in 1 .. i}
          /\ {c[j].name : j \in 1 .. i - 1} = {a[j].name : j \in 1 .. i - 1}
      BY <3>2, <3>3
    <3>5. {c[j].name : j \in 1 .. (IF c[i].kind = "function" THEN i ELSE i - 1)}
            = {a[j].name : j \in 1 .. (IF a[i].kind = "function" THEN i ELSE i - 1)}
      BY <3>2, <3>4
    <3>. QED  BY <3>1, <3>2, <3>3, <3>5
  <2>2. /\ c[n].kind # "gap"
        /\ \A j \in 1 .. n - 1 : c[j].name # c[n].name
        /\ c[n].uses \subseteq
             {c[j].name : j \in 1 .. (IF c[n].kind = "function" THEN n ELSE n - 1)}
    <3>1. c[n].kind # "gap" /\ \A j \in 1 .. n - 1 : c[j].name # c[n].name
      BY <1>1, <1>7 DEF NamesIn
    <3>. QED  BY <1>1, <1>6, <1>7, <3>1
  <2>. QED  BY <1>1, <1>4, <2>1, <2>2 DEF GoodText
<1>8. ASSUME ~ fine
      PROVE  ~ GoodText(t)
  <2>. SUFFICES ASSUME GoodText(t)
                PROVE  fine
    BY <1>8
  <2>1. /\ \A j \in 1 .. n - 1 : t[j].name # t[n].name
        /\ t[n].uses \subseteq
             {t[j].name : j \in 1 .. (IF t[n].kind = "function" THEN n ELSE n - 1)}
    BY <1>3 DEF GoodText
  <2>2. t[n] = s /\ \A j \in 1 .. n - 1 : t[j] = a[j] /\ j \in 1 .. n
    BY <1>1, <1>3
  <2>3. s.name \notin NamesIn(a)
    BY <1>1, <2>1, <2>2 DEF NamesIn
  <2>4. /\ {t[j].name : j \in 1 .. n} = NamesIn(a) \cup {s.name}
        /\ {t[j].name : j \in 1 .. n - 1} = NamesIn(a)
    BY <1>1, <1>3, <1>6, <2>2
  <2>5. s.uses \subseteq NamesIn(a) \cup (IF s.kind = "function" THEN {s.name} ELSE {})
    BY <2>1, <2>2, <2>4
  <2>. QED  BY <2>3, <2>5
<1>. QED  BY <1>1, <1>2, <1>5, <1>7, <1>8 DEF c

(* The text of the program.                                                *)
Whole == Included(program)[Depth][Source]

(* Statement m of a module is the import of another; a module is among the *)
(* first n that have passed.                                               *)
IsImportOf(f, m, name) ==
  LET s == program[f].statements[m] IN s.kind = "import" /\ s.name = name

IsChecked(f, n) == \E k \in 1 .. n : checked[k] = f

(* A module has passed only when its imports had.                          *)
Ordered ==
  \A j \in DOMAIN checked, name \in Files :
    \A m \in DOMAIN program[checked[j]].statements :
      IsImportOf(checked[j], m, name) => IsChecked(name, j - 1)

(* Each activation but the innermost is at an import of the next one.      *)
Nested ==
  \A k \in 1 .. Len(frames) - 1 :
    frames[k].next > 1 /\ IsImportOf(frames[k].file, frames[k].next - 1, frames[k + 1].file)

(* What is behind an activation.                                           *)
Behind(k, m) ==
  m \in 1 .. frames[k].next - 1 /\ (k = Len(frames) \/ m # frames[k].next - 1)

(* Without an error, the imports that an activation is behind have passed. *)
Passed ==
  \A k \in DOMAIN frames, name \in Files, m \in Nat :
    Behind(k, m) /\ IsImportOf(frames[k].file, m, name) => IsChecked(name, Len(checked))

(* Without an error, what an activation has been through has been read.    *)
CheckedPhases == {"begin check", "check"}

ReadBefore ==
  \A k \in DOMAIN frames :
    /\ frames[k].phase # "lexing" => ~ Unlexed(program, frames[k].file)
    /\ frames[k].phase \in CheckedPhases => ~ Unparsed(program, frames[k].file)

(* The text of the program is what has been checked, without an error, and *)
(* what is ahead of the activations, the innermost first.                  *)
Follows(done, ahead) ==
  /\ done \in Seq(Item) /\ GoodText(done)
  /\ ahead \in [0 .. Len(frames) -> Seq(Item)]
  /\ ahead[0] = <<>>
  /\ \A k \in DOMAIN frames :
       ahead[k] = Ahead(program, frames[k].file, frames[k].next, Depth - k) \o ahead[k - 1]
  /\ Whole = done \o ahead[Len(frames)]
  /\ declared = NamesIn(done)

(* The imports are not nested deeper than they are replaced, and the check *)
(* is somewhere in the text.                                               *)
Followed ==
  Len(frames) <= Depth /\ ambiguous = {} /\ \E done, ahead : Follows(done, ahead)

(* A module is checked while it is checked: that ends with an error or not *)
(* at all.                                                                 *)
Circular == \E i, j \in DOMAIN frames : i < j /\ frames[i].file = frames[j].file

CheckFailed == result = "check failed"

(* The inductive invariant.  As long as there is no error the check is at  *)
(* the same place in the text as the activations are in their modules; or  *)
(* the text is known to be bad, and an error has been found or the check   *)
(* is in a circle that it cannot leave without one.                        *)
Inclusion ==
  /\ error_count \in Nat
  /\ CheckFailed => error_count # 0
  /\ PhaseOf(stop_after) >= PhaseOf("check") =>
       /\ Ordered /\ Nested
       /\ error_count = 0 => ReadBefore /\ Passed
       /\ \/ error_count = 0 /\ Followed
          \/ ~ WellFormed(program) /\ (error_count # 0 \/ Circular)

-----------------------------------------------------------------------------

(* A program is well formed when its text is good.                         *)
LEMMA WellFormedIsGood == WellFormed(program) <=> GoodText(Whole)
BY DEF WellFormed, GoodText, Whole, Depth

(* The invariant is enough.                                                *)
LEMMA InclusionIsEnough ==
  ASSUME IInv, Inclusion
  PROVE  ImportsAreInclusions
<1>. SUFFICES ASSUME frames = <<>>, PhaseOf(stop_after) >= PhaseOf("check")
              PROVE  (result # "check failed" /\ error_count = 0) <=> WellFormed(program)
  BY DEF ImportsAreInclusions
<1>1. ~ Circular
  BY DEF Circular
<1>2. ASSUME error_count = 0, Followed
      PROVE  WellFormed(program)
  <2>1. PICK done, ahead : Follows(done, ahead)
    BY <1>2 DEF Followed
  <2>2. Len(frames) = 0
    OBVIOUS
  <2>3. Whole = done \o <<>> /\ done \in Seq(Item) /\ GoodText(done)
    BY <2>1, <2>2 DEF Follows
  <2>4. Whole = done
    BY <2>3, ConcatEmptySeq
  <2>. QED  BY <2>3, <2>4, WellFormedIsGood
<1>. QED  BY <1>1, <1>2 DEF Inclusion, CheckFailed

(* The invariant holds at the start.                                       *)
LEMMA InclusionAtStart ==
  ASSUME Init
  PROVE  Inclusion
<1>1. PICK p \in Programs, phase \in StopAfter : Start(p, phase)
  BY DEF Init
<1>2. /\ program \in Programs
      /\ frames = <<NewFrame(Source)>> /\ declared = {} /\ ambiguous = {}
      /\ error_count = 0 /\ result = "ok" /\ checked = <<>>
  BY <1>1 DEF Start
<1>3. /\ Len(frames) = 1 /\ DOMAIN frames = 1 .. 1 /\ frames[1] = NewFrame(Source)
      /\ NewFrame(Source).file = Source /\ NewFrame(Source).next = 1
      /\ NewFrame(Source).phase = "lexing"
  BY <1>2 DEF NewFrame
<1>4. \A k \in DOMAIN frames : k = 1
  BY <1>3
<1>5. Ordered /\ Nested
  <2>1. DOMAIN checked = {} /\ \A k \in 1 .. Len(frames) - 1 : FALSE
    BY <1>2, <1>3
  <2>. QED  BY <2>1 DEF Ordered, Nested
<1>6. ReadBefore /\ Passed
  <2>1. \A k \in DOMAIN frames : frames[k].next = 1 /\ frames[k].phase = "lexing"
    BY <1>3, <1>4
  <2>2. \A k \in DOMAIN frames, m \in Nat : ~ Behind(k, m)
    BY <2>1 DEF Behind
  <2>. QED  BY <2>1, <2>2 DEF ReadBefore, Passed, CheckedPhases
<1>7. Depth \in Nat /\ Depth >= 1
  <2>1. Cardinality(Files) \in Nat /\ Cardinality(Files) # 0
    BY SourceAssumption, FS_CardinalityType, FS_EmptySet
  <2>. QED  BY <2>1 DEF Depth
<1>8. Followed
  <2> DEFINE first == Ahead(program, Source, 1, Depth - 1)
             ahead == [k \in 0 .. 1 |-> IF k = 0 THEN <<>> ELSE first]
  <2>1. Source \in DOMAIN program /\ program[Source].statements \in Seq(AnyStatement)
    BY <1>2, ProgramsAssumption
  <2>2. Depth - 1 \in 0 .. Depth /\ (Depth - 1) + 1 = Depth
        /\ 1 \in 1 .. Len(program[Source].statements) + 1
    BY <1>7, <2>1
  <2>3. first \in Seq(Item) /\ Whole = first
    <3>1. ASSUME NEW d \in 0 .. Depth, d + 1 = Depth
          PROVE  /\ Ahead(program, Source, 1, d) \in Seq(Item)
                 /\ Included(program)[d + 1][Source] = Ahead(program, Source, 1, d)
      <4>1. d + 1 <= Depth
        BY <1>7, <3>1
      <4>. QED  BY <1>2, <2>1, <2>2, <4>1, AheadUnfolds
    <3>. QED  BY <2>2, <3>1 DEF Whole
  <2>. HIDE DEF first
  <2>4. /\ ahead \in [0 .. 1 -> Seq(Item)] /\ ahead[0] = <<>> /\ ahead[1] = first
    <3>1. <<>> \in Seq(Item)
      OBVIOUS
    <3>. QED  BY <2>3, <3>1
  <2>. HIDE DEF ahead
  <2>5. <<>> \in Seq(Item) /\ GoodText(<<>>) /\ NamesIn(<<>>) = {}
    BY DEF GoodText, NamesIn
  <2>6. first \o <<>> = first /\ <<>> \o first = first
    BY <2>3, ConcatEmptySeq
  <2>7. ahead[1] = Ahead(program, frames[1].file, frames[1].next, Depth - 1) \o ahead[1 - 1]
    <3>1. 1 - 1 = 0
      OBVIOUS
    <3>2. Ahead(program, frames[1].file, frames[1].next, Depth - 1) = first
      BY <1>3 DEF first
    <3>. QED  BY <2>4, <2>6, <3>1, <3>2
  <2>8. Follows(<<>>, ahead)
    BY <1>2, <1>3, <1>4, <2>3, <2>4, <2>5, <2>6, <2>7 DEF Follows
  <2>. QED  BY <1>2, <1>3, <1>7, <2>8 DEF Followed
<1>. QED  BY <1>2, <1>5, <1>6, <1>8 DEF Inclusion, CheckFailed

(* The order of the modules that have passed, while they and the files     *)
(* stay.                                                                   *)
LEMMA OrderedStays ==
  ASSUME program' = program, checked' = checked
  PROVE  Ordered' <=> Ordered
BY DEF Ordered, IsImportOf, IsChecked

(* The imports that the activations are at, after a step that is not one.  *)
LEMMA NestedStays ==
  ASSUME Nested, program' = program,
         Len(frames) \in Nat, Len(frames') \in Nat, Len(frames') <= Len(frames),
         \A k \in 1 .. Len(frames') :
           /\ frames'[k].file = frames[k].file
           /\ k < Len(frames') => frames'[k].next = frames[k].next
  PROVE  Nested'
<1>1. ASSUME NEW k \in 1 .. Len(frames') - 1
      PROVE  /\ frames'[k].next > 1
             /\ IsImportOf(frames'[k].file, frames'[k].next - 1, frames'[k + 1].file)
  <2>1. /\ k \in 1 .. Len(frames) - 1 /\ k < Len(frames')
        /\ k \in 1 .. Len(frames') /\ k + 1 \in 1 .. Len(frames')
    OBVIOUS
  <2>2. /\ frames'[k].file = frames[k].file /\ frames'[k].next = frames[k].next
        /\ frames'[k + 1].file = frames[k + 1].file
    BY <2>1
  <2>3. /\ frames[k].next > 1
        /\ IsImportOf(frames[k].file, frames[k].next - 1, frames[k + 1].file)
    BY <2>1 DEF Nested
  <2>. QED  BY <2>2, <2>3
<1>2. \A f, m, name : IsImportOf(f, m, name)' <=> IsImportOf(f, m, name)
  BY DEF IsImportOf
<1>. QED  BY <1>1, <1>2 DEF Nested

(* What is said of files and statements at hand, while these stay.         *)
LEMMA SameActivations ==
  ASSUME program' = program, declared' = declared, ambiguous' = ambiguous, checked' = checked,
         Len(frames') = Len(frames), DOMAIN frames' = DOMAIN frames,
         Len(frames) \in Nat, DOMAIN frames = 1 .. Len(frames),
         \A k \in DOMAIN frames :
           frames'[k].file = frames[k].file /\ frames'[k].next = frames[k].next
  PROVE  /\ Nested => Nested'
         /\ Passed => Passed'
         /\ Followed => Followed'
         /\ Circular => Circular'
<1>1. Nested => Nested'
  <2>1. /\ Len(frames') \in Nat /\ Len(frames') <= Len(frames)
        /\ \A k \in 1 .. Len(frames') :
             /\ frames'[k].file = frames[k].file
             /\ k < Len(frames') => frames'[k].next = frames[k].next
    OBVIOUS
  <2>. QED  BY <2>1, NestedStays
<1>2. ASSUME Passed
      PROVE  Passed'
  <2>1. \A f, m, name : IsImportOf(f, m, name)' <=> IsImportOf(f, m, name)
    BY DEF IsImportOf
  <2>2. \A f : IsChecked(f, Len(checked))' <=> IsChecked(f, Len(checked))
    BY DEF IsChecked
  <2>3. \A k \in DOMAIN frames, m \in Nat : Behind(k, m)' <=> Behind(k, m)
    BY DEF Behind
  <2>4. ASSUME NEW k \in DOMAIN frames', NEW name \in Files, NEW m \in Nat,
               Behind(k, m)', IsImportOf(frames'[k].file, m, name)
        PROVE  IsChecked(name, Len(checked))
    BY <1>2, <2>3, <2>4 DEF Passed
  <2>. QED  BY <2>1, <2>2, <2>4 DEF Passed
<1>3. ASSUME Followed
      PROVE  Followed'
  <2>1. PICK done, ahead : Follows(done, ahead)
    BY <1>3 DEF Followed
  <2>2. \A k \in DOMAIN frames' :
          ahead[k] = Ahead(program, frames'[k].file, frames'[k].next, Depth - k) \o ahead[k - 1]
    BY <2>1 DEF Follows
  <2>3. Whole' = Whole
    BY DEF Whole
  <2>4. Follows(done, ahead)'
    BY <2>1, <2>2, <2>3 DEF Follows
  <2>. QED  BY <1>3, <2>4 DEF Followed
<1>4. Circular => Circular'
  BY DEF Circular
<1>. QED  BY <1>1, <1>2, <1>3, <1>4

(* What leaves the modules alone.                                          *)
LEMMA InclusionUntouched ==
  ASSUME IInv, Inclusion, UNCHANGED <<inputs, frames, symbols, error_count, checked>>,
         CheckFailed' => CheckFailed
  PROVE  Inclusion'
<1>1. /\ program' = program /\ stop_after' = stop_after /\ frames' = frames
      /\ declared' = declared /\ ambiguous' = ambiguous /\ error_count' = error_count
      /\ checked' = checked
  BY DEF inputs, symbols
<1>2. Len(frames) \in Nat /\ DOMAIN frames = 1 .. Len(frames)
  <2>1. frames \in Seq(FrameType)
    BY DEF IInv, Shape
  <2>. QED  BY ONLY <2>1
<1>3. Ordered' <=> Ordered
  BY <1>1, OrderedStays
<1>4. /\ Nested => Nested'
      /\ Passed => Passed'
      /\ Followed => Followed'
      /\ Circular => Circular'
  BY ONLY <1>1, <1>2, SameActivations
<1>5. ReadBefore => ReadBefore'
  BY ONLY <1>1 DEF ReadBefore
<1>. QED  BY <1>1, <1>3, <1>4, <1>5 DEF Inclusion

(* An error, in a program that has one.                                    *)
LEMMA ErrorKeeps ==
  ASSUME Inclusion, UNCHANGED <<inputs, checked>>, error_count' \in Nat \ {0},
         PhaseOf(stop_after) >= PhaseOf("check") => ~ WellFormed(program) /\ Nested'
  PROVE  Inclusion'
<1>1. program' = program /\ stop_after' = stop_after /\ checked' = checked
  BY DEF inputs
<1>2. Ordered' <=> Ordered
  BY <1>1, OrderedStays
<1>. QED  BY <1>1, <1>2 DEF Inclusion

(* The sequence of activations without the last.                           *)
LEMMA WithoutLast ==
  ASSUME IInv, frames # <<>>, frames' = SubSeq(frames, 1, Len(frames) - 1), program' = program
  PROVE  /\ Len(frames') = Len(frames) - 1 /\ frames' \in Seq(FrameType')
         /\ DOMAIN frames' = 1 .. Len(frames) - 1
         /\ \A k \in 1 .. Len(frames) - 1 : frames'[k] = frames[k]
         /\ Nested => Nested'
<1> DEFINE rest == SubSeq(frames, 1, Len(frames) - 1)
<1>1. /\ frames \in Seq(FrameType) /\ Len(frames) \in Nat \ {0}
      /\ DOMAIN frames = 1 .. Len(frames)
  BY AtWork
<1>2. /\ rest \in Seq(FrameType) /\ Len(rest) = Len(frames) - 1
      /\ \A i \in 1 .. Len(frames) - 1 : rest[i] = frames[i]
  BY <1>1
<1>. HIDE DEF rest
<1>3. DOMAIN rest = 1 .. Len(frames) - 1
  BY <1>2
<1>4. frames' = rest
  BY DEF rest
<1>5. FrameType' = FrameType
  BY DEF FrameType
<1>6. Nested => Nested'
  <2>1. /\ Len(rest) <= Len(frames) /\ Len(rest) \in Nat
        /\ \A k \in 1 .. Len(rest) : rest[k].file = frames[k].file /\ rest[k].next = frames[k].next
    BY <1>1, <1>2
  <2>. QED  BY <1>1, <1>4, <2>1, NestedStays
<1>. QED  BY <1>2, <1>3, <1>4, <1>5, <1>6

(* What is ahead of the innermost activation.                              *)
LEMMA AheadOfFrame ==
  ASSUME IInv, frames # <<>>, Len(frames) <= Depth, NEW done, NEW ahead, Follows(done, ahead)
  PROVE  LET depth == Depth - Len(frames)
             now   == Ahead(program, Frame.file, Frame.next, depth)
         IN  /\ depth \in 0 .. Depth
             /\ now \in Seq(Item) /\ ahead[Len(frames) - 1] \in Seq(Item)
             /\ ahead[Len(frames)] = now \o ahead[Len(frames) - 1]
             /\ Whole = done \o (now \o ahead[Len(frames) - 1])
<1> DEFINE depth == Depth - Len(frames)
<1>1. /\ Len(frames) \in Nat \ {0} /\ DOMAIN frames = 1 .. Len(frames)
      /\ Frame = frames[Len(frames)]
      /\ Frame.file \in DOMAIN program
      /\ Frame.next \in 1 .. Len(program[Frame.file].statements) + 1
  BY AtWork DEF Text
<1>2. Depth \in Nat /\ program \in Programs
  BY IncludedUnfolds DEF IInv, Shape
<1>3. depth \in 0 .. Depth
  BY <1>1, <1>2
<1>4. Ahead(program, Frame.file, Frame.next, depth) \in Seq(Item)
  BY <1>1, <1>2, <1>3, AheadUnfolds
<1>5. /\ Len(frames) \in DOMAIN frames /\ Len(frames) - 1 \in 0 .. Len(frames)
  BY <1>1
<1>6. ahead[Len(frames) - 1] \in Seq(Item)
  BY <1>5 DEF Follows
<1>7. ahead[Len(frames)] = Ahead(program, Frame.file, Frame.next, depth) \o ahead[Len(frames) - 1]
  BY <1>1, <1>5 DEF Follows
<1>8. Whole = done \o ahead[Len(frames)]
  BY DEF Follows
<1>. QED  BY <1>3, <1>4, <1>6, <1>7, <1>8

(* A module that cannot be read leaves a gap.                              *)
LEMMA UnreadableSpoils ==
  ASSUME IInv, Followed, frames # <<>>, Unreadable(program, Frame.file)
  PROVE  ~ WellFormed(program)
<1>1. PICK done, ahead : Follows(done, ahead)
  BY DEF Followed
<1> DEFINE b == ahead[Len(frames) - 1]
<1>2. /\ b \in Seq(Item)
      /\ Whole = done \o (Ahead(program, Frame.file, Frame.next, Depth - Len(frames)) \o b)
  BY <1>1, AheadOfFrame DEF Followed
<1>. HIDE DEF b
<1>3. Whole = done \o (Gap \o b)
  BY <1>2 DEF Ahead
<1>. QED  BY <1>1, <1>2, <1>3, GapSpoils, WellFormedIsGood DEF Follows

(* A sequence whose last element changes.                                  *)
LEMMA LastReplaced ==
  ASSUME NEW S, NEW s \in Seq(S), s # <<>>, NEW new \in S
  PROVE  LET t == [s EXCEPT ![Len(s)] = new]
         IN  /\ t \in Seq(S) /\ Len(t) = Len(s) /\ DOMAIN t = DOMAIN s
             /\ \A k \in DOMAIN s : t[k] = IF k = Len(s) THEN new ELSE s[k]
OBVIOUS

(* An activation goes on to another phase.                                 *)
LEMMA PhaseChangeKeeps ==
  ASSUME IInv, Inclusion, frames # <<>>, NEW next \in CheckedPhases \cup {"parsing"},
         frames' = [frames EXCEPT ![Len(frames)].phase = next],
         UNCHANGED <<inputs, symbols, error_count, checked, result>>,
         PhaseOf(stop_after) >= PhaseOf("check") /\ error_count = 0 =>
           /\ ~ Unlexed(program, Frame.file)
           /\ next \in CheckedPhases => ~ Unparsed(program, Frame.file)
  PROVE  Inclusion'
<1> DEFINE new == [frames[Len(frames)] EXCEPT !.phase = next]
<1>1. /\ program' = program /\ stop_after' = stop_after /\ declared' = declared
      /\ ambiguous' = ambiguous /\ error_count' = error_count /\ checked' = checked
      /\ result' = result
  BY DEF inputs, symbols
<1>2. /\ frames \in Seq(FrameType) /\ Len(frames) \in Nat \ {0}
      /\ DOMAIN frames = 1 .. Len(frames) /\ Frame = frames[Len(frames)]
      /\ Frame \in FrameType
  BY AtWork
<1>3. /\ new \in FrameType /\ new.file = Frame.file /\ new.next = Frame.next /\ new.phase = next
  BY <1>2 DEF FrameType, CheckedPhases
<1>4. frames' = [frames EXCEPT ![Len(frames)] = new]
  OBVIOUS
<1>. HIDE DEF new
<1>5. /\ Len(frames') = Len(frames)
      /\ DOMAIN frames' = DOMAIN frames
      /\ \A k \in DOMAIN frames : frames'[k] = IF k = Len(frames) THEN new ELSE frames[k]
  <2>1. /\ frames \in Seq(FrameType) /\ frames # <<>> /\ new \in FrameType
    BY <1>2, <1>3
  <2> DEFINE fs == [frames EXCEPT ![Len(frames)] = new]
  <2>2. /\ Len(fs) = Len(frames) /\ DOMAIN fs = DOMAIN frames
        /\ \A k \in DOMAIN frames : fs[k] = IF k = Len(frames) THEN new ELSE frames[k]
    BY ONLY <2>1, LastReplaced, Zenon DEF fs
  <2>3. frames' = fs
    BY <1>4
  <2>. HIDE DEF fs
  <2>. QED  BY ONLY <2>2, <2>3, Zenon
<1>6. /\ \A k \in DOMAIN frames :
           frames'[k].file = frames[k].file /\ frames'[k].next = frames[k].next
      /\ \A k \in DOMAIN frames :
           /\ k # Len(frames) => frames'[k].phase = frames[k].phase
           /\ k = Len(frames) => frames'[k].phase = next /\ frames[k].file = Frame.file
  BY ONLY <1>2, <1>3, <1>5
<1>7. Ordered' <=> Ordered
  BY <1>1, OrderedStays
<1>8. /\ Nested => Nested'
      /\ Passed => Passed'
      /\ Followed => Followed'
      /\ Circular => Circular'
  BY ONLY <1>1, <1>2, <1>5, <1>6, SameActivations
<1>9. ASSUME PhaseOf(stop_after) >= PhaseOf("check"), error_count = 0, ReadBefore
      PROVE  ReadBefore'
  <2>1. /\ ~ Unlexed(program, Frame.file)
        /\ next \in CheckedPhases => ~ Unparsed(program, Frame.file)
    BY <1>9
  <2>. QED  BY ONLY ReadBefore, <1>1, <1>5, <1>6, <2>1 DEF ReadBefore
<1>10. CheckFailed' <=> CheckFailed
  BY <1>1 DEF CheckFailed
<1>. QED  BY <1>1, <1>7, <1>8, <1>9, <1>10 DEF Inclusion

(* A phase of reading ends.                                                *)
LEMMA ReadingKeeps ==
  ASSUME IInv, Inclusion, frames # <<>>, UNCHANGED <<inputs, symbols>>,
         NEW found \in {0, 1}, NEW failure,
         NEW next \in CheckedPhases \cup {"parsing"},
         Frame.phase \in {"lexing", "parsing"},
         found = 1 => Unreadable(program, Frame.file),
         PhaseOf(stop_after) >= PhaseOf("check") /\ error_count = 0 /\ found = 0 =>
           /\ ~ Unlexed(program, Frame.file)
           /\ next \in CheckedPhases => ~ Unparsed(program, Frame.file),
         PhaseDone(found, failure, next)
  PROVE  Inclusion'
<1>1. error_count \in Nat /\ error_count' = error_count + found
  BY DEF PhaseDone, Inclusion
<1>2. program' = program /\ stop_after' = stop_after
  BY DEF inputs
<1>3. CASE error_count + found # 0
  <2>1. frames' = SubSeq(frames, 1, Len(frames) - 1) /\ checked' = checked
    BY <1>3 DEF PhaseDone, HasError, Return
  <2>2. ASSUME PhaseOf(stop_after) >= PhaseOf("check")
        PROVE  ~ WellFormed(program) /\ Nested'
    <3>1. Nested'
      BY <1>2, <2>1, <2>2, WithoutLast DEF Inclusion
    <3>2. CASE error_count = 0 /\ Followed
      <4>1. found = 1
        BY <1>1, <1>3, <3>2
      <4>. QED  BY <3>1, <3>2, <4>1, UnreadableSpoils
    <3>3. CASE ~ (error_count = 0 /\ Followed)
      BY <2>2, <3>1, <3>3 DEF Inclusion
    <3>. QED  BY <3>1, <3>2, <3>3
  <2>3. error_count' \in Nat \ {0}
    BY <1>1, <1>3
  <2>. QED  BY <2>1, <2>2, <2>3, ErrorKeeps
<1>4. CASE error_count + found = 0 /\ stop_after = Frame.phase
  <2>1. result' = "ok"
    BY <1>4 DEF PhaseDone, HasError, Return
  <2>2. ~ (PhaseOf(stop_after) >= PhaseOf("check"))
    <3>1. stop_after = "lexing" \/ stop_after = "parsing"
      BY <1>4
    <3>2. PhaseOf(stop_after) = 1 \/ PhaseOf(stop_after) = 2
      BY <3>1, PhaseNumbers
    <3>3. PhaseOf("check") = 3
      BY PhaseNumbers
    <3>. QED  BY ONLY <3>2, <3>3
  <2>3. error_count' \in Nat
    BY <1>1
  <2>4. ~ (PhaseOf(stop_after') >= PhaseOf("check"))
    BY <1>2, <2>2
  <2>. QED  BY ONLY <2>1, <2>3, <2>4 DEF Inclusion, CheckFailed
<1>5. CASE error_count + found = 0 /\ stop_after # Frame.phase
  <2>1. /\ frames' = [frames EXCEPT ![Len(frames)].phase = next]
        /\ UNCHANGED <<result, checked>>
    BY <1>5 DEF PhaseDone, HasError
  <2>2. error_count = 0 /\ found = 0 /\ error_count' = error_count
    BY <1>1, <1>5
  <2>3. PhaseOf(stop_after) >= PhaseOf("check") /\ error_count = 0 =>
          /\ ~ Unlexed(program, Frame.file)
          /\ next \in CheckedPhases => ~ Unparsed(program, Frame.file)
    BY <2>2
  <2>. QED  BY <2>1, <2>2, <2>3, PhaseChangeKeeps
<1>. QED  BY <1>3, <1>4, <1>5

(* Without an error, the text of the innermost activation has been read.   *)
LEMMA FrameIsRead ==
  ASSUME IInv, Inclusion, frames # <<>>, PhaseOf(stop_after) >= PhaseOf("check"), error_count = 0
  PROVE  /\ Frame.phase # "lexing" => ~ Unlexed(program, Frame.file)
         /\ Frame.phase \in CheckedPhases => ~ Unreadable(program, Frame.file)
<1>1. Len(frames) \in DOMAIN frames /\ Frame = frames[Len(frames)]
  BY AtWork
<1>2. ReadBefore
  BY DEF Inclusion
<1>3. "lexing" \notin CheckedPhases
  BY DEF CheckedPhases
<1>. QED  BY <1>1, <1>2, <1>3 DEF ReadBefore, Unreadable

(* Reading a module.                                                       *)
LEMMA LexAndParseIncludes ==
  ASSUME IInv, Inclusion, LexModule \/ ParseModule
  PROVE  Inclusion'
<1>1. Running /\ frames # <<>>
  BY DEF LexModule, ParseModule
<1>2. CASE Abort
  <2>1. UNCHANGED <<inputs, frames, symbols, error_count, checked, result>>
    BY <1>2 DEF Abort, moduleState
  <2>2. CheckFailed' <=> CheckFailed
    BY <2>1 DEF CheckFailed
  <2>. QED  BY <2>1, <2>2, InclusionUntouched
<1>3. CASE ~ Abort
  <2>1. UNCHANGED <<inputs, symbols>>
    BY <1>3 DEF LexModule, ParseModule, LexAndParse
  <2>2. CASE LexModule
    <3> DEFINE found == IF Unlexed(program, Frame.file) THEN 1 ELSE 0
    <3>1. PhaseDone(found, "lexing failed", "parsing")
      BY <1>3, <2>2 DEF LexModule, LexAndParse, Text, Unlexed, Unparsed
    <3>2. /\ found \in {0, 1}
          /\ found = 1 => Unreadable(program, Frame.file)
          /\ found = 0 => ~ Unlexed(program, Frame.file)
      BY DEF Unreadable
    <3>. HIDE DEF found
    <3>3. Frame.phase = "lexing"
      BY <2>2 DEF LexModule
    <3>4. "parsing" \notin CheckedPhases
      BY DEF CheckedPhases
    <3>5. PICK failure : PhaseDone(found, failure, "parsing")
      BY <3>1, Zenon
    <3>6. PhaseOf(stop_after) >= PhaseOf("check") /\ error_count = 0 /\ found = 0 =>
            /\ ~ Unlexed(program, Frame.file)
            /\ "parsing" \in CheckedPhases => ~ Unparsed(program, Frame.file)
      BY <3>2, <3>4, Zenon
    <3>7. Frame.phase \in {"lexing", "parsing"} /\ "parsing" \in CheckedPhases \cup {"parsing"}
      BY <3>3
    <3>. QED  BY ONLY IInv, Inclusion, <1>1, <2>1, <3>2, <3>5, <3>6, <3>7, ReadingKeeps
  <2>3. CASE ParseModule
    <3> DEFINE found == IF Unparsed(program, Frame.file) THEN 1 ELSE 0
    <3>1. PhaseDone(found, "parsing failed", "begin check")
      BY <1>3, <2>3 DEF ParseModule, LexAndParse, Text, Unlexed, Unparsed
    <3>2. /\ found \in {0, 1}
          /\ found = 1 => Unreadable(program, Frame.file)
          /\ found = 0 => ~ Unparsed(program, Frame.file)
      BY DEF Unreadable
    <3>. HIDE DEF found
    <3>3. Frame.phase = "parsing"
      BY <2>3 DEF ParseModule
    <3>4. PhaseOf(stop_after) >= PhaseOf("check") /\ error_count = 0 =>
            ~ Unlexed(program, Frame.file)
      BY <1>1, <3>3, FrameIsRead
    <3>5. "begin check" \in CheckedPhases
      BY DEF CheckedPhases
    <3>6. PICK failure, next : next \in CheckedPhases /\ PhaseDone(found, failure, next)
      BY <3>1, <3>5, Zenon
    <3>7. PhaseOf(stop_after) >= PhaseOf("check") /\ error_count = 0 /\ found = 0 =>
            /\ ~ Unlexed(program, Frame.file)
            /\ next \in CheckedPhases => ~ Unparsed(program, Frame.file)
      BY <3>2, <3>4, Zenon
    <3>8. Frame.phase \in {"lexing", "parsing"} /\ next \in CheckedPhases \cup {"parsing"}
      BY <3>3, <3>6
    <3>. QED  BY ONLY IInv, Inclusion, <1>1, <2>1, <3>2, <3>6, <3>7, <3>8, ReadingKeeps
  <2>. QED  BY <2>2, <2>3
<1>. QED  BY <1>2, <1>3

(* The beginning of the check of a module.                                 *)
LEMMA BeginCheckIncludes ==
  ASSUME IInv, Inclusion, BeginCheck
  PROVE  Inclusion'
<1>1. CASE Abort
  <2>1. UNCHANGED <<inputs, frames, symbols, error_count, checked, result>>
    BY <1>1 DEF Abort, moduleState
  <2>2. CheckFailed' <=> CheckFailed
    BY <2>1 DEF CheckFailed
  <2>. QED  BY <2>1, <2>2, InclusionUntouched
<1>2. CASE ~ Abort
  <2>1. /\ frames # <<>> /\ Frame.phase = "begin check"
        /\ frames' = [frames EXCEPT ![Len(frames)].phase = "check"]
        /\ UNCHANGED <<inputs, symbols, error_count, checked, result>>
    BY <1>2 DEF BeginCheck
  <2>2. PhaseOf(stop_after) >= PhaseOf("check") /\ error_count = 0 =>
          ~ Unlexed(program, Frame.file) /\ ~ Unparsed(program, Frame.file)
    <3>1. Frame.phase \in CheckedPhases
      BY <2>1 DEF CheckedPhases
    <3>. QED  BY <2>1, <3>1, FrameIsRead DEF Unreadable
  <2>3. "check" \in CheckedPhases
    BY DEF CheckedPhases
  <2>. QED  BY <2>1, <2>2, <2>3, PhaseChangeKeeps
<1>. QED  BY <1>1, <1>2

(* The activations after a statement.                                      *)
LEMMA AdvancedFrames ==
  ASSUME IInv, Checking, HasStatement
  PROVE  /\ Len(frames) \in Nat \ {0} /\ DOMAIN frames = 1 .. Len(frames)
         /\ Frame = frames[Len(frames)]
         /\ Advanced \in Seq(FrameType) /\ Len(Advanced) = Len(frames)
         /\ DOMAIN Advanced = DOMAIN frames
         /\ \A k \in DOMAIN frames :
              /\ Advanced[k].file = frames[k].file
              /\ Advanced[k].phase = frames[k].phase
              /\ k # Len(frames) => Advanced[k].next = frames[k].next
              /\ k = Len(frames) => Advanced[k].next = Frame.next + 1
<1> DEFINE new == [frames[Len(frames)] EXCEPT !.next = @ + 1]
<1>1. /\ frames # <<>> /\ frames \in Seq(FrameType)
      /\ Len(frames) \in Nat \ {0} /\ DOMAIN frames = 1 .. Len(frames)
      /\ Frame = frames[Len(frames)] /\ Frame \in FrameType
  BY AtWork DEF Checking
<1>2. /\ new \in FrameType /\ new.file = Frame.file /\ new.phase = Frame.phase
      /\ new.next = Frame.next + 1
  <2>1. Frame.next \in Nat
    BY <1>1, Zenon DEF FrameType
  <2>2. Frame.next + 1 \in Nat
    BY ONLY <2>1
  <2>. QED  BY <1>1, <2>2 DEF FrameType
<1>3. Advanced = [frames EXCEPT ![Len(frames)] = new]
  BY DEF Advanced
<1>. HIDE DEF new
<1>4. /\ Advanced \in Seq(FrameType) /\ Len(Advanced) = Len(frames)
      /\ DOMAIN Advanced = DOMAIN frames
      /\ \A k \in DOMAIN frames : Advanced[k] = IF k = Len(frames) THEN new ELSE frames[k]
  BY <1>1, <1>2, <1>3, LastReplaced
<1>. QED  BY <1>1, <1>2, <1>4

(* The statement at hand and what is behind it.                            *)
LEMMA StatementAhead ==
  ASSUME IInv, Inclusion, PhaseOf(stop_after) >= PhaseOf("check"), error_count = 0,
         Checking, HasStatement, Len(frames) <= Depth,
         NEW done, NEW ahead, Follows(done, ahead)
  PROVE  LET depth == Depth - Len(frames)
             now   == IF Statement.kind = "import" THEN Included(program)[depth][Statement.name]
                      ELSE <<Statement>>
             rest  == Ahead(program, Frame.file, Frame.next + 1, depth)
             below == ahead[Len(frames) - 1]
         IN  /\ depth \in 0 .. Depth
             /\ Statement \in AnyStatement
             /\ now \in Seq(Item) /\ rest \in Seq(Item) /\ below \in Seq(Item)
             /\ Whole = done \o (now \o (rest \o below))
<1> DEFINE depth == Depth - Len(frames)
           now   == IF Statement.kind = "import" THEN Included(program)[depth][Statement.name]
                    ELSE <<Statement>>
           rest  == Ahead(program, Frame.file, Frame.next + 1, depth)
           below == ahead[Len(frames) - 1]
           this  == Ahead(program, Frame.file, Frame.next, depth)
<1>1. /\ frames # <<>> /\ Frame.next <= Len(program[Frame.file].statements)
      /\ Frame.phase = "check"
  BY DEF Checking, HasStatement, Text
<1>2. /\ depth \in 0 .. Depth /\ this \in Seq(Item) /\ below \in Seq(Item)
      /\ Whole = done \o (this \o below)
  BY <1>1, AheadOfFrame
<1>3. /\ Frame.file \in DOMAIN program
      /\ Frame.next \in 1 .. Len(program[Frame.file].statements) + 1
      /\ program[Frame.file].statements \in Seq(AnyStatement)
  BY <1>1, AtWork DEF Text
<1>4. Statement = program[Frame.file].statements[Frame.next] /\ Statement \in AnyStatement
  BY <1>1, <1>3 DEF Statement, Text
<1>5. ~ Unreadable(program, Frame.file)
  <2>1. Frame.phase \in CheckedPhases
    BY <1>1 DEF CheckedPhases
  <2>. QED  BY <1>1, <2>1, FrameIsRead
<1>6. program \in Programs /\ Depth \in Nat
  BY IncludedUnfolds DEF IInv, Shape
<1>. HIDE DEF depth
<1>7. this = now \o rest
  BY <1>1, <1>2, <1>3, <1>4, <1>5, <1>6, AheadUnfolds
<1>8. rest \in Seq(Item)
  <2>1. Frame.next + 1 \in 1 .. Len(program[Frame.file].statements) + 1
    BY <1>1, <1>3
  <2>. QED  BY <1>2, <1>3, <1>6, <2>1, AheadUnfolds
<1>9. now \in Seq(Item)
  <2>1. CASE Statement.kind = "import"
    <3>1. Statement.name \in Files
      BY <1>4, <2>1 DEF AnyStatement
    <3>2. Included(program)[depth] \in [Files -> Seq(Item)]
      BY <1>2, <1>6, IncludedUnfolds
    <3>. QED  BY <2>1, <3>1, <3>2
  <2>2. CASE Statement.kind # "import"
    <3>1. Statement \in Item
      BY <1>4 DEF Item
    <3>2. <<Statement>> \in Seq(Item)
      BY <3>1
    <3>. QED  BY <2>2, <3>2
  <2>. QED  BY <2>1, <2>2
<1>. HIDE DEF now, rest, below, this
<1>10. this \o below = now \o (rest \o below)
  BY <1>2, <1>7, <1>8, <1>9, ConcatAssociative
<1>. QED  BY <1>2, <1>4, <1>8, <1>9, <1>10 DEF depth, now, rest, below

(* What stays true when a statement that is no import is passed.           *)
LEMMA AdvanceKeeps ==
  ASSUME IInv, Checking, HasStatement, program' = program, checked' = checked,
         frames' = Advanced
  PROVE  /\ Nested => Nested'
         /\ Circular => Circular'
         /\ ReadBefore => ReadBefore'
         /\ Passed /\ Statement.kind # "import" => Passed'
<1>1. /\ Len(frames) \in Nat \ {0} /\ DOMAIN frames = 1 .. Len(frames)
      /\ Frame = frames[Len(frames)]
      /\ Len(frames') = Len(frames) /\ DOMAIN frames' = DOMAIN frames
      /\ \A k \in DOMAIN frames :
           /\ frames'[k].file = frames[k].file
           /\ frames'[k].phase = frames[k].phase
           /\ k # Len(frames) => frames'[k].next = frames[k].next
           /\ k = Len(frames) => frames'[k].next = Frame.next + 1
  BY AdvancedFrames
<1>2. Nested => Nested'
  <2>1. /\ Len(frames') \in Nat /\ Len(frames) \in Nat /\ Len(frames') <= Len(frames)
        /\ \A k \in 1 .. Len(frames') :
             /\ frames'[k].file = frames[k].file
             /\ k < Len(frames') => frames'[k].next = frames[k].next
    BY ONLY <1>1
  <2>. QED  BY <2>1, NestedStays
<1>3. Circular => Circular'
  BY ONLY <1>1 DEF Circular
<1>4. ReadBefore => ReadBefore'
  BY ONLY <1>1, program' = program DEF ReadBefore
<1>5. ASSUME Passed, Statement.kind # "import"
      PROVE  Passed'
  <2>1. \A f, m, name : IsImportOf(f, m, name)' <=> IsImportOf(f, m, name)
    BY DEF IsImportOf
  <2>2. \A f : IsChecked(f, Len(checked))' <=> IsChecked(f, Len(checked))
    BY DEF IsChecked
  <2>3. Frame.next \in Nat
    <3>1. Frame \in FrameType
      BY AtWork DEF Checking
    <3>. QED  BY <3>1, Zenon DEF FrameType
  <2>4. ASSUME NEW k \in DOMAIN frames, NEW name \in Files, NEW m \in Nat,
               Behind(k, m)', IsImportOf(frames[k].file, m, name)
        PROVE  IsChecked(name, Len(checked))
    <3>1. m \in 1 .. frames'[k].next - 1
          /\ (k = Len(frames) \/ m # frames'[k].next - 1)
      BY <1>1, <2>4 DEF Behind
    <3>2. CASE k = Len(frames)
      <4>1. m # Frame.next
        BY <1>1, <1>5, <2>4, <3>2 DEF IsImportOf, Statement, Text
      <4>2. m \in 1 .. Frame.next - 1
        BY <1>1, <2>3, <3>1, <3>2, <4>1
      <4>3. Behind(k, m)
        BY <1>1, <3>2, <4>2 DEF Behind
      <4>. QED  BY <1>5, <2>4, <4>3 DEF Passed
    <3>3. CASE k # Len(frames)
      <4>1. Behind(k, m)
        BY <1>1, <3>1, <3>3 DEF Behind
      <4>. QED  BY <1>5, <2>4, <4>1 DEF Passed
    <3>. QED  BY <3>2, <3>3
  <2>. QED  BY <1>1, <2>1, <2>2, <2>4 DEF Passed
<1>. QED  BY <1>2, <1>3, <1>4, <1>5

(* The names a definition may use: those before it, and a function itself. *)
Fine ==
  /\ Statement.name \notin declared
  /\ Statement.uses \subseteq
       declared \cup (IF Statement.kind = "function" THEN {Statement.name} ELSE {})

(* The number of elements of a finite set.                                 *)
LEMMA Counts ==
  ASSUME NEW S, IsFiniteSet(S)
  PROVE  Cardinality(S) \in Nat /\ (Cardinality(S) = 0 <=> S = {})
BY FS_CardinalityType, FS_EmptySet

(* The check of a definition finds an error exactly when it is not fine.   *)
LEMMA DefinitionErrors ==
  ASSUME IInv, error_count \in Nat, CheckFunction \/ CheckVariable
  PROVE  /\ Checking /\ HasStatement /\ Statement.kind \in {"function", "variable"}
         /\ Statement \in AnyStatement
         /\ frames' = Advanced /\ declared' = declared \cup {Statement.name}
         /\ UNCHANGED <<inputs, checked, result>>
         /\ error_count' \in Nat /\ error_count' >= error_count
         /\ ambiguous = {} /\ Fine => error_count' = error_count /\ ambiguous' = {}
         /\ ambiguous = {} /\ ~ Fine => error_count' # error_count
<1> DEFINE name    == Statement.name
           same    == {name} \cap declared
           known   == IF Statement.kind = "function" THEN declared \cup {name} ELSE declared
           doubled == IF Statement.kind = "function" THEN ambiguous \cup same ELSE ambiguous
           bad     == BadUses(known, doubled)
<1>1. /\ Checking /\ HasStatement /\ Statement.kind \in {"function", "variable"}
      /\ frames' = Advanced /\ declared' = declared \cup {name}
      /\ UNCHANGED <<inputs, checked, result>>
      /\ ambiguous' = doubled
      /\ error_count' = error_count + Cardinality(same) + Cardinality(bad)
  <2>1. CASE CheckFunction
    BY <2>1 DEF CheckFunction
  <2>2. CASE CheckVariable
    BY <2>2 DEF CheckVariable
  <2>. QED  BY <2>1, <2>2
<1>2. Statement \in AnyStatement
  BY <1>1, AtStatement
<1>3. IsFiniteSet(Statement.uses)
  BY <1>1, <1>2 DEF AnyStatement
<1>4. bad \subseteq Statement.uses
  BY DEF BadUses
<1>5. IsFiniteSet(bad) /\ IsFiniteSet(same)
  <2>1. IsFiniteSet({name}) /\ same \subseteq {name}
    BY FS_Singleton
  <2>. QED  BY <1>3, <1>4, <2>1, FS_Subset
<1>6. /\ Cardinality(bad) \in Nat /\ (Cardinality(bad) = 0 <=> bad = {})
      /\ Cardinality(same) \in Nat /\ (Cardinality(same) = 0 <=> same = {})
  BY <1>5, Counts
<1>7. ambiguous = {} => (Fine <=> same = {} /\ bad = {})
  <2>1. same = {} <=> name \notin declared
    OBVIOUS
  <2>2. ambiguous = {} /\ same = {} =>
          (bad = {} <=> Statement.uses \subseteq known)
    BY DEF BadUses
  <2>3. known = declared \cup (IF Statement.kind = "function" THEN {name} ELSE {})
    OBVIOUS
  <2>. QED  BY <2>1, <2>2, <2>3 DEF Fine
<1>8. ambiguous = {} /\ same = {} => doubled = {}
  OBVIOUS
<1>. HIDE DEF bad, same, doubled, known
<1>9. /\ error_count' \in Nat /\ error_count' >= error_count
      /\ error_count' = error_count <=> Cardinality(same) = 0 /\ Cardinality(bad) = 0
  BY ONLY error_count \in Nat, <1>1, <1>6
<1>. QED  BY <1>1, <1>2, <1>6, <1>7, <1>8, <1>9

(* The text is followed over a definition without an error.                *)
LEMMA DefinitionFollowed ==
  ASSUME IInv, Inclusion, PhaseOf(stop_after) >= PhaseOf("check"), error_count = 0,
         Checking, HasStatement, Statement.kind # "import", Followed,
         program' = program, frames' = Advanced, declared' = declared \cup {Statement.name},
         Fine => ambiguous' = {}
  PROVE  /\ Fine => Followed'
         /\ ~ Fine => ~ WellFormed(program)
<1>1. PICK done, ahead : Follows(done, ahead)
  BY DEF Followed
<1> DEFINE len   == Len(frames)
           depth == Depth - len
           rest  == Ahead(program, Frame.file, Frame.next + 1, depth)
           below == ahead[len - 1]
           behind == rest \o below
           then  == [k \in 0 .. len |-> IF k = len THEN behind ELSE ahead[k]]
           more  == Append(done, Statement)
<1>2. /\ depth \in 0 .. Depth /\ Statement \in AnyStatement
      /\ rest \in Seq(Item) /\ below \in Seq(Item)
      /\ Whole = done \o (<<Statement>> \o (rest \o below))
  BY <1>1, StatementAhead DEF Followed
<1>3. /\ done \in Seq(Item) /\ GoodText(done) /\ declared = NamesIn(done)
      /\ ahead \in [0 .. len -> Seq(Item)] /\ ahead[0] = <<>>
      /\ \A k \in DOMAIN frames :
           ahead[k] = Ahead(program, frames[k].file, frames[k].next, Depth - k) \o ahead[k - 1]
  BY <1>1 DEF Follows
<1>4. /\ len \in Nat \ {0} /\ DOMAIN frames = 1 .. len /\ Frame = frames[len]
      /\ Len(frames') = len /\ DOMAIN frames' = DOMAIN frames
      /\ \A k \in DOMAIN frames :
           /\ frames'[k].file = frames[k].file
           /\ k # len => frames'[k].next = frames[k].next
           /\ k = len => frames'[k].next = Frame.next + 1
  BY AdvancedFrames
<1>5. Statement \in Item /\ Statement.kind # "gap"
  BY <1>2 DEF AnyStatement, Item
<1>6. behind \in Seq(Item)
  BY <1>2
<1>. HIDE DEF len, rest, below, behind, more
<1>7. /\ more \in Seq(Item)
      /\ done \o (<<Statement>> \o behind) = more \o behind
      /\ NamesIn(more) = NamesIn(done) \cup {Statement.name}
      /\ Fine => GoodText(more)
      /\ ~ Fine => ~ GoodText(done \o (<<Statement>> \o behind))
  BY <1>3, <1>5, <1>6, NextDefinition DEF Fine, more
<1>8. Whole = done \o (<<Statement>> \o behind)
  BY <1>2 DEF behind
<1>9. ~ Fine => ~ WellFormed(program)
  BY <1>7, <1>8, WellFormedIsGood
<1>10. ASSUME Fine
       PROVE  Followed'
  <2>1. /\ then \in [0 .. len -> Seq(Item)]
        /\ then[len] = behind
        /\ \A k \in 0 .. len : k # len => then[k] = ahead[k]
    BY ONLY <1>3, <1>4, <1>6 DEF then
  <2>. HIDE DEF then
  <2>2. then[0] = <<>>
    <3>1. 0 \in 0 .. len /\ 0 # len
      BY ONLY <1>4
    <3>. QED  BY <1>3, <2>1, <3>1
  <2>3. ASSUME NEW k \in DOMAIN frames'
        PROVE  then[k] = Ahead(program, frames'[k].file, frames'[k].next, Depth - k) \o then[k - 1]
    <3>1. /\ k \in 1 .. len /\ k - 1 \in 0 .. len /\ k - 1 # len /\ k \in 0 .. len
          /\ k \in DOMAIN frames
      BY <1>4
    <3>2. CASE k = len
      <4>1. then[k] = behind /\ then[k - 1] = below
        BY <2>1, <3>1, <3>2 DEF below
      <4>2. frames'[k].file = Frame.file /\ frames'[k].next = Frame.next + 1
        BY <1>4, <3>1, <3>2
      <4>3. Ahead(program, frames'[k].file, frames'[k].next, Depth - k) = rest
        BY <3>2, <4>2 DEF rest
      <4>. QED  BY <4>1, <4>3 DEF behind
    <3>3. CASE k # len
      <4>1. then[k] = ahead[k] /\ then[k - 1] = ahead[k - 1]
        BY <2>1, <3>1, <3>3
      <4>2. frames'[k].file = frames[k].file /\ frames'[k].next = frames[k].next
        BY <1>4, <3>1, <3>3
      <4>. QED  BY <1>3, <3>1, <4>1, <4>2
    <3>. QED  BY <3>2, <3>3
  <2>4. Whole' = Whole
    BY DEF Whole
  <2>5. Whole = more \o then[Len(frames')]
    BY <1>4, <1>7, <1>8, <2>1
  <2>6. declared' = NamesIn(more) /\ GoodText(more) /\ ambiguous' = {} /\ Len(frames') <= Depth
    BY <1>3, <1>4, <1>7, <1>10 DEF Followed, len
  <2>7. PICK done2, ahead2 : done2 = more /\ ahead2 = then
    OBVIOUS
  <2>8. Follows(done2, ahead2)'
    <3>1. then \in [0 .. Len(frames') -> Seq(Item)]
      BY <1>4, <2>1
    <3>2. more \in Seq(Item)
      BY <1>7
    <3>. QED  BY <2>2, <2>3, <2>4, <2>5, <2>6, <2>7, <3>1, <3>2 DEF Follows
  <2>. QED  BY <2>6, <2>8 DEF Followed
<1>. QED  BY <1>9, <1>10

(* A definition.                                                           *)
LEMMA DefinitionIncludes ==
  ASSUME IInv, Inclusion, CheckFunction \/ CheckVariable
  PROVE  Inclusion'
<1>1. /\ Checking /\ HasStatement /\ Statement.kind \in {"function", "variable"}
      /\ frames' = Advanced /\ declared' = declared \cup {Statement.name}
      /\ UNCHANGED <<inputs, checked, result>>
      /\ error_count' \in Nat /\ error_count' >= error_count
      /\ ambiguous = {} /\ Fine => error_count' = error_count /\ ambiguous' = {}
      /\ ambiguous = {} /\ ~ Fine => error_count' # error_count
  BY DefinitionErrors DEF Inclusion
<1>2. program' = program /\ stop_after' = stop_after /\ checked' = checked /\ result' = result
  BY <1>1 DEF inputs
<1>3. /\ Nested => Nested'
      /\ Circular => Circular'
      /\ ReadBefore => ReadBefore'
      /\ Passed /\ Statement.kind # "import" => Passed'
  BY <1>1, <1>2, AdvanceKeeps
<1>4. CASE error_count' # 0
  <2>1. ASSUME PhaseOf(stop_after) >= PhaseOf("check")
        PROVE  ~ WellFormed(program)
    <3>1. CASE error_count = 0 /\ Followed
      <4>1. ~ Fine
        BY <1>1, <1>4, <3>1 DEF Followed
      <4>. QED  BY <1>1, <1>2, <2>1, <3>1, <4>1, DefinitionFollowed
    <3>2. CASE ~ (error_count = 0 /\ Followed)
      BY <2>1, <3>2 DEF Inclusion
    <3>. QED  BY <3>1, <3>2
  <2>2. PhaseOf(stop_after) >= PhaseOf("check") => Nested'
    BY <1>3 DEF Inclusion
  <2>. QED  BY <1>1, <1>4, <2>1, <2>2, ErrorKeeps
<1>5. CASE error_count' = 0
  <2>1. error_count = 0
    BY <1>1, <1>5 DEF Inclusion
  <2>2. CheckFailed' <=> CheckFailed
    BY <1>2 DEF CheckFailed
  <2>3. ASSUME PhaseOf(stop_after) >= PhaseOf("check")
        PROVE  Ordered' /\ Nested' /\ ReadBefore' /\ Passed'
    <3>1. Ordered /\ Nested /\ ReadBefore /\ Passed
      BY <2>1, <2>3 DEF Inclusion
    <3>2. Ordered'
      BY <1>2, <3>1, OrderedStays
    <3>. QED  BY <1>1, <1>3, <3>1, <3>2
  <2>4. ASSUME PhaseOf(stop_after) >= PhaseOf("check")
        PROVE  Followed' \/ (~ WellFormed(program) /\ Circular')
    <3>1. CASE Followed
      <4>1. Fine /\ ambiguous' = {}
        BY <1>1, <1>5, <2>1, <3>1 DEF Followed
      <4>. QED  BY <1>1, <1>2, <2>1, <2>4, <3>1, <4>1, DefinitionFollowed
    <3>2. CASE ~ Followed
      BY <1>3, <2>1, <2>4, <3>2 DEF Inclusion
    <3>. QED  BY <3>1, <3>2
  <2>. QED  BY <1>2, <1>5, <2>1, <2>2, <2>3, <2>4 DEF Inclusion
<1>. QED  BY <1>4, <1>5

(* A missing file, or one nested too deeply, leaves a gap at its import.   *)
LEMMA GapAtImport ==
  ASSUME IInv, Inclusion, PhaseOf(stop_after) >= PhaseOf("check"), error_count = 0,
         Checking, HasStatement, Statement.kind = "import", Followed,
         Statement.name \notin DOMAIN program \/ Len(frames) = Depth
  PROVE  ~ WellFormed(program)
<1> DEFINE depth == Depth - Len(frames)
           rest  == Ahead(program, Frame.file, Frame.next + 1, depth)
<1>1. PICK done, ahead : Follows(done, ahead)
  BY DEF Followed
<1>2. /\ depth \in 0 .. Depth /\ Statement \in AnyStatement
      /\ Included(program)[depth][Statement.name] \in Seq(Item)
      /\ rest \in Seq(Item) /\ ahead[Len(frames) - 1] \in Seq(Item)
      /\ Whole = done \o (Included(program)[depth][Statement.name]
                          \o (rest \o ahead[Len(frames) - 1]))
  BY <1>1, StatementAhead DEF Followed
<1>3. Included(program)[depth][Statement.name] = Gap
  <2>1. Statement.name \in Files
    BY <1>2 DEF AnyStatement
  <2>2. program \in Programs
    BY DEF IInv, Shape
  <2>3. Included(program)[depth] = Level(program, depth, Included(program)[depth - 1])
    BY <1>2, <2>2, IncludedUnfolds
  <2>4. Statement.name \notin DOMAIN program \/ depth = 0
    <3>1. Depth \in Nat
      BY <2>2, IncludedUnfolds
    <3>. QED  BY <3>1
  <2>. QED  BY <2>1, <2>3, <2>4 DEF Level
<1>4. PICK b : b \in Seq(Item) /\ b = rest \o ahead[Len(frames) - 1]
  <2> DEFINE all == rest \o ahead[Len(frames) - 1]
  <2>1. all \in Seq(Item)
    BY <1>2, ConcatProperties, ZenonT(30)
  <2>. HIDE DEF all
  <2>2. \E b : b \in Seq(Item) /\ b = all
    BY <2>1
  <2>. QED  BY <2>2 DEF all
<1>. HIDE DEF rest
<1>5. Whole = done \o (Gap \o b) /\ done \in Seq(Item)
  BY <1>1, <1>2, <1>3, <1>4 DEF Follows
<1>. QED  BY <1>4, <1>5, GapSpoils, WellFormedIsGood

(* The activations after an import.                                        *)
LEMMA ImportFrames ==
  ASSUME IInv, Checking, HasStatement, Statement.name \in DOMAIN program,
         frames' = Append(Advanced, NewFrame(Statement.name))
  PROVE  /\ Len(frames) \in Nat \ {0} /\ DOMAIN frames = 1 .. Len(frames)
         /\ Frame = frames[Len(frames)] /\ Frame.next \in Nat \ {0}
         /\ Len(frames') = Len(frames) + 1 /\ DOMAIN frames' = 1 .. Len(frames) + 1
         /\ \A k \in 1 .. Len(frames) :
              /\ frames'[k].file = frames[k].file
              /\ frames'[k].phase = frames[k].phase
              /\ k # Len(frames) => frames'[k].next = frames[k].next
              /\ k = Len(frames) => frames'[k].next = Frame.next + 1
         /\ frames'[Len(frames) + 1].file = Statement.name
         /\ frames'[Len(frames) + 1].next = 1
         /\ frames'[Len(frames) + 1].phase = "lexing"
<1> DEFINE new == NewFrame(Statement.name)
<1>1. new.file = Statement.name /\ new.next = 1 /\ new.phase = "lexing"
  BY DEF NewFrame
<1>2. /\ Len(frames) \in Nat \ {0} /\ DOMAIN frames = 1 .. Len(frames)
      /\ Frame = frames[Len(frames)]
      /\ Advanced \in Seq(FrameType) /\ Len(Advanced) = Len(frames)
      /\ \A k \in DOMAIN frames :
           /\ Advanced[k].file = frames[k].file
           /\ Advanced[k].phase = frames[k].phase
           /\ k # Len(frames) => Advanced[k].next = frames[k].next
           /\ k = Len(frames) => Advanced[k].next = Frame.next + 1
  BY AdvancedFrames
<1>3. new \in FrameType
  BY DEF NewFrame, FrameType
<1>4. Frame.next \in Nat \ {0}
  <2>1. frames # <<>>
    BY DEF Checking
  <2>2. Frame.next \in 1 .. Len(Text.statements) + 1
    BY <2>1, AtWork
  <2>. QED  BY ONLY <2>2
<1>. HIDE DEF new
<1>5. /\ Len(Append(Advanced, new)) = Len(frames) + 1
      /\ DOMAIN Append(Advanced, new) = 1 .. Len(frames) + 1
      /\ Append(Advanced, new)[Len(frames) + 1] = new
      /\ \A k \in 1 .. Len(frames) : Append(Advanced, new)[k] = Advanced[k]
  BY ONLY <1>2, <1>3
<1>6. frames' = Append(Advanced, new)
  BY DEF new
<1>7. /\ Len(frames') = Len(frames) + 1 /\ DOMAIN frames' = 1 .. Len(frames) + 1
      /\ frames'[Len(frames) + 1] = new
      /\ \A k \in 1 .. Len(frames) : frames'[k] = Advanced[k]
  BY <1>5, <1>6
<1>. QED  BY ONLY <1>1, <1>2, <1>4, <1>7

(* What stays true when an import is begun.                                *)
LEMMA ImportKeeps ==
  ASSUME IInv, Checking, HasStatement, Statement.kind = "import",
         Statement.name \in DOMAIN program,
         program' = program, checked' = checked,
         frames' = Append(Advanced, NewFrame(Statement.name))
  PROVE  /\ Nested => Nested'
         /\ Circular => Circular'
         /\ ReadBefore => ReadBefore'
         /\ Passed => Passed'
<1> DEFINE len == Len(frames)
<1>1. /\ len \in Nat \ {0} /\ DOMAIN frames = 1 .. len
      /\ Frame = frames[len] /\ Frame.next \in Nat \ {0}
      /\ Len(frames') = len + 1 /\ DOMAIN frames' = 1 .. len + 1
      /\ \A k \in 1 .. len :
           /\ frames'[k].file = frames[k].file
           /\ frames'[k].phase = frames[k].phase
           /\ k # len => frames'[k].next = frames[k].next
           /\ k = len => frames'[k].next = Frame.next + 1
      /\ frames'[len + 1].file = Statement.name
      /\ frames'[len + 1].next = 1
      /\ frames'[len + 1].phase = "lexing"
  BY ImportFrames
<1>2. \A f, m, name : IsImportOf(f, m, name)' <=> IsImportOf(f, m, name)
  BY DEF IsImportOf
<1>3. IsImportOf(Frame.file, Frame.next, Statement.name)
  BY DEF IsImportOf, Statement, Text
<1>. HIDE DEF len
<1>4. ASSUME Nested
      PROVE  Nested'
  <2>1. ASSUME NEW k \in 1 .. Len(frames') - 1
        PROVE  /\ frames'[k].next > 1
               /\ IsImportOf(frames'[k].file, frames'[k].next - 1, frames'[k + 1].file)
    <3>1. k \in 1 .. len
      BY ONLY <1>1, k \in 1 .. Len(frames') - 1
    <3>2. CASE k = len
      <4>1. /\ frames'[k].next > 1 /\ frames'[k].next - 1 = Frame.next
            /\ frames'[k].file = Frame.file /\ frames'[k + 1].file = Statement.name
        BY ONLY <1>1, <3>1, <3>2
      <4>. QED  BY <1>3, <4>1
    <3>3. CASE k # len
      <4>1. /\ k \in 1 .. len - 1 /\ k + 1 \in 1 .. len
            /\ frames'[k].next = frames[k].next /\ frames'[k].file = frames[k].file
            /\ frames'[k + 1].file = frames[k + 1].file
        BY ONLY <1>1, <3>1, <3>3
      <4>2. /\ frames[k].next > 1
            /\ IsImportOf(frames[k].file, frames[k].next - 1, frames[k + 1].file)
        BY <1>4, <4>1 DEF Nested, len
      <4>. QED  BY <4>1, <4>2
    <3>. QED  BY <3>2, <3>3
  <2>. QED  BY <1>2, <2>1 DEF Nested
<1>5. ASSUME Circular
      PROVE  Circular'
  <2>1. PICK i, j \in DOMAIN frames : i < j /\ frames[i].file = frames[j].file
    BY <1>5 DEF Circular
  <2>2. i \in DOMAIN frames' /\ j \in DOMAIN frames'
        /\ frames'[i].file = frames[i].file /\ frames'[j].file = frames[j].file
    BY ONLY <1>1, <2>1
  <2>. QED  BY <2>1, <2>2 DEF Circular
<1>6. ASSUME ReadBefore
      PROVE  ReadBefore'
  <2>1. "lexing" \notin CheckedPhases
    BY DEF CheckedPhases
  <2>2. ASSUME NEW k \in DOMAIN frames'
        PROVE  /\ frames'[k].phase # "lexing" => ~ Unlexed(program, frames'[k].file)
               /\ frames'[k].phase \in CheckedPhases => ~ Unparsed(program, frames'[k].file)
    <3>1. k = len + 1 \/ k \in 1 .. len
      BY ONLY <1>1, k \in DOMAIN frames'
    <3>2. CASE k = len + 1
      BY ONLY <1>1, <2>1, <3>2
    <3>3. CASE k \in 1 .. len
      BY ONLY ReadBefore, <1>1, <3>3 DEF ReadBefore
    <3>. QED  BY <3>1, <3>2, <3>3
  <2>. QED  BY ONLY <2>2, program' = program DEF ReadBefore
<1>7. ASSUME Passed
      PROVE  Passed'
  <2>1. \A f : IsChecked(f, Len(checked))' <=> IsChecked(f, Len(checked))
    BY DEF IsChecked
  <2>2. ASSUME NEW k \in DOMAIN frames', NEW name \in Files, NEW m \in Nat,
               Behind(k, m)', IsImportOf(frames'[k].file, m, name)
        PROVE  IsChecked(name, Len(checked))
    <3>1. m \in 1 .. frames'[k].next - 1
          /\ (k = Len(frames') \/ m # frames'[k].next - 1)
      BY <2>2 DEF Behind
    <3>2. k \in 1 .. len
      <4>1. k # len + 1
        BY ONLY <1>1, <3>1
      <4>. QED  BY ONLY <1>1, <4>1, k \in DOMAIN frames'
    <3>3. m \in 1 .. frames[k].next - 1 /\ (k = len \/ m # frames[k].next - 1)
      <4>1. CASE k = len
        <5>1. frames'[k].next - 1 = Frame.next /\ k # Len(frames') /\ frames[k] = Frame
          BY ONLY <1>1, <4>1
        <5>2. m \in 1 .. Frame.next - 1
          BY ONLY <1>1, <3>1, <5>1
        <5>. QED  BY <4>1, <5>1, <5>2
      <4>2. CASE k # len
        <5>1. frames'[k].next = frames[k].next /\ k # Len(frames')
          BY ONLY <1>1, <3>2, <4>2
        <5>. QED  BY ONLY <3>1, <5>1
      <4>. QED  BY <4>1, <4>2
    <3>4. Behind(k, m) /\ k \in DOMAIN frames /\ frames'[k].file = frames[k].file
      BY <1>1, <3>2, <3>3 DEF Behind, len
    <3>. QED  BY <1>7, <2>2, <3>4 DEF Passed
  <2>. QED  BY <1>2, <2>1, <2>2 DEF Passed
<1>. QED  BY <1>4, <1>5, <1>6, <1>7

(* More activations than files: two are of the same file.                  *)
LEMMA DeepIsCircular ==
  ASSUME NEW n \in Nat, NEW fs, DOMAIN fs = 1 .. n, n = Depth + 1,
         \A k \in DOMAIN fs : fs[k].file \in Files
  PROVE  \E i, j \in DOMAIN fs : i < j /\ fs[i].file = fs[j].file
<1> DEFINE name == [k \in 1 .. n |-> fs[k].file]
<1>1. IsFiniteSet(1 .. n) /\ Cardinality(1 .. n) = n
  BY FS_Interval
<1>2. IsFiniteSet(Files) /\ Depth \in Nat /\ Cardinality(Files) = Depth
  BY SourceAssumption, FS_CardinalityType DEF Depth
<1>3. name \in [1 .. n -> Files] /\ Cardinality(Files) < Cardinality(1 .. n)
  BY <1>1, <1>2
<1>4. \A k \in 1 .. n : name[k] = fs[k].file
  OBVIOUS
<1>. HIDE DEF name
<1>5. PICK i, j \in 1 .. n : i # j /\ name[i] = name[j]
  BY <1>1, <1>2, <1>3, FS_PigeonHole
<1>6. i < j \/ j < i
  BY <1>5
<1>. QED  BY <1>4, <1>5, <1>6

(* The text is followed into an import.                                    *)
LEMMA ImportFollowed ==
  ASSUME IInv, Inclusion, PhaseOf(stop_after) >= PhaseOf("check"), error_count = 0,
         Checking, HasStatement, Statement.kind = "import", Followed,
         Statement.name \in DOMAIN program, Len(frames) # Depth,
         program' = program, declared' = declared, ambiguous' = ambiguous,
         frames' = Append(Advanced, NewFrame(Statement.name))
  PROVE  Followed'
<1>1. PICK done, ahead : Follows(done, ahead)
  BY DEF Followed
<1> DEFINE len    == Len(frames)
           depth  == Depth - len
           now    == Included(program)[depth][Statement.name]
           rest   == Ahead(program, Frame.file, Frame.next + 1, depth)
           below  == ahead[len - 1]
           behind == rest \o below
           all    == now \o behind
           then   == [k \in 0 .. len + 1 |-> IF k = len + 1 THEN all
                                             ELSE IF k = len THEN behind ELSE ahead[k]]
<1>2. /\ depth \in 0 .. Depth
      /\ now \in Seq(Item) /\ rest \in Seq(Item) /\ below \in Seq(Item)
      /\ Whole = done \o all
  BY <1>1, StatementAhead DEF Followed
<1>3. /\ done \in Seq(Item) /\ GoodText(done) /\ declared = NamesIn(done)
      /\ ahead \in [0 .. len -> Seq(Item)] /\ ahead[0] = <<>>
      /\ \A k \in DOMAIN frames :
           ahead[k] = Ahead(program, frames[k].file, frames[k].next, Depth - k) \o ahead[k - 1]
      /\ len <= Depth /\ ambiguous = {}
  BY <1>1 DEF Follows, Followed
<1>4. /\ len \in Nat \ {0} /\ DOMAIN frames = 1 .. len
      /\ Frame = frames[len] /\ Frame.next \in Nat \ {0}
      /\ Len(frames') = len + 1 /\ DOMAIN frames' = 1 .. len + 1
      /\ \A k \in 1 .. len :
           /\ frames'[k].file = frames[k].file
           /\ frames'[k].phase = frames[k].phase
           /\ k # len => frames'[k].next = frames[k].next
           /\ k = len => frames'[k].next = Frame.next + 1
      /\ frames'[len + 1].file = Statement.name
      /\ frames'[len + 1].next = 1
  BY ImportFrames
<1>. HIDE DEF len
<1>5. behind \in Seq(Item) /\ all \in Seq(Item)
  <2>1. behind \in Seq(Item)
    BY <1>2, ConcatProperties, ZenonT(30)
  <2>. HIDE DEF behind
  <2>. QED  BY <1>2, <2>1, ConcatProperties, ZenonT(30)
<1>6. now = Ahead(program, Statement.name, 1, Depth - (len + 1))
  <2>1. program \in Programs /\ Depth \in Nat
    BY IncludedUnfolds DEF IInv, Shape
  <2>2. /\ Depth - (len + 1) \in 0 .. Depth /\ (Depth - (len + 1)) + 1 <= Depth
        /\ (Depth - (len + 1)) + 1 = depth
    <3>1. len # Depth /\ len <= Depth
      BY <1>3 DEF len
    <3>2. len \in Nat \ {0}
      BY <1>4
    <3>3. PICK d : d = depth
      OBVIOUS
    <3>4. d = Depth - len
      BY <3>3
    <3>. HIDE DEF depth
    <3>5. Depth - (len + 1) \in 0 .. Depth /\ (Depth - (len + 1)) + 1 <= Depth
          /\ (Depth - (len + 1)) + 1 = d
      BY ONLY <2>1, <3>1, <3>2, <3>4
    <3>. QED  BY <3>3, <3>5
  <2>3. program[Statement.name].statements \in Seq(AnyStatement)
    BY <2>1, ProgramsAssumption
  <2>4. 1 \in 1 .. Len(program[Statement.name].statements) + 1
    BY ONLY <2>3
  <2>5. ASSUME NEW d \in 0 .. Depth, d + 1 <= Depth
        PROVE  Included(program)[d + 1][Statement.name] = Ahead(program, Statement.name, 1, d)
    BY <2>1, <2>4, <2>5, AheadUnfolds
  <2>. QED  BY <2>2, <2>5
<1>. HIDE DEF now, rest, below, behind, all, depth
<1>7. /\ then \in [0 .. len + 1 -> Seq(Item)]
      /\ then[len + 1] = all /\ then[len] = behind
      /\ \A k \in 0 .. len + 1 : k # len /\ k # len + 1 => then[k] = ahead[k]
  BY ONLY <1>3, <1>4, <1>5 DEF then
<1>. HIDE DEF then
<1>8. then[0] = <<>>
  <2>1. 0 \in 0 .. len + 1 /\ 0 # len /\ 0 # len + 1
    BY ONLY <1>4
  <2>. QED  BY <1>3, <1>7, <2>1
<1>9. ASSUME NEW k \in DOMAIN frames'
      PROVE  then[k] = Ahead(program, frames'[k].file, frames'[k].next, Depth - k) \o then[k - 1]
  <2>1. CASE k = len + 1
    <3>1. k - 1 = len
      BY ONLY <1>4, <2>1
    <3>2. then[k] = now \o then[k - 1]
      BY <1>7, <2>1, <3>1 DEF all
    <3>. QED  BY <1>4, <1>6, <2>1, <3>2
  <2>2. CASE k = len
    <3>1. k - 1 \in 0 .. len + 1 /\ k - 1 # len /\ k - 1 # len + 1 /\ k \in 1 .. len
      BY ONLY <1>4, <2>2
    <3>2. then[k] = rest \o then[k - 1]
      BY <1>7, <2>2, <3>1 DEF behind, below
    <3>3. Ahead(program, frames'[k].file, frames'[k].next, Depth - k) = rest
      BY <1>4, <2>2, <3>1 DEF rest, depth
    <3>. QED  BY <3>2, <3>3
  <2>3. CASE k # len /\ k # len + 1
    <3>1. /\ k \in 1 .. len /\ k \in 0 .. len + 1 /\ k - 1 \in 0 .. len + 1
          /\ k - 1 # len /\ k - 1 # len + 1
      BY ONLY <1>4, <2>3, k \in DOMAIN frames'
    <3>2. then[k] = ahead[k] /\ then[k - 1] = ahead[k - 1]
      BY <1>7, <2>3, <3>1
    <3>3. frames'[k].file = frames[k].file /\ frames'[k].next = frames[k].next
      BY <1>4, <2>3, <3>1
    <3>. QED  BY <1>3, <1>4, <3>1, <3>2, <3>3
  <2>. QED  BY <2>1, <2>2, <2>3
<1>10. Whole' = Whole /\ Whole = done \o then[Len(frames')]
  BY <1>2, <1>4, <1>7 DEF Whole
<1>11. Len(frames') <= Depth
  <2>1. Depth \in Nat
    BY IncludedUnfolds DEF IInv, Shape
  <2>2. len <= Depth /\ len # Depth
    BY <1>3 DEF len
  <2>. QED  BY ONLY <1>4, <2>1, <2>2
<1>12. PICK ahead2 : ahead2 = then
  OBVIOUS
<1>13. then \in [0 .. Len(frames') -> Seq(Item)]
  BY <1>4, <1>7
<1>14. Follows(done, ahead2)'
  BY <1>3, <1>8, <1>9, <1>10, <1>12, <1>13 DEF Follows
<1>. QED  BY <1>3, <1>11, <1>14 DEF Followed

(* An import.                                                              *)
LEMMA CheckImportIncludes ==
  ASSUME IInv, Inclusion, CheckImport
  PROVE  Inclusion'
<1>1. /\ Checking /\ HasStatement /\ Statement.kind = "import"
      /\ UNCHANGED <<inputs, symbols, checked, result>>
  BY DEF CheckImport
<1>2. /\ program' = program /\ stop_after' = stop_after /\ checked' = checked
      /\ result' = result /\ declared' = declared /\ ambiguous' = ambiguous
  BY <1>1 DEF inputs, symbols
<1>3. CASE Statement.name \notin DOMAIN program
  <2>1. error_count' = error_count + 1 /\ frames' = Advanced
    BY <1>3 DEF CheckImport
  <2>2. error_count' \in Nat \ {0}
    <3>1. error_count \in Nat
      BY DEF Inclusion
    <3>. QED  BY ONLY <2>1, <3>1
  <2>3. ASSUME PhaseOf(stop_after) >= PhaseOf("check")
        PROVE  ~ WellFormed(program) /\ Nested'
    <3>1. Nested'
      BY <1>1, <1>2, <2>1, <2>3, AdvanceKeeps DEF Inclusion
    <3>2. CASE error_count = 0 /\ Followed
      BY <1>1, <1>3, <2>3, <3>1, <3>2, GapAtImport
    <3>3. CASE ~ (error_count = 0 /\ Followed)
      BY <2>3, <3>1, <3>3 DEF Inclusion
    <3>. QED  BY <3>2, <3>3
  <2>. QED  BY <1>1, <2>2, <2>3, ErrorKeeps
<1>4. CASE Statement.name \in DOMAIN program
  <2>1. frames' = Append(Advanced, NewFrame(Statement.name)) /\ error_count' = error_count
    BY <1>4 DEF CheckImport
  <2>2. /\ Nested => Nested'
        /\ Circular => Circular'
        /\ ReadBefore => ReadBefore'
        /\ Passed => Passed'
    BY <1>1, <1>2, <1>4, <2>1, ImportKeeps
  <2>3. Ordered' <=> Ordered
    BY <1>2, OrderedStays
  <2>4. ASSUME PhaseOf(stop_after) >= PhaseOf("check"), error_count = 0, Followed,
               Len(frames) = Depth
        PROVE  Circular'
    <3>1. /\ Len(frames) \in Nat \ {0} /\ DOMAIN frames = 1 .. Len(frames)
          /\ Len(frames') = Len(frames) + 1 /\ DOMAIN frames' = 1 .. Len(frames) + 1
          /\ \A k \in 1 .. Len(frames) : frames'[k].file = frames[k].file
          /\ frames'[Len(frames) + 1].file = Statement.name
      BY <1>1, <1>4, <2>1, ImportFrames
    <3>2. \A k \in DOMAIN frames : frames[k].file \in Files
      <4>1. frames \in Seq(FrameType) /\ program \in Programs
        BY DEF IInv, Shape
      <4>2. DOMAIN program \subseteq Files
        BY <4>1, ProgramsAssumption
      <4>3. \A k \in DOMAIN frames : frames[k] \in FrameType
        BY <4>1
      <4>. QED  BY <4>2, <4>3, Zenon DEF FrameType
    <3>3. Statement.name \in Files
      <4>1. Statement \in AnyStatement
        BY <1>1, AtStatement
      <4>. QED  BY <1>1, <4>1 DEF AnyStatement
    <3>4. \A k \in DOMAIN frames' : frames'[k].file \in Files
      BY ONLY <3>1, <3>2, <3>3
    <3>5. PICK n, fs : n \in Nat /\ n = Len(frames') /\ fs = frames'
      BY <3>1
    <3>6. \E i, j \in DOMAIN fs : i < j /\ fs[i].file = fs[j].file
      BY ONLY <2>4, <3>1, <3>4, <3>5, DeepIsCircular
    <3>. QED  BY <3>5, <3>6 DEF Circular
  <2>5. ASSUME PhaseOf(stop_after) >= PhaseOf("check"), error_count = 0
        PROVE  Followed' \/ (~ WellFormed(program) /\ Circular')
    <3>1. CASE Followed /\ Len(frames) # Depth
      BY <1>1, <1>2, <1>4, <2>1, <2>5, <3>1, ImportFollowed
    <3>2. CASE Followed /\ Len(frames) = Depth
      BY <1>1, <2>4, <2>5, <3>2, GapAtImport
    <3>3. CASE ~ Followed
      BY <2>2, <2>5, <3>3 DEF Inclusion
    <3>. QED  BY <3>1, <3>2, <3>3
  <2>6. CheckFailed' <=> CheckFailed
    BY <1>2 DEF CheckFailed
  <2>. QED  BY <1>2, <2>1, <2>2, <2>3, <2>5, <2>6 DEF Inclusion
<1>. QED  BY <1>3, <1>4

(* The modules passed after one more.                                      *)
LEMMA PassedGrows ==
  ASSUME IInv, frames # <<>>, checked' = Append(checked, Frame.file)
  PROVE  /\ Len(checked) \in Nat /\ DOMAIN checked = 1 .. Len(checked)
         /\ Len(checked') = Len(checked) + 1 /\ DOMAIN checked' = 1 .. Len(checked) + 1
         /\ checked'[Len(checked) + 1] = Frame.file
         /\ \A k \in 1 .. Len(checked) : checked'[k] = checked[k]
         /\ \A k \in DOMAIN checked' : checked'[k] \in DOMAIN program
<1>1. checked \in Seq(DOMAIN program) /\ Frame.file \in DOMAIN program
  BY AtWork DEF IInv, Shape
<1>2. PICK f : f = Frame.file
  OBVIOUS
<1>3. checked' = Append(checked, f) /\ f \in DOMAIN program
  BY <1>1, <1>2
<1>. QED  BY ONLY <1>1, <1>2, <1>3

(* The imports of a module are in front of it among those that have        *)
(* passed, so that a module never passes inside an import of itself.       *)
LEMMA LoopNeverPasses ==
  ASSUME IInv, Nested, Ordered', program' = program,
         \A k \in DOMAIN checked' : checked'[k] \in DOMAIN program,
         Len(checked') \in Nat, DOMAIN checked' = 1 .. Len(checked'),
         frames # <<>>, NEW i \in 1 .. Len(frames) - 1,
         frames[i].file = frames[Len(frames)].file,
         NEW last \in DOMAIN checked', checked'[last] = frames[Len(frames)].file
  PROVE  FALSE
<1> DEFINE len  == Len(frames)
           Wrong == {q \in Nat : q \in DOMAIN checked'
                                 /\ \E k \in i + 1 .. len : checked'[q] = frames[k].file}
<1>1. len \in Nat \ {0} /\ DOMAIN frames = 1 .. len
  BY AtWork
<1>2. \A k \in 1 .. len :
        /\ frames[k].file \in DOMAIN program
        /\ frames[k].next \in 1 .. Len(program[frames[k].file].statements) + 1
        /\ program[frames[k].file].statements \in Seq(AnyStatement)
  <2>1. frames \in Seq(FrameType)
    BY DEF IInv, Shape
  <2>2. \A k \in DOMAIN frames : frames[k] \in FrameType
    BY <2>1
  <2>3. \A k \in DOMAIN frames : frames[k].file \in DOMAIN program
    BY <2>2, Zenon DEF FrameType
  <2>4. \A k \in DOMAIN frames : frames[k].next \in 1 .. Len(program[frames[k].file].statements) + 1
    BY DEF IInv, Shape
  <2>5. \A f \in DOMAIN program : program[f].statements \in Seq(AnyStatement)
    BY AtWork
  <2>. QED  BY <1>1, <2>3, <2>4, <2>5
<1>3. \A k \in 1 .. len - 1 :
        frames[k].next > 1
        /\ IsImportOf(frames[k].file, frames[k].next - 1, frames[k + 1].file)
  BY DEF Nested
<1>. HIDE DEF len
<1>4. i \in Nat \ {0} /\ i < len /\ i \in 1 .. len - 1 /\ frames[i].file = frames[len].file
  <2>1. i \in 1 .. len - 1
    BY DEF len
  <2>. QED  BY ONLY <1>1, <2>1, frames[i].file = frames[Len(frames)].file DEF len
<1>5. ASSUME NEW q \in DOMAIN checked', NEW k \in i + 1 .. len, checked'[q] = frames[k].file
      PROVE  \E r \in 1 .. q - 1 : \E n \in i + 1 .. len : checked'[r] = frames[n].file
  <2>1. PICK at \in 1 .. len - 1 : frames[at].file = frames[k].file /\ at + 1 \in i + 1 .. len
    <3>1. CASE k = len
      <4>1. i + 1 \in i + 1 .. len
        BY ONLY <1>1, <1>4
      <4>. QED  BY <1>4, <3>1, <4>1
    <3>2. CASE k # len
      <4>1. k \in 1 .. len - 1 /\ k + 1 \in i + 1 .. len
        BY ONLY <1>1, <1>4, <3>2, k \in i + 1 .. len
      <4>. QED  BY <4>1
    <3>. QED  BY <3>1, <3>2
  <2> DEFINE user == frames[k].file
             name == frames[at + 1].file
             m    == frames[at].next - 1
  <2>2. at \in 1 .. len /\ at + 1 \in 1 .. len
    BY <1>1
  <2>3. IsImportOf(user, m, name) /\ frames[at].next > 1
    BY <1>3, <2>1
  <2>4. m \in DOMAIN program[user].statements
    <3>1. program[user].statements \in Seq(AnyStatement)
          /\ frames[at].next \in 1 .. Len(program[user].statements) + 1
      BY <1>2, <2>1, <2>2
    <3>. QED  BY ONLY <2>3, <3>1
  <2>5. name \in Files
    <3>1. program \in Programs /\ name \in DOMAIN program
      BY <1>2, <2>2 DEF IInv, Shape
    <3>. QED  BY <3>1, ProgramsAssumption
  <2>6. PICK n, j : n = name /\ j = m
    OBVIOUS
  <2>7. IsImportOf(checked[q], j, n)'
    <3>1. checked'[q] = user
      BY <1>5
    <3>. QED  BY <2>3, <2>6, <3>1 DEF IsImportOf
  <2>. HIDE DEF user, name, m
  <2>8. IsChecked(n, q - 1)'
    <3>1. j \in DOMAIN program'[checked'[q]].statements /\ n \in Files
      BY <1>5, <2>4, <2>5, <2>6 DEF user
    <3>. QED  BY <1>5, <2>7, <3>1 DEF Ordered
  <2>9. PICK r \in 1 .. q - 1 : checked'[r] = n
    BY <2>8 DEF IsChecked
  <2>. QED  BY <2>1, <2>6, <2>9 DEF name
<1>6. Wrong \subseteq Nat
  OBVIOUS
<1>7. last \in Wrong
  <2>1. len \in i + 1 .. len
    BY ONLY <1>1, <1>4
  <2>. QED  BY <2>1 DEF len
<1>8. PICK q \in Wrong : \A r \in Wrong : q <= r
  BY <1>6, <1>7, LeastNatural
<1>9. PICK r \in 1 .. q - 1 : \E n \in i + 1 .. len : checked'[r] = frames[n].file
  BY <1>5, <1>8
<1>10. r \in DOMAIN checked' /\ r \in Nat /\ ~ q <= r
  BY <1>8
<1>11. r \in Wrong
  BY <1>9, <1>10
<1>. QED  BY <1>8, <1>10, <1>11

(* A module passes when it and all before it are without an error.         *)
LEMMA PassingKeeps ==
  ASSUME IInv, Inclusion, PhaseOf(stop_after) >= PhaseOf("check"), error_count = 0,
         Checking, ~ HasStatement, program' = program,
         declared' = declared, ambiguous' = ambiguous,
         frames' = SubSeq(frames, 1, Len(frames) - 1),
         checked' = Append(checked, Frame.file)
  PROVE  /\ Ordered' /\ Nested' /\ ReadBefore' /\ Passed'
         /\ Followed => Followed'
         /\ Circular => Circular'
<1> DEFINE len  == Len(frames)
           done == Len(checked)
<1>1. /\ len \in Nat \ {0} /\ DOMAIN frames = 1 .. len /\ Frame = frames[len]
      /\ frames # <<>> /\ Frame.phase = "check"
      /\ Text.statements \in Seq(AnyStatement)
      /\ Frame.next \in 1 .. Len(Text.statements) + 1
      /\ Frame.file \in DOMAIN program
  BY AtWork DEF Checking
<1>2. Frame.next = Len(Text.statements) + 1
  <2>1. 0 < MaxErrors
    BY MaxErrorsAssumption
  <2>2. ~ Frame.next <= Len(Text.statements)
    BY <2>1 DEF HasStatement
  <2>. QED  BY ONLY <1>1, <2>2
<1>3. /\ Len(frames') = len - 1 /\ DOMAIN frames' = 1 .. len - 1
      /\ \A k \in 1 .. len - 1 : frames'[k] = frames[k]
      /\ Nested => Nested'
  BY <1>1, WithoutLast
<1>4. /\ done \in Nat /\ DOMAIN checked = 1 .. done
      /\ Len(checked') = done + 1 /\ DOMAIN checked' = 1 .. done + 1
      /\ checked'[done + 1] = Frame.file
      /\ \A k \in 1 .. done : checked'[k] = checked[k]
      /\ \A k \in DOMAIN checked' : checked'[k] \in DOMAIN program
  BY <1>1, PassedGrows
<1>5. Ordered /\ Nested /\ ReadBefore /\ Passed
  BY DEF Inclusion
<1>6. \A f, m, name : IsImportOf(f, m, name)' <=> IsImportOf(f, m, name)
  BY DEF IsImportOf
<1>. HIDE DEF len, done
<1>7. \A f : \A n \in 0 .. done : IsChecked(f, n) => IsChecked(f, n)'
  <2>1. ASSUME NEW f, NEW n \in 0 .. done, IsChecked(f, n)
        PROVE  IsChecked(f, n)'
    <3>1. PICK k \in 1 .. n : checked[k] = f
      BY <2>1 DEF IsChecked
    <3>2. k \in 1 .. done
      BY <1>4
    <3>. QED  BY <1>4, <3>1, <3>2 DEF IsChecked
  <2>. QED  BY <2>1
<1>8. \A m \in DOMAIN Text.statements, name \in Files :
        IsImportOf(Frame.file, m, name) => IsChecked(name, done)
  <2>1. ASSUME NEW m \in DOMAIN Text.statements, NEW name \in Files,
               IsImportOf(Frame.file, m, name)
        PROVE  IsChecked(name, done)
    <3>1. m \in 1 .. Frame.next - 1 /\ m \in Nat
      BY ONLY <1>1, <1>2, m \in DOMAIN Text.statements
    <3>2. Behind(len, m) /\ len \in DOMAIN frames
      BY <1>1, <3>1 DEF Behind, len
    <3>. QED  BY <1>1, <1>5, <2>1, <3>1, <3>2 DEF Passed, done
  <2>. QED  BY <2>1
<1>9. Ordered'
  <2>1. ASSUME NEW j \in DOMAIN checked', NEW name \in Files,
               NEW m \in DOMAIN program[checked'[j]].statements,
               IsImportOf(checked'[j], m, name)
        PROVE  IsChecked(name, j - 1)'
    <3>1. j - 1 \in 0 .. done /\ (j = done + 1 \/ j \in 1 .. done)
      BY <1>4
    <3>2. CASE j = done + 1
      <4>1. checked'[j] = Frame.file /\ j - 1 = done
        BY <1>4, <3>2
      <4>2. m \in DOMAIN Text.statements
        BY <4>1 DEF Text
      <4>3. IsChecked(name, j - 1)
        BY <1>8, <2>1, <4>1, <4>2
      <4>. QED  BY <1>7, <3>1, <4>3
    <3>3. CASE j \in 1 .. done
      <4>1. checked'[j] = checked[j] /\ j \in DOMAIN checked
        BY <1>4, <3>3
      <4>2. IsChecked(name, j - 1)
        BY <1>5, <2>1, <4>1 DEF Ordered
      <4>. QED  BY <1>7, <3>1, <4>2
    <3>. QED  BY <3>1, <3>2, <3>3
  <2>2. \A j, m, name : IsImportOf(checked[j], m, name)' => IsImportOf(checked'[j], m, name)
    BY DEF IsImportOf
  <2>. QED  BY <2>1, <2>2 DEF Ordered
<1>10. Nested'
  BY <1>3, <1>5
<1>11. ReadBefore'
  <2>1. \A k \in DOMAIN frames' : frames'[k] = frames[k] /\ k \in DOMAIN frames
    BY ONLY <1>1, <1>3
  <2>. QED  BY ONLY <1>5, <2>1, program' = program DEF ReadBefore
<1>12. Passed'
  <2>1. ASSUME NEW k \in DOMAIN frames', NEW name \in Files, NEW m \in Nat,
               Behind(k, m)', IsImportOf(frames'[k].file, m, name)
        PROVE  IsChecked(name, Len(checked))'
    <3>1. k \in 1 .. len - 1 /\ frames'[k] = frames[k] /\ k \in DOMAIN frames /\ k # len
      BY ONLY <1>1, <1>3, k \in DOMAIN frames'
    <3>2. m \in 1 .. frames[k].next - 1 /\ (k = len - 1 \/ m # frames[k].next - 1)
      BY <1>3, <2>1, <3>1 DEF Behind
    <3>3. CASE m # frames[k].next - 1
      <4>1. Behind(k, m)
        BY <3>2, <3>3 DEF Behind
      <4>2. IsChecked(name, done)
        BY <1>5, <2>1, <3>1, <4>1 DEF Passed, done
      <4>3. PICK r \in 1 .. done : checked[r] = name
        BY <4>2 DEF IsChecked
      <4>4. r \in 1 .. done + 1 /\ checked'[r] = name
        BY <1>4, <4>3
      <4>. QED  BY <1>4, <4>4 DEF IsChecked
    <3>4. CASE m = frames[k].next - 1
      <4>1. k = len - 1 /\ k + 1 = len
        BY ONLY <1>1, <3>1, <3>2, <3>4
      <4>2. IsImportOf(frames[k].file, m, frames[k + 1].file)
        BY <1>5, <3>1, <3>4 DEF Nested, len
      <4>3. name = Frame.file
        BY <1>1, <2>1, <3>1, <4>1, <4>2 DEF IsImportOf
      <4>4. done + 1 \in 1 .. done + 1
        BY <1>4
      <4>. QED  BY <1>4, <4>3, <4>4 DEF IsChecked
    <3>. QED  BY <3>3, <3>4
  <2>. QED  BY <1>4, <1>6, <2>1 DEF Passed
<1>13. ASSUME Followed
       PROVE  Followed'
  <2>1. PICK read, ahead : Follows(read, ahead)
    BY <1>13 DEF Followed
  <2>2. /\ read \in Seq(Item) /\ GoodText(read) /\ declared = NamesIn(read)
        /\ ahead \in [0 .. len -> Seq(Item)] /\ ahead[0] = <<>>
        /\ \A k \in DOMAIN frames :
             ahead[k] = Ahead(program, frames[k].file, frames[k].next, Depth - k) \o ahead[k - 1]
        /\ len <= Depth /\ ambiguous = {}
    BY <1>13, <2>1 DEF Follows, Followed, len
  <2>3. /\ Depth - len \in 0 .. Depth
        /\ ahead[len - 1] \in Seq(Item)
        /\ Whole = read \o (Ahead(program, Frame.file, Frame.next, Depth - len) \o ahead[len - 1])
    BY <1>1, <2>1, <2>2, AheadOfFrame DEF len
  <2>4. ~ Unreadable(program, Frame.file)
    <3>1. Frame.phase \in CheckedPhases
      BY <1>1 DEF CheckedPhases
    <3>. QED  BY <1>1, <3>1, FrameIsRead
  <2>5. Ahead(program, Frame.file, Frame.next, Depth - len) = <<>>
    <3>1. program \in Programs
      BY DEF IInv, Shape
    <3>2. /\ Frame.next \in 1 .. Len(program[Frame.file].statements) + 1
          /\ Frame.next = Len(program[Frame.file].statements) + 1
      BY <1>1, <1>2 DEF Text
    <3>. QED  BY <1>1, <2>3, <2>4, <3>1, <3>2, AheadUnfolds
  <2>6. Whole = read \o ahead[len - 1]
    <3>1. <<>> \o ahead[len - 1] = ahead[len - 1]
      BY <2>3, ConcatEmptySeq
    <3>. QED  BY <2>3, <2>5, <3>1
  <2> DEFINE then == [k \in 0 .. len - 1 |-> ahead[k]]
  <2>7. /\ then \in [0 .. len - 1 -> Seq(Item)] /\ then[0] = <<>>
        /\ \A k \in 0 .. len - 1 : then[k] = ahead[k]
        /\ then[len - 1] = ahead[len - 1]
    <3>1. 0 \in 0 .. len - 1 /\ len - 1 \in 0 .. len - 1 /\ \A k \in 0 .. len - 1 : k \in 0 .. len
      BY ONLY <1>1
    <3>. QED  BY <2>2, <3>1
  <2>. HIDE DEF then
  <2>8. ASSUME NEW k \in DOMAIN frames'
        PROVE  then[k] = Ahead(program, frames'[k].file, frames'[k].next, Depth - k) \o then[k - 1]
    <3>1. /\ k \in 0 .. len - 1 /\ k - 1 \in 0 .. len - 1 /\ k \in DOMAIN frames
          /\ frames'[k] = frames[k]
      BY ONLY <1>1, <1>3, k \in DOMAIN frames'
    <3>. QED  BY <2>2, <2>7, <3>1
  <2>9. /\ then \in [0 .. Len(frames') -> Seq(Item)]
        /\ Whole' = Whole /\ Whole = read \o then[Len(frames')]
    BY <1>3, <2>6, <2>7 DEF Whole
  <2>10. PICK ahead2 : ahead2 = then
    OBVIOUS
  <2>11. Follows(read, ahead2)'
    BY <2>2, <2>7, <2>8, <2>9, <2>10 DEF Follows
  <2>12. Len(frames') <= Depth
    <3>1. Depth \in Nat
      BY IncludedUnfolds DEF IInv, Shape
    <3>. QED  BY ONLY <1>1, <1>3, <2>2, <3>1
  <2>. QED  BY <2>2, <2>11, <2>12 DEF Followed
<1>14. ASSUME Circular
       PROVE  Circular'
  <2>1. PICK i, j \in DOMAIN frames : i < j /\ frames[i].file = frames[j].file
    BY <1>14 DEF Circular
  <2>2. i \in 1 .. len - 1 /\ (j = len \/ j \in 1 .. len - 1)
    BY ONLY <1>1, <2>1
  <2>3. CASE j = len
    <3>1. i \in 1 .. Len(frames) - 1 /\ frames[i].file = frames[Len(frames)].file
      BY <2>1, <2>2, <2>3 DEF len
    <3>2. PICK last : last = done + 1
      OBVIOUS
    <3>3. last \in DOMAIN checked' /\ checked'[last] = frames[Len(frames)].file
          /\ Len(checked') \in Nat /\ DOMAIN checked' = 1 .. Len(checked')
      BY <1>1, <1>4, <3>2 DEF len
    <3>. QED  BY <1>1, <1>4, <1>5, <1>9, <3>1, <3>3, LoopNeverPasses
  <2>4. CASE j \in 1 .. len - 1
    BY <1>3, <2>1, <2>2, <2>4 DEF Circular
  <2>. QED  BY <2>2, <2>3, <2>4
<1>. QED  BY <1>9, <1>10, <1>11, <1>12, <1>13, <1>14

(* The end of the check of a module.                                       *)
LEMMA CheckDoneIncludes ==
  ASSUME IInv, Inclusion, CheckDone
  PROVE  Inclusion'
<1>1. /\ Checking /\ ~ HasStatement /\ error_count' = error_count /\ frames # <<>>
      /\ UNCHANGED <<inputs, symbols>>
  BY DEF CheckDone, Checking
<1>2. /\ program' = program /\ stop_after' = stop_after
      /\ declared' = declared /\ ambiguous' = ambiguous
  BY <1>1 DEF inputs, symbols
<1>3. CASE error_count # 0
  <2>1. PICK code : Return(FALSE, code)
    BY <1>3 DEF CheckDone, HasError
  <2>2. checked' = checked /\ frames' = SubSeq(frames, 1, Len(frames) - 1)
    BY <2>1 DEF Return
  <2>3. PhaseOf(stop_after) >= PhaseOf("check") => ~ WellFormed(program) /\ Nested'
    BY <1>1, <1>2, <1>3, <2>2, WithoutLast DEF Inclusion
  <2>4. error_count' \in Nat \ {0}
    BY <1>1, <1>3 DEF Inclusion
  <2>. QED  BY <1>1, <2>2, <2>3, <2>4, ErrorKeeps
<1>4. CASE error_count = 0
  <2>1. Return(TRUE, "ok")
    BY <1>4 DEF CheckDone, HasError
  <2>2. /\ checked' = Append(checked, Frame.file)
        /\ frames' = SubSeq(frames, 1, Len(frames) - 1)
        /\ result' = "ok"
    BY <2>1 DEF Return
  <2>3. ~ CheckFailed'
    BY <2>2, Zenon DEF CheckFailed
  <2>4. ASSUME PhaseOf(stop_after) >= PhaseOf("check")
        PROVE  /\ Ordered' /\ Nested' /\ ReadBefore' /\ Passed'
               /\ Followed => Followed'
               /\ Circular => Circular'
    BY <1>1, <1>2, <1>4, <2>2, <2>4, PassingKeeps
  <2>5. ASSUME PhaseOf(stop_after) >= PhaseOf("check")
        PROVE  Followed \/ (~ WellFormed(program) /\ Circular)
    BY <1>4, <2>5 DEF Inclusion
  <2>. QED  BY <1>1, <1>2, <1>4, <2>3, <2>4, <2>5 DEF Inclusion
<1>. QED  BY <1>3, <1>4

(* The stages after the modules leave these alone, and fail otherwise than *)
(* by a failed check.                                                      *)
LEMMA BackEndIncludes ==
  ASSUME IInv, Inclusion, BackEnd
  PROVE  Inclusion'
<1>1. UNCHANGED <<inputs, frames, symbols, error_count, checked>>
  BY DEF BackEnd, IrGen, OpenOutput, GenerateRoutine, OutputCode, Assemble, Link, Tool, Abort,
         moduleState
<1>2. result' \in {result, "ok", "internal error", "linking failed"}
  BY DEF BackEnd, IrGen, OpenOutput, GenerateRoutine, OutputCode, Assemble, Link, Tool, Abort,
         GoOn, Fail
<1>3. CheckFailed' => CheckFailed
  BY <1>2 DEF CheckFailed
<1>. QED  BY <1>1, <1>3, InclusionUntouched

(* Every step keeps the invariant of inclusion.                            *)
LEMMA NextIncludes ==
  ASSUME IInv, Inclusion, [Next]_vars
  PROVE  Inclusion'
<1>1. CASE UNCHANGED vars
  <2>1. UNCHANGED <<inputs, frames, symbols, error_count, checked>> /\ result' = result
    BY <1>1 DEF vars, inputs, symbols
  <2>2. CheckFailed' => CheckFailed
    BY <2>1 DEF CheckFailed
  <2>. QED  BY <2>1, <2>2, InclusionUntouched
<1>2. CASE Next
  <2>1. CASE LexModule \/ ParseModule
    BY <2>1, LexAndParseIncludes
  <2>2. CASE BeginCheck
    BY <2>2, BeginCheckIncludes
  <2>3. CASE CheckImport
    BY <2>3, CheckImportIncludes
  <2>4. CASE CheckFunction \/ CheckVariable
    BY <2>4, DefinitionIncludes
  <2>5. CASE CheckDone
    BY <2>5, CheckDoneIncludes
  <2>6. CASE BackEnd
    BY <2>6, BackEndIncludes
  <2>. QED  BY <1>2, <2>1, <2>2, <2>3, <2>4, <2>5, <2>6 DEF Next
<1>. QED  BY <1>1, <1>2

(* For any files, whatever imports what and however often: the check of    *)
(* the program finds no error exactly when the text in which each import   *)
(* is replaced by its module defines each name once and before its uses.   *)
THEOREM DriverInlinesImports == Spec => []ImportsAreInclusions
<1>1. Init => Inclusion
  BY InclusionAtStart
<1>2. IInv /\ Inclusion /\ [Next]_vars => Inclusion'
  BY NextIncludes
<1>3. IInv /\ Inclusion => ImportsAreInclusions
  BY InclusionIsEnough
<1>. QED  BY <1>1, <1>2, <1>3, Invariance, PTL DEF Spec

(* The same holds of the driver inside the process.                        *)
THEOREM ImportsInlined == MainSpec => []ImportsAreInclusions
BY MainRunsDriver, DriverInlinesImports, PTL

=============================================================================
