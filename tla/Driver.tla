-------------------------------- MODULE Driver --------------------------------
(***************************************************************************)
(* The driver of the compiler, src/src/compiler.cpp: Compile reads a       *)
(* module, whose check compiles the modules it imports in the middle of    *)
(* its statements, and goes on to the back end and the external tools.     *)
(*                                                                         *)
(* All modules share one Environment, one count of errors and one result.  *)
(* Each timed phase takes two entries of the profiler's event store.       *)
(***************************************************************************)
EXTENDS Naturals, Sequences, FiniteSets

CONSTANTS
  Files,        \* names of modules
  Source,       \* the module on the command line
  Names,        \* names of functions and of global variables
  Programs,     \* the contents of the files, one function from files each
  StopAfter,    \* values of options.stop_after
  MaxErrors,    \* options.max_error_count
  MaxEvents     \* MAX_PROFILING_EVENTS

ASSUME SourceAssumption == Source \in Files /\ IsFiniteSet(Files)

ASSUME MaxErrorsAssumption == MaxErrors \in Nat \ {0}

Phases == <<"lexing", "parsing", "check", "irgen", "codegen", "assembling", "linking">>
PhaseOf(p) == CHOOSE i \in DOMAIN Phases : Phases[i] = p

AnyStatement ==
  [kind : {"import"}, name : Files] \cup
  [kind : {"function", "variable"}, name : Names,
   uses : {names \in SUBSET Names : IsFiniteSet(names)}]

(* The source is an open file when Compile is called, and each file is a   *)
(* list of statements; the compilation stops after a phase.                *)
ASSUME ProgramsAssumption ==
  \A p \in Programs :
    /\ Source \in DOMAIN p /\ DOMAIN p \subseteq Files
    /\ \A f \in DOMAIN p : p[f].statements \in Seq(AnyStatement)

ASSUME StopAssumption == StopAfter \subseteq {Phases[i] : i \in DOMAIN Phases}

VARIABLES
  program,      \* the files' contents
  stop_after,   \* options.stop_after
  modules,      \* Compiler_Context::modules
  frames,       \* the activations of CompileModule, the innermost last
  stage,        \* where Compile stands once the modules are done
  routine,      \* the loops of GenerateCode_Amd64: the routine at hand
  declared,     \* the names in the environment
  ambiguous,    \* the functions defined twice
  init_code,    \* the variables that init_ initialises, in order
  error_count,  \* error_ctx.error_count
  result,       \* Compiler_Context::result
  next_event,   \* the profiler's next entry
  made,         \* the files written
  outcome,      \* what Compile returned, or "running", or "aborted"
  checked       \* ghost: the modules that passed all phases asked for, in order

vars == <<program, stop_after, modules, frames, stage, routine, declared, ambiguous,
          init_code, error_count, result, next_event, made, outcome, checked>>

symbols     == <<declared, ambiguous>>
backEnd     == <<init_code, routine, made>>
moduleState == <<modules, frames, symbols, error_count, checked>>
inputs      == <<program, stop_after>>

-----------------------------------------------------------------------------

NewFrame(f) == [file |-> f, phase |-> "lexing", next |-> 1]

Frame == frames[Len(frames)]
Text  == program[Frame.file]

HasError(errors) == errors # 0

Running == outcome = "running"

(* A Timed_Scope around a step: its constructor asserts that there is an   *)
(* entry left, its destructor takes one more.                              *)
Begins(event) == event < MaxEvents

Abort ==
  /\ outcome' = "aborted"
  /\ UNCHANGED <<inputs, moduleState, backEnd, stage, result, next_event>>

Start(contents, phase) ==
  /\ program = contents
  /\ stop_after = phase
  /\ modules = <<Source>>
  /\ frames = <<NewFrame(Source)>>
  /\ stage = "modules"
  /\ routine = 0
  /\ declared = {}
  /\ ambiguous = {}
  /\ init_code = <<>>
  /\ error_count = 0
  /\ result = "ok"
  /\ next_event = 1
  /\ made = {}
  /\ outcome = "running"
  /\ checked = <<>>

Init == \E contents \in Programs, phase \in StopAfter : Start(contents, phase)

-----------------------------------------------------------------------------

(* CompileModule returns: the importer does not look at what and goes on   *)
(* with its next statement, Compile_ returns when it was false or when it  *)
(* was to stop here.                                                       *)
Return(success, code) ==
  LET rest == SubSeq(frames, 1, Len(frames) - 1)
      stop == PhaseOf(stop_after) <= PhaseOf("check")
  IN /\ result' = code
     /\ frames' = rest
     /\ checked' = IF success THEN Append(checked, Frame.file) ELSE checked
     /\ IF rest # <<>> THEN UNCHANGED <<stage, outcome>>
        ELSE /\ stage' = IF success /\ ~ stop THEN "irgen" ELSE "done"
             /\ outcome' = IF ~ success THEN "failed" ELSE IF stop THEN "ok" ELSE outcome

(* The end of a phase of CompileModule that found `found' errors.          *)
PhaseDone(found, failure, next) ==
  /\ error_count' = error_count + found
  /\ IF HasError(error_count + found) THEN Return(FALSE, failure)
     ELSE IF stop_after = Frame.phase THEN Return(TRUE, "ok")
     ELSE /\ frames' = [frames EXCEPT ![Len(frames)].phase = next]
          /\ UNCHANGED <<result, checked, stage, outcome>>

LexAndParse(failed, failure, next) ==
  /\ IF ~ Begins(next_event) THEN Abort
     ELSE /\ PhaseDone(IF failed THEN 1 ELSE 0, failure, next)
          /\ next_event' = next_event + 2
          /\ UNCHANGED <<inputs, modules, symbols, backEnd>>

LexModule ==
  /\ Running /\ frames # <<>> /\ Frame.phase = "lexing"
  /\ LexAndParse(~ Text.lexes, "lexing failed", "parsing")

ParseModule ==
  /\ Running /\ frames # <<>> /\ Frame.phase = "parsing"
  /\ LexAndParse(~ Text.parses, "parsing failed", "begin check")

(* Check begins; its scope stays open while imports are compiled.          *)
BeginCheck ==
  /\ Running /\ frames # <<>> /\ Frame.phase = "begin check"
  /\ IF ~ Begins(next_event) THEN Abort
     ELSE /\ next_event' = next_event + 1
          /\ frames' = [frames EXCEPT ![Len(frames)].phase = "check"]
          /\ UNCHANGED <<inputs, modules, symbols, error_count, checked, stage, backEnd,
                         result, outcome>>

Checking ==
  Running /\ frames # <<>> /\ Frame.phase = "check"

HasStatement == Frame.next <= Len(Text.statements) /\ error_count < MaxErrors

Statement == Text.statements[Frame.next]

Advanced == [frames EXCEPT ![Len(frames)].next = @ + 1]

(* CheckImport: the file is opened and compiled at once.                   *)
CheckImport ==
  /\ Checking /\ HasStatement /\ Statement.kind = "import"
  /\ IF Statement.name \notin DOMAIN program
       THEN /\ error_count' = error_count + 1
            /\ frames' = Advanced
            /\ UNCHANGED modules
       ELSE /\ modules' = Append(modules, Statement.name)
            /\ frames' = Append(Advanced, NewFrame(Statement.name))
            /\ UNCHANGED error_count
  /\ UNCHANGED <<inputs, symbols, checked, stage, backEnd, result, next_event, outcome>>

(* The names of the definition at hand that stand for nothing or for two   *)
(* functions.                                                              *)
BadUses(known, doubled) == {n \in Statement.uses : n \notin known \/ n \in doubled}

(* Faulty variant: the function is added when its body has been checked.   *)
CheckFunctionLate ==
  LET f       == Statement.name
      doubled == ambiguous \cup ({f} \cap declared)
  IN /\ Checking /\ HasStatement /\ Statement.kind = "function"
     /\ declared' = declared \cup {f}
     /\ ambiguous' = doubled
     /\ error_count' = error_count + Cardinality({f} \cap declared)
                                   + Cardinality(BadUses(declared, doubled))
     /\ frames' = Advanced
     /\ UNCHANGED <<inputs, modules, checked, stage, backEnd, result, next_event, outcome>>

(* CheckFunction: the function is added before its body is checked; a      *)
(* second definition is an error and stays as an overload, which makes     *)
(* calls of the name ambiguous; what is called must be known by now.       *)
CheckFunction ==
  LET f       == Statement.name
      known   == declared \cup {f}
      doubled == ambiguous \cup ({f} \cap declared)
  IN /\ Checking /\ HasStatement /\ Statement.kind = "function"
     /\ declared' = known
     /\ ambiguous' = doubled
     /\ error_count' = error_count + Cardinality({f} \cap declared)
                                   + Cardinality(BadUses(known, doubled))
     /\ frames' = Advanced
     /\ UNCHANGED <<inputs, modules, checked, stage, backEnd, result, next_event, outcome>>

(* CheckVariableDecl at the top level: the initialiser is checked before   *)
(* the variable is added.                                                  *)
CheckVariable ==
  LET v == Statement.name
  IN /\ Checking /\ HasStatement /\ Statement.kind = "variable"
     /\ declared' = declared \cup {v}
     /\ error_count' = error_count + Cardinality({v} \cap declared)
                                   + Cardinality(BadUses(declared, ambiguous))
     /\ frames' = Advanced
     /\ UNCHANGED <<inputs, modules, ambiguous, checked, stage, backEnd, result, next_event,
                    outcome>>

(* Faulty variant: the errors of the module's imports are not its own.     *)
CheckDoneAnyway ==
  /\ Checking /\ ~ HasStatement
  /\ next_event' = next_event + 1
  /\ UNCHANGED error_count
  /\ IF error_count >= MaxErrors THEN Return(FALSE, "check failed") ELSE Return(TRUE, "ok")
  /\ UNCHANGED <<inputs, modules, symbols, backEnd>>

(* The end of Check.                                                       *)
CheckDone ==
  /\ Checking /\ ~ HasStatement
  /\ next_event' = next_event + 1
  /\ UNCHANGED error_count
  /\ IF HasError(error_count) THEN Return(FALSE, "check failed") ELSE Return(TRUE, "ok")
  /\ UNCHANGED <<inputs, modules, symbols, backEnd>>

-----------------------------------------------------------------------------

(* The stages of Compile_ after the modules.  A stage that is the last one *)
(* wanted ends the compilation well.                                       *)
GoOn(phase, next) ==
  IF stop_after = phase
    THEN /\ result' = "ok" /\ outcome' = "ok" /\ stage' = "done"
    ELSE /\ stage' = next /\ UNCHANGED <<result, outcome>>

Fail(code) == result' = code /\ outcome' = "failed" /\ stage' = "done"

(* The initialisations in the modules from the i-th on.                    *)
InitCode[i \in Nat] ==
  IF i > Len(modules) THEN <<>>
  ELSE SelectSeq(program[modules[i]].statements, LAMBDA s : s.kind = "variable")
       \o InitCode[i + 1]

(* GenIr, which takes the modules in the order in which they were begun.   *)
IrGen ==
  /\ Running /\ stage = "irgen"
  /\ IF ~ Begins(next_event) THEN Abort
     ELSE /\ next_event' = next_event + 2
          /\ init_code' = InitCode[1]
          /\ GoOn("irgen", "open")
          /\ UNCHANGED <<inputs, moduleState, routine, made>>

(* The assembly file is opened; `Could not open' leaves the result.        *)
OpenOutput(opens) ==
  /\ Running /\ stage = "open"
  /\ IF ~ Begins(next_event) THEN Abort
     ELSE /\ next_event' = next_event + 1
          /\ IF opens THEN stage' = "select" /\ UNCHANGED <<result, outcome>>
                      ELSE Fail(result)
          /\ UNCHANGED <<inputs, moduleState, backEnd>>

(* The functions, the top level code init_ and the builtin sqrt.           *)
RoutineCount == Cardinality(declared \ {init_code[i].name : i \in DOMAIN init_code}) + 2

(* GenerateCode_Amd64: three loops over the routines, the second with the  *)
(* scope of CfgEdgeResolution within that of AllocateRegisters.            *)
Loops == <<"select", "allocate", "optimize">>
Events(loop) == IF loop = "allocate" THEN 2 ELSE 1

IsLastRoutine == routine + 1 = RoutineCount

GenerateRoutine(i) ==
  LET n    == Events(Loops[i])
      last == IsLastRoutine
  IN /\ Running /\ stage = Loops[i]
     /\ IF ~ Begins(next_event + n - 1) THEN Abort
        ELSE /\ next_event' = next_event + 2 * n
             /\ routine' = IF last THEN 0 ELSE routine + 1
             /\ stage' = IF ~ last THEN stage
                         ELSE IF i < Len(Loops) THEN Loops[i + 1] ELSE "output"
             /\ UNCHANGED <<inputs, moduleState, init_code, result, made, outcome>>

OutputCode ==
  /\ Running /\ stage = "output"
  /\ next_event' = next_event + 1
  /\ made' = made \cup {"out.s"}
  /\ GoOn("codegen", "assembling")
  /\ UNCHANGED <<inputs, moduleState, init_code, routine>>

(* nasm and gcc, which succeed or fail.                                    *)
Tool(phase, succeeds, file, failure, next) ==
  /\ Running /\ stage = phase
  /\ IF ~ Begins(next_event) THEN Abort
     ELSE /\ next_event' = next_event + 2
          /\ IF succeeds THEN made' = made \cup {file} /\ GoOn(phase, next)
                         ELSE UNCHANGED made /\ Fail(failure)
          /\ UNCHANGED <<inputs, moduleState, init_code, routine>>

Assemble(succeeds) == Tool("assembling", succeeds, "out.o", "internal error", "linking")
Link(succeeds)     == Tool("linking", succeeds, "binary", "linking failed", "done")

BackEnd ==
  \/ IrGen
  \/ \E b \in BOOLEAN : OpenOutput(b) \/ Assemble(b) \/ Link(b)
  \/ \E i \in DOMAIN Loops : GenerateRoutine(i)
  \/ OutputCode

Next ==
  \/ LexModule \/ ParseModule \/ BeginCheck
  \/ CheckImport \/ CheckFunction \/ CheckVariable \/ CheckDone
  \/ BackEnd

Spec == Init /\ [][Next]_vars

-----------------------------------------------------------------------------

(* Every variable has its type.                                            *)
TypeOK ==
  /\ \A i \in DOMAIN frames :
        /\ frames[i].file \in DOMAIN program
        /\ frames[i].phase \in {"lexing", "parsing", "begin check", "check"}
        /\ frames[i].next \in 1 .. Len(program[frames[i].file].statements) + 1
  /\ routine \in 0 .. RoutineCount - 1
  /\ ambiguous \subseteq declared /\ declared \subseteq Names
  /\ made \subseteq {"out.s", "out.o", "binary"}
  /\ outcome \in {"running", "ok", "failed", "aborted"}

(* The texts joined in their order, from the i-th on.                      *)
Joined(texts) ==
  LET From[i \in 1 .. Len(texts) + 1] ==
        IF i > Len(texts) THEN <<>> ELSE texts[i] \o From[i + 1]
  IN From

Gap == <<[kind |-> "gap"]>>

(* What the statements of a file stand for: an import for the text of its  *)
(* module, a definition for itself.                                        *)
Pieces(p, f, text) ==
  [i \in DOMAIN p[f].statements |->
     LET s == p[f].statements[i] IN IF s.kind = "import" THEN text[s.name] ELSE <<s>>]

(* The definitions of each module, in the order in which the text would    *)
(* stand if every import were replaced by the text of the module; d bounds *)
(* the nesting.  A file that is missing, cannot be read, or includes       *)
(* itself leaves a gap.                                                    *)
Included(p) ==
  LET Of[d \in 0 .. Cardinality(Files)] ==
        [f \in Files |->
           IF d = 0 \/ f \notin DOMAIN p THEN Gap
           ELSE IF ~ p[f].lexes \/ ~ p[f].parses THEN Gap
           ELSE Joined(Pieces(p, f, Of[d - 1]))[1]]
  IN Of

WellFormed(p) ==
  LET text == Included(p)[Cardinality(Files)][Source]
  IN \A i \in DOMAIN text :
        /\ text[i].kind # "gap"
        /\ \A j \in 1 .. i - 1 : text[j].name # text[i].name
        /\ text[i].uses \subseteq
             {text[j].name : j \in 1 .. (IF text[i].kind = "function" THEN i ELSE i - 1)}

(* An import is a textual inclusion: whatever the order in which modules   *)
(* are lexed, parsed and checked, and although an importer ignores what    *)
(* became of its imports, the check of the program finds no error exactly  *)
(* when the text with all imports replaced has none: each name is defined  *)
(* once and before its uses, a function before those in its own body.      *)
ImportsAreInclusions ==
  frames = <<>> /\ outcome # "aborted" /\ PhaseOf(stop_after) >= PhaseOf("check")
    => ((result # "check failed" /\ error_count = 0) <=> WellFormed(program))

(* Success is complete: no error was reported anywhere, every module       *)
(* that was begun passed, and the files of the phases asked for were       *)
(* written.                                                                *)
SuccessIsComplete ==
  outcome = "ok" =>
    /\ result = "ok"
    /\ error_count = 0
    /\ Len(checked) > 0 /\ checked[Len(checked)] = Source
    /\ made = {file \in {"out.s", "out.o", "binary"} :
                PhaseOf(stop_after) >= PhaseOf(CASE file = "out.s" -> "codegen"
                                                 [] file = "out.o" -> "assembling"
                                                 [] file = "binary" -> "linking")}
=============================================================================
