-------------------------------- MODULE Options --------------------------------
(***************************************************************************)
(* The command line: GetNextOption of src/src/args_util.cpp and the loop   *)
(* of main in src/src/main.cpp that calls it.                              *)
(*                                                                         *)
(* A word of the command line is plain, a short option with the letters    *)
(* behind its name, or a long option.  Any of them can be taken as the     *)
(* argument of the option before it.                                       *)
(***************************************************************************)
EXTENDS Naturals, Sequences

CONSTANTS
  Words,        \* words of the command line
  MaxWords,     \* their number
  Targets,      \* names of targets that are known
  None          \* the null pointer

(* The table of main.cpp: arguments of a long option, whether the option   *)
(* takes any word as its argument, and the letters of the short option.    *)
Table ==
  [output     |-> [short |-> "o", long_args |-> <<>>, accepts_arg |-> TRUE,  short_args |-> {}],
   target     |-> [short |-> "T", long_args |-> <<>>, accepts_arg |-> TRUE,  short_args |-> {}],
   diagnostic |-> [short |-> "d", long_args |-> <<"memory", "ast", "ir", "regalloc">>,
                   accepts_arg |-> FALSE, short_args |-> {"M", "A", "I", "R"}],
   profile    |-> [short |-> "p", long_args |-> <<"time", "instrcount">>,
                   accepts_arg |-> FALSE, short_args |-> {"t", "i"}],
   help       |-> [short |-> "h", long_args |-> <<>>, accepts_arg |-> FALSE, short_args |-> {}],
   version    |-> [short |-> "v", long_args |-> <<>>, accepts_arg |-> FALSE, short_args |-> {}]]

(* What a letter and what a name select.                                   *)
FlagOf ==
  [M |-> "memory", A |-> "ast", I |-> "ir", R |-> "regalloc", t |-> "time", i |-> "instrcount"]

VARIABLES
  argv,         \* the words of the command line
  arg_index,    \* Arg_Options_Context::arg_index
  flags,        \* the members of Compiler_Options that were set
  output,       \* options.output_filename
  target,       \* options.target
  source,       \* the source file
  outcome       \* "parsing", "compile", "shown" (help, version, usage), "rejected"

vars == <<argv, arg_index, flags, output, target, source, outcome>>

-----------------------------------------------------------------------------

CommandLines == UNION {[1 .. n -> Words] : n \in 0 .. MaxWords}

Start(line) ==
  /\ argv = line
  /\ arg_index = 1
  /\ flags = {}
  /\ output = None
  /\ target = "default"
  /\ source = None
  /\ outcome = "parsing"

Init == \E line \in CommandLines : Start(line)

HasArg(i) == i <= Len(argv)

(* The option a word names.                                                *)
Named(word) ==
  IF word.dashes = 2
    THEN IF word.text \in DOMAIN Table THEN word.text ELSE None
    ELSE IF \E o \in DOMAIN Table : Table[o].short = word.text
         THEN CHOOSE o \in DOMAIN Table : Table[o].short = word.text
         ELSE None

(* Whether GetNextOption takes the next word as the argument.              *)
TakesArg(word, o) ==
  IF word.dashes = 2 THEN Table[o].long_args # <<>> \/ Table[o].accepts_arg
                     ELSE Table[o].short_args = {} /\ Table[o].accepts_arg

(* The search among the arguments of a long option, which stops at the     *)
(* first that differs from the word given.                                 *)
LongArg(o, text) ==
  LET args == Table[o].long_args
      hits == {i \in DOMAIN args : args[i] # text}
  IN IF hits = {} THEN None ELSE args[CHOOSE i \in hits : \A j \in hits : i <= j]

ArgOf(word, o) ==
  IF ~ TakesArg(word, o) \/ ~ HasArg(arg_index + 1) THEN None
  ELSE IF Table[o].long_args # <<>> THEN LongArg(o, argv[arg_index + 1].text)
  ELSE argv[arg_index + 1]

(* Faulty variant: the argument is looked at and left on the line.         *)
AdvanceOne(word, o) == arg_index' = arg_index + 1

Advance(word, o) ==
  arg_index' = arg_index + (IF TakesArg(word, o) /\ HasArg(arg_index + 1) THEN 2 ELSE 1)

Reject == outcome' = "rejected" /\ UNCHANGED <<flags, output, target, source>>

(* Faulty variant: a letter that is not known is passed over.              *)
SelectKnown(word, o) ==
  /\ flags' = flags \cup {FlagOf[c] : c \in word.letters \cap Table[o].short_args}
  /\ UNCHANGED <<output, target, source, outcome>>

(* ParseDiagnosticOption and ParseProfilingOption.                         *)
SelectLetters(word, o) ==
  IF word.letters \subseteq Table[o].short_args
    THEN /\ flags' = flags \cup {FlagOf[c] : c \in word.letters}
         /\ UNCHANGED <<output, target, source, outcome>>
    ELSE Reject

SelectLong(arg) ==
  /\ flags' = IF arg = None THEN flags ELSE flags \cup {arg}
  /\ UNCHANGED <<output, target, source, outcome>>

(* ParseTargetOption.                                                      *)
SelectTarget(arg) ==
  IF arg # None /\ arg.text \in Targets
    THEN target' = arg.text /\ UNCHANGED <<flags, output, source, outcome>>
    ELSE Reject

(* The switch of main over the option.                                     *)
TakeOption(word, o) ==
  CASE o = "output"  -> output' = ArgOf(word, o) /\ UNCHANGED <<flags, target, source, outcome>>
    [] o = "target"  -> SelectTarget(ArgOf(word, o))
    [] o \in {"help", "version"} ->
                        outcome' = "shown" /\ UNCHANGED <<flags, output, target, source>>
    [] OTHER         -> IF word.dashes = 2 THEN SelectLong(ArgOf(word, o))
                                           ELSE SelectLetters(word, o)

Parsing == outcome = "parsing" /\ HasArg(arg_index)

TakePlain ==
  /\ Parsing /\ argv[arg_index].dashes = 0
  /\ source' = argv[arg_index].text
  /\ arg_index' = arg_index + 1
  /\ UNCHANGED <<argv, flags, output, target, outcome>>

NextOption ==
  LET word == argv[arg_index]
      o    == Named(word)
  IN /\ Parsing /\ word.dashes > 0
     /\ IF o = None THEN Reject /\ arg_index' = arg_index + 1
                    ELSE TakeOption(word, o) /\ Advance(word, o)
     /\ UNCHANGED argv

(* The end of the loop: without a source the usage is shown.               *)
ParsingDone ==
  /\ outcome = "parsing" /\ ~ HasArg(arg_index)
  /\ outcome' = IF source = None THEN "shown" ELSE "compile"
  /\ UNCHANGED <<argv, arg_index, flags, output, target, source>>

Next == TakePlain \/ NextOption \/ ParsingDone

Spec == Init /\ [][Next]_vars

-----------------------------------------------------------------------------

(* The positions at which an option or a source stands, as a user reads    *)
(* them: an option with an argument is followed by it.                     *)
Stands[i \in DOMAIN argv] ==
  IF i = 1 THEN TRUE
  ELSE LET o == Named(argv[i - 1])
       IN ~ (Stands[i - 1] /\ argv[i - 1].dashes > 0 /\ o # None /\ TakesArg(argv[i - 1], o))

Standing == {i \in DOMAIN argv : Stands[i]}

(* A short option whose letters are read; what stands behind the name of   *)
(* the others, as in `-ofile', is dropped without a word.                  *)
Lettered(word) ==
  word.dashes = 1 /\ Named(word) # None /\ Table[Named(word)].short_args # {}

(* The letters of all short options with letters select their flags, and   *)
(* nothing else on the command line selects one: words that are taken as   *)
(* arguments are not read as options.  `-o -dM' names a file.              *)
LettersSelect ==
  outcome = "compile" /\ (\A i \in Standing : argv[i].dashes = 2 => Table[argv[i].text].long_args = <<>>)
    => flags = UNION {{FlagOf[c] : c \in argv[i].letters} : i \in {j \in Standing : Lettered(argv[j])}}

(* A command line that is compiled was understood: every option is in the  *)
(* table, its letters and its target are known, and the last plain word    *)
(* that stands for itself is the source.                                   *)
CompiledIsUnderstood ==
  outcome = "compile" =>
    /\ target \in Targets \cup {"default"}
    /\ \A i \in Standing : argv[i].dashes > 0 =>
         /\ Named(argv[i]) # None
         /\ Lettered(argv[i]) => argv[i].letters \subseteq Table[Named(argv[i])].short_args
    /\ \E i \in Standing :
         /\ argv[i].dashes = 0 /\ argv[i].text = source
         /\ \A j \in Standing : j > i => argv[j].dashes > 0
=============================================================================
