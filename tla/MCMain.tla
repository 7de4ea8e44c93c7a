-------------------------------- MODULE MCMain --------------------------------
(* Main for TLC.  The command line and the program meet only in the name   *)
(* of the source, so that one of them varies at a time.                    *)
EXTENDS Main, TLC

SomeFiles == {"main", "b", "c", "missing"}
SomeNames == {"f", "g", "v"}

Statements(imports) ==
  [kind : {"import"}, name : imports] \cup
  {[kind |-> "function", name |-> "f", uses |-> {}],
   [kind |-> "function", name |-> "g", uses |-> {"f", "g"}],
   [kind |-> "variable", name |-> "v", uses |-> {}]}

Contents(imports, n) ==
  [lexes : {TRUE}, parses : {TRUE},
   statements : UNION {[1 .. k -> Statements(imports)] : k \in 0 .. n}]

Unreadable ==
  {[lexes |-> l, parses |-> FALSE, statements |-> <<>>] : l \in BOOLEAN}

(* All graphs of imports over three modules, cycles and missing files too. *)
ImportPrograms ==
  {("main" :> m) @@ ("b" :> b) @@ ("c" :> c) :
     m \in Contents({"b", "c", "missing"}, 2) \cup Unreadable,
     b \in Contents({"main", "c"}, 2) \cup Unreadable,
     c \in Contents({"b"}, 1) \cup Unreadable}

(* One import, for what goes on to the tools.                              *)
SmallPrograms ==
  {("main" :> m) @@ ("b" :> b) :
     m \in Contents({"b"}, 2) \cup Unreadable,
     b \in Contents({}, 1) \cup Unreadable}

NoProgram == [f \in {"main"} |-> [lexes |-> FALSE, parses |-> FALSE, statements |-> <<>>]]

MCPrograms == ImportPrograms \cup SmallPrograms \cup {NoProgram}

AllPhases == {Phases[i] : i \in DOMAIN Phases}

-----------------------------------------------------------------------------

Plain(t)     == [dashes |-> 0, text |-> t, letters |-> {}]
Short(t, ls) == [dashes |-> 1, text |-> t, letters |-> ls]
Long(t)      == [dashes |-> 2, text |-> t, letters |-> {}]

MCTargets == {"elf64"}

MCWords ==
  {Plain("main"), Plain("elf64"), Plain("time"), Plain("ast"),
   Short("o", {}), Short("o", {"M"}), Short("T", {}), Short("d", {"M", "A"}), Short("d", {"x"}), Short("d", {}),
   Short("p", {"t"}), Short("z", {}), Short("h", {}),
   Long("output"), Long("profile"), Long("diagnostic")}

TheSource == <<Plain("main")>>

MCInit ==
  \/ \E p \in ImportPrograms : MainStart(p, "check", TheSource)
  \/ \E p \in SmallPrograms, phase \in AllPhases : MainStart(p, phase, TheSource)
  \/ \E line \in Parse!CommandLines : MainStart(NoProgram, "linking", line)

MCSpec == MCInit /\ [][MainNext]_mainVars
===============================================================================
