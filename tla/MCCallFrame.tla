----------------------------- MODULE MCCallFrame -----------------------------
(* CallFrame for TLC: both conventions with three or two registers per     *)
(* class, every signature up to a length, and a frame of a few names.      *)
EXTENDS CallFrame

CONSTANTS general, float, MaxParams,
  byte, half, word, pair,     \* data types of 1, 4 and 8 bytes, a struct of 12
  flag, count, ptr, st, save  \* names

MCClass == {general, float}

Unix == [arg_regs |-> [c \in MCClass |-> IF c = general THEN 2 ELSE 3],
         arg_index_shared |-> FALSE, shadow_arg_reg_count |-> 0]

Windows == [arg_regs |-> [c \in MCClass |-> 2],
            arg_index_shared |-> TRUE, shadow_arg_reg_count |-> 2]

UnixOnly == {Unix}
Both     == {Unix, Windows}

MCSignatures == UNION {[1 .. n -> MCClass] : n \in 0 .. MaxParams}

MCDataType == {byte, half, word, pair}
MCSize ==
  [t \in MCDataType |-> CASE t = byte -> 1 [] t = half -> 4 [] t = word -> 8 [] t = pair -> 12]
MCAlignment ==
  [t \in MCDataType |-> CASE t = byte -> 1 [] t \in {half, pair} -> 4 [] t = word -> 8]

Vars  == {flag, count, ptr, st}
Saves == {flag, save}
Names == Vars \cup Saves

(* A variable has one type.  A save slot is named for a register and takes *)
(* whatever the register holds.                                            *)
NameTypes ==
  [n \in Names |-> CASE n = flag -> {byte} [] n = count -> {half}
                     [] n = ptr -> {word} [] n = st -> {pair}
                     [] n = save -> {byte, half, word}]

SaveTypes == [n \in Saves |-> NameTypes[n]]

StructSet == {st}

NoNames == {}
=============================================================================
