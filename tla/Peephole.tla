------------------------------- MODULE Peephole ------------------------------
(***************************************************************************)
(* OptimizeCode of src/src/amd64_codegen.cpp, on the instructions of a     *)
(* routine after the allocation.                                           *)
(***************************************************************************)
EXTENDS Sequences, SequencesExt

(* An instruction is a record with `op', `def', the operand it writes      *)
(* and nothing else (None if it writes none, or reads it too), `src', the  *)
(* operand a move reads, and `label'.                                      *)

IsMove(i) == i.op = "mov"

(* A move from an operand to itself.                                       *)
Idle(i) == IsMove(i) /\ i.def = i.src

(* Of two neighbours the first is dropped: a jump to the next instruction, *)
(* and a definition of what the second one defines again, unless that is   *)
(* dropped itself.                                                         *)
DropsFirst(f, s) ==
  \/ f.op = "jmp" /\ s.op = "LABEL" /\ f.label = s.label
  \/ /\ f.op # "jmp" \/ s.op # "LABEL"
     /\ ~(IsMove(f) /\ IsMove(s))
     /\ f.def # {} /\ f.def = s.def /\ ~Idle(s)

(* Or the second: the reverse of a move, or the same move again.           *)
DropsSecond(f, s) ==
  /\ IsMove(f) /\ IsMove(s)
  /\ \/ f.def = s.src /\ f.src = s.def
     \/ f.def = s.def /\ f.src = s.src

OptimizeCode(list) ==
  {n \in DOMAIN list :
     \/ Idle(list[n])
     \/ n < Len(list) /\ DropsFirst(list[n], list[n + 1])
     \/ n > 1 /\ DropsSecond(list[n - 1], list[n])}

=============================================================================
