---------------------------- MODULE Instructions ----------------------------
(***************************************************************************)
(* The instruction list of a routine as the register allocator of          *)
(* src/src/amd64_codegen.cpp sees it.                                      *)
(*                                                                         *)
(* An instruction is a record: its kind `op' ("LABEL", "jmp", "jcc",       *)
(* "call", "SPILL", "mov" or "other"), the label it carries or jumps to    *)
(* (NoLabel if none), and the registers' names it mentions: operands it    *)
(* `reads', operands it `writes' directly, `bases' it writes through (x in *)
(* `mov [x+8], y': its access flag is AF_Write but the register is only    *)
(* read) and Operand_Uses that only keep a register alive (`uses').        *)
(* Positions count from 1; the code counts from 0.                         *)
(***************************************************************************)
EXTENDS Naturals, Sequences, FiniteSets

CONSTANTS
  Name,       \* names of virtual and fixed registers
  Label,
  NoLabel

Instruction == [op : {"LABEL", "jmp", "jcc", "call", "SPILL", "mov", "other"},
                label : Label \cup {NoLabel},
                reads : SUBSET Name, writes : SUBSET Name, bases : SUBSET Name,
                uses : SUBSET Name]

Positions(P) == 1 .. Len(P)

(* NewInstruction sets IF_FallsThrough and IF_Branch by the opcode.        *)
FallsThrough(instr) == instr.op # "jmp"
Branches(instr)     == instr.op \in {"jmp", "jcc"}
IsLabel(instr)      == instr.op = "LABEL"

Uses(instr)     == instr.reads \cup instr.bases \cup instr.uses
Operands(instr) == instr.reads \cup instr.bases \cup instr.writes

(* Selection emits a label for every jump and ends the list with the       *)
(* return label, which nothing falls past.  A label mentions no register.  *)
(* Of the operands only the first is written, either to the register it    *)
(* names or through it.                                                    *)
Formed(P) ==
  /\ P \in Seq(Instruction) /\ P # <<>>
  /\ IsLabel(P[Len(P)])
  /\ \A k \in Positions(P) :
       /\ Branches(P[k]) => \E l \in Positions(P) : IsLabel(P[l]) /\ P[l].label = P[k].label
       /\ IsLabel(P[k]) => Uses(P[k]) = {} /\ P[k].writes = {}
       /\ P[k].bases \cap P[k].writes = {}

-----------------------------------------------------------------------------
(* What the program does: control goes to the next instruction or to the   *)
(* label, and a label is a position of the list like any other.            *)

LabelPosition(P, l) == CHOOSE i \in Positions(P) : IsLabel(P[i]) /\ P[i].label = l

Successors(P, i) ==
  {j \in Positions(P) :
     \/ FallsThrough(P[i]) /\ j = i + 1
     \/ Branches(P[i]) /\ j = LabelPosition(P, P[i].label)}

(* The textbook definition: x is live before p when some path from p reads *)
(* x before any instruction writes it.  live[n] has, for every position,   *)
(* the names with such a path of at most n steps.                          *)
SuccessorsOf(P) == [k \in Positions(P) |-> Successors(P, k)]

OneStepBack(P, to, r) ==
  [k \in Positions(P) |-> Uses(P[k]) \cup ((UNION {r[s] : s \in to[k]}) \ P[k].writes)]

LiveAlong(P, to) ==
  LET live[n \in 0 .. Len(P)] ==
        IF n = 0 THEN [k \in Positions(P) |-> Uses(P[k])]
        ELSE CHOOSE f \in {OneStepBack(P, to, r) : r \in {live[n - 1]}} : TRUE
  IN live[Len(P)]

LiveBefore(P) == CHOOSE f \in {LiveAlong(P, to) : to \in {SuccessorsOf(P)}} : TRUE

(* The instructions that some run of the routine executes.                 *)
Reachable(P) ==
  LET reached[n \in 0 .. Len(P)] ==
        IF n = 0 THEN {1}
        ELSE UNION {r \cup UNION {Successors(P, p) : p \in r} : r \in {reached[n - 1]}}
  IN reached[Len(P)]

(* The live sets that liveness asks for.  ComputeLiveness puts the         *)
(* arguments in the live_out set of the first instruction, from where they *)
(* pass to its live_in set unless it writes them.                          *)
LiveIn(P, args) ==
  LET in(k, live) == live[k] \cup {x \in args : k = 1 /\ x \notin P[k].writes}
  IN CHOOSE f \in {[k \in Positions(P) |-> in(k, live)] : live \in {LiveBefore(P)}} : TRUE

LiveOut(P, args) ==
  LET out(k, live) == P[k].writes \cup P[k].bases \cup {x \in args : k = 1}
                      \cup UNION {live[s] : s \in Successors(P, k)}
  IN CHOOSE f \in {[k \in Positions(P) |-> out(k, live)] : live \in {LiveBefore(P)}} : TRUE

-----------------------------------------------------------------------------
(* "Reduce liveness information to coarse live intervals": from a live_out *)
(* set in which x stands, an interval runs as long as the following        *)
(* instructions have x in live_in, and erases x from their live_out sets.  *)

StaysLive(in, x, from, to) == \A k \in from + 1 .. to : x \in in[k]

(* Faulty variant: the live_out sets keep x while its interval runs.       *)
StartsEverywhere(in, out, x, k) == x \in out[k]

StartsInterval(in, out, x, k) ==
  /\ x \in out[k]
  /\ ~ \E s \in 1 .. k - 1 : x \in out[s] /\ StaysLive(in, x, s, k)

(* li.end keeps its initial 0, the first instruction, when x is in live_in *)
(* to the end of the list.                                                 *)
IntervalEnd(P, in, x, start) ==
  IF StaysLive(in, x, start, Len(P)) THEN 1
  ELSE CHOOSE e \in start .. Len(P) - 1 : StaysLive(in, x, start, e) /\ x \notin in[e + 1]

LiveIntervals(P, in, out) ==
  {[name |-> p[1], start |-> p[2], end |-> IntervalEnd(P, in, p[1], p[2])] :
     p \in {q \in Name \X Positions(P) : StartsInterval(in, out, q[1], q[2])}}

=============================================================================
