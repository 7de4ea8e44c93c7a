------------------------------ MODULE Liveness ------------------------------
(***************************************************************************)
(* ComputeLiveness of src/src/amd64_codegen.cpp: the live sets of every    *)
(* instruction, by sweeping the list until a sweep changes nothing, and    *)
(* the coarse live intervals the linear scan works on.                     *)
(*                                                                         *)
(* The sets are swept forwards and in place, so a sweep sees the sets of   *)
(* the instructions before i already updated and those after i not yet.    *)
(***************************************************************************)
EXTENDS Instructions

CONSTANT Routines    \* the instruction lists, each with the names of its arguments

(* The first instruction reads nothing but arguments unless the program    *)
(* reads a variable that it never set.                                     *)
ASSUME RoutinesAssumption ==
  \A r \in Routines :
    /\ r.args \subseteq Name
    /\ Formed(r.code)
    /\ Uses(r.code[1]) \subseteq r.args

VARIABLES
  code,       \* Routine::instructions
  args,       \* the arguments that arrive in a register or marked as spilled
  live_in, live_out,   \* Live_Sets of every instruction
  i,          \* the instruction the sweep visits next
  changed,    \* has this sweep changed a set?
  phase       \* "sweep", then "done" when the intervals are made

vars == <<code, args, live_in, live_out, i, changed, phase>>

N == Len(code)

-----------------------------------------------------------------------------
(* The successors ComputeLiveness takes the sets of.                       *)

(* The instruction after i that is not a label, 0 if there is none.        *)
NextInstr(P, k) ==
  LET after == {n \in Positions(P) : n > k /\ ~IsLabel(P[n])}
  IN IF after = {} THEN 0 ELSE CHOOSE n \in after : \A m \in after : n <= m

(* CollectLabelInstructions: the instruction that follows the label, be it *)
(* a label itself; 0 for a label at the end of the list.                   *)
LabelInstr(P, l) ==
  IF LabelPosition(P, l) < Len(P) THEN LabelPosition(P, l) + 1 ELSE 0

SweepSuccessors(P, k) ==
  {s \in Positions(P) : \/ FallsThrough(P[k]) /\ s = NextInstr(P, k)
                        \/ Branches(P[k]) /\ s = LabelInstr(P, P[k].label)}

-----------------------------------------------------------------------------

Init ==
  \E r \in Routines :
    /\ code = r.code
    /\ args = r.args
    /\ live_in = [k \in Positions(r.code) |-> {}]
    /\ live_out = [k \in Positions(r.code) |-> IF k = 1 THEN r.args ELSE {}]
    /\ i = 1
    /\ changed = FALSE
    /\ phase = "sweep"

(* Faulty variant: an operand written stays live before its instruction.   *)
VisitKeepsWrites ==
  /\ phase = "sweep"
  /\ i <= N
  /\ LET in  == live_in[i] \cup code[i].reads \cup code[i].uses \cup live_out[i]
         lin == [live_in EXCEPT ![i] = in]
         out == live_out[i] \cup code[i].writes \cup code[i].bases
                  \cup UNION {lin[s] : s \in SweepSuccessors(code, i)}
     IN /\ live_in' = lin
        /\ live_out' = [live_out EXCEPT ![i] = out]
        /\ changed' = (changed \/ in # live_in[i] \/ out # live_out[i])
  /\ i' = i + 1
  /\ UNCHANGED <<code, args, phase>>

(* Faulty variant: AddOper reports a change for a name already in the set. *)
VisitAlwaysChanges ==
  /\ phase = "sweep"
  /\ i <= N
  /\ LET in  == live_in[i] \cup code[i].reads \cup code[i].uses \cup (live_out[i] \ code[i].writes)
         lin == [live_in EXCEPT ![i] = in]
         out == live_out[i] \cup code[i].writes \cup code[i].bases
                  \cup UNION {lin[s] : s \in SweepSuccessors(code, i)}
     IN /\ live_in' = lin
        /\ live_out' = [live_out EXCEPT ![i] = out]
        /\ changed' = (changed \/ code[i].reads # {} \/ in # live_in[i] \/ out # live_out[i])
  /\ i' = i + 1
  /\ UNCHANGED <<code, args, phase>>

(* One iteration of the inner loop.  The operands read join live_in, then  *)
(* what live_out held before this visit and i does not overwrite; only     *)
(* then do the operands written and the successors' sets join live_out.    *)
Visit ==
  /\ phase = "sweep"
  /\ i <= N
  /\ LET in  == live_in[i] \cup code[i].reads \cup code[i].uses \cup (live_out[i] \ code[i].writes)
         lin == [live_in EXCEPT ![i] = in]
         out == live_out[i] \cup code[i].writes \cup code[i].bases
                  \cup UNION {lin[s] : s \in SweepSuccessors(code, i)}
     IN /\ live_in' = lin
        /\ live_out' = [live_out EXCEPT ![i] = out]
        /\ changed' = (changed \/ in # live_in[i] \/ out # live_out[i])
  /\ i' = i + 1
  /\ UNCHANGED <<code, args, phase>>

(* while (changed): sweep again.                                           *)
SweepAgain ==
  /\ phase = "sweep"
  /\ i > N
  /\ changed
  /\ i' = 1
  /\ changed' = FALSE
  /\ UNCHANGED <<code, args, live_in, live_out, phase>>

(* Faulty variant: one sweep and no more.                                  *)
FinishAfterOneSweep ==
  /\ phase = "sweep"
  /\ i > N
  /\ phase' = "done"
  /\ UNCHANGED <<code, args, live_in, live_out, i, changed>>

Finish ==
  /\ phase = "sweep"
  /\ i > N
  /\ ~changed
  /\ phase' = "done"
  /\ UNCHANGED <<code, args, live_in, live_out, i, changed>>

Next == Visit \/ SweepAgain \/ Finish

Spec == Init /\ [][Next]_vars /\ WF_vars(Next)

-----------------------------------------------------------------------------
Intervals == LiveIntervals(code, live_in, live_out)

-----------------------------------------------------------------------------

TypeOK ==
  /\ code \in Seq(Instruction)
  /\ args \subseteq Name
  /\ live_in \in [Positions(code) -> SUBSET Name]
  /\ live_out \in [Positions(code) -> SUBSET Name]
  /\ i \in 1 .. N + 1
  /\ changed \in BOOLEAN
  /\ phase \in {"sweep", "done"}

(* The sweeps compute the textbook liveness although they follow other     *)
(* edges than the program does: a fall through skips labels and a branch   *)
(* goes past its label.  Only an argument the first instruction does not   *)
(* write counts as live there without a read.                              *)
LiveSetsExact ==
  phase = "done" => live_in = LiveIn(code, args) /\ live_out = LiveOut(code, args)

HasInterval(x, k) == \E li \in Intervals : li.name = x /\ li.start <= k /\ k <= li.end

(* A value lives in one interval from the instruction that computes it to  *)
(* the next instruction: no interval of x ends between two instructions    *)
(* that run one after the other when x is live between them, and every     *)
(* name of an instruction that can run has an interval there.              *)
FlowStaysCovered ==
  phase = "done" =>
    \A live \in {LiveBefore(code)} : \A k \in Reachable(code) :
      /\ \A x \in Operands(code[k]) : HasInterval(x, k)
      /\ \A s \in Successors(code, k) : \A x \in live[s] : HasInterval(x, k) /\ HasInterval(x, s)

(* The chain of the intervals of one name has no two that meet, and none   *)
(* that ends before it starts.                                             *)
IntervalsApart ==
  phase = "done" =>
    /\ \A li \in Intervals : li.start <= li.end
    /\ \A a, b \in Intervals : a.name = b.name /\ a # b => a.end < b.start \/ b.end < a.start

(* The loop `while (changed)' ends.                                        *)
Terminates == <>(phase = "done")

=============================================================================
