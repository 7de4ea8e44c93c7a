---------------------------- MODULE EdgeResolution ---------------------------
(***************************************************************************)
(* CfgEdgeResolution of src/src/amd64_codegen.cpp: where control jumps, a  *)
(* name can have one register at the jump and another one at its target.   *)
(* Moves, or a store and a load, are put in front of the jump; where a     *)
(* conditional jump falls through they are undone behind it.               *)
(***************************************************************************)
EXTENDS LinearScan

(* A Cfg_Edge, for the position of a jump.  The target is the instruction  *)
(* behind the label, 0 if the label is the last one.                       *)
Edge(p) ==
  LET label == LabelPosition(code, code[p].label)
  IN [at |-> p, target |-> IF label = N THEN 0 ELSE label + 1,
      falls_through |-> FallsThrough(code[p]), intervals |-> live_in[p]]

Edges ==
  LET jumps == SelectSeq([p \in Positions(code) |-> p], LAMBDA p : Branches(code[p]))
  IN [e \in DOMAIN jumps |-> Edge(jumps[e])]

Covers(iv, p) == iv.start <= p /\ p <= iv.end

(* The first of the allocated intervals, other than the i-th, with the     *)
(* name of the i-th at p; 0 if there is none.                              *)
Other(i, p) ==
  SelectInSeq([j \in DOMAIN allocated |-> <<j, allocated[j]>>],
              LAMBDA o : o[1] # i /\ Covers(o[2], p) /\ o[2].name = allocated[i].name)

HolderAt(p, r) == SelectInSeq(allocated, LAMBDA o : Covers(o, p) /\ o.reg = r)

Biased(iv, kind, at, bias) == [Spilled(iv, kind, at) EXCEPT !.instr_index = @ + bias]

Move(iv, to, at) == Biased(iv, "Move", at, 0) @@ [target |-> to]

(* The name has the register of li at the jump and the one of `there' at   *)
(* the target; if that one is in use at the jump, by `user', the value     *)
(* goes through its slot.                                                  *)
Reconcile(e, li, there) ==
  LET user == HolderAt(e.at, there.reg)
      kept == IF user = 0 THEN there ELSE allocated[user]
      moved == [li EXCEPT !.reg = there.reg]
      before ==
        IF user = 0 THEN <<Move(li, there.reg, e.at)>>
        ELSE <<Biased(li, "Spill", e.at, 0), Biased(moved, "Unspill", e.at, 1)>>
      after ==
        IF user = 0 THEN <<Move(there, li.reg, e.at + 1)>>
        ELSE <<Biased(moved, "Spill", e.at + 1, 0), Biased(li, "Unspill", e.at + 1, 1)>>
  IN IF ~e.falls_through THEN before
     ELSE <<Biased(kept, "Spill", e.at, 0)>> \o before \o after
          \o <<Biased(kept, "Unspill", e.at + 1, 1)>>

(* What the i-th interval needs at an edge.  A name that has a register    *)
(* only at the target is loaded from its slot.                             *)
ResolveAt(e, i) ==
  LET li    == allocated[i]
      there == Other(i, e.target)
  IN CASE Covers(li, e.at) ->
            IF there = 0 \/ allocated[there].reg = li.reg THEN <<>>
            ELSE Reconcile(e, li, allocated[there])
       [] ~Covers(li, e.at) /\ Covers(li, e.target) ->
            IF Other(i, e.at) = 0 /\ li.name \in e.intervals
            THEN <<Biased(li, "Unspill", e.at, 1)>> ELSE <<>>
       [] OTHER -> <<>>

CfgEdgeResolution ==
  FlattenSeq([n \in DOMAIN Edges |->
                FlattenSeq([i \in DOMAIN allocated |-> ResolveAt(Edges[n], i)])])

=============================================================================
