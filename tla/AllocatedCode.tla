---------------------------- MODULE AllocatedCode ---------------------------
(***************************************************************************)
(* The code that LinearScan leaves behind: InsertSpills puts the recorded  *)
(* spills between the instructions, and a machine then runs the list.  The *)
(* machine does not compute; a location holds the pair <<x, p>> when the   *)
(* last store to it was the write of x by the instruction p, so that a     *)
(* read can tell whether it gets the value the program meant.              *)
(***************************************************************************)
EXTENDS EdgeResolution, Peephole

CONSTANT Junk          \* what a call leaves in the caller saves

VARIABLES
  final,       \* the instruction list with the spills inserted
  ip,          \* the machine's position in it
  mem,         \* registers and stack slots
  latest       \* the write the program's next read of a name should see

machine == <<final, ip, mem, latest>>

Slots    == Name \cup Reg      \* the caller saves are stored under their own names
Location == Reg \cup (Slots \X {Slot})

Where(x, p) == IF p = Slot THEN <<x, Slot>> ELSE p

-----------------------------------------------------------------------------
(* InsertSpills.                                                           *)

(* The exchange sort by instr_index: every spill is compared, in turn, with *)
(* each of those behind it.  Equal indices may change their order.         *)
Exchange(s, pair) ==
  LET m == pair[1]
      n == pair[2]
  IN IF m < n /\ s[n].instr_index < s[m].instr_index THEN [s EXCEPT ![m] = s[n], ![n] = s[m]] ELSE s

SortSpills(s) ==
  LET len == Len(s)
  IN FoldLeft(Exchange, s, [q \in 1 .. len * len |-> <<((q - 1) \div len) + 1, ((q - 1) % len) + 1>>])

(* Each spill is inserted in front of its instruction, behind the spills   *)
(* inserted there before.                                                  *)
InsertSpills(all) ==
  LET sorted == SortSpills(all)
      before(p) == SelectSeq(sorted, LAMBDA s : s.instr_index \div 2 = p)
      instr(p)  == [kind |-> "Instr", at |-> p]
  IN FoldLeft(LAMBDA list, p : list \o before(p) \o (IF p <= N THEN <<instr(p)>> ELSE <<>>),
              <<>>, [p \in 1 .. N + 1 |-> p])

(* What OptimizeCode sees of an entry of the list.                         *)
Seen(i) ==
  LET slot == <<i.name, Slot>>
      move(to, from) == [op |-> "mov", def |-> {to}, src |-> {from}, label |-> NoLabel]
      instr  == code[i.at]
      at(names) == {Where(x, place[i.at][x]) : x \in names \cap DOMAIN place[i.at]}
  IN CASE i.kind = "Spill"   -> move(slot, i.reg)
       [] i.kind = "Unspill" -> move(i.reg, slot)
       [] i.kind = "Move"    -> move(i.target, i.reg)
       [] i.kind = "Instr"   ->
            [op |-> instr.op, label |-> instr.label,
             def |-> IF instr.op = "call" \/ instr.writes \cap instr.reads # {} THEN {}
                     ELSE at(instr.writes),
             src |-> IF instr.reads = {} THEN {<<"constant", i.at>>} ELSE at(instr.reads)]

(* The list that is left: what is commented out stays in it as such.       *)
Final ==
  LET mark(list, out) == [j \in DOMAIN list |-> list[j] @@ [out |-> j \in out]]
      seen(list)      == FoldLeft(LAMBDA all, i : Append(all, Seen(i)), <<>>, list)
      left(list)      == {mark(list, out) : out \in {OptimizeCode(s) : s \in {seen(list)}}}
  IN UNION {left(list) : list \in {InsertSpills(spills \o CfgEdgeResolution)}}

-----------------------------------------------------------------------------

MInit ==
  /\ Init
  /\ final = <<>>
  /\ ip = 0
  /\ mem = [l \in Location |-> Junk]
  /\ latest = [x \in Name |-> Junk]

Allocate == Next /\ UNCHANGED machine

Arrives(x) == IF ArgReg[x] = NoReg THEN <<x, Slot>> ELSE ArgReg[x]

(* The routine is entered: the arguments are where the caller put them.    *)
Enter ==
  /\ pc = "done"
  /\ ip = 0
  /\ final' \in Final
  /\ ip' = 1
  /\ latest' = [x \in Name |-> IF x \in args THEN <<x, 0>> ELSE Junk]
  /\ mem' = [l \in Location |->
               IF \E x \in args : l = Arrives(x)
               THEN <<CHOOSE x \in args : l = Arrives(x), 0>>
               ELSE Junk]
  /\ UNCHANGED vars

Running == ip \in DOMAIN final

(* A move of a value from one location to another.                         *)
Copy(kind, to(_), from(_)) ==
  /\ Running
  /\ final[ip].kind = kind /\ ~final[ip].out
  /\ mem' = [mem EXCEPT ![to(final[ip])] = mem[from(final[ip])]]
  /\ ip' = ip + 1
  /\ UNCHANGED <<final, latest, vars>>

SlotOf(i)     == <<i.name, Slot>>
RegisterOf(i) == i.reg
TargetOf(i)   == i.target

ExecSpill   == Copy("Spill", SlotOf, RegisterOf)
ExecUnspill == Copy("Unspill", RegisterOf, SlotOf)
ExecMove    == Copy("Move", TargetOf, RegisterOf)

CallerSave(l) == \E c \in Class : l \in Elements(CallerSaved[c])

(* The position in the list of the instruction at p.                       *)
At(p) == SelectInSeq(final, LAMBDA i : i.kind = "Instr" /\ i.at = p)

(* A move passes on what it reads; anything else makes a new value.        *)
Passes(instr) == instr.op = "mov" /\ instr.reads # {}
Source(instr) == CHOOSE x \in instr.reads : TRUE

(* What the program means by the instruction, left out or not.             *)
Means(p) ==
  latest' = [x \in Name |-> IF x \notin code[p].writes THEN latest[x]
                            ELSE IF Passes(code[p]) THEN latest[Source(code[p])] ELSE <<x, p>>]

ExecInstr ==
  /\ Running
  /\ final[ip].kind = "Instr" /\ ~final[ip].out
  /\ LET p     == final[ip].at
         instr == code[p]
         wrote(l) == {x \in instr.writes \cap DOMAIN place[p] : Where(x, place[p][x]) = l}
         value(l) == IF Passes(instr) THEN mem[Where(Source(instr), place[p][Source(instr)])]
                     ELSE <<CHOOSE x \in wrote(l) : TRUE, p>>
         stored(l) == {x \in instr.reads : instr.op = "SPILL" /\ l = <<x, Slot>>
                                           /\ place[p][x] # Slot}
     IN /\ mem' = [l \in Location |->
                     IF wrote(l) # {} THEN value(l)
                     ELSE IF stored(l) # {} THEN mem[place[p][l[1]]]
                     ELSE IF instr.op = "call" /\ CallerSave(l) THEN Junk
                     ELSE mem[l]]
        /\ Means(p)
        /\ \/ FallsThrough(instr) /\ ip' = ip + 1
           \/ Branches(instr) /\ ip' = At(LabelPosition(code, instr.label))
  /\ UNCHANGED <<final, vars>>

SkipComment ==
  /\ Running
  /\ final[ip].out
  /\ IF final[ip].kind = "Instr" THEN Means(final[ip].at) ELSE UNCHANGED latest
  /\ ip' = ip + 1
  /\ UNCHANGED <<final, mem, vars>>

MNext == Allocate \/ Enter \/ ExecSpill \/ ExecUnspill \/ ExecMove \/ ExecInstr \/ SkipComment

(* The allocator goes on to its end; what it emits need not.               *)
MSpec == MInit /\ [][MNext]_<<vars, machine>> /\ WF_vars(Next)

-----------------------------------------------------------------------------

(* The machine is at an instruction.                                       *)
AtInstr == Running /\ final[ip].kind = "Instr" /\ ~final[ip].out

(* Every operand read holds the value of the last write to its name.       *)
OperandsFresh ==
  AtInstr =>
    LET p == final[ip].at
    IN \A x \in code[p].reads \cup code[p].bases :
         x \in DOMAIN place[p] /\ mem[Where(x, place[p][x])] = latest[x]

(* A load from the stack has come between the move of an argument into its *)
(* register and the call.                                                  *)
LoadedOver(x) ==
  \E j \in 1 .. ip : /\ final[j].kind = "Unspill" /\ final[j].reg = FixedReg[x]
                     /\ \E m \in 1 .. j : final[m].kind = "Instr" /\ x \in code[final[m].at].writes

(* A call reads the registers its arguments were put in.                   *)
ArgumentsArrive ==
  AtInstr /\ code[final[ip].at].op = "call" =>
    \A x \in code[final[ip].at].uses :
      FixedReg[x] # NoReg => mem[FixedReg[x]] = latest[x] \/ LoadedOver(x)

EachCallReturns == \A p \in Positions(code) : code[p].op = "call" => code[p].writes # {}

(* The registers are then not reconciled at every jump: "This seems to     *)
(* work in most cases, but fails in some", CfgEdgeResolution says.         *)
JumpsAndCalls ==
  /\ \E p \in Positions(code) : code[p].op = "call"
  /\ \E p \in Positions(code) : Branches(code[p])

(* No register is reused while its value is needed, every value moved to   *)
(* the stack was stored before and is loaded again, no load brings back an *)
(* old value, no call destroys one, what a path leaves in other registers  *)
(* than its jump's target expects is moved there, and what the peephole    *)
(* pass drops is not missed: in the routines that have jumps or calls,     *)
(* whose calls all have a result, and that the scan has not passed over a  *)
(* part of.                                                                *)
ReadsSeeLastWrite ==
  AllScanned /\ EachCallReturns /\ ~JumpsAndCalls => OperandsFresh /\ ArgumentsArrive

=============================================================================
