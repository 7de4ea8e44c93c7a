--------------------------- MODULE MCAllocatedCode --------------------------
(* The allocator, and the code it leaves, on the routines of `Size'        *)
(* statements of a menu, over small register files.                        *)
EXTENDS AllocatedCode

CONSTANTS
  Shape,         \* the kind of routines, see MCRoutineSet
  Size,          \* statements of a routine
  ret, l1, l2, x, y, z, w, arg1, ret1, arg2, ret2, arg3, ret3, t1, t2, t3,
  general, rax, rbx, rdi,
  None           \* REG_NONE: the value of NoReg

MCLabel == {ret, l1, l2}

Instr(op, reads, writes) ==
  [op |-> op, label |-> NoLabel, reads |-> reads, writes |-> writes, bases |-> {},
   uses |-> {}]

ReturnLabel == [op |-> "LABEL", label |-> ret, reads |-> {}, writes |-> {}, bases |-> {},
   uses |-> {}]

(* Nothing is read before it is written, except the arguments.             *)
Defined(body, a) ==
  \A p \in DOMAIN body : \A v \in body[p].reads :
    v \in a \/ \E q \in 1 .. p - 1 : v \in body[q].writes

(* Of lists that differ by a renaming of variables one is enough: the      *)
(* variables are first written in the order of this sequence.              *)
Canonical(body, order) ==
  \A p \in DOMAIN body : \A m \in 2 .. Len(order) :
    order[m] \in body[p].writes =>
      \E q \in 1 .. p - 1 : order[m - 1] \in body[q].writes

Argument == <<arg1, arg2, arg3>>
Returned == <<ret1, ret2, ret3>>
Temp == <<t1, t2, t3>>

(* FixedRegOperand gives every operand in a fixed register a name of its   *)
(* own: those of the n-th call are numbered n.                             *)
Calls(body) == Len(SelectSeq(body, LAMBDA instr : instr.op = "call"))

OfCall(statement, n) ==
  LET own(names) == {CASE v = arg1 -> Argument[n] [] v = ret1 -> Returned[n]
                       [] v = t1 -> Temp[n]       [] OTHER -> v : v \in names}
  IN [p \in DOMAIN statement |->
        [statement[p] EXCEPT !.reads = own(@), !.writes = own(@), !.uses = own(@)]]

(* Lists of n statements, a statement being a sequence of instructions.    *)
Bodies(statements, a, order, n) ==
  LET bodies[m \in 0 .. n] ==
        IF m = 0 THEN {<<>>}
        ELSE {b \in {c \o OfCall(s, Calls(c) + 1) : c \in bodies[m - 1], s \in statements} :
                Canonical(b, order) /\ Defined(b, a)}
  IN bodies[n]

(* Each body is followed by `tail'.                                        *)
BodiesThen(bodies, tail, a) ==
  {[code |-> body \o tail \o <<ReturnLabel>>, args |-> a] : body \in bodies}

Straight(statements, a, order) == BodiesThen(Bodies(statements, a, order, Size), <<>>, a)

(* Constants and moves, and sums of two.                                   *)
Moves(vars_) ==
  {<<Instr("mov", r, {v})>> : r \in {q \in SUBSET vars_ : Cardinality(q) <= 1}, v \in vars_}

Pure(vars_) ==
  Moves(vars_) \cup
    {<<Instr("other", r, {v})>> : r \in {q \in SUBSET vars_ : Cardinality(q) = 2}, v \in vars_}

-----------------------------------------------------------------------------
(* Three variables over two registers: loads of constants, updates, moves  *)
(* and sums.                                                               *)
OneClass   == {general}
OneCaller  == (general :> <<rax>>)
OneCallee  == (general :> <<rbx>>)
Variables  == {x, y, z}
AllGeneral == [v \in Variables |-> general]
NoFixed    == [v \in Variables |-> None]

-----------------------------------------------------------------------------
(* Calls of a function with one parameter, with and without a result, in   *)
(* routines with no argument, with x in the register of the parameter, and *)
(* with w on the stack.                                                    *)
CallNames   == {x, y, z, w} \cup UNION {{Argument[n], Returned[n], Temp[n]} : n \in 1 .. 3}
CallFixed   == [v \in CallNames |-> CASE v \in ToSet(Argument) -> rdi
                                      [] v \in ToSet(Returned) -> rax
                                      [] OTHER -> None]
CallGeneral == [v \in CallNames |-> general]
CallArgs    == [v \in CallNames |-> IF v = x THEN rdi ELSE None]
CallCaller  == (general :> <<rax, rdi>>)

AdjustStack == <<Instr("other", {}, {})>>
Call(v, rets) ==
  AdjustStack \o <<Instr("mov", {v}, {arg1}),
                   [Instr("call", {}, rets) EXCEPT !.uses = {arg1}]>> \o AdjustStack
(* The result goes to a temporary and from there to the variable.          *)
Result(v) == <<[Instr("mov", {ret1}, {t1}) EXCEPT !.uses = {arg1}], Instr("mov", {t1}, {v})>>
Compare(vars_) == <<Instr("other", vars_, {})>>
CallStatements(vars_) ==
  Pure(vars_) \cup {Compare(vars_)} \cup {Call(v, {ret1}) \o Result(t) : v, t \in vars_}
    \cup {Call(v, {}) : v \in vars_}

(* x, whose address is taken, is stored in its slot before.                *)
AddressOf(v) == <<Instr("SPILL", {v}, {}), Instr("other", {}, {})>>

-----------------------------------------------------------------------------
(* Four variables over the three registers: constants and moves, and sums  *)
(* of two at the end.                                                      *)
Crowded ==
  UNION {BodiesThen(b, <<Instr("other", {x, y}, {z}), Instr("other", {z, w}, {x}),
                           Instr("other", {x, y}, {})>>, {}) :
           b \in {{body \in Bodies(Moves({x, y, z, w}), {}, <<x, y, z, w>>, 5) :
                    \A v \in {x, y, w} : \E p \in DOMAIN body : v \in body[p].writes}}}

-----------------------------------------------------------------------------
(* Jumps, as GenIfStatement and GenWhileLoop leave them.                   *)
JumpOrLabel(op, l) == <<[Instr(op, {}, {}) EXCEPT !.label = l]>>

If(v, A, B) ==
  Compare({v}) \o JumpOrLabel("jcc", l1) \o A \o
    IF B = <<>> THEN JumpOrLabel("LABEL", l1)
    ELSE JumpOrLabel("jmp", l2) \o JumpOrLabel("LABEL", l1) \o B \o JumpOrLabel("LABEL", l2)

While(v, A) ==
  JumpOrLabel("LABEL", l1) \o Compare({v}) \o JumpOrLabel("jcc", l2) \o A
    \o JumpOrLabel("jmp", l1) \o JumpOrLabel("LABEL", l2)

(* Constants, one of the `middles', and a read of the variables of `last'. *)
Middle(middles, vars_, last) ==
  BodiesThen({FlattenSeq([n \in DOMAIN vars_ |-> <<Instr("mov", {}, {vars_[n]})>>]) \o m : m \in middles},
             Compare(last), {})

Assignments(vars_, v) ==
  {m \in Moves(vars_) : m[1].reads # m[1].writes} \cup {<<Instr("other", {x, y}, {v})>>}

Two == Assignments({x, y}, x)
Branch == Two \cup {A \o B : A, B \in Two}

Three == Assignments({x, y, z}, z)
CopyThen == {<<Instr("mov", {x}, {y})>> \o A : A \in Three}

(* Two variables in many ways; and three where the register a name has at  *)
(* the end of one branch is another name's at the end of the other.        *)
Branching ==
  UNION {Middle({If(v, A, B) : v \in {x, y}, A \in Branch, B \in Two \cup {<<>>}}
                  \cup {While(v, A) : v \in {x, y}, A \in Branch}, <<x, y>>, last) :
           last \in {{x}, {x, y}}}
    \cup Middle({If(x, A, B) : A \in CopyThen, B \in Three}, <<x, y, z>>, {y, z})

Assigned(n) == {OfCall(Call(v, {ret1}) \o Result(t), n) : v, t \in {x, y}}

TwoCalls == Middle({A \o B : A \in Assigned(1), B \in Assigned(2)}, <<x, y>>, {x, y})

CallInBranch ==
  Middle({If(x, A, B) : A \in Assigned(1), B \in Two \cup {<<>>}}
           \cup {While(x, A) : A \in Assigned(1)}, <<x, y>>, {x, y})

-----------------------------------------------------------------------------
(* The routines of a run.                                                  *)
MCRoutineSet ==
  CASE Shape = "pressure" -> Straight(Pure(Variables), {}, <<x, y, z>>)
    [] Shape = "all" ->
         Crowded \cup Branching \cup TwoCalls \cup CallInBranch
           \cup Straight(CallStatements({x, y}), {}, <<x, y>>)
           \cup Straight(CallStatements({x, y}) \cup {AddressOf(x)}, {x}, <<y>>)
           \cup Straight(CallStatements({w, y}), {w}, <<y>>)

(* They satisfy what the proof that no assertion fails assumes.            *)
ASSUME PlaceableAssumption == Placeable

=============================================================================
