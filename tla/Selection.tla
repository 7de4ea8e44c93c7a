------------------------------ MODULE Selection ------------------------------
(***************************************************************************)
(* Instruction selection: src/src/amd64_codegen.cpp from IrOperand to      *)
(* GenerateCode.  Every intermediate instruction becomes instructions of   *)
(* the machine on virtual registers.                                       *)
(*                                                                         *)
(* A machine operand is a record: how it is addressed ("reg", "imm",       *)
(* "label", "const" for the place of a float constant, "base" for          *)
(* [name + off], "index" for [name + next operand], "scale" for            *)
(* name * off), its data type, its name and its offset.  Names are tuples: *)
(* <<"var", x>>, <<"temp", n>>, <<"cg", n>> for registers,                 *)
(* <<"rax">>, <<"rdx">>, <<"rcx">>, <<"arg", k>> for fixed ones (the place *)
(* of an argument is CallFrame's), <<"slot", name>> for a place in the     *)
(* frame, <<"global", x>>, and <<"imm", value>> for a value.               *)
(*                                                                         *)
(* Selecting is threaded through a record: the code, the count of          *)
(* temporaries, the names whose address was taken so far (spilled_opers,   *)
(* which every routine of the program adds to), and whether an assertion   *)
(* failed.                                                                 *)
(***************************************************************************)
EXTENDS IrGen

-----------------------------------------------------------------------------
(* Operands.                                                               *)

Operand(at, dt, name, off) == [at |-> at, dt |-> dt, name |-> name, off |-> off]

NoOperand      == Operand("none", "ptr", <<"none">>, 0)
Reg(dt, name)  == Operand("reg", dt, name, 0)
Immediate(dt, v) == Operand("imm", dt, <<"imm", v>>, 0)
As(o, dt)      == [o EXCEPT !.dt = dt]
Base(o, off)   == [o EXCEPT !.at = "base", !.off = off]

IrOperand(o) ==
  CASE o[1] \in {"routine", "foreign"} -> Operand("label", "ptr", <<"routine", o[3], o[4]>>, 0)
    [] o[1] = "label"                  -> Operand("label", "ptr", <<"label", o[2]>>, 0)
    [] o[1] \in {"var", "temp"}        -> Reg(DataTypeFromType(o[2]), <<o[1], o[3]>>)
    [] o[1] = "global"                 -> Operand("base", DataTypeFromType(o[2]), <<"global", o[3]>>, 0)
    [] o[1] = "imm"                    -> Immediate(DataTypeFromType(o[2]), o[3])

(* Where a variable is in memory.                                          *)
GetAddress(o) ==
  IF o[1] = "global" THEN IrOperand(o)
  ELSE Operand("base", DataTypeFromType(o[2]), <<"slot", <<o[1], o[3]>>>>, 0)

Conditions == {"e", "ne", "l", "le", "g", "ge", "b", "be", "a", "ae"}

(* What each operand of an opcode may be (opcode_flags).                   *)
InMemory1 == {"mov", "movs", "movsx", "movzx", "mul", "div", "idiv"}
InMemory2 == {"mov", "movs", "movsx", "movzx", "lea", "comis", "add", "sub", "and", "or", "xor", "imul"}
               \cup {"cmov" \o c : c \in Conditions}
Immediate2 == {"mov", "cmp", "add", "sub", "and", "or", "xor", "shl", "sar", "shr"}

Allows(op, k, kind) ==
  CASE k = 1 /\ kind = "mem" -> op \in InMemory1
    [] k = 2 /\ kind = "mem" -> op \in InMemory2
    [] k = 2 /\ kind = "imm" -> op \in Immediate2
    [] OTHER                 -> FALSE

FloatTypes == {"f32", "f64"}
MoveOp(dt) == IF dt \in FloatTypes THEN "movs" ELSE "mov"

(* SetOperand: a name whose address was taken has no register afterwards,  *)
(* and its slot replaces the operand whatever its addressing was.          *)
Settled(s, o) ==
  IF o.name \in s.spilled /\ o.name[1] # "global" THEN Operand("base", o.dt, <<"slot", o.name>>, 0) ELSE o

Emit(s, op, opers) ==
  [s EXCEPT !.code = Append(@, [op |-> op, o1 |-> Settled(s, opers[1]), o2 |-> Settled(s, opers[2]),
                                o3 |-> Settled(s, opers[3])])]

TempOperand(s, dt) == [s EXCEPT !.temps = @ + 1, !.res = Reg(dt, <<"cg", s.temps>>)]

(* The operands of the instruction that is pushed, as far as they are      *)
(* settled, are s.opers.                                                   *)
Taken(s, o) == [s EXCEPT !.opers = Append(@, o)]

(* Through a new temporary, t.res, that keeps the scale of an index.       *)
Loaded(t, from, o) ==
  Taken(Emit(t, MoveOp(o.dt), <<t.res, from, NoOperand>>),
        IF o.name[1] = "imm" THEN [t.res EXCEPT !.at = IF o.at = "scale" THEN "scale" ELSE @, !.off = o.off]
        ELSE t.res)

InMemoryOf(s, o) == o.at = "base" \/ o.name \in s.spilled

(* Whether operand k, in memory, has to be in a register.                  *)
NoMemory(s, op, k) == ~Allows(op, k, "mem") \/ (k > 1 /\ s.opers[1].at = "base")

(* Faulty variant: only operands in memory are looked at.                  *)
ModifyMemoryOnly(s, op, k, o) ==
  IF InMemoryOf(s, o) /\ NoMemory(s, op, k) THEN Loaded(TempOperand(s, o.dt), o, o) ELSE Taken(s, o)

(* An operand that the opcode does not take is loaded into a temporary     *)
(* first, one that is written too: what is written then is not stored      *)
(* back.  A name whose address was taken counts as memory, but not when it *)
(* is the first operand and the second one is in memory too.               *)
ModifyOperand(s, op, k, o) ==
  LET immediate == o.at # "none" /\ o.name[1] = "imm"
      float     == o.dt \in FloatTypes
  IN IF \/ immediate /\ (float \/ ~Allows(op, k, "imm"))
        \/ ~immediate /\ o.at # "none" /\ InMemoryOf(s, o) /\ NoMemory(s, op, k)
     THEN Loaded(TempOperand(s, o.dt),
                 IF immediate THEN [o EXCEPT !.at = IF float THEN "const" ELSE "imm", !.off = 0] ELSE o, o)
     ELSE Taken(s, o)

Push(s, op, o1, o2, o3) ==
  LET emit(m) == [Emit(m, op, m.opers) EXCEPT !.opers = <<>>, !.res = NoOperand]
  IN emit(ModifyOperand(ModifyOperand(ModifyOperand(s, op, 1, o1), op, 2, o2), op, 3, o3))

Push2(s, op, o1, o2) == Push(s, op, o1, o2, NoOperand)
Push1Of(s, op, o1)   == Push(s, op, o1, NoOperand, NoOperand)

(* PushLoad asserts that both sides have the same data type.               *)
Load3(s, o1, o2, o3) ==
  [Push(s, MoveOp(o1.dt), o1, o2, o3) EXCEPT !.failed = @ \/ o1.dt # o2.dt]

PushLoad(s, o1, o2) == Load3(s, o1, o2, NoOperand)

-----------------------------------------------------------------------------
(* Comparing.  The jump that follows a comparison is made on its flags.    *)

Condition(op, signed) ==
  CASE op = "Eq"  -> "e"
    [] op = "Neq" -> "ne"
    [] op = "Lt"  -> IF signed THEN "l" ELSE "b"
    [] op = "Leq" -> IF signed THEN "le" ELSE "be"
    [] op = "Gt"  -> IF signed THEN "g" ELSE "a"
    [] op = "Geq" -> IF signed THEN "ge" ELSE "ae"

Negated ==
  "e" :> "ne" @@ "ne" :> "e" @@ "l" :> "ge" @@ "ge" :> "l" @@ "le" :> "g" @@ "g" :> "le" @@
  "b" :> "ae" @@ "ae" :> "b" @@ "be" :> "a" @@ "a" :> "be"

(* There is no cmovg: its negation moves the opposite.                     *)
GenerateCompare(s, i, next) ==
  LET type   == i.oper1[2]
      c      == Condition(i.op, TypeIsSigned(type))
      cmp    == Push2(s, IF type[1] \in FloatTypes THEN "comis" ELSE "cmp", IrOperand(i.oper1), IrOperand(i.oper2))
      move   == IF c = "g" THEN "le" ELSE c
      target == IrOperand(i.target)
      set    == Push2(cmp, "mov", target, Immediate("bool", IF c = "g" THEN 1 ELSE 0))
      temp   == TempOperand(set, "bool")
      other  == Push2(temp, "mov", temp.res, Immediate("bool", IF c = "g" THEN 0 ELSE 1))
  IN CASE next.op = "Jnz" -> [Push1Of(cmp, "j" \o c, IrOperand(next.target)) EXCEPT !.skip = TRUE]
       [] next.op = "Jz"  -> [Push1Of(cmp, "j" \o Negated[c], IrOperand(next.target)) EXCEPT !.skip = TRUE]
       [] OTHER -> [Push2(other, "cmov" \o move, As(target, "u16"), As(temp.res, "u16"))
                      EXCEPT !.failed = @ \/ target.dt # "bool"]

-----------------------------------------------------------------------------
(* Arithmetic.                                                             *)

rax == <<"rax">>
rdx == <<"rdx">>
rcx == <<"rcx">>

(* The first operand goes to the target, then the instruction changes it.  *)
InPlace(s, i, op) ==
  LET first == IF i.target = i.oper1 THEN s ELSE PushLoad(s, IrOperand(i.target), IrOperand(i.oper1))
  IN Push2(first, op, IrOperand(i.target), IrOperand(i.oper2))

AddOrSub(s, i, op) ==
  LET source == IrOperand(i.oper1)
      target == IF i.target = i.oper1 THEN IrOperand(i.target) ELSE As(IrOperand(i.target), source.dt)
      first  == IF i.target = i.oper1 THEN s ELSE PushLoad(s, target, source)
  IN Push2(first, op, target, IrOperand(i.oper2))

SignedMul(s, i) ==
  LET first == IF i.target = i.oper1 THEN s ELSE PushLoad(s, IrOperand(i.target), IrOperand(i.oper1))
      temp  == TempOperand(first, IrOperand(i.oper2).dt)
  IN Push2(PushLoad(temp, temp.res, IrOperand(i.oper2)), "imul", IrOperand(i.target), temp.res)

(* mul, div and idiv work on rdx:rax.  cqo extends the sign of the whole   *)
(* rax, whatever the width of the operands is.                             *)
ByAccumulator(s, i, op, result) ==
  LET source == IrOperand(i.oper1)
      dt     == source.dt
      low    == PushLoad(s, Reg(dt, rax), source)
      high   == IF op = "idiv" THEN Push(low, "cqo", NoOperand, NoOperand, NoOperand)
                ELSE Push2(low, "xor", Reg(dt, rdx), Reg(dt, rdx))
      temp   == TempOperand(high, IrOperand(i.oper2).dt)
      done   == Push1Of(PushLoad(temp, temp.res, IrOperand(i.oper2)), op, temp.res)
  IN PushLoad(done, IrOperand(i.target), Reg(dt, result))

Shift(s, i, op) ==
  LET first == IF i.target = i.oper1 THEN s ELSE PushLoad(s, IrOperand(i.target), IrOperand(i.oper1))
      count == IrOperand(i.oper2)
  IN Push2(PushLoad(first, Reg(count.dt, rcx), count), op, IrOperand(i.target), Reg("u8", rcx))

Negate(s, i, float) ==
  LET target == IrOperand(i.target)
  IN IF float THEN Push2(PushLoad(s, target, Immediate(target.dt, 0)), "subs", target, IrOperand(i.oper1))
     ELSE Push1Of(PushLoad(s, target, IrOperand(i.oper1)), "neg", target)

ArithmeticOpcode(op, float, signed) ==
  CASE op = "Add"    -> IF float THEN "adds" ELSE "add"
    [] op = "Sub"    -> IF float THEN "subs" ELSE "sub"
    [] op = "Mul"    -> IF float THEN "muls" ELSE IF signed THEN "imul" ELSE "mul"
    [] op = "Div"    -> IF float THEN "divs" ELSE IF signed THEN "idiv" ELSE "div"
    [] op = "Mod"    -> IF signed THEN "idiv" ELSE "div"
    [] op = "LShift" -> "shl"
    [] op = "RShift" -> IF signed THEN "sar" ELSE "shr"
    [] op = "And"    -> "and"
    [] op = "Or"     -> "or"
    [] op = "Xor"    -> "xor"
    [] OTHER         -> op

Complement(s, i) ==
  Push1Of(PushLoad(s, IrOperand(i.target), IrOperand(i.oper1)), "not", IrOperand(i.target))

(* It is asserted that floats are neither shifted nor divided for a rest.  *)
GenerateArithmetic(s, i) ==
  LET float  == i.oper1[2][1] \in FloatTypes
      op     == ArithmeticOpcode(i.op, float, TypeIsSigned(i.oper1[2]))
  IN CASE op \in {"add", "adds", "sub", "subs"} -> AddOrSub(s, i, op)
       [] op \in {"muls", "divs", "and", "or", "xor"} -> InPlace(s, i, op)
       [] op = "imul" -> SignedMul(s, i)
       [] op \in {"mul", "div", "idiv"} ->
            [ByAccumulator(s, i, op, IF i.op = "Mod" THEN rdx ELSE rax) EXCEPT !.failed = @ \/ float]
       [] op \in {"shl", "sar", "shr"} -> [Shift(s, i, op) EXCEPT !.failed = @ \/ float]
       [] op = "Neg"   -> Negate(s, i, float)
       [] op = "Compl" -> Complement(s, i)
       [] op = "Not"   -> Push2(Complement(s, i), "and", IrOperand(i.target), Immediate("s32", 1))

-----------------------------------------------------------------------------
(* Moves.                                                                  *)

(* The members of a struct one by one, through a temporary.                *)
RECURSIVE Copy(_, _, _, _, _)
Copy(s, target, source, type, offset) ==
  FoldLeft(LAMBDA a, k :
             LET m    == Members[type][k]
                 at   == Layout(type).offsets[k] + offset
                 temp == TempOperand(a, DataTypeFromType(m.type))
                 load == PushLoad(temp, temp.res, As(Base(source, at), temp.res.dt))
             IN IF TypeIsStruct(m.type) THEN Copy(a, target, source, m.type, at)
                ELSE PushLoad(load, As(Base(target, at), temp.res.dt), temp.res),
           s, [k \in DOMAIN Members[type] |-> k])

(* Faulty variant: the operand keeps its own type.                         *)
MovAsIs(s, i) == PushLoad(s, IrOperand(i.target), IrOperand(i.oper1))

GenerateMov(s, i) ==
  LET target == IrOperand(i.target)
      source == IrOperand(i.oper1)
      type   == i.target[2]
  IN IF TypeIsStruct(type)
     THEN Copy(Push2(s, "lea", target, GetAddress(i.target)), target, source, type, 0)
     ELSE PushLoad(s, target, As(source, target.dt))

(* A 4 byte move clears the upper half.                                    *)
GenerateExtend(s, i) ==
  LET target == IrOperand(i.target)
      source == IrOperand(i.oper1)
  IN CASE i.op = "MovSX" -> Push2(s, "movsx", target, source)
       [] i.op = "MovZX" /\ Size(source.dt) = 4 -> PushLoad(s, As(target, source.dt), source)
       [] i.op = "MovZX" /\ Size(source.dt) # 4 -> Push2(s, "movzx", target, source)

(* The base of a member is a pointer's value or a variable's place, and it  *)
(* is asserted that it is or points to a struct.                           *)
GenerateMember(s, i) ==
  LET pointer == TypeIsPointer(i.oper1[2])
      type    == IF pointer THEN i.oper1[2][2] ELSE i.oper1[2]
      target  == IrOperand(i.target)
      place   == IF pointer THEN IrOperand(i.oper1) ELSE GetAddress(i.oper1)
      temp    == TempOperand(s, place.dt)
      base    == IF pointer THEN PushLoad(temp, temp.res, place) ELSE Push2(temp, "lea", temp.res, place)
      member  == Base(As(temp.res, target.dt), MemberOffset(type, i.oper2[2]))
  IN IF ~TypeIsStruct(type) THEN [s EXCEPT !.failed = TRUE]
     ELSE IF i.op = "MovMember" THEN PushLoad(base, target, member) ELSE Push2(base, "lea", target, member)

(* A size that is no index scale is multiplied first.                      *)
GenerateElement(s, i) ==
  LET size   == ElementSize(i.oper1[2])
      target == IrOperand(i.target)
      load(a, base, index) == IF i.op = "MovElement" THEN Load3(a, target, base, index)
                              ELSE Push(a, "lea", target, base, index)
      scaled(o, by) == [o EXCEPT !.at = "scale", !.off = by]
      indexed(o)    == [o EXCEPT !.at = "index"]
      index  == TempOperand(s, "s64")
      times  == Push2(PushLoad(index, index.res, As(IrOperand(i.oper2), "s64")),
                      "imul", index.res, Immediate("s64", size))
      base   == TempOperand(times, "ptr")
  IN IF size \in {1, 2, 4, 8}
     THEN load(s, indexed(As(IrOperand(i.oper1), target.dt)), scaled(IrOperand(i.oper2), size))
     ELSE load(PushLoad(base, base.res, IrOperand(i.oper1)), indexed(base.res), scaled(index.res, 1))

(* The register of a variable whose address is taken is stored.            *)
GenerateAddr(s, i) ==
  LET o     == IrOperand(i.oper1)
      saved == IF o.name \in s.spilled THEN s ELSE Push1Of(s, "SPILL", o)
  IN IF TypeIsStruct(i.oper1[2]) THEN PushLoad(s, IrOperand(i.target), o)
     ELSE [Push2(saved, "lea", IrOperand(i.target), GetAddress(i.oper1)) EXCEPT !.spilled = @ \cup {o.name}]

GenerateConversion(s, i) ==
  LET wide(o) == IF o.dt \notin FloatTypes /\ Size(o.dt) < 4 THEN As(o, "s32") ELSE o
      op      == "S_TO_F" :> "cvtsi2s" @@ "F_TO_S" :> "cvts2si" @@ "F_TO_F" :> "cvts2s"
  IN Push2(s, op[i.op], wide(IrOperand(i.target)), wide(IrOperand(i.oper1)))

-----------------------------------------------------------------------------
(* Calls.                                                                  *)

RECURSIVE Arguments(_, _)
Arguments(code, n) == IF n = 0 THEN <<>> ELSE <<code[n].target>> \o Arguments(code, code[n].oper1[3])

(* An argument's operand is read here, not at its IR_Arg; a struct is      *)
(* passed by its address.                                                  *)
PushArgs(s, args) ==
  FoldLeft(LAMBDA a, k :
             LET o     == args[k]
                 place == Reg(DataTypeFromType(o[2]), <<"arg", k>>)
             IN IF TypeIsStruct(o[2]) THEN Push2(a, "lea", As(place, "ptr"), GetAddress(o))
                ELSE PushLoad(a, place, IrOperand(o)),
           s, [k \in DOMAIN args |-> k])

GenerateCall(s, i, code) ==
  LET args   == Arguments(code, i.oper2[3])
      called == Push(PushArgs(s, args), "call", IrOperand(i.oper1), NoOperand, NoOperand)
      dt     == DataTypeFromType(i.target[2])
  IN IF i.target = NoneOperand THEN called
     ELSE PushLoad(called, IrOperand(i.target), Reg(dt, rax))

GenerateReturn(s, i) ==
  LET value == IrOperand(i.target)
      moved == IF i.target = NoneOperand THEN s ELSE PushLoad(s, Reg(value.dt, rax), value)
  IN Push1Of(moved, "jmp", Operand("label", "ptr", <<"ret_label">>, 0))

-----------------------------------------------------------------------------

GenerateJump(s, i) ==
  LET tested == Push2(s, "cmp", IrOperand(i.oper1), Immediate("s64", 0))
  IN CASE i.op = "Jump" -> Push1Of(s, "jmp", IrOperand(i.target))
       [] i.op = "Jz"   -> Push1Of(tested, "je", IrOperand(i.target))
       [] i.op = "Jnz"  -> Push1Of(tested, "jne", IrOperand(i.target))

GenerateInstruction(s, i, next, code) ==
  LET target == IrOperand(i.target)
      source == IrOperand(i.oper1)
  IN CASE i.op = "Label" -> Push1Of(s, "LABEL", target)
       [] i.op \in {"VarDecl", "Arg"} -> s
       [] i.op \in {"Eq", "Neq", "Lt", "Leq", "Gt", "Geq"} -> GenerateCompare(s, i, next)
       [] i.op = "Addr" -> GenerateAddr(s, i)
       [] i.op = "Mov" -> GenerateMov(s, i)
       [] i.op \in {"MovSX", "MovZX"} -> GenerateExtend(s, i)
       [] i.op = "Load" -> PushLoad(s, target, Base(As(source, target.dt), 0))
       [] i.op = "Store" -> PushLoad(s, Base(As(target, source.dt), 0), source)
       [] i.op \in {"MovMember", "LoadMemberAddr"} -> GenerateMember(s, i)
       [] i.op \in {"MovElement", "LoadElementAddr"} -> GenerateElement(s, i)
       [] i.op \in {"Call", "CallForeign"} -> GenerateCall(s, i, code)
       [] i.op \in {"Jump", "Jz", "Jnz"} -> GenerateJump(s, i)
       [] i.op = "Return" -> GenerateReturn(s, i)
       [] i.op \in {"S_TO_F", "F_TO_S", "F_TO_F"} -> GenerateConversion(s, i)
       [] OTHER -> GenerateArithmetic(s, i)

NoInstruction == [op |-> "none", target |-> NoneOperand]

Selecting(spilled) ==
  [code |-> <<>>, temps |-> 0, spilled |-> spilled, failed |-> FALSE, skip |-> FALSE,
   res |-> NoOperand, opers |-> <<>>]

(* The code of a routine; `spilled' are the names of the routines before.  *)
GenerateCode(code, spilled) ==
  Push1Of(FoldLeft(LAMBDA s, k :
                     IF s.skip THEN [s EXCEPT !.skip = FALSE]
                     ELSE GenerateInstruction(s, code[k],
                            IF k < Len(code) THEN code[k + 1] ELSE NoInstruction, code),
                   Selecting(spilled), [k \in DOMAIN code |-> k]),
          "LABEL", Operand("label", "ptr", <<"ret_label">>, 0))

=============================================================================
