------------------------------- MODULE Machine -------------------------------
(***************************************************************************)
(* The machine that runs selected code: what the opcodes of                *)
(* src/src/amd64_codegen.cpp do to registers and memory.  It is not code   *)
(* of the repository.                                                      *)
(*                                                                         *)
(* Widths are scaled: 8, 16, 32 and 64 bits are the 2, 3, 4 and 6 bits of  *)
(* Bits.  A register holds a whole word: writing 4 bytes of it clears the  *)
(* rest, writing fewer leaves in the rest what was there, which is         *)
(* `garbage'.  A float register holds its value.  Memory holds a value at  *)
(* the address it was stored to.  Every call adds 1 to the first global,   *)
(* for any routine may change globals, and answers with a sum.             *)
(***************************************************************************)
EXTENDS Selection, Bitwise

CONSTANTS
  AddressOf    \* where globals and slots are

Bits(dt) == CASE Size(dt) = 1 -> 2 [] Size(dt) = 2 -> 3 [] Size(dt) = 4 -> 4 [] Size(dt) = 8 -> 6

IsFloat(dt) == dt \in FloatTypes

Low(v, dt) == IF IsFloat(dt) THEN v ELSE v % 2^Bits(dt)

(* The number that the bits of v stand for.                                *)
Signed(v, dt) == LET p == Low(v, dt) IN IF p >= 2^(Bits(dt) - 1) THEN p - 2^Bits(dt) ELSE p

Typed(v, type) ==
  LET dt == DataTypeFromType(type) IN IF TypeIsSigned(type) THEN Signed(v, dt) ELSE Low(v, dt)

(* What an external routine answers: different arguments tell apart.       *)
Answer(values) ==
  FoldLeft(LAMBDA sum, k : sum + k * values[k], 1, [k \in DOMAIN values |-> k])

-----------------------------------------------------------------------------
(* Registers and memory.                                                   *)

Machine0(regs, mem, garbage) ==
  [pc |-> 1, regs |-> regs, mem |-> mem, garbage |-> garbage, flags |-> <<0, 0, "s64">>,
   log |-> <<>>, fault |-> FALSE]

Look(f, x, default) == IF x \in DOMAIN f THEN f[x] ELSE default

Word(m, name) == Look(m.regs, name, m.garbage)

BaseOf(m, name) ==
  CASE name[1] = "slot"   -> AddressOf[IF name[2][1] = "temp" THEN "temp" ELSE name[2][2]]
    [] name[1] = "global" -> AddressOf[name[2]]
    [] OTHER              -> Word(m, name)

(* `index' is the operand that follows a base with an index.               *)
Address(m, o, index) ==
  BaseOf(m, o.name) + o.off + (IF o.at = "index" THEN Word(m, index.name) * index.off ELSE 0)

Value(m, o, index) ==
  CASE o.at \in {"imm", "const"}   -> Low(o.name[2], o.dt)
    [] o.at = "reg"               -> Low(Word(m, o.name), o.dt)
    [] o.at \in {"base", "index"} -> Low(Look(m.mem, Address(m, o, index), m.garbage), o.dt)

Written(m, dt, v) ==
  IF Size(dt) >= 4 THEN Low(v, dt)
  ELSE Low(v, dt) + (m.garbage \div 2^Bits(dt)) * 2^Bits(dt)

SetTo(m, o, index, v) ==
  IF o.at = "reg" THEN [m EXCEPT !.regs = (o.name :> Written(m, o.dt, v)) @@ @]
  ELSE [m EXCEPT !.mem = (Address(m, o, index) :> Low(v, o.dt)) @@ @]

-----------------------------------------------------------------------------
(* The opcodes.                                                            *)

Holds(m, c) ==
  LET a  == m.flags[1]
      b  == m.flags[2]
      dt == m.flags[3]
      less == IF IsFloat(dt) THEN a < b ELSE Signed(a, dt) < Signed(b, dt)
  IN CASE c = "e" -> a = b       [] c = "ne" -> a # b
       [] c = "l" -> less        [] c = "ge" -> ~less
       [] c = "le" -> less \/ a = b  [] c = "g" -> ~less /\ a # b
       [] c = "b" -> a < b       [] c = "ae" -> a >= b
       [] c = "be" -> a <= b     [] c = "a" -> a > b

Alu(op, a, b, dt) ==
  CASE op \in {"add", "adds"}  -> a + b
    [] op \in {"sub", "subs"}  -> a - b
    [] op \in {"imul", "muls"} -> a * b
    [] op = "and" -> a & b
    [] op = "or"  -> a | b
    [] op = "xor" -> a ^^ b
    [] op = "shl" -> a * 2^b
    [] op = "shr" -> a \div 2^b
    [] op = "sar" -> Signed(a, dt) \div 2^b

Arithmetic == {"add", "adds", "sub", "subs", "imul", "muls", "and", "or", "xor", "shl", "shr", "sar"}

(* Rounds to zero, as div and idiv do.                                     *)
Quotient(a, b) ==
  LET abs(x) == IF x < 0 THEN -x ELSE x
  IN IF (a < 0) = (b < 0) THEN abs(a) \div abs(b) ELSE -(abs(a) \div abs(b))

(* A dividend in rdx:rax, a quotient that has to fit.                      *)
Divide(m, signed, divisor, dt) ==
  LET high == Low(Word(m, rdx), dt)
      pair == high * 2^Bits(dt) + Low(Word(m, rax), dt)
      a    == IF signed /\ high >= 2^(Bits(dt) - 1) THEN pair - 2^(2 * Bits(dt)) ELSE pair
      b    == IF signed THEN Signed(divisor, dt) ELSE divisor
      q    == Quotient(a, b)
      fits == IF signed THEN q = Signed(q, dt) ELSE q = Low(q, dt)
      set(n, name, v) == SetTo(n, Reg(dt, name), NoOperand, v)
  IN IF b = 0 \/ ~fits THEN [m EXCEPT !.fault = TRUE]
     ELSE set(set(m, rax, q), rdx, a - b * q)

Multiply(m, v, dt) ==
  LET p == Low(Word(m, rax), dt) * v
      set(n, name, x) == SetTo(n, Reg(dt, name), NoOperand, x)
  IN set(set(m, rax, p), rdx, p \div 2^Bits(dt))

(* The registers of the call are gone after it.                            *)
CallRoutine(m, name) ==
  LET params == Overloads[name[2]][name[3]][3]
      values == [k \in DOMAIN params |-> Typed(Word(m, <<"arg", k>>), params[k])]
      result == Overloads[name[2]][name[3]][4]
      kept   == {r \in DOMAIN m.regs : r[1] \in {"var", "temp", "cg"}}
      regs   == [r \in kept |-> m.regs[r]]
      after  == [m EXCEPT !.log = Append(@, <<name[2], name[3], values>>), !.regs = regs,
                          !.mem[AddressOf["G"]] = Low(@ + 1, "s32")]
  IN IF TypeIs(result, {"void"}) THEN after
     ELSE SetTo(after, Reg(DataTypeFromType(result), rax), NoOperand, Answer(values))

LabelAt(code, o) == CHOOSE k \in DOMAIN code : code[k].op = "LABEL" /\ code[k].o1.name = o.name

Jumps(m, i) == i.op = "jmp" \/ \E c \in Conditions : i.op = "j" \o c /\ Holds(m, c)

Moves(m, i) == \/ i.op \in {"mov", "movs", "movzx", "cvts2si", "cvts2s"}
               \/ \E c \in Conditions : i.op = "cmov" \o c /\ Holds(m, c)

(* What an instruction does but for the jump it may make.                  *)
Execute(m, i) ==
  LET a      == Value(m, i.o1, i.o2)
      b      == Value(m, IF i.o2.at = "imm" THEN As(i.o2, i.o1.dt) ELSE i.o2, i.o3)
      set(v) == SetTo(m, i.o1, i.o2, v)
      slot   == Operand("base", i.o1.dt, <<"slot", i.o1.name>>, 0)
      sign   == IF Signed(Word(m, rax), "s64") < 0 THEN -1 ELSE 0
  IN CASE Moves(m, i)                   -> set(b)
       [] i.op \in {"movsx", "cvtsi2s"} -> set(Signed(b, i.o2.dt))
       [] i.op = "lea"                  -> set(Address(m, i.o2, i.o3))
       [] i.op = "SPILL"                -> SetTo(m, slot, NoOperand, a)
       [] i.op \in {"cmp", "comis"}     -> [m EXCEPT !.flags = <<a, b, i.o1.dt>>]
       [] i.op = "cqo"                  -> SetTo(m, Reg("s64", rdx), NoOperand, sign)
       [] i.op \in {"idiv", "div"}      -> Divide(m, i.op = "idiv", a, i.o1.dt)
       [] i.op = "mul"                  -> Multiply(m, a, i.o1.dt)
       [] i.op = "neg"                  -> set(-a)
       [] i.op = "not"                  -> set(-1 - a)
       [] i.op = "call"                 -> CallRoutine(m, i.o1.name)
       [] i.op \in Arithmetic           -> set(Alu(i.op, a, b, i.o1.dt))
       [] OTHER                         -> m

Step(m, code) ==
  LET i == code[m.pc]
  IN [Execute(m, i) EXCEPT !.pc = IF Jumps(m, i) THEN LabelAt(code, i.o1) ELSE m.pc + 1]

=============================================================================
