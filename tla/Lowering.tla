------------------------------- MODULE Lowering -------------------------------
(***************************************************************************)
(* One routine from its tree to its result: it is checked (Expressions),   *)
(* lowered (IrGen), turned into instructions (Selection), and these are    *)
(* run (Machine) from some input, one instruction a step.  What they have  *)
(* to do is what Meaning says of the checked tree, which is evaluated      *)
(* directly, in the order the code evaluates in.                           *)
(***************************************************************************)
EXTENDS Machine

CONSTANTS
  Trees,    \* the bodies of routines
  Inputs,   \* [vars, mem, garbage] a routine is started with
  Env,      \* the types of the parameters and globals
  Shared    \* the addresses that outlive the routine

VARIABLES
  phase,    \* how far the routine got
  tree,     \* its body
  checked,  \* the result of the check
  ir,       \* its intermediate code
  selected, \* its instructions
  input,    \* what it is run with
  machine   \* the machine that runs it

vars == <<phase, tree, checked, ir, selected, input, machine>>

-----------------------------------------------------------------------------
(* What a tree means.  The state holds the local variables, the memory,    *)
(* the calls made, the value evaluated last, whether a division faulted,   *)
(* and how control goes on.  A place is <<"at", address>> or               *)
(* <<"var", name>>.                                                        *)

State0(in) == [vars |-> in.vars, mem |-> in.mem, garbage |-> in.garbage, log |-> <<>>,
               val |-> 0, flow |-> "next", fault |-> FALSE]

Val(s, v)  == [s EXCEPT !.val = v]

Converted(s, type) == Val(s, Typed(s.val, type))

Read(s, type) ==
  CASE TypeIsStruct(type)  -> Val(s, s.val[2])
    [] ~TypeIsStruct(type) /\ s.val[1] = "at"  -> Val(s, Typed(Look(s.mem, s.val[2], s.garbage), type))
    [] ~TypeIsStruct(type) /\ s.val[1] = "var" -> Val(s, Typed(Look(s.vars, s.val[2], s.garbage), type))

RECURSIVE Write(_, _, _, _)
Write(s, place, v, type) ==
  CASE TypeIsStruct(type) ->
         FoldLeft(LAMBDA a, m :
                    LET off == MemberOffset(type, m.name)
                    IN Write(a, <<"at", place[2] + off>>, Read(Val(a, <<"at", v + off>>), m.type).val, m.type),
                  s, Members[type])
    [] ~TypeIsStruct(type) /\ place[1] = "at" ->
         [s EXCEPT !.mem = (place[2] :> Low(v, DataTypeFromType(type))) @@ @]
    [] ~TypeIsStruct(type) /\ place[1] = "var" -> [s EXCEPT !.vars = (place[2] :> v) @@ @]

Compare(op, a, b) ==
  LET holds == CASE op = "==" -> a = b [] op = "!=" -> a # b [] op = "<" -> a < b
                 [] op = "<=" -> a <= b [] op = ">" -> a > b [] op = ">=" -> a >= b
  IN IF holds THEN 1 ELSE 0

(* A binary operator on numbers of a type; a division may fault.           *)
Compute(s, operator, a, b, type) ==
  LET op == Opcodes[operator]
      dt == DataTypeFromType(type)
      v  == CASE op = "Add" -> a + b  [] op = "Sub" -> a - b  [] op = "Mul" -> a * b
              [] op = "Div" -> Quotient(a, b)
              [] op = "Mod" -> a - b * Quotient(a, b)
              [] op = "And" -> Low(a, dt) & Low(b, dt)
              [] op = "Or"  -> Low(a, dt) | Low(b, dt)
              [] op = "Xor" -> Low(a, dt) ^^ Low(b, dt)
              [] op = "LShift" -> a * 2^b
              [] op = "RShift" -> a \div 2^b
      fault == op \in {"Div", "Mod"} /\ (b = 0 \/ Typed(Quotient(a, b), type) # Quotient(a, b))
  IN IF fault THEN [s EXCEPT !.fault = TRUE] ELSE Val(s, Typed(v, type))

(* Of and At are Eval and Place: the value of a tree, and where it is.     *)
EvalCall(e, s, Of(_, _)) ==
  LET fn   == e[3]
      before(v, values) == [s |-> v, values |-> <<v.val>> \o values]
      args == FoldRight(LAMBDA arg, a : before(Of(arg, a.s), a.values),
                        e[4], [s |-> s, values |-> <<>>])
      G    == AddressOf["G"]
      done == [args.s EXCEPT !.log = Append(@, <<fn[3], fn[4], args.values>>),
                             !.mem[G] = Low(@ + 1, "s32")]
  IN IF args.s.fault THEN args.s
     ELSE IF TypeIs(e[2], {"void"}) THEN done ELSE Val(done, Typed(Answer(args.values), e[2]))

EvalUnary(e, s, Of(_, _), At(_, _)) ==
  LET v == Of(e[4], s)
      p == At(e[4], s)
  IN CASE e[3] = "+" -> v
       [] e[3] = "-" -> Val(v, Typed(-v.val, e[2]))
       [] e[3] = "~" -> Val(v, Typed(-1 - v.val, e[2]))
       [] e[3] = "!" -> Val(v, 1 - v.val)
       [] e[3] = "@" -> Read(Val(v, <<"at", v.val>>), e[2])
       [] e[3] = "&" -> Val(p, p.val[2])

EvalBinary(e, s, Of(_, _)) ==
  LET l == Of(e[4], s)
      r == Of(e[5], l)
  IN CASE e[3] = "&&" -> IF l.val = 0 THEN l ELSE r
       [] e[3] = "||" -> IF l.val = 1 THEN l ELSE r
       [] e[3] \in Comparisons -> Val(r, Compare(e[3], l.val, r.val))
       [] OTHER -> IF r.fault THEN r ELSE Compute(r, e[3], l.val, r.val, e[2])

(* The value of an assignment is what is then in its place.                *)
EvalAssign(e, s, Of(_, _), At(_, _)) ==
  LET r   == Of(e[5], s)
      p   == At(e[4], r)
      old == Read(p, e[4][2])
      new == IF e[3] = "=" THEN r ELSE Compute(p, e[3], old.val, r.val, e[4][2])
  IN IF r.fault \/ new.fault THEN [p EXCEPT !.fault = TRUE]
     ELSE Read(Val(Write(p, p.val, new.val, e[4][2]), p.val), e[4][2])

EvalTernary(e, c, Of(_, _)) == Of(IF c.val = 1 THEN e[4] ELSE e[5], c)

PlaceOfMember(e, s, Of(_, _), At(_, _)) ==
  LET pointer == TypeIsPointer(e[3][2])
      base    == IF pointer THEN Of(e[3], s) ELSE At(e[3], s)
      object  == IF pointer THEN e[3][2][2] ELSE e[3][2]
  IN Val(base, <<"at", (IF pointer THEN base.val ELSE base.val[2]) + MemberOffset(object, e[4])>>)

PlaceOfElement(e, s, Of(_, _)) ==
  LET base  == Of(e[3], s)
      index == Of(e[4], base)
  IN Val(index, <<"at", Low(base.val + index.val * ElementSize(e[3][2]), "ptr")>>)

Pointed(v) == Val(v, <<"at", v.val>>)

RECURSIVE Eval(_, _), Place(_, _)

Eval(e, s) ==
  IF s.fault THEN s
  ELSE CASE e[1] = "lit"     -> Val(s, e[3])
         [] e[1] = "cast"    -> Converted(Eval(e[3], s), e[2])
         [] e[1] = "call"    -> EvalCall(e, s, Eval)
         [] e[1] = "unary"   -> EvalUnary(e, s, Eval, Place)
         [] e[1] = "binary"  -> EvalBinary(e, s, Eval)
         [] e[1] = "assign"  -> EvalAssign(e, s, Eval, Place)
         [] e[1] = "ternary" -> EvalTernary(e, Eval(e[3], s), Eval)
         [] e[1] = "sizeof"  -> Val(s, Layout(e[3]).size)
         [] e[1] = "alignof" -> Val(s, Layout(e[3]).align)
         [] OTHER            -> Read(Place(e, s), e[2])

Place(e, s) ==
  CASE e[1] = "var" ->
         Val(s, IF e[3] \in DOMAIN AddressOf THEN <<"at", AddressOf[e[3]]>>
                ELSE IF TypeIsStruct(e[2]) THEN <<"at", s.vars[e[3]]>> ELSE <<"var", e[3]>>)
    [] e[1] = "unary"     -> Pointed(Eval(e[4], s))
    [] e[1] = "access"    -> PlaceOfMember(e, s, Eval, Place)
    [] e[1] = "subscript" -> PlaceOfElement(e, s, Eval)
    [] OTHER              -> Pointed(Eval(e, s))

RECURSIVE Run(_, _), Loop(_, _, _, _)

(* `continue' goes on with the condition of a for, not with its increment. *)
(* A condition that fails, or faults, ends the loop.                       *)
Loop(cond, body, incr, s) ==
  LET after(c) == IF c.fault \/ c.val = 0 THEN [c EXCEPT !.flow = "break"] ELSE Run(body, c)
      again(a) == Loop(cond, body, incr, [a EXCEPT !.flow = "next"])
      goes(b)  == CASE b.fault \/ b.flow = "return" -> b
                    [] ~b.fault /\ b.flow = "break" -> [b EXCEPT !.flow = "next"]
                    [] OTHER -> again(IF incr = Nil \/ b.flow = "continue" THEN b ELSE Eval(incr, b))
  IN goes(after(Eval(cond, s)))

RunDecl(t, s, Of(_, _), At(_, _)) ==
  LET v == Of(t[4], s)
      place(x) == At(<<"var", t[3], x, 0>>, s).val
  IN IF t[4] = Nil \/ v.fault THEN (IF t[4] = Nil THEN s ELSE v)
     ELSE FoldLeft(LAMBDA a, x : Write(a, place(x), v.val, t[3]), v, t[2])

RunIf(t, c, Do(_, _)) ==
  IF c.val = 1 THEN Do(t[3], c) ELSE IF t[4] = Nil THEN c ELSE Do(t[4], c)

Run(t, s) ==
  IF s.fault \/ s.flow # "next" THEN s
  ELSE CASE t[1] = "decl"  -> RunDecl(t, s, Eval, Place)
         [] t[1] = "block" -> FoldLeft(LAMBDA a, u : Run(u, a), s, t[2])
         [] t[1] = "if"    -> RunIf(t, Eval(t[2], s), Run)
         [] t[1] = "while" -> Loop(t[2], t[3], Nil, s)
         [] t[1] = "for"   -> Loop(t[3], t[5], t[4], Run(t[2], s))
         [] t[1] = "return" -> IF t[2] = Nil THEN [s EXCEPT !.flow = "return"]
                               ELSE [Eval(t[2], s) EXCEPT !.flow = "return"]
         [] t[1] = "expr"  -> Eval(t[2], s)
         [] OTHER          -> [s EXCEPT !.flow = t[1]]

Meaning(t, in) == Run(t, State0(in))

-----------------------------------------------------------------------------

NoCode == [code |-> <<>>]

Init ==
  /\ tree \in Trees
  /\ phase = "parsed"
  /\ checked = S(<<>>, Nil, {}) /\ ir = NoCode /\ selected = NoCode
  /\ input = <<>> /\ machine = <<>>

Check ==
  /\ phase = "parsed"
  /\ checked' = CheckStatement(tree, Env, 0)
  /\ phase' = IF checked'.faults = {} THEN "checked" ELSE "rejected"
  /\ UNCHANGED <<tree, ir, selected, input, machine>>

Lower ==
  /\ phase = "checked"
  /\ ir' = GenIr(Routine0, checked.node)
  /\ phase' = "lowered"
  /\ UNCHANGED <<tree, checked, selected, input, machine>>

Select ==
  /\ phase = "lowered" /\ ~ir.invalid
  /\ selected' = GenerateCode(ir.code, {})
  /\ phase' = "selected"
  /\ UNCHANGED <<tree, checked, ir, input, machine>>

Start ==
  /\ phase = "selected" /\ ~selected.failed
  /\ input' \in Inputs
  /\ machine' = Machine0([x \in {<<"var", p>> : p \in Parameters} |->
                            Low(input'.vars[x[2]], IF TypeIsStruct(Env[x[2]]) THEN "ptr"
                                                   ELSE DataTypeFromType(Env[x[2]]))],
                         input'.mem, input'.garbage)
  /\ phase' = "running"
  /\ UNCHANGED <<tree, checked, ir, selected>>

Halted == machine.fault \/ machine.pc > Len(selected.code)

RunInstruction ==
  /\ phase = "running" /\ ~Halted
  /\ machine' = Step(machine, selected.code)
  /\ UNCHANGED <<phase, tree, checked, ir, selected, input>>

Next == Check \/ Lower \/ Select \/ Start \/ RunInstruction

Spec == Init /\ [][Next]_vars

-----------------------------------------------------------------------------
(* Properties.                                                             *)

(* The types of the values a body returns.                                 *)
RECURSIVE Returned(_)
Returned(t) ==
  CASE t[1] = "return" /\ t[2] # Nil -> {t[2][2]}
    [] t[1] = "block"  -> UNION {Returned(t[2][k]) : k \in DOMAIN t[2]}
    [] t[1] = "if"     -> Returned(t[3]) \cup (IF t[4] = Nil THEN {} ELSE Returned(t[4]))
    [] t[1] = "while"  -> Returned(t[3])
    [] t[1] = "for"    -> Returned(t[5])
    [] OTHER           -> {}

(* The parts of a checked tree.                                            *)
Children(t) ==
  (CASE t[1] \in {"call", "binary", "assign", "unary"} -> IF t[1] = "call" THEN ToSet(t[4])
                                                          ELSE {t[k] : k \in 4 .. Len(t)}
     [] t[1] \in {"cast", "access"} -> {t[3]}
     [] t[1] \in {"ternary", "subscript"} -> {t[k] : k \in 3 .. Len(t)}
     [] t[1] = "block" -> ToSet(t[2])
     [] t[1] = "decl" -> {t[4]}
     [] t[1] \in {"if", "while", "for", "expr", "return"} -> {t[k] : k \in 2 .. Len(t)}
     [] OTHER -> {}) \ {Nil}

RECURSIVE Subtrees(_)
Subtrees(t) == {t} \cup UNION {Subtrees(c) : c \in Children(t)}

(* The operands of an operator are converted to types that hold all their  *)
(* values (CoerceBinaryExprType, and the promotions of CheckUnaryExpr): no *)
(* sum, comparison or negation is computed of anything else than what its  *)
(* operands are.  A float holds every integer here.                        *)
CanHold(to, from) ==
  IF TypeIsSigned(from) THEN TypeIsSigned(to) /\ MaxInt[to[1]] >= MaxInt[from[1]]
  ELSE MaxInt[to[1]] >= MaxInt[from[1]]

OperandsKeepValues ==
  phase = "checked" =>
    \A t \in Subtrees(checked.node) :
      t[1] \in {"binary", "unary"} =>
        \A c \in Children(t) :
          c[1] = "cast" /\ TypeIsIntegral(c[2]) /\ TypeIsIntegral(c[3][2]) =>
            CanHold(StripPending(c[2]), StripPending(c[3][2]))

(* The instructions do what the checked tree says: they fault where it     *)
(* divides by zero, make its calls with its arguments in its order, leave  *)
(* in the memory that outlives the routine what it stores there, and       *)
(* return its value.                                                       *)
CodeDoesWhatTreeSays ==
  phase = "running" /\ Halted =>
    \E s \in {Meaning(checked.node, input)} :
      /\ machine.fault = s.fault
      /\ machine.log = s.log
      /\ \A a \in Shared : Look(machine.mem, a, -1) = Look(s.mem, a, -1)
      /\ s.flow = "return" /\ ~s.fault =>
           \A type \in Returned(checked.node) : Typed(Word(machine, rax), type) = s.val

(* Before a signed division rdx holds the sign of the dividend in rax.     *)
DividendExtended ==
  phase = "running" /\ ~Halted /\ selected.code[machine.pc].op = "idiv" =>
    LET dt == selected.code[machine.pc].o1.dt
    IN Signed(Word(machine, rdx), dt) = IF Signed(Word(machine, rax), dt) < 0 THEN -1 ELSE 0

(* What the semantic check accepts is lowered and selected without meeting *)
(* an assertion or a path that is marked invalid (ir_gen.cpp, PushLoad).   *)
AcceptedIsSelected ==
  /\ phase = "lowered"  => ~ir.invalid
  /\ phase = "selected" => ~selected.failed

(* What is emitted can be assembled: an instruction has one operand in     *)
(* memory at most, and each of the kinds that its opcode takes.            *)
Memory(o) == o.at \in {"base", "index", "const"}

Encodable ==
  phase = "selected" =>
    \A k \in DOMAIN selected.code :
      LET i == selected.code[k]
      IN /\ ~(Memory(i.o1) /\ Memory(i.o2))
         /\ i.o1.at = "imm" => Allows(i.op, 1, "imm")
         /\ Memory(i.o1) => Allows(i.op, 1, "mem")
         /\ Memory(i.o2) => Allows(i.op, 2, "mem")
         /\ i.o2.at = "imm" => Allows(i.op, 2, "imm")

=============================================================================
