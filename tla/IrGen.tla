-------------------------------- MODULE IrGen --------------------------------
(***************************************************************************)
(* Lowering checked trees to the intermediate code: src/src/ir_gen.cpp.    *)
(*                                                                         *)
(* Generating code is threaded through a record: the instructions so far,  *)
(* the counts of temporaries and labels, the labels of the loops around    *)
(* (innermost last), the operand that was generated last, and whether an   *)
(* INVALID_CODE_PATH or a nullptr was met.  Operands are tuples that start *)
(* with their kind: <<"imm", type, value>>, <<"var", type, name>>,         *)
(* <<"global", type, name>>, <<"temp", type, number>>, <<"label", number>>,*)
(* <<"routine", type, name, overload>>, <<"foreign", type, name, overload>>*)
(* and <<"none">>.  Instructions are numbered from 1 here, from 0 there.   *)
(***************************************************************************)
EXTENDS Expressions

CONSTANTS
  Globals,     \* the names of global variables
  Parameters,  \* the names of the parameters of the routine
  Foreign      \* the names of foreign functions

NoneOperand == <<"none">>
Imm(type, v) == <<"imm", StripPending(type), v>>

Routine0 == [code |-> <<>>, temps |-> 0, labels |-> 0, loops |-> <<>>,
             res |-> NoneOperand, invalid |-> FALSE]

PushInstruction(g, op, target, oper1, oper2) ==
  [g EXCEPT !.code = Append(@, [op |-> op, target |-> target, oper1 |-> oper1, oper2 |-> oper2])]

NewTemp(g, type) ==
  [g EXCEPT !.temps = @ + 1, !.res = <<"temp", StripPending(type), g.temps>>]

NewLabel(g) == [g EXCEPT !.labels = @ + 1, !.res = <<"label", g.labels>>]

PushJump(g, op, label, oper) == PushInstruction(g, op, label, oper, NoneOperand)
SetLabelTarget(g, label)     == PushInstruction(g, "Label", label, NoneOperand, NoneOperand)
Push1(g, op, oper1)          == PushInstruction(g, op, g.res, oper1, NoneOperand)
Result(g, oper)              == [g EXCEPT !.res = oper]
Invalid(g)                   == [g EXCEPT !.invalid = TRUE]

Opcodes ==
  "+" :> "Add" @@ "-" :> "Sub" @@ "*" :> "Mul" @@ "/" :> "Div" @@ "%" :> "Mod" @@
  "<<" :> "LShift" @@ ">>" :> "RShift" @@ "&" :> "And" @@ "|" :> "Or" @@ "^" :> "Xor" @@
  "==" :> "Eq" @@ "!=" :> "Neq" @@ "<" :> "Lt" @@ "<=" :> "Leq" @@ ">" :> "Gt" @@ ">=" :> "Geq" @@
  "+=" :> "Add" @@ "-=" :> "Sub" @@ "*=" :> "Mul" @@ "/=" :> "Div" @@ "%=" :> "Mod" @@
  "<<=" :> "LShift" @@ ">>=" :> "RShift" @@ "&=" :> "And" @@ "|=" :> "Or" @@ "^=" :> "Xor"

-----------------------------------------------------------------------------
(* Casts.                                                                  *)

Floats == {"f32", "f64"}

(* Faulty variant: the sign of the target says how to extend.              *)
ExtendAsTarget(from, to) ==
  IF TypeIsIntegral(to) /\ TypeIsIntegral(from) /\ Width(from) < Width(to)
  THEN IF TypeIsSigned(to) THEN "MovSX" ELSE "MovZX"
  ELSE "Mov"

(* Only what is signed twice is extended with its sign: a signed integer   *)
(* made wider and unsigned is moved, as a char made wider is.              *)
CastOpcode(from, to) ==
  LET wider == TypeIsIntegral(to) /\ TypeIsIntegral(from) /\ Width(from) < Width(to)
  IN CASE from[1] \in {"none", "void", "string", "struct", "fn"} -> "invalid"
       [] from[1] \in {"null", "ptr", "bool", "char"}            -> "Mov"
       [] TypeIsIntegral(from) ->
            IF to[1] \in Floats THEN "S_TO_F"
            ELSE IF wider /\ ~TypeIsSigned(from) THEN "MovZX"
            ELSE IF wider /\ TypeIsSigned(to) THEN "MovSX"
            ELSE "Mov"
       [] from[1] \in Floats ->
            IF to[1] \in {"ptr", "bool"} THEN "invalid"
            ELSE IF TypeIsIntegral(to) THEN "F_TO_S"
            ELSE IF to[1] \in Floats /\ to # from THEN "F_TO_F"
            ELSE "Mov"

GenTypecastExpr(e, oper) ==
  LET t  == NewTemp(oper, e[2])
      op == CastOpcode(oper.res[2], t.res[2])
  IN IF op = "invalid" THEN Invalid(t) ELSE Push1(t, op, oper.res)

-----------------------------------------------------------------------------
(* Names, members, elements, calls.                                        *)

(* A parameter that is a struct arrives as a pointer to it.                *)
GenVariableRef(g, e) ==
  Result(g, CASE e[4] > 0                      -> <<IF e[3] \in Foreign THEN "foreign" ELSE "routine",
                                                   StripPending(e[2]), e[3], e[4]>>
              [] e[4] = 0 /\ e[3] \in Globals -> <<"global", StripPending(e[2]), e[3]>>
              [] OTHER ->
                   <<"var", IF e[3] \in Parameters /\ TypeIsStruct(e[2]) THEN GetPointerType(e[2])
                            ELSE StripPending(e[2]), e[3]>>)

(* `ref' asks for the address of the member.                               *)
GenAccess(e, base, ref) ==
  LET type == StripPending(e[2])
      t    == NewTemp(base, IF ref THEN GetPointerType(type) ELSE type)
  IN PushInstruction(t, IF ref THEN "LoadMemberAddr" ELSE "MovMember",
                     t.res, base.res, <<"member", e[4]>>)

(* An element that is a struct is its address either way.                  *)
GenSubscript(e, base, index, ref) ==
  LET t == NewTemp(index, IF ref THEN GetPointerType(e[2]) ELSE e[2])
  IN PushInstruction(t, IF ref \/ TypeIsStruct(e[2]) THEN "LoadElementAddr" ELSE "MovElement",
                     t.res, base.res, index.res)

(* The arguments are generated from the last to the first; an argument's   *)
(* instruction names the next one's, the call the first one's.             *)
PushArg(g, next) ==
  PushInstruction(g, "Arg", g.res, Imm(<<"s64">>, next), NoneOperand)

-----------------------------------------------------------------------------
(* Expressions.  GenRefExpression generates what an l-value is stored to.  *)
(* An expression is an operator of the generation of its parts, Gen and    *)
(* Ref; they are put in where it gets the name it has in the code.         *)

RECURSIVE GenExpression(_, _), GenRefExpression(_, _)

LowerCall(g, e, Gen(_, _)) ==
  LET void   == TypeIs(e[2], {"void"})
      r      == IF void THEN Result(g, NoneOperand) ELSE NewTemp(g, e[2])
      f      == Gen(r, e[3])
      push(v, next) == [g |-> PushArg(v, next), next |-> Len(v.code) + 1]
      pushed == FoldRight(LAMBDA arg, a : push(Gen(a.g, arg), a.next),
                          e[4], [g |-> f, next |-> 0])
      op     == IF f.res[1] = "foreign" THEN "CallForeign" ELSE "Call"
  IN Result(PushInstruction(pushed.g, op, r.res, f.res, Imm(<<"s64">>, pushed.next)), r.res)

GenFunctionCall(g, e) == LowerCall(g, e, GenExpression)

(* Side is Ref where the two sides are asked for instead of their values.  *)
LowerTernary(g, e, Gen(_, _), Side(_, _)) ==
  LET no    == NewLabel(g)
      end   == NewLabel(no)
      t     == NewTemp(end, e[2])
      c     == Gen(t, e[3])
      yes   == Side(PushJump(c, "Jz", no.res, c.res), e[4])
      after == PushJump(PushInstruction(yes, "Mov", t.res, yes.res, NoneOperand),
                        "Jump", end.res, NoneOperand)
      other == Side(SetLabelTarget(after, no.res), e[5])
      both  == PushInstruction(other, "Mov", t.res, other.res, NoneOperand)
  IN Result(SetLabelTarget(both, end.res), t.res)

GenTernaryExpr(g, e) == LowerTernary(g, e, GenExpression, GenExpression)

GenRefTernaryExpr(g, e) == LowerTernary(g, e, GenExpression, GenRefExpression)

LowerUnary(g, e, Gen(_, _)) ==
  LET op   == "+" :> "Mov" @@ "-" :> "Neg" @@ "!" :> "Not" @@ "~" :> "Compl" @@ "@" :> "Load"
      t    == NewTemp(g, e[2])
      oper == Gen(t, e[4])
      of   == Gen(g, e[4])
  IN CASE e[3] # "&" -> Result(PushInstruction(oper, op[e[3]], t.res, oper.res, NoneOperand), t.res)
       [] e[3] = "&" -> IF TypeIsStruct(e[4][2]) THEN of
                        ELSE Push1(NewTemp(of, e[2]), "Addr", of.res)

GenUnaryExpr(g, e) == LowerUnary(g, e, GenExpression)

LowerRefUnary(g, e, Ref(_, _)) ==
  LET oper == Ref(g, e[4])
  IN IF e[3] = "@" THEN oper ELSE Invalid(oper)

GenRefUnaryExpr(g, e) == LowerRefUnary(g, e, GenRefExpression)

(* && leaves early when its left side is false, || when it is true.        *)
LowerAndOr(g, e, Gen(_, _)) ==
  LET end == NewLabel(g)
      t   == NewTemp(end, e[2])
      l   == Gen(t, e[4])
      out == PushJump(PushInstruction(l, "Mov", t.res, l.res, NoneOperand),
                      IF e[3] = "&&" THEN "Jz" ELSE "Jnz", end.res, l.res)
      r   == Gen(out, e[5])
  IN Result(SetLabelTarget(PushInstruction(r, "Mov", t.res, r.res, NoneOperand), end.res), t.res)

LowerBinary(g, e, Gen(_, _)) ==
  LET l == Gen(g, e[4])
      r == Gen(l, e[5])
      t == NewTemp(r, e[2])
  IN IF e[3] \in {"&&", "||"} THEN LowerAndOr(g, e, Gen)
     ELSE PushInstruction(t, Opcodes[e[3]], t.res, l.res, r.res)

GenBinaryExpr(g, e) == LowerBinary(g, e, GenExpression)

(* The right side first; the left side is a variable or an address.        *)
InMemory(e, loper) == e[4][1] # "var" \/ loper[1] = "global"

LowerRefAssignment(g, e, Gen(_, _), Ref(_, _)) ==
  LET r == Gen(g, e[5])
      l == Ref(r, e[4])
      t == Push1(NewTemp(l, e[4][2]), "Load", l.res)
      changed == PushInstruction(t, Opcodes[e[3]], t.res, t.res, r.res)
      store(s, v) == PushInstruction(s, "Store", l.res, v, NoneOperand)
  IN Result(IF InMemory(e, l.res)
            THEN (IF e[3] = "=" THEN store(l, r.res) ELSE store(changed, t.res))
            ELSE (IF e[3] = "=" THEN Push1(l, "Mov", r.res)
                  ELSE PushInstruction(l, Opcodes[e[3]], l.res, l.res, r.res)),
            l.res)

GenRefAssignmentExpr(g, e) == LowerRefAssignment(g, e, GenExpression, GenRefExpression)

(* The value of an assignment is read back from memory; a is what          *)
(* GenRefAssignmentExpr generated.                                         *)
GenAssignmentExpr(a, e) ==
  IF InMemory(e, a.res) THEN Push1(NewTemp(a, e[2]), "Load", a.res) ELSE a

LowerSubscript(g, e, Gen(_, _), ref) ==
  LET base == Gen(g, e[3]) IN GenSubscript(e, base, Gen(base, e[4]), ref)

GenSubscriptExpr(g, e, ref) == LowerSubscript(g, e, GenExpression, ref)

GenExpression(g, e) ==
  CASE e[1] = "lit"       -> Result(g, Imm(e[2], e[3]))
    [] e[1] = "var"       -> GenVariableRef(g, e)
    [] e[1] = "call"      -> GenFunctionCall(g, e)
    [] e[1] = "assign"    -> GenAssignmentExpr(GenRefAssignmentExpr(g, e), e)
    [] e[1] = "binary"    -> GenBinaryExpr(g, e)
    [] e[1] = "unary"     -> GenUnaryExpr(g, e)
    [] e[1] = "ternary"   -> GenTernaryExpr(g, e)
    [] e[1] = "access"    -> GenAccess(e, GenRefExpression(g, e[3]), FALSE)
    [] e[1] = "subscript" -> GenSubscriptExpr(g, e, FALSE)
    [] e[1] = "cast"      -> GenTypecastExpr(e, GenExpression(g, e[3]))
    [] e[1] = "alignof"   -> Result(g, Imm(e[2], Layout(e[3]).align))
    [] e[1] = "sizeof"    -> Result(g, Imm(e[2], Layout(e[3]).size))

GenRefExpression(g, e) ==
  CASE e[1] = "var"       -> GenVariableRef(g, e)
    [] e[1] = "assign"    -> GenRefAssignmentExpr(g, e)
    [] e[1] = "unary"     -> GenRefUnaryExpr(g, e)
    [] e[1] = "ternary"   -> GenRefTernaryExpr(g, e)
    [] e[1] = "access"    -> GenAccess(e, GenRefExpression(g, e[3]), TRUE)
    [] e[1] = "subscript" -> GenSubscriptExpr(g, e, TRUE)
    [] OTHER              -> Invalid(g)

-----------------------------------------------------------------------------
(* Statements, in the same way; Stmt is GenIr.                             *)

RECURSIVE GenIr(_, _)

LowerDecl(g, t, toplevel, Gen(_, _)) ==
  LET init == IF t[4] = Nil THEN g ELSE Gen(g, t[4])
      var(x) == <<IF toplevel THEN "global" ELSE "var", StripPending(t[3]), x>>
      decl(a, x) == PushInstruction(a, "VarDecl", var(x), NoneOperand, NoneOperand)
  IN FoldLeft(LAMBDA a, x : IF t[4] = Nil THEN decl(a, x)
                            ELSE PushInstruction(decl(a, x), "Mov", var(x), init.res, NoneOperand),
              init, t[2])

GenVariableDecl(g, t, toplevel) == LowerDecl(g, t, toplevel, GenExpression)

LowerIf(g, t, Gen(_, _), Stmt(_, _)) ==
  LET no   == NewLabel(g)
      c    == Gen(no, t[2])
      then == Stmt(PushJump(c, "Jz", no.res, c.res), t[3])
      end  == NewLabel(then)
      else == Stmt(SetLabelTarget(PushJump(end, "Jump", end.res, NoneOperand), no.res), t[4])
  IN IF t[4] = Nil THEN SetLabelTarget(then, no.res) ELSE SetLabelTarget(else, end.res)

GenIfStatement(g, t) == LowerIf(g, t, GenExpression, GenIr)

(* A loop: where to leave it to, where to go on; the condition is checked  *)
(* at the latter.  `incr' is Nil if there is nothing before the jump back. *)
LowerLoop(g, cond, body, incr, Gen(_, _), Stmt(_, _)) ==
  LET end   == NewLabel(g)
      start == NewLabel(end)
      in    == [SetLabelTarget(start, start.res) EXCEPT !.loops = Append(@, <<end.res, start.res>>)]
      c     == Gen(in, cond)
      once  == Stmt(PushJump(c, "Jz", end.res, c.res), body)
      next  == IF incr = Nil THEN once ELSE Gen(once, incr)
      back  == PushJump(next, "Jump", start.res, NoneOperand)
  IN [SetLabelTarget(back, end.res) EXCEPT !.loops = g.loops]

GenWhileStmt(g, t) == LowerLoop(g, t[2], t[3], Nil, GenExpression, GenIr)

LowerFor(g, t, Gen(_, _), Stmt(_, _)) ==
  LET init == IF t[2][1] = "decl" THEN LowerDecl(g, t[2], FALSE, Gen) ELSE Gen(g, t[2][2])
  IN IF Nil \in {t[3], t[4]} THEN Invalid(init) ELSE LowerLoop(init, t[3], t[5], t[4], Gen, Stmt)

GenForStmt(g, t) == LowerFor(g, t, GenExpression, GenIr)

GenReturnStmt(v) == PushInstruction(v, "Return", v.res, NoneOperand, NoneOperand)

GenIr(g, t) ==
  CASE t[1] = "decl"     -> GenVariableDecl(g, t, FALSE)
    [] t[1] = "block"    -> FoldLeft(GenIr, g, t[2])
    [] t[1] = "if"       -> GenIfStatement(g, t)
    [] t[1] = "while"    -> GenWhileStmt(g, t)
    [] t[1] = "for"      -> GenForStmt(g, t)
    [] t[1] = "return"   -> GenReturnStmt(IF t[2] = Nil THEN Result(g, NoneOperand) ELSE GenExpression(g, t[2]))
    [] t[1] = "break"    -> PushJump(g, "Jump", Last(g.loops)[1], NoneOperand)
    [] t[1] = "continue" -> PushJump(g, "Jump", Last(g.loops)[2], NoneOperand)
    [] t[1] = "expr"     -> GenExpression(g, t[2])
    [] OTHER             -> Invalid(g)

=============================================================================
