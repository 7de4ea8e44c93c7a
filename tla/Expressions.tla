----------------------------- MODULE Expressions ------------------------------
(***************************************************************************)
(* Checking the trees of expressions and statements:                       *)
(* src/src/semantic_check.cpp from CheckTypecastExpr to CheckExpr, and the *)
(* statements.  Scopes, the inference of return types and expressions that *)
(* wait for one are in Scopes: here `vars' is a function from the names in *)
(* scope to their types, and a type in a tree has been looked up.          *)
(***************************************************************************)
EXTENDS Types

Faults(rs) == UNION {r.faults : r \in rs}

CheckTypecastExpr(oper, to) ==
  LET from   == oper.type
      node   == <<"cast", to, oper.node>>
      number(t) == TypeIsNumeric(t) \/ TypeIs(t, {"char"})
      castable  == \/ TypeIsPointer(from) /\ TypeIsPointer(to)
                   \/ number(from) /\ number(to) /\ (TypeIsNumeric(from) \/ TypeIsNumeric(to))
  IN CASE None \in {from, to}               -> R(None, FALSE, node, oper.faults)
       [] None \notin {from, to} /\ castable -> R(to, FALSE, node, oper.faults)
       [] OTHER                             -> Failed(node, oper.faults)

CheckAccessExpr(base, member) ==
  LET object == IF TypeIsPointer(base.type) /\ ~TypeIs(base.type, {"null"})
                THEN StripPending(base.type)[2] ELSE StripPending(base.type)
      found  == SelectSeq(Members[object], LAMBDA m : m.name = member)
      node(t) == <<"access", t, base.node, member>>
  IN CASE base.type = None -> R(None, TRUE, node(None), base.faults)
       [] base.type # None /\ (~TypeIsStruct(object) \/ found = <<>>) ->
            [Failed(node(None), base.faults) EXCEPT !.assignable = TRUE]
       [] OTHER -> R(found[1].type, TRUE, node(found[1].type), base.faults)

CheckSubscriptExpr(base, index) ==
  LET faults   == base.faults \cup index.faults
      wrong    == \/ index.type # None /\ ~TypeIsIntegral(index.type)
                  \/ base.type # None /\ ~TypeIs(base.type, {"ptr"})
      type     == IF wrong \/ None \in {base.type, index.type} THEN None
                  ELSE StripPending(base.type)[2]
  IN R(type, index.type # None, <<"subscript", type, base.node, index.node>>,
       faults \cup ErrorIf(wrong))

(* The result stays an l-value when a cast is put into one of its sides.   *)
CheckTernaryExpr(cond, then, else) ==
  LET faults == Faults({cond, then, else}) \cup ErrorIf(~TypeIs(cond.type, {"bool"}))
      lvalue == then.assignable /\ else.assignable
      node(t, a, b) == R(t, lvalue, <<"ternary", t, cond.node, a, b>>, faults)
  IN CASE None \in {then.type, else.type} -> node(None, then.node, else.node)
       [] None \notin {then.type, else.type} /\ TypesEqual(then.type, else.type) ->
            node(then.type, then.node, else.node)
       [] OTHER ->
            CASE CheckTypeCoercion(then.type, else.type) ->
                   node(else.type, MakeTypecast(then.node, else.type), else.node)
              [] /\ ~CheckTypeCoercion(then.type, else.type)
                 /\ CheckTypeCoercion(else.type, then.type) ->
                   node(then.type, then.node, MakeTypecast(else.node, then.type))
              [] OTHER -> [node(then.type, then.node, else.node) EXCEPT !.faults = @ \cup {"error"}]

-----------------------------------------------------------------------------
(* Unary operators.                                                        *)

(* The type an operand of +, - or ~ is promoted to.                        *)
Promoted(op, type) ==
  LET tag == type[1]
  IN CASE op # "-" /\ tag \in {"u8", "u16"}                -> <<"u32">>
       [] op # "-" /\ tag \in {"s8", "s16"}                -> S32
       [] op = "-" /\ tag \in {"u8", "s8", "u16", "s16"}   -> S32
       [] op = "-" /\ tag = "u32"                          -> <<"s64">>
       [] OTHER                                            -> type

CheckUnaryExpr(op, oper) ==
  LET type == StripPending(oper.type)
      node(t, e) == <<"unary", t, op, e>>
      wrong(t)   == R(t, FALSE, node(t, oper.node), oper.faults \cup {"error"})
      fits == CASE op \in {"+", "-"} -> TypeIsNumeric(type)
                [] op = "~"          -> TypeIsIntegral(type)
                [] op = "!"          -> type = Bool
                [] op = "&"          -> oper.assignable
                [] op = "@"          -> TypeIsPointer(type)
      to   == Promoted(op, type)
  IN CASE type = None -> R(None, oper.assignable, node(None, oper.node), oper.faults)
       [] type # None /\ ~fits ->
            (CASE op \in {"+", "-", "~"} -> wrong(<<"s64">>)
               [] op = "!"               -> wrong(Bool)
               [] op = "&"               -> wrong(type)
               [] op = "@"               -> [wrong(type) EXCEPT !.assignable = TRUE])
       [] OTHER ->
            CASE op \in {"+", "-", "~"} -> R(to, FALSE, node(to, CastTo(oper.node, to)), oper.faults)
              [] op = "!"               -> R(type, FALSE, node(type, oper.node), oper.faults)
              [] op = "&"               -> R(GetPointerType(type), FALSE,
                                             node(GetPointerType(type), oper.node), oper.faults)
              [] op = "@"               ->
                   IF type = Null THEN R(Nil, TRUE, node(Nil, oper.node), oper.faults \cup {"stop"})
                   ELSE R(type[2], TRUE, node(type[2], oper.node),
                          oper.faults \cup ErrorIf(type[2] = <<"void">>))

-----------------------------------------------------------------------------
(* Binary operators and assignments.                                       *)

(* Faulty variant: the wider of two integers, whatever their signs.        *)
WiderOfBoth(l, r) ==
  IF \E t \in {l, r} : ~TypeIsIntegral(t) THEN IF <<"f64">> \in {l, r} THEN <<"f64">> ELSE Nil
  ELSE StripPending(IF Width(l) < Width(r) THEN r ELSE l)

(* The type of both operands, Nil if there is none.                        *)
CoerceBinaryExprType(l, r) ==
  LET both == {StripPending(l), StripPending(r)}
      has(tag) == <<tag>> \in both
      signed   == \E t \in both : TypeIsSigned(t)
  IN CASE \E t \in both : ~TypeIsNumeric(t) -> Nil
       [] OTHER ->
            IF has("f64") THEN <<"f64">>
            ELSE IF has("f32") THEN <<"f32">>
            ELSE IF has("u64") THEN (IF signed THEN Nil ELSE <<"u64">>)
            ELSE IF has("s64") THEN <<"s64">>
            ELSE IF has("u32") THEN (IF signed THEN <<"s64">> ELSE <<"u32">>)
            ELSE S32

Comparisons == {"==", "!=", "<", "<=", ">", ">="}

CheckBinaryExpr(op, l, r) ==
  LET faults == l.faults \cup r.faults
      both   == {l.type, r.type}
      node(t, a, b) == <<"binary", t, op, a, b>>
      as(t)     == R(t, FALSE, node(t, l.node, r.node), faults)
      common    == CoerceBinaryExprType(l.type, r.type)
      coerced(t) == R(t, FALSE, node(t, CastTo(l.node, common), CastTo(r.node, common)), faults)
      bool(bad)  == [as(Bool) EXCEPT !.faults = @ \cup ErrorIf(bad)]
      integral   == TypeIsIntegral(l.type) /\ TypeIsIntegral(r.type)
      offset     == op \in {"+", "-"} /\ TypeIsPointer(l.type) /\ TypeIsIntegral(r.type)
      difference == op = "-" /\ TypeIsPointer(l.type) /\ TypeIsPointer(r.type)
      same       == /\ op \in Comparisons
                    /\ \/ TypesEqual(l.type, r.type)
                       \/ \E t \in both : TypeIs(t, {"null"})
  IN CASE None \in both -> as(None)
       [] None \notin both /\ op = ".." -> [as(None) EXCEPT !.faults = @ \cup {"stop"}]
       [] None \notin both /\ op \in {"&&", "||"} ->
            bool(\E t \in both : ~TypeIs(t, {"bool"}))
       [] None \notin both /\ op \in {"<<", ">>"} ->
            IF integral THEN as(l.type) ELSE Failed(node(None, l.node, r.node), faults)
       [] OTHER ->
            IF offset THEN (IF TypeIs(l.type, {"null"}) THEN Failed(node(None, l.node, r.node), faults)
                            ELSE as(l.type))
            ELSE IF difference THEN (IF TypesEqual(l.type, r.type) THEN as(<<"s64">>)
                                     ELSE Failed(node(None, l.node, r.node), faults))
            ELSE IF same THEN as(Bool)
            ELSE IF op \in Comparisons THEN (IF common = Nil THEN bool(TRUE) ELSE coerced(Bool))
            ELSE IF common = Nil \/ (op \in {"%", "&", "|", "^"} /\ ~integral)
                 THEN Failed(node(None, l.node, r.node), faults)
            ELSE coerced(common)

(* The right side, with the type its value would fit if it is a literal.   *)
CheckAssignmentExpr(op, l, r) ==
  LET faults == l.faults \cup r.faults
      rtype  == IF r.literal = Nil THEN r.type ELSE r.literal
      node(b) == <<"assign", l.type, op, l.node, b>>
      integral == TypeIsIntegral(l.type) /\ TypeIsIntegral(rtype)
      numeric  == TypeIsNumeric(l.type) /\ TypeIsNumeric(rtype)
      fits == CASE op = "="            -> CheckTypeCoercion(rtype, l.type)
                [] op \in {"+=", "-="} -> \/ CheckTypeCoercion(rtype, l.type)
                                          \/ TypeIsPointer(l.type) /\ TypeIsIntegral(rtype)
                [] op \in {"*=", "/="} -> numeric
                [] OTHER               -> integral
      kept == op \in {"<<=", ">>="} \/ (TypeIsPointer(l.type) /\ TypeIsIntegral(rtype))
      to   == StripPending(l.type)
      done(t, b, more) == R(t, l.assignable, node(b), faults \cup more)
  IN CASE None \in {l.type, r.type} -> done(None, r.node, {})
       [] None \notin {l.type, r.type} /\ (~l.assignable \/ ~fits) -> done(l.type, r.node, {"error"})
       [] OTHER ->
            IF kept \/ TypesEqual(to, rtype) THEN done(l.type, r.node, {})
            ELSE done(to, MakeTypecast(r.node, to), {})

-----------------------------------------------------------------------------

AssignmentOperators == {"=", "+=", "-=", "*=", "/=", "%=", "<<=", ">>=", "&=", "|=", "^="}

RECURSIVE CheckExpr(_, _, _)
CheckExpr(e, vars, wanted) ==
  LET check(sub) == CheckExpr(sub, vars, FALSE)
  IN CASE e[1] = "lit"       -> CheckLiteral(e, wanted)
       [] e[1] = "var"       -> CheckVariableRef(e, vars)
       [] e[1] \in {"alignof", "sizeof"} -> R(<<"u64">>, FALSE, <<e[1], <<"u64">>, e[2]>>, {})
       [] e[1] = "call"      -> CheckCall(check(e[2]), [k \in DOMAIN e[3] |-> check(e[3][k])])
       [] e[1] = "cast"      -> CheckTypecastExpr(check(e[2]), e[3])
       [] e[1] = "access"    -> CheckAccessExpr(check(e[2]), e[3])
       [] e[1] = "subscript" -> CheckSubscriptExpr(check(e[2]), check(e[3]))
       [] e[1] = "ternary"   -> CheckTernaryExpr(check(e[2]), check(e[3]), check(e[4]))
       [] e[1] = "unary"     -> CheckUnaryExpr(e[2], check(e[3]))
       [] e[1] = "binary"    ->
            IF e[2] \in AssignmentOperators
            THEN CheckAssignmentExpr(e[2], check(e[3]), CheckExpr(e[4], vars, TRUE))
            ELSE CheckBinaryExpr(e[2], check(e[3]), check(e[4]))

-----------------------------------------------------------------------------
(* Statements: the variables in scope afterwards, the tree, the faults.    *)
(* `loops' is the count of loops around, ctx->breakables.  A statement is   *)
(* an operator of the checks of its parts; CheckExpr and CheckStatement are *)
(* put in where it gets the name it has in the code.                       *)

RECURSIVE CheckStatement(_, _, _)

S(vars, node, faults) == [vars |-> vars, node |-> node, faults |-> faults]

(* A condition left out gives Nil.                                         *)
CheckedCondition(e, vars, Expr(_, _, _)) ==
  LET c == Expr(e, vars, FALSE)
  IN IF e = Nil THEN S(vars, Nil, {})
     ELSE S(vars, c.node, c.faults \cup ErrorIf(c.type # None /\ ~TypeIs(c.type, {"bool"})))

CheckCondition(e, vars) == CheckedCondition(e, vars, CheckExpr)

CheckedDecl(t, vars, Expr(_, _, _)) ==
  LET init   == IF t[4] = Nil THEN R(Nil, FALSE, Nil, {}) ELSE Expr(t[4], vars, TRUE)
      type   == IF t[3] # Nil THEN t[3] ELSE init.type
      from   == IF init.literal = Nil THEN init.type ELSE init.literal
      cast   == t[4] # Nil /\ from # None /\ ~TypesEqual(from, type)
      node   == IF cast /\ CheckTypeCoercion(from, type) THEN MakeTypecast(init.node, type)
                ELSE init.node
      faults == ErrorIf(\/ t[3] = Nil /\ TypeIs(type, {"null"})
                        \/ t[3] = <<"void">>
                        \/ cast /\ ~CheckTypeCoercion(from, type))
  IN S([x \in DOMAIN vars \cup ToSet(t[2]) |-> IF x \in ToSet(t[2]) THEN type ELSE vars[x]],
       <<"decl", t[2], type, node>>, init.faults \cup faults)

CheckVariableDecl(t, vars) == CheckedDecl(t, vars, CheckExpr)

Wrapped(kind, vars, e) == S(vars, <<kind, e.node>>, e.faults)

CheckedBlock(t, vars, loops, Stmt(_, _, _)) ==
  LET append(all, s) == S(s.vars, Append(all.node, s.node), all.faults \cup s.faults)
  IN Wrapped("block", vars, FoldLeft(LAMBDA all, u : append(all, Stmt(u, all.vars, loops)),
                                   S(vars, <<>>, {}), t[2]))

CheckBlockStatement(t, vars, loops) == CheckedBlock(t, vars, loops, CheckStatement)

CheckedIf(t, vars, loops, c, Stmt(_, _, _)) ==
  LET a == Stmt(t[3], vars, loops)
      b == IF t[4] = Nil THEN S(a.vars, Nil, {}) ELSE Stmt(t[4], a.vars, loops)
  IN S(b.vars, <<"if", c.node, a.node, b.node>>, Faults({c, a, b}))

CheckIfStatement(t, vars, loops) ==
  CheckedIf(t, vars, loops, CheckCondition(t[2], vars), CheckStatement)

CheckedWhile(t, vars, loops, c, Stmt(_, _, _)) ==
  LET b == Stmt(t[3], vars, loops + 1)
  IN S(b.vars, <<"while", c.node, b.node>>, Faults({c, b}))

CheckWhileStatement(t, vars, loops) ==
  CheckedWhile(t, vars, loops, CheckCondition(t[2], vars), CheckStatement)

CheckedFor(t, vars, loops, Expr(_, _, _), Stmt(_, _, _)) ==
  LET init == IF t[2][1] = "decl" THEN CheckedDecl(t[2], vars, Expr)
              ELSE Wrapped("expr", vars, Expr(t[2], vars, FALSE))
      cond == CheckedCondition(t[3], init.vars, Expr)
      incr == IF t[4] = Nil THEN R(Nil, FALSE, Nil, {}) ELSE Expr(t[4], init.vars, FALSE)
      body == Stmt(t[5], init.vars, loops + 1)
  IN S(vars, <<"for", init.node, cond.node, incr.node, body.node>>, Faults({init, cond, incr, body}))

CheckForStatement(t, vars, loops) == CheckedFor(t, vars, loops, CheckExpr, CheckStatement)

(* The returned type is the function's here.                               *)
CheckStatement(t, vars, loops) ==
  CASE t[1] = "block"    -> CheckBlockStatement(t, vars, loops)
    [] t[1] = "if"       -> CheckIfStatement(t, vars, loops)
    [] t[1] = "while"    -> CheckWhileStatement(t, vars, loops)
    [] t[1] = "for"      -> CheckForStatement(t, vars, loops)
    [] t[1] = "rangefor" -> S(vars, t, {"stop"})
    [] t[1] = "decl"     -> CheckVariableDecl(t, vars)
    [] t[1] \in {"break", "continue"} -> S(vars, t, ErrorIf(loops = 0))
    [] t[1] = "return" /\ t[2] = Nil -> S(vars, t, {})
    [] t[1] = "expr" \/ (t[1] = "return" /\ t[2] # Nil) -> Wrapped(t[1], vars, CheckExpr(t[2], vars, FALSE))

=============================================================================
