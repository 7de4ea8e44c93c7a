------------------------------- MODULE Parser --------------------------------
(***************************************************************************)
(* src/src/parser.cpp: recursive descent over a list of tokens.            *)
(*                                                                         *)
(* A token is a string: its type, or, for an identifier, one of Names.     *)
(* The parser's state is threaded through the operators as a record:       *)
(* `at', the index of the current token; `errs', the number of errors      *)
(* reported; `node', the tree just parsed, Nil for the code's nullptr.  A  *)
(* tree is a tuple whose first element says what it is.                    *)
(***************************************************************************)
EXTENDS Naturals, Sequences, SequencesExt

CONSTANTS
  Names,        \* identifiers
  MaxErrors     \* options.max_error_count

VARIABLES
  toks,         \* the token list, with EOF at its end
  parsed        \* the state Parse ends in; Begin before

Nil == <<"nil">>

TypeOf(t) == IF t \in Names THEN "Identifier" ELSE t

TypeNames ==
  {"void", "bool", "char", "string", "s8", "s16", "s32", "s64", "u8", "u16", "u32", "u64",
   "f32", "f64", "Identifier"}

Literals ==
  {"null", "true", "false", "IntLit", "UIntLit", "Float32Lit", "Float64Lit", "CharLit",
   "StringLit"}

PrefixOperators == {"+", "-", "~", "!", "&", "@"}

-----------------------------------------------------------------------------
(* Tokens.                                                                 *)

GetCurrentToken(s) == IF s.at <= Len(toks) THEN toks[s.at] ELSE toks[Len(toks)]

GetNextToken(s) == [s EXCEPT !.at = IF @ <= Len(toks) THEN @ + 1 ELSE @]

PeekNextToken(s) == IF s.at + 1 <= Len(toks) THEN toks[s.at + 1] ELSE toks[Len(toks)]

Is(s, types) == TypeOf(GetCurrentToken(s)) \in types

Peeks(s, types) == TypeOf(PeekNextToken(s)) \in types

Accept(s, types) == IF Is(s, types) THEN GetNextToken(s) ELSE s

Error(s) == [s EXCEPT !.errs = @ + 1]

(* Expect and ExpectAfterLast differ in the place they report.             *)
Expect(s, type) == IF Is(s, {type}) THEN GetNextToken(s) ELSE Error(s)

Node(s, tree) == [s EXCEPT !.node = tree]

Fails(s) == s.node = Nil

(* An error when nothing was parsed.                                       *)
Need(s) == IF Fails(s) THEN Error(s) ELSE s

(* ContinueParsing takes the EOF, if it stands there.                      *)
ContinueParsing(s) == ~Is(s, {"EOF"}) /\ s.errs < MaxErrors

Stop(s) == Accept(s, {"EOF"})

-----------------------------------------------------------------------------
(* Types.                                                                  *)

RECURSIVE ParseType(_)

(* The list that starts with what was parsed first, if anything was; More  *)
(* goes on after a comma, with the elements so far in s.node[2].           *)
ListFrom(first, Element(_)) ==
  LET RECURSIVE More(_)
      More(s) ==
        LET comma == GetNextToken(s)
            next  == Element(comma)
        IN CASE ~Is(s, {","})            -> s
             [] ~ContinueParsing(comma)  -> Stop(comma)
             [] OTHER -> IF Fails(next) THEN Node(Error(next), s.node)
                         ELSE More(Node(next, <<"list", Append(s.node[2], next.node)>>))
  IN IF Fails(first) THEN Node(first, <<"list", <<>>>>)
     ELSE More(Node(first, <<"list", <<first.node>>>>))

FunctionType(s, Type(_)) ==
  LET params == ListFrom(Type(Expect(s, "(")), Type)
      result == Type(Expect(Expect(params, ")"), ":"))
  IN Node(result, <<"fntype", params.node[2], result.node>>)

RECURSIVE Stars(_, _)
Stars(s, n) == IF Is(s, {"*"}) THEN Stars(GetNextToken(s), n + 1) ELSE Node(s, <<"ptr", n, s.node>>)

RECURSIVE Brackets(_, _)
Brackets(s, n) ==
  IF Is(s, {"["}) THEN Brackets(Expect(GetNextToken(s), "]"), n + 1)
  ELSE Node(s, <<"array", n, s.node>>)

RECURSIVE TypeSuffixes(_)
TypeSuffixes(s) ==
  CASE ~ContinueParsing(s)                    -> Stop(s)
    [] ContinueParsing(s) /\ Is(s, {"*"})     -> TypeSuffixes(Stars(s, 0))
    [] ContinueParsing(s) /\ Is(s, {"["})     -> TypeSuffixes(Brackets(s, 0))
    [] OTHER                                  -> s

ParseType(s) ==
  LET next == GetNextToken(s)
  IN CASE Is(s, {"!"})     -> TypeSuffixes(FunctionType(next, ParseType))
       [] Is(s, {"("})     -> TypeSuffixes(Expect(ParseType(next), ")"))
       [] Is(s, TypeNames) -> TypeSuffixes(Node(next, <<"type", GetCurrentToken(s)>>))
       [] OTHER            -> Node(s, Nil)

-----------------------------------------------------------------------------
(* Expressions.                                                            *)

RECURSIVE ParseExpression(_)

ParseFunctionArgs(s) == ListFrom(ParseExpression(s), ParseExpression)

CastType(s, Type(_)) ==
  LET type == Type(s)
      star == Error(GetNextToken(type))
  IN CASE ~Fails(type)                         -> type
       [] Fails(type) /\ Is(type, {"*"})       ->
            Need(IF ContinueParsing(star) THEN Type(star) ELSE Stop(star))
       [] OTHER                                -> Error(type)

ParseAccess(next, factor) ==
  IF Is(next, {"Identifier"})
  THEN Node(GetNextToken(next), <<"access", factor, GetCurrentToken(next)>>)
  ELSE Node(Error(next), <<"access", Nil, Nil>>)

Subscript(index, factor) == Node(Expect(Need(index), "]"), <<"subscript", factor, index.node>>)
Call(args, factor)       == Node(Expect(args, ")"), <<"call", factor, args.node[2]>>)
Cast(type, factor)       == Node(type, <<"cast", factor, type.node>>)

ParsePostfixOperator(s) ==
  LET next == GetNextToken(s)
  IN CASE Is(s, {"."})  -> ParseAccess(next, s.node)
       [] Is(s, {"["})  -> Subscript(ParseExpression(next), s.node)
       [] Is(s, {"("})  -> Call(ParseFunctionArgs(next), s.node)
       [] Is(s, {"->"}) -> Cast(CastType(next, ParseType), s.node)
       [] OTHER         -> Node(s, Nil)

(* The first postfix operator is looked for without ContinueParsing.       *)
Postfixes(operand, Postfix(_)) ==
  LET RECURSIVE More(_)
      More(s) ==
        LET post == Postfix(s)
        IN CASE Fails(post)                              -> Node(post, s.node)
             [] ~Fails(post) /\ ~ContinueParsing(post)   -> Stop(post)
             [] OTHER                                    -> More(post)
  IN More(operand)

Parenthesised(expr) == IF Fails(expr) THEN Accept(Error(expr), {")"}) ELSE Expect(expr, ")")

OfType(operator, type) == Node(Expect(Need(type), ")"), <<operator, type.node>>)

ParseOperand(s) ==
  LET next == GetNextToken(s)
  IN CASE Is(s, Literals)               -> Node(next, <<"lit", GetCurrentToken(s)>>)
       [] Is(s, {"Identifier"})         -> Node(next, <<"var", GetCurrentToken(s)>>)
       [] Is(s, {"("})                  -> Parenthesised(ParseExpression(next))
       [] Is(s, {"alignof", "sizeof"})  -> OfType(GetCurrentToken(s), ParseType(Expect(next, "(")))
       [] OTHER                         -> Node(s, Nil)

Prefixed(operator, factor) == Node(factor, <<"unary", operator, factor.node>>)

Factor(s, operand) ==
  LET prefixed == Is(s, PrefixOperators)
  IN CASE Fails(operand)               -> IF prefixed THEN Error(operand) ELSE operand
       [] ~Fails(operand) /\ prefixed  -> Prefixed(GetCurrentToken(s), Postfixes(operand, ParsePostfixOperator))
       [] OTHER                        -> Postfixes(operand, ParsePostfixOperator)

ParseFactorExpr(s) == Factor(s, ParseOperand(Accept(s, PrefixOperators)))

(* The loop of the left associative levels: operand, operator, operand.    *)
LeftAssociative(left, operators, Operand(_)) ==
  LET RECURSIVE More(_)
      More(l) ==
        LET right == Need(Operand(GetNextToken(l)))
        IN CASE ~ContinueParsing(l)                      -> Stop(l)
             [] ContinueParsing(l) /\ Is(l, operators)   ->
                  More(Node(right, <<"binary", GetCurrentToken(l), l.node, right.node>>))
             [] OTHER                                    -> l
  IN IF Fails(left) THEN left ELSE More(left)

BinaryLevel(s, operators, Operand(_)) == LeftAssociative(Operand(s), operators, Operand)

ParseMultDivExpr(s) == BinaryLevel(s, {"*", "/", "%"}, ParseFactorExpr)
ParseAddSubExpr(s)  == BinaryLevel(s, {"+", "-", "&", "|", "^"}, ParseMultDivExpr)
ParseShiftExpr(s)   == BinaryLevel(s, {"<<", ">>"}, ParseAddSubExpr)

RangeLevel(s, Operand(_)) ==
  LET left  == Operand(s)
      right == Need(Operand(GetNextToken(left)))
  IN CASE Fails(left)                                     -> left
       [] ~Fails(left) /\ ~ContinueParsing(left)          -> Stop(left)
       [] OTHER -> IF Is(left, {".."})
                   THEN Node(right, <<"binary", "..", left.node, right.node>>) ELSE left

ParseRangeExpr(s) == RangeLevel(s, ParseShiftExpr)

ParseComparisonExpr(s) ==
  LeftAssociative(ParseRangeExpr(s), {"==", "!=", "<", "<=", ">", ">="}, ParseShiftExpr)

ParseLogicalExpr(s) == BinaryLevel(s, {"&&", "||"}, ParseComparisonExpr)

TernaryLevel(s, Operand(_)) ==
  LET cond  == Operand(s)
      true  == Need(Operand(GetNextToken(cond)))
      colon == Expect(true, ":")
      other == Operand(colon)
      false == IF Fails(other) /\ Is(true, {":"}) THEN Error(other) ELSE other
  IN IF ~Fails(cond) /\ Is(cond, {"?"})
     THEN Node(false, <<"ternary", cond.node, true.node, false.node>>) ELSE cond

ParseTernaryExpr(s) == TernaryLevel(s, ParseLogicalExpr)

AssignmentOperators == {"=", "+=", "-=", "*=", "/=", "%=", "<<=", ">>=", "&=", "|=", "^="}

(* Faulty variant: assignments associate to the left.                      *)
AssignsLeft(s) == BinaryLevel(s, AssignmentOperators, ParseTernaryExpr)

(* Assignments associate to the right.                                     *)
AssignmentLevel(left, Assigned(_)) ==
  LET right == Need(Assigned(GetNextToken(left)))
  IN CASE Fails(left)                                     -> left
       [] ~Fails(left) /\ ~ContinueParsing(left)          -> Stop(left)
       [] OTHER -> IF Is(left, AssignmentOperators)
                   THEN Node(right, <<"binary", GetCurrentToken(left), left.node, right.node>>)
                   ELSE left

RECURSIVE ParseAssignmentExpr(_)
ParseAssignmentExpr(s) == AssignmentLevel(ParseTernaryExpr(s), ParseAssignmentExpr)

ParseExpression(s) == ParseAssignmentExpr(s)

-----------------------------------------------------------------------------
(* Statements.                                                             *)

ErrorInvalidToken(s) == GetNextToken(Error(s))

(* A statement is an operator of the parsers of its parts; they are put in *)
(* where it gets the name it has in the code.                              *)

RECURSIVE ParseStatement(_)

(* The statements of a block; those so far are s.node[2].  The block that  *)
(* reaches the end of the file ends there, without an error.               *)
BlockStatement(s, Stmt(_)) ==
  LET RECURSIVE Statements(_)
      Statements(l) ==
        LET stmt == Stmt(l)
            next == IF Fails(stmt) THEN Node(ErrorInvalidToken(stmt), l.node)
                    ELSE Node(stmt, <<"block", Append(l.node[2], stmt.node)>>)
        IN IF Is(l, {"}"}) THEN GetNextToken(l)
           ELSE IF ContinueParsing(next) THEN Statements(next) ELSE Stop(next)
  IN IF Is(s, {"{"}) THEN Statements(Node(GetNextToken(s), <<"block", <<>>>>)) ELSE Node(s, Nil)

ParseBlockStatement(s) == BlockStatement(s, ParseStatement)

IfStatement(s, Expr(_), Stmt(_)) ==
  LET cond   == Expr(GetNextToken(s))
      then   == Need(Stmt(IF Fails(cond) THEN GetNextToken(Error(cond)) ELSE cond))
      other  == IF Is(then, {"else"}) THEN Need(Stmt(GetNextToken(then))) ELSE Node(then, Nil)
  IN Node(other, <<"if", cond.node, then.node, other.node>>)

ParseIfStatement(s) == IfStatement(s, ParseExpression, ParseStatement)

WhileStatement(s, Expr(_), Stmt(_)) ==
  LET cond == Need(Expr(GetNextToken(s)))
      loop == Need(Stmt(cond))
  IN Node(loop, <<"while", cond.node, loop.node>>)

ParseWhileStatement(s) == WhileStatement(s, ParseExpression, ParseStatement)

RECURSIVE Declared(_)
Declared(s) ==
  LET comma == GetNextToken(s)
  IN CASE ~Is(s, {","})                             -> s
       [] Is(s, {","}) /\ ~Is(comma, {"Identifier"}) -> Error(comma)
       [] OTHER -> Declared(Node(GetNextToken(comma),
                                 <<"list", Append(s.node[2], GetCurrentToken(comma))>>))

(* After the names: a type, an expression, or both.                        *)
TypeOrInit(names, Expr(_), Type(_)) ==
  LET type  == IF Is(names, {":"}) THEN Need(Type(GetNextToken(names)))
               ELSE Node(Expect(names, ":="), Nil)
      init  == IF Is(names, {":"}) /\ ~Is(type, {"="}) THEN Node(type, Nil)
               ELSE Need(Expr(IF Is(names, {":"}) THEN GetNextToken(type) ELSE type))
  IN Node(init, <<"decl", names.node[2], type.node, init.node>>)

(* One token of look ahead tells a declaration from an expression.         *)
ParseVarDeclExpr(s) ==
  IF Is(s, {"Identifier"}) /\ Peeks(s, {",", ":", ":="})
  THEN TypeOrInit(Declared(Node(GetNextToken(s), <<"list", <<GetCurrentToken(s)>>>>)),
                  ParseExpression, ParseType)
  ELSE Node(s, Nil)

(* What needs its semicolon, if it is there.                               *)
Terminated(s) == IF Fails(s) THEN s ELSE Expect(s, ";")

ParseVarDeclStatement(s) == Terminated(ParseVarDeclExpr(s))

ClassicFor(decl, Expr(_), Stmt(_)) ==
  LET expr == Expr(decl)
      semi == Expect(expr, ";")
      init == IF ~Fails(decl) THEN decl
              ELSE IF Fails(expr) THEN GetNextToken(Error(semi)) ELSE semi
      cond == Expr(init)
      incr == Expr(Expect(cond, ";"))
      loop == Need(Stmt(Expect(incr, ")")))
  IN Node(loop, <<"for", init.node, cond.node, incr.node, loop.node>>)

RangeFor(decl, Expr(_), Stmt(_)) ==
  LET init == IF Fails(decl) THEN Need(Expr(decl)) ELSE decl
      loop == Need(Stmt(init))
  IN Node(loop, <<"rangefor", init.node, loop.node>>)

ParseForStatement(s) ==
  LET next == GetNextToken(s)
  IN IF Is(next, {"("}) THEN ClassicFor(ParseVarDeclStatement(GetNextToken(next)), ParseExpression, ParseStatement)
     ELSE RangeFor(ParseVarDeclExpr(next), ParseExpression, ParseStatement)

(* Faulty variant: the semicolon may be left out.                          *)
ReturnAccepting(expr) == Node(Accept(expr, {";"}), <<"return", expr.node>>)

Return(expr) == Node(Expect(expr, ";"), <<"return", expr.node>>)

ParseReturnStatement(s) == Return(ParseExpression(GetNextToken(s)))

ParseBreakOrContinueStatement(s) == Node(Expect(GetNextToken(s), ";"), <<GetCurrentToken(s)>>)

ExprStatement(expr) == IF Fails(expr) THEN expr ELSE Node(Expect(expr, ";"), <<"expr", expr.node>>)

(* A declaration where there is one.                                       *)
DeclarationOr(decl, Other(_)) == IF Fails(decl) THEN Other(decl) ELSE decl

ParseExprStatement(s) == ExprStatement(ParseExpression(s))

(* The code tries one kind after the other; the first token decides.       *)
ParseStatement(s) ==
  CASE Is(s, {"{"})                 -> ParseBlockStatement(s)
    [] Is(s, {"if"})                -> ParseIfStatement(s)
    [] Is(s, {"while"})             -> ParseWhileStatement(s)
    [] Is(s, {"for"})               -> ParseForStatement(s)
    [] Is(s, {"return"})            -> ParseReturnStatement(s)
    [] Is(s, {"break", "continue"}) -> ParseBreakOrContinueStatement(s)
    [] OTHER -> DeclarationOr(ParseVarDeclStatement(s), ParseExprStatement)

-----------------------------------------------------------------------------
(* The top level.                                                          *)

(* A parameter whose type is missing is no error.                          *)
Parameters(s, Type(_)) ==
  LET RECURSIVE More(_)
      More(l) ==
        LET type  == Type(Expect(GetNextToken(l), ":"))
            next  == Node(type, <<"list", Append(l.node[2], <<"param", GetCurrentToken(l), type.node>>)>>)
            comma == GetNextToken(next)
        IN IF Is(l, {"Identifier"})
           THEN CASE ~Is(next, {","})                           -> next
                  [] Is(next, {","}) /\ ~ContinueParsing(comma) -> Stop(comma)
                  [] OTHER                                      -> More(comma)
           ELSE IF l.node[2] = <<>> THEN l ELSE Error(l)
  IN More(Node(s, <<"list", <<>>>>))

ParseParameters(s) == Parameters(s, ParseType)

(* The return type, behind the parenthesis; Nil if there is none.          *)
ReturnType(s, foreign, Type(_)) ==
  LET type == Need(Type(GetNextToken(s)))
      skip == IF Fails(type) /\ ~foreign /\ ~Is(type, {"{"}) THEN GetNextToken(type) ELSE type
  IN IF Is(s, {":"}) THEN skip ELSE Node(IF foreign THEN Error(s) ELSE s, Nil)

WithReturnType(params, result) == Node(result, <<params.node[2], result.node>>)

(* Up to the return type; the node is <<parameters, type>>.                *)
AfterParameters(params, foreign) ==
  WithReturnType(params, ReturnType(Expect(params, ")"), foreign, ParseType))

Signature(s, foreign) == AfterParameters(ParseParameters(GetNextToken(s)), foreign)

FunctionOf(name, sig, Body(_)) ==
  LET body == Need(Body(sig))
  IN Node(body, <<"func", name, sig.node[1], sig.node[2], body.node>>)

ParseFunction(s, name) == FunctionOf(name, Signature(s, FALSE), ParseBlockStatement)

ForeignFunction(name, sig) ==
  Node(Expect(sig, ";"), <<"foreignfunc", name, sig.node[1], sig.node[2]>>)

ParseForeignFunction(s, name) == ForeignFunction(name, Signature(s, TRUE))

Typealias(name, type) == Node(Expect(Need(type), ";"), <<"typealias", name, type.node>>)

ParseTypealias(s, name) == Typealias(name, ParseType(GetNextToken(s)))

StructMember(name, type) == Node(Expect(type, ";"), <<"param", name, type.node>>)

ParseStructMember(s) ==
  IF Is(s, {"Identifier"}) THEN StructMember(GetCurrentToken(s), ParseType(Expect(GetNextToken(s), ":")))
  ELSE Node(s, Nil)

(* What is parsed one after the other until nothing is.                    *)
Repeated(s, Element(_)) ==
  LET RECURSIVE Elements(_)
      Elements(l) ==
        LET element == Element(l)
        IN CASE ~ContinueParsing(l)                      -> Stop(l)
             [] ContinueParsing(l) /\ Fails(element)     -> Node(element, l.node)
             [] OTHER -> Elements(Node(element, <<l.node[1], Append(l.node[2], element.node)>>))
  IN Elements(s)

StructOf(name, members) == Node(Expect(members, "}"), <<"struct", name, members.node[2]>>)

ParseStruct(s, name) ==
  StructOf(name, Repeated(Node(Expect(GetNextToken(s), "{"), <<"list", <<>>>>), ParseStructMember))

(* ParseNamedImport, and ParseGlobalImport with no name.                   *)
ParseImport(s, name) ==
  LET next   == GetNextToken(s)
      module == IF Is(next, {"StringLit"}) THEN GetNextToken(next) ELSE Error(Error(next))
  IN Node(Expect(module, ";"), <<"import", name>>)

Named(s) == Is(s, {"Identifier"}) /\ Peeks(s, {"::"})

ParseForeignStmt(s) ==
  LET after == GetNextToken(GetNextToken(s))
      name  == GetCurrentToken(s)
  IN CASE ~Named(s)                                -> Node(s, Nil)
       [] Named(s) /\ Is(after, {"import"})        -> ParseImport(after, name)
       [] Named(s) /\ Is(after, {"struct"})        -> ParseStruct(after, name)
       [] Named(s) /\ Is(after, {"("})             -> ParseForeignFunction(after, name)
       [] OTHER                                    -> Node(after, Nil)

ParseForeignBlock(s) ==
  Expect(Repeated(Node(Expect(GetNextToken(s), "{"), <<"foreign", <<>>>>), ParseForeignStmt), "}")

ParseTopLevelNamedStmt(s) ==
  LET after == GetNextToken(GetNextToken(s))
      name  == GetCurrentToken(s)
  IN CASE ~Named(s)                                -> Node(s, Nil)
       [] Named(s) /\ Is(after, {"import"})        -> ParseImport(after, name)
       [] Named(s) /\ Is(after, {"typealias"})     -> ParseTypealias(after, name)
       [] Named(s) /\ Is(after, {"struct"})        -> ParseStruct(after, name)
       [] Named(s) /\ Is(after, {"("})             -> ParseFunction(after, name)
       [] OTHER                                    -> Node(after, Nil)

ParseTopLevelStmt(s) ==
  CASE Is(s, {"import"})  -> ParseImport(s, "")
    [] Is(s, {"foreign"}) -> ParseForeignBlock(s)
    [] OTHER -> DeclarationOr(ParseVarDeclStatement(s), ParseTopLevelNamedStmt)

(* The loop of Parse; the statements so far are l.node[2].                 *)
TopLevel(s, Stmt(_)) ==
  LET RECURSIVE Rest(_)
      Rest(l) ==
        LET stmt == Stmt(l)
            next == IF ~Fails(stmt) THEN Node(stmt, <<"top", Append(l.node[2], stmt.node)>>)
                    ELSE Node(IF ContinueParsing(stmt) THEN ErrorInvalidToken(stmt) ELSE Stop(stmt),
                              l.node)
        IN IF ContinueParsing(l) THEN Rest(next) ELSE Stop(l)
  IN Rest(Node(s, <<"top", <<>>>>))

Begin == [at |-> 1, errs |-> 0, node |-> Nil]

Parse ==
  /\ parsed = Begin
  /\ parsed' = TopLevel(parsed, ParseTopLevelStmt)
  /\ UNCHANGED toks

=============================================================================
