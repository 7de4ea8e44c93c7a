------------------------------- MODULE Syntax --------------------------------
(***************************************************************************)
(* What Parser promises: the trees of programs are written out as tokens,  *)
(* by the precedences that the comment in ParseExpression lists, and read  *)
(* back; and lists of any tokens are read and the trees written out.       *)
(***************************************************************************)
EXTENDS Parser

CONSTANTS
  Trees,      \* top-level trees to write out and read back
  Lists       \* token lists to read, without their EOF

VARIABLE tree       \* the tree the tokens were written from; Nil if none

(* The operators of each level of the comment, the loosest first.          *)
Level ==
  <<AssignmentOperators, {"?"}, {"&&", "||"}, {"==", "!=", "<", "<=", ">", ">="}, {".."},
    {"<<", ">>"}, {"+", "-", "&", "|", "^"}, {"*", "/", "%"}>>

LevelOf(t) ==
  CASE t[1] = "binary"  -> CHOOSE l \in DOMAIN Level : t[2] \in Level[l]
    [] t[1] = "ternary" -> 2
    [] t[1] = "unary"   -> 9
    [] OTHER            -> 10

(* The levels of the operands.  The left associative levels take their own *)
(* on the left and tighter ones on the right, assignments the reverse.  A  *)
(* range has no range for an operand, and neither has the right side of a  *)
(* comparison; a conditional expression has none in it.                    *)
LeftLevel(l)  == IF l \in {1, 5} THEN l + 1 ELSE l
RightLevel(l) == CASE l = 1 -> 1 [] l = 4 -> 6 [] OTHER -> l + 1

Commas(lists) ==
  FoldLeft(LAMBDA all, list : all \o (IF all = <<>> THEN <<>> ELSE <<",">>) \o list, <<>>, lists)

Times(n, s) == FlattenSeq([k \in 1 .. n |-> s])

RECURSIVE Write(_)

(* A child in parentheses unless it binds at least as tightly as `level'.  *)
Within(t, level) == IF LevelOf(t) < level THEN <<"(">> \o Write(t) \o <<")">> ELSE Write(t)

Writes(ts) == [k \in DOMAIN ts |-> Write(ts[k])]

WriteExpression(t) ==
  CASE t[1] \in {"lit", "var"} -> <<t[2]>>
    [] t[1] \in {"alignof", "sizeof"} -> <<t[1], "(">> \o Write(t[2]) \o <<")">>
    [] t[1] = "access"    -> Within(t[2], 10) \o <<".", t[3]>>
    [] t[1] = "subscript" -> Within(t[2], 10) \o <<"[">> \o Write(t[3]) \o <<"]">>
    [] t[1] = "call"      -> Within(t[2], 10) \o <<"(">> \o Commas(Writes(t[3])) \o <<")">>
    [] t[1] = "cast"      -> Within(t[2], 10) \o <<"->">> \o Write(t[3])
    [] t[1] = "unary"     -> <<t[2]>> \o Within(t[3], 10)
    [] t[1] = "ternary"   ->
         Within(t[2], 3) \o <<"?">> \o Within(t[3], 3) \o <<":">> \o Within(t[4], 3)
    [] t[1] = "binary"    ->
         Within(t[3], LeftLevel(LevelOf(t))) \o <<t[2]>> \o Within(t[4], RightLevel(LevelOf(t)))

(* A suffix behind a function type would belong to its return type.        *)
Suffixed(t) == IF t[1] = "fntype" THEN <<"(">> \o Write(t) \o <<")">> ELSE Write(t)

WriteType(t) ==
  CASE t[1] = "type"   -> <<t[2]>>
    [] t[1] = "ptr"    -> Suffixed(t[3]) \o Times(t[2], <<"*">>)
    [] t[1] = "array"  -> Suffixed(t[3]) \o Times(t[2], <<"[", "]">>)
    [] t[1] = "fntype" -> <<"!", "(">> \o Commas(Writes(t[2])) \o <<")", ":">> \o Write(t[3])
    [] t[1] = "param"  -> <<t[2], ":">> \o Write(t[3])

WriteStatement(t) ==
  CASE t[1] = "block"    -> <<"{">> \o FlattenSeq(Writes(t[2])) \o <<"}">>
    [] t[1] = "if"       -> <<"if">> \o Write(t[2]) \o Write(t[3])
                            \o (IF t[4] = Nil THEN <<>> ELSE <<"else">> \o Write(t[4]))
    [] t[1] = "while"    -> <<"while">> \o Write(t[2]) \o Write(t[3])
    [] t[1] = "for"      -> <<"for", "(">> \o Write(t[2])
                            \o (IF t[2][1] = "decl" THEN <<>> ELSE <<";">>)
                            \o Write(t[3]) \o <<";">> \o Write(t[4]) \o <<")">> \o Write(t[5])
    [] t[1] = "rangefor" -> <<"for">>
                            \o (IF t[2][1] = "decl" THEN Front(Write(t[2])) ELSE Write(t[2]))
                            \o Write(t[3])
    [] t[1] = "return"   -> <<"return">> \o Write(t[2]) \o <<";">>
    [] t[1] = "expr"     -> Write(t[2]) \o <<";">>
    [] t[1] = "decl"     -> Commas([k \in DOMAIN t[2] |-> <<t[2][k]>>])
                            \o (IF t[3] = Nil THEN <<":=">> ELSE <<":">> \o Write(t[3]))
                            \o (IF t[3] = Nil \/ t[4] = Nil THEN <<>> ELSE <<"=">>)
                            \o Write(t[4]) \o <<";">>
    [] t[1] \in {"break", "continue"} -> <<t[1], ";">>

WriteTopLevel(t) ==
  CASE t[1] = "top"         -> FlattenSeq(Writes(t[2]))
    [] t[1] = "import"      -> (IF t[2] = "" THEN <<>> ELSE <<t[2], "::">>)
                               \o <<"import", "StringLit", ";">>
    [] t[1] = "typealias"   -> <<t[2], "::", "typealias">> \o Write(t[3]) \o <<";">>
    [] t[1] = "struct"      -> <<t[2], "::", "struct", "{">>
                               \o FlattenSeq([k \in DOMAIN t[3] |-> Append(Write(t[3][k]), ";")])
                               \o <<"}">>
    [] t[1] \in {"func", "foreignfunc"} ->
         <<t[2], "::", "(">> \o Commas(Writes(t[3])) \o <<")">>
         \o (IF t[4] = Nil THEN <<>> ELSE <<":">> \o Write(t[4]))
         \o (IF t[1] = "func" THEN Write(t[5]) ELSE <<";">>)
    [] t[1] = "foreign"     -> <<"foreign", "{">> \o FlattenSeq(Writes(t[2])) \o <<"}">>

Write(t) ==
  CASE t = Nil -> <<>>
    [] t[1] \in {"top", "import", "typealias", "struct", "func", "foreignfunc", "foreign"} ->
         WriteTopLevel(t)
    [] t[1] \in {"block", "if", "while", "for", "rangefor", "return", "expr", "decl", "break",
                 "continue"} -> WriteStatement(t)
    [] t[1] \in {"type", "ptr", "array", "fntype", "param"} -> WriteType(t)
    [] t # Nil /\ t[1] \in {"lit", "var", "alignof", "sizeof", "access", "subscript", "call",
                            "cast", "unary", "ternary", "binary"} -> WriteExpression(t)

-----------------------------------------------------------------------------

SyntaxInit ==
  /\ parsed = Begin
  /\ \/ tree \in Trees /\ toks = <<>>
     \/ tree = Nil /\ \E l \in Lists : toks = Append(l, "EOF")

WriteOut ==
  /\ tree # Nil /\ toks = <<>>
  /\ toks' = Append(Write(tree), "EOF")
  /\ UNCHANGED <<parsed, tree>>

Read == toks # <<>> /\ Parse /\ UNCHANGED tree

SyntaxNext == WriteOut \/ Read

syntax == <<toks, parsed, tree>>

SyntaxSpec == SyntaxInit /\ [][SyntaxNext]_syntax

-----------------------------------------------------------------------------

(* What is written by the precedences is read back as it was, without an   *)
(* error: operators group as the comment says, an else goes to the nearest *)
(* if, declarations are told from expressions and both kinds of for apart. *)
WrittenParsesBack ==
  tree # Nil /\ parsed.node # Nil => parsed.node = tree /\ parsed.errs = 0

(* When no error is reported every token has found its way into the tree,  *)
(* in its place, and the tree has nothing but the tokens.  Parentheses     *)
(* apart, and files that end within a block, and names that are followed   *)
(* by :: and nothing: both are passed over without an error.               *)
WithoutParentheses(s) == SelectSeq(s, LAMBDA t : t \notin {"(", ")"})

Occurrences(s, t) == Len(SelectSeq(s, LAMBDA u : u = t))

Finished(s) ==
  /\ Occurrences(s, "{") = Occurrences(s, "}")
  /\ \A k \in DOMAIN s : s[k] = "::" => k < Len(s) /\ s[k + 1] # "}"

NothingDropped ==
  parsed.node # Nil /\ parsed.errs = 0 /\ Finished(Front(toks)) =>
    WithoutParentheses(Write(parsed.node)) = WithoutParentheses(Front(toks))

=============================================================================
