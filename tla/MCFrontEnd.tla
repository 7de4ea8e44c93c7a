------------------------------ MODULE MCFrontEnd -----------------------------
(* Texts, tokens and trees for FrontEnd.                                   *)
EXTENDS FrontEnd

-----------------------------------------------------------------------------
(* Texts: what the states of the lexer tell apart, in every order.         *)

(* Texts of up to n characters of a set.                                   *)
UpTo(chars, n) == UNION {[1 .. m -> chars] : m \in 1 .. n}

Strings(words) == {Chars(w) : w \in words}

Pairs(first, second) == {f \o s : f \in first, s \in second}

MCWords ==
  Pairs(Strings(Words \cup {"g", "Ab", "x1_"}),
        Strings({"", "s", "t", "6", "_", "Z", ";", "+", "\"", "/"}))

MCOperators == Pairs(Strings(Operators), Strings(Operators \cup {"", "a", "1"}))

MCNumbers ==
  Pairs(UpTo({"1", ".", "u"}, 3), Strings({"", "e", "e1", "e+", "e-1", "f", "d", "e1f", "e+1d", "f1", "+"}))

MCQuotes == Pairs({<<"\"">>, <<"'">>}, UpTo({"\"", "\\", "'", "\n", "a"}, 3))

MCComments == Pairs(Strings({"/*", "//", "/"}), UpTo({"/", "*", "\n", "a"}, 4))

MCLines == UpTo({"\r", "\n", "VT", "a", "$"}, 4)

MCZeros == UpTo({"NUL", ".", "1", "\"", " "}, 4)

MCTexts ==
  LET pieces == MCWords \cup MCOperators \cup MCNumbers \cup MCQuotes \cup MCComments
                \cup MCLines \cup MCZeros
  IN {<<>>} \cup pieces \cup {Append(p, "\n") : p \in pieces}

-----------------------------------------------------------------------------
(* Programs of few constructs, each construct over the others.             *)

a == <<"var", "a">>
int == <<"lit", "IntLit">>
s64 == <<"type", "s64">>

Binary(operators, left, right) ==
  {<<"binary", op, l, r>> : op \in operators, l \in left, r \in right}

EachLevel == {"=", "+=", "&&", "==", "..", "<<", "+", "-", "*"}

Types1 == {s64, <<"type", "a">>}
Types2 ==
  Types1 \cup {<<"ptr", n, t>> : n \in {1, 2}, t \in Types1}
    \cup {<<"array", n, t>> : n \in {1, 2}, t \in Types1}
    \cup {<<"fntype", p, t>> : p \in {<<>>, <<s64>>, <<s64, s64>>}, t \in Types1}
Types3 ==
  Types2 \cup {<<"ptr", 1, t>> : t \in {u \in Types2 : u[1] # "ptr"}}
    \cup {<<"array", 1, t>> : t \in {u \in Types2 : u[1] # "array"}}
    \cup {<<"fntype", <<p, s64>>, t>> : p \in Types2, t \in Types2}

(* A type takes the star or bracket that follows it: no cast in front.     *)
Others(inner) ==
  {<<"unary", op, e>> : op \in {"-", "!", "&"}, e \in inner}
    \cup {<<"ternary", c, e, a>> : c \in inner, e \in inner} \cup {<<"ternary", a, a, e>> : e \in inner}
    \cup {<<"access", e, "b">> : e \in inner}
    \cup {<<"subscript", e, i>> : e \in {f \in inner : f[1] # "cast"}, i \in inner}
    \cup {<<"call", e, args>> : e \in inner, args \in {<<>>} \cup {<<i>> : i \in inner}}
    \cup {<<"call", a, <<e, int>>>> : e \in inner}
    \cup {<<"cast", e, <<"ptr", 1, s64>>>> : e \in inner}

Expressions1 == {a, <<"sizeof", s64>>} \cup Others({a}) \cup Binary(EachLevel, {a}, {a})

Expressions2 ==
  Expressions1 \cup Others(Expressions1)
    \cup {e \in Binary(EachLevel, Expressions1, Expressions1) :
            e[2] = "*" => e[3][1] # "cast"}
    \cup Binary(UNION ToSet(Level) \ {"?"}, {a}, {int})
    \cup {<<"lit", l>> : l \in Literals} \cup {<<"unary", op, int>> : op \in PrefixOperators}
    \cup {<<"alignof", t>> : t \in Types3}

Assigns == <<"expr", <<"binary", "=", a, int>>>>

Declarations ==
  {<<"decl", n, t, e>> : n \in {<<"a">>, <<"a", "b">>}, t \in {Nil, s64}, e \in {a, Nil}}
    \ {<<"decl", n, Nil, Nil>> : n \in {<<"a">>, <<"a", "b">>}}

Statements0 ==
  {Assigns, <<"break">>, <<"continue">>, <<"return", Nil>>, <<"return", a>>, <<"block", <<>>>>}
    \cup Declarations

(* An else would go to the if that ends such a statement.                  *)
RECURSIVE EndsInIf(_)
EndsInIf(t) ==
  CASE t[1] = "if" -> t[4] = Nil \/ EndsInIf(t[4])
    [] t[1] \in {"while", "for", "rangefor"} -> EndsInIf(t[Len(t)])
    [] OTHER -> FALSE

Over(some, others) ==
  {<<"if", a, t, Nil>> : t \in some}
    \cup {<<"if", a, t, e>> : t \in {u \in some : ~EndsInIf(u)}, e \in others}
    \cup {<<"if", a, t, e>> : t \in {u \in others : ~EndsInIf(u)}, e \in some}
    \cup {<<"while", a, t>> : t \in some}
    \cup {<<"for", i, c, a, t>> : i \in {a, <<"decl", <<"a">>, Nil, a>>}, c \in {Nil, a}, t \in some}
    \cup {<<"rangefor", i, t>> : i \in {<<"binary", "..", a, a>>, <<"decl", <<"a">>, Nil, a>>},
                                 t \in some}
    \cup {<<"block", <<t>>>> : t \in some} \cup {<<"block", <<t, e>>>> : t \in some, e \in others}

Statements1 == Over(Statements0, Statements0)
Statements2 == Over(Statements1, {Assigns, <<"if", a, Assigns, Nil>>})

Func(statements) == <<"func", "f", <<>>, Nil, <<"block", statements>>>>

Params == {<<>>, <<<<"param", "a", s64>>>>, <<<<"param", "a", s64>>, <<"param", "b", s64>>>>}

Definitions ==
  {<<"import", "">>, <<"import", "a">>} \cup Declarations
    \cup {<<"typealias", "a", t>> : t \in Types3}
    \cup {<<"struct", "a", p>> : p \in Params}
    \cup {<<"func", "f", p, t, <<"block", <<>>>>>> : p \in Params, t \in Types1 \cup {Nil}}

Foreign ==
  {<<"import", "a">>} \cup {<<"struct", "a", p>> : p \in Params}
    \cup {<<"foreignfunc", "f", p, t>> : p \in Params, t \in Types1}

MCTrees ==
  {<<"top", <<Func(<<<<"expr", e>>, Assigns>>)>>>> : e \in Expressions2}
    \cup {<<"top", <<Func(<<t>>)>>>> : t \in Statements0 \cup Statements1 \cup Statements2}
    \cup {<<"top", <<d, <<"struct", "b", <<>>>>>>>> : d \in Definitions}
    \cup {<<"top", <<<<"foreign", <<f>>>>, <<"import", "">>>>>> : f \in Foreign}
    \cup {<<"top", <<<<"foreign", <<f, g>>>>>>>> : f \in Foreign, g \in Foreign}

MCSpelled ==
  {<<"top", <<Func(<<<<"expr", e>>, Assigns>>)>>>> :
     e \in Binary(UNION ToSet(Level) \ {"?"}, {a}, {int}) \cup {<<"lit", l>> : l \in Literals}}
    \cup {<<"top", <<Func(<<t>>)>>>> : t \in Statements0 \cup Over({Assigns}, {<<"break">>})}
    \cup {<<"top", <<<<"struct", "b", p>>, <<"foreign", <<f>>>>>>>> : p \in Params, f \in Foreign}

(* Tokens in any order, where a part of a program could stand.             *)

Between(first, among, n, last) == {first \o t \o last : t \in UpTo(among, n) \cup {<<>>}}

MCLists ==
  Between(<<"f", "::", "(", ")", "{", "a">>,
          {"a", "*", "-", "(", ")", "?", ":", "==", "=", "..", ",", "->", "s64"}, 3, <<";", "}">>)
    \cup Between(<<"f", "::", "(", ")">>,
                 {"if", "else", "for", "(", ")", "{", "}", ";", "a", ":=", "return"}, 4, <<"}">>)
    \cup Between(<<>>, {"f", "::", "(", ")", "{", "}", "import", "StringLit", ";"}, 4, <<>>)
    \cup Between(<<"f", "::">>, {"(", ")", "a", ":", "s64", ",", "*", "!"}, 4, <<"{", "}">>)
    \cup Between(<<"foreign", "{", "f", "::">>, {"struct", "{", "}", "(", ")", ":", "a", ";"}, 4,
                 <<"}">>)

=============================================================================
