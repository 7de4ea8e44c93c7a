------------------------------ MODULE MCLowering ------------------------------
(***************************************************************************)
(* The routines that Lowering is run with.  The parameters are n: s32,     *)
(* w: s64, b: u8, u: u32, d: f64, t: bool, p: s32*, q: S* and ps: S; there *)
(* are the global G: s32 and the local ls: S, for struct S {a: s32; z: u8; *)
(* n: S*}.                                                                 *)
(***************************************************************************)
EXTENDS Lowering

S64 == <<"s64">>
U8  == <<"u8">>
U32 == <<"u32">>
St  == <<"struct", "S">>
PtrS == <<"ptr", St>>
Void == <<"void">>

MCMembers == St :> <<[name |-> "a", type |-> S32], [name |-> "z", type |-> U8], [name |-> "n", type |-> PtrS]>>
MCMaxInt == [s8 |-> 1, s16 |-> 3, s32 |-> 7, s64 |-> 31, u8 |-> 3, u16 |-> 7, u32 |-> 15, u64 |-> 63]

MCOverloads ==
  [f |-> <<<<"fn", 1, <<S32>>, S32>>>>,
   g |-> <<<<"fn", 2, <<U8, S64>>, S64>>, <<"fn", 3, <<S32, S32>>, S32>>>>,
   v |-> <<<<"fn", 4, <<>>, Void>>>>,
   h |-> <<<<"fn", 5, <<S64>>, S32>>>>]

MCEnv == [n |-> S32, w |-> S64, b |-> U8, u |-> U32, d |-> <<"f64">>, t |-> Bool, p |-> <<"ptr", S32>>, q |-> PtrS,
          ps |-> St, G |-> S32]
MCParameters == {"n", "w", "b", "u", "d", "t", "p", "q", "ps"}

(* n and ls have a place in the frame.  p points to two integers.          *)
MCAddressOf == [n |-> 0, G |-> 4, ls |-> 48, temp |-> 44]
MCShared    == (4 .. 47)

Input(n, w, b, t, garbage) ==
  [vars |-> [n |-> n, w |-> w, b |-> b, u |-> 2 + 3 * b, d |-> n - 2, t |-> t, p |-> 8, q |-> 16, ps |-> 32],
   mem  |-> (0 :> Low(n, "s32")) @@ (4 :> 6) @@ (8 :> 15) @@ (12 :> 5) @@
            (16 :> 9) @@ (20 :> 3) @@ (24 :> 32) @@ (32 :> 1) @@ (36 :> 2) @@ (40 :> 16),
   garbage |-> garbage]

MCInputs == {Input(1, 3, 0, 1, 63), Input(0, -2, 3, 0, 63), Input(-3, -20, 2, 1, 0), Input(7, 31, 1, 0, 63)}

-----------------------------------------------------------------------------
(* Trees.                                                                  *)

V(x)           == <<"var", x>>
I(v)           == <<"lit", "int", v>>
Bin(op, l, r)  == <<"binary", op, l, r>>
Un(op, e)      == <<"unary", op, e>>
Call(f, args)  == <<"call", V(f), args>>
Mem(e, m)      == <<"access", e, m>>
At(e, i)       == <<"subscript", e, i>>
If3(c, a, b)   == <<"ternary", c, a, b>>
Ret(e)         == <<"return", e>>
Do(e)          == <<"expr", e>>
Block(ts)      == <<"block", ts>>
Decl(x, type, e) == <<"decl", <<x>>, type, e>>

Numbers == {V("n"), V("w"), V("b"), V("u"), I(2), At(V("p"), I(1)), Mem(V("q"), "a"), Mem(V("ps"), "z"), V("G"), Call("f", <<V("n")>>)}
Arith == {"+", "-", "*", "/", "%", "&", "|", "^"}

Sums == {Bin(op, l, r) : op \in Arith \cup Comparisons, l \in Numbers, r \in Numbers}

T(tag) == <<tag>>
Targets == {S32, S64, U8, U32, T("s8"), T("u16"), T("u64")}

Ones == {Un(op, e) : op \in {"+", "-", "~"}, e \in Numbers}
          \cup {<<"cast", e, to>> : e \in Numbers, to \in Targets}
          \cup {Bin(op, e, I(1)) : op \in {"<<", ">>"}, e \in Numbers}

Reals == {Bin(op, l, r) : op \in {"+", "-", "*", "<", ">="}, l \in {V("d"), Mem(V("q"), "a")},
                         r \in {V("d"), V("n"), V("u"), V("b"), <<"lit", "f64", 2>>}}
           \cup {Un("-", V("d")), <<"cast", V("d"), S32>>, <<"cast", V("d"), U8>>, <<"cast", V("w"), T("f32")>>}

(* An operand, and what changes its variable next to it.                   *)
Sides == {Bin("+", V("n"), Bin("=", V("n"), I(3))), Bin("-", Bin("=", V("n"), I(3)), V("n")),
          Call("g", <<V("w"), Bin("=", V("w"), V("b"))>>), Call("g", <<Bin("=", V("n"), I(3)), V("n")>>),
          At(V("p"), Bin("=", V("n"), I(1)))}

Tests == {Bin(op, V("n"), e) : op \in Comparisons, e \in {V("w"), V("b"), At(V("p"), I(0))}}
           \cup {V("t"), Un("!", V("t")), Bin("==", V("q"), <<"lit", "null", 0>>), Bin("<", V("u"), V("b"))}

Conditions2 == Tests \cup {Un("!", c) : c \in Tests}
                 \cup {Bin(op, c, d) : op \in {"&&", "||", "==", "!="}, c \in Tests, d \in Tests}

Places == {V("n"), V("w"), V("b"), V("G"), At(V("p"), V("b")), Mem(V("q"), "a"), Mem(V("q"), "z"),
           Mem(V("ps"), "a"), Un("@", V("p"))}

Assigns == {Bin(op, l, e) : op \in AssignmentOperators \ {"<<=", ">>="}, l \in Places,
                            e \in {V("n"), V("b"), V("w"), I(2), Call("f", <<V("n")>>)}}
             \cup {Bin(op, l, I(1)) : op \in {"<<=", ">>="}, l \in Places}

Calls == {Call("g", <<x, y>>) : x \in Numbers, y \in Numbers} \cup {Call("h", <<x>>) : x \in Numbers}

Selects == {If3(c, a, b) : c \in Tests, a \in {V("n"), V("b"), Call("f", <<I(1)>>)}, b \in {V("n"), V("w"), V("b")}}

Deep == {Bin(o1, Bin(o2, a, b), Bin(o3, c, d)) :
           o1 \in {"-", "*", "<"}, o2 \in {"+", "/"}, o3 \in {"-", "%"},
           a \in {V("b"), V("u")}, b \in {V("w"), V("n")}, c \in {V("b"), V("u")}, d \in {V("w"), I(2)}}

Pointers == {Un("@", Bin("+", V("p"), I(4))), Un("@", Bin("+", V("p"), <<"cast", I(4), S64>>)),
             Bin("-", V("p"), V("p")), Bin("+", V("q"), V("w")), <<"cast", V("q"), <<"ptr", U8>>>>,
             Bin("-", V("q"), V("n")),
             At(V("p"), Bin("-", <<"sizeof", U32>>, <<"sizeof", U32>>)), <<"sizeof", T("u16")>>, <<"alignof", St>>,
             Mem(At(V("q"), V("b")), "z"), Mem(Mem(V("q"), "n"), "a")}

Inc(x) == Do(Bin("+=", V(x), I(1)))

Loops ==
  {<<"while", c, Block(<<Inc("n"), x, Do(Call("h", <<V("n")>>))>>)>> :
      c \in {Bin("<", V("n"), I(5)), Bin("&&", V("t"), Bin("<=", V("n"), V("w")))},
      x \in {Inc("G"), <<"if", Bin("==", V("n"), I(2)), <<"break">>, Nil>>,
             <<"if", Bin("==", V("n"), I(3)), <<"continue">>, Do(Call("v", <<>>))>>,
             <<"if", Un("!", V("t")), Ret(V("n")), Nil>>}}
  \cup
  {<<"for", x, Bin("<", V("i"), I(3)), Bin("+=", V("i"), I(1)),
     Block(<<y, Do(Call("h", <<V("i")>>))>>)>> :
      x \in {Decl("i", S32, V("n")), Decl("i", Nil, V("b"))},
      y \in {Inc("n"), <<"if", Bin("<", V("w"), I(2)), <<"break">>, Nil>>,
             <<"if", Bin("==", V("i"), I(2)), Block(<<Inc("i"), <<"continue">>>>), Nil>>}}

Structs ==
  {<<Decl("ls", St, Nil), x, y>> :
     x \in {Do(Bin("=", V("ls"), V("ps"))), Do(Bin("=", Mem(V("ls"), "a"), V("n"))),
            Do(Bin("=", V("ls"), At(V("q"), V("b"))))},
     y \in {Ret(Mem(V("ls"), "a")), Ret(Bin("==", Mem(V("ls"), "n"), V("q"))),
            Do(Bin("=", At(V("q"), I(0)), V("ps"))), Do(Bin("=", V("q"), Un("&", V("ls")))),
            Do(Bin("=", Mem(V("q"), "n"), Un("&", V("ps"))))}}
  \cup {<<Decl("ls", Nil, V("ps")), Ret(Mem(V("ls"), "z"))>>,
        <<Decl("r", Nil, Un("&", V("n"))), Do(Bin("=", Un("@", V("r")), I(3))), Ret(Bin("+", V("n"), V("w")))>>,
        <<Decl("r", Nil, Un("&", V("ps"))), Ret(Mem(V("r"), "a"))>>,
        <<Decl("r", Nil, Un("&", Mem(V("q"), "a"))), Ret(V("n"))>>,
        <<Do(Call("v", <<>>)), Ret(Nil)>>}

All ==
  {Ret(e) : e \in Sums \cup Ones \cup Conditions2 \cup Calls \cup Selects \cup Reals \cup Sides \cup Pointers \cup Deep}
    \cup {Do(e) : e \in Assigns}
    \cup {Block(<<Do(e), Ret(e[3])>>) : e \in Assigns}
    \cup {<<"if", c, Ret(I(1)), Ret(V("n"))>> : c \in Conditions2}
    \cup {Block(<<Decl("x", type, e), Ret(V("x"))>>) : type \in {Nil, S64, U8}, e \in Numbers}
    \cup {Block(<<l, Ret(V("n"))>>) : l \in Loops}
    \cup {Block(ts) : ts \in Structs}

(* What the code is known to lower otherwise than it means, left out here. *)

(* The dividend of a division of 32 bits that may be below zero.           *)
CutDividend(t) ==
  /\ t[1] \in {"binary", "assign"} /\ t[3] \in {"/", "%", "/=", "%="}
  /\ t[4][2] = S32
  /\ t[4][1] # "cast" \/ TypeIsSigned(t[4][3][2])

(* The place of a signed integer's sign in a wider unsigned one.           *)
LostSign(t) ==
  /\ t[1] = "cast" /\ TypeIsSigned(t[3][2]) /\ TypeIsIntegral(t[2]) /\ ~TypeIsSigned(t[2])
  /\ Width(t[3][2]) < Width(t[2])

(* A variable that is read when the instruction is made for which it is an *)
(* operand, after what is evaluated in between has changed it.             *)
RECURSIVE Variable(_)
Variable(e) == CASE e[1] = "var" -> {e[3]} [] e[1] = "assign" -> Variable(e[4]) [] OTHER -> {}
Changes(t)  == UNION {CASE u[1] = "assign" -> Variable(u) [] u[1] = "call" -> {"G"} [] OTHER -> {} :
                        u \in Subtrees(t)}
Late(e, t)  == Variable(e) \cap Changes(t) # {}

ReadLate(t) ==
  \/ t[1] = "binary"    /\ Late(t[4], t[5])
  \/ t[1] = "assign"    /\ Late(t[5], t[4])
  \/ t[1] = "subscript" /\ Late(t[3], t[4])
  \/ t[1] = "call"      /\ \E j, k \in DOMAIN t[4] : j < k /\ Late(t[4][k], t[4][j])

(* A struct is stored to an element or through a pointer as its address.   *)
StructStored(t) == t[1] = "assign" /\ TypeIsStruct(t[2]) /\ t[4][1] # "var"

(* An unsigned integer is made a float as if it were signed, and a narrow  *)
(* one with whatever is above it in its register.                          *)
NotAsFloat(t) ==
  /\ t[1] = "cast" /\ TypeIs(t[2], Floats) /\ TypeIsIntegral(t[3][2])
  /\ ~TypeIsSigned(t[3][2]) \/ Width(t[3][2]) < 3

(* An address of a member or an element is that of a copy of its value.    *)
AddressOfCopy(t) == t[1] = "unary" /\ t[3] = "&" /\ t[4][1] # "var"

(* A member of what an expression other than a variable points to.         *)
MemberOfPointer(t) == t[1] = "access" /\ TypeIsPointer(t[3][2]) /\ t[3][1] # "var"

(* An offset of a pointer with less than the pointer's bits is not widened. *)
NarrowOffset(t) ==
  /\ t[1] = "binary" /\ t[2][1] = "ptr" /\ TypeIsIntegral(t[5][2])
  /\ Width(t[5][2]) < 4 /\ t[5][1] # "lit"

(* A comparison nobody uses, in front of a condition.                      *)
StrayComparison(t) == t[1] = "expr" /\ t[2][1] = "binary" /\ t[2][3] \in Comparisons

Supported(t) ==
  \A u \in Subtrees(t) :
    ~(CutDividend(u) \/ LostSign(u) \/ ReadLate(u) \/ AddressOfCopy(u) \/ StructStored(u)
      \/ NotAsFloat(u) \/ MemberOfPointer(u) \/ NarrowOffset(u) \/ StrayComparison(u))

(* Divisions of 32 and of 64 bits.                                         *)
Divided == {Ret(Bin(op, V(x), I(2))) : op \in {"/", "%"}, x \in {"w", "n"}}

MCTrees == {t \in All : LET c == CheckStatement(t, MCEnv, 0) IN c.faults = {} /\ Supported(c.node)}
=============================================================================
