-------------------------------- MODULE Types --------------------------------
(***************************************************************************)
(* The types of expressions: src/src/semantic_check.cpp from               *)
(* CheckTypeCoercion to CheckExpr with what it asks of symbols.cpp.        *)
(*                                                                         *)
(* A type is a tuple that starts with its tag: <<"s32">>, <<"ptr", t>>,    *)
(* <<"struct", name>>, <<"pending", t>>, <<"fn", id, parameters, result>>. *)
(* Types are the same object when they are the same tuple: pointers and    *)
(* basic types are shared, and every function type has an id of its own.   *)
(* Nil is the code's nullptr.                                              *)
(*                                                                         *)
(* Checking an expression tree of Parser gives a record: its type; whether *)
(* it is an l-value; the type its value would fit (Int_Lit_Info), Nil if   *)
(* unknown; the tree with the types and the casts put in; and the faults   *)
(* met: "error" was reported, "stop" ends the process.                     *)
(***************************************************************************)
EXTENDS Integers, Sequences, SequencesExt

CONSTANTS
  Overloads,   \* the types of the functions of a name, in the order of their definition
  Members,     \* a struct's members in order: [name, type]
  MaxInt       \* the greatest value of an integer type, by its tag

Nil  == <<"nil">>
None == <<"none">>
Null == <<"null">>
Bool == <<"bool">>
S32  == <<"s32">>

SignedTypes   == <<"s8", "s16", "s32", "s64">>
UnsignedTypes == <<"u8", "u16", "u32", "u64">>

(* The TypeIs functions look through a pending type; `in' is a set of tags. *)
StripPending(t) == IF t[1] = "pending" THEN t[2] ELSE t

TypeIs(t, in)      == StripPending(t)[1] \in in
TypeIsPointer(t)   == TypeIs(t, {"ptr", "null"})
TypeIsSigned(t)    == TypeIs(t, ToSet(SignedTypes))
TypeIsIntegral(t)  == TypeIs(t, ToSet(SignedTypes) \cup ToSet(UnsignedTypes))
TypeIsNumeric(t)   == TypeIsIntegral(t) \/ TypeIs(t, {"f32", "f64"})
TypeIsStruct(t)    == TypeIs(t, {"struct", "string"})

GetPointerType(t) == <<"ptr", t>>

(* "invalid" where the code meets an INVALID_CODE_PATH or a nullptr.       *)
RECURSIVE CompareTypes(_, _)
CompareTypes(l, r) ==
  LET a == StripPending(l)
      b == StripPending(r)
      all(results) == IF "invalid" \in results THEN "invalid"
                      ELSE IF results \subseteq {"equal"} THEN "equal" ELSE "different"
  IN CASE l = r                              -> "equal"
       [] l # r /\ Nil \in {a, b}            -> "invalid"
       [] l # r /\ Nil \notin {a, b} /\ a[1] # b[1] -> "different"
       [] OTHER ->
            CASE a[1] = "none"               -> "different"
              [] a[1] \in {"null", "struct"} -> "invalid"
              [] a[1] = "ptr"                -> CompareTypes(a[2], b[2])
              [] a[1] = "fn"                 ->
                   IF Len(a[3]) # Len(b[3]) THEN CompareTypes(a[4], b[4])
                   ELSE all({CompareTypes(a[3][k], b[3][k]) : k \in DOMAIN a[3]}
                              \cup {CompareTypes(a[4], b[4])})
              [] OTHER                       -> "equal"

TypesEqual(a, b) == CompareTypes(a, b) = "equal"

-----------------------------------------------------------------------------
(* Sizes and places of values in memory.                                   *)

DataTypeFromType(type) ==
  CASE StripPending(type)[1] \in {"ptr", "null", "string", "struct", "fn"} -> "ptr"
    [] StripPending(type)[1] = "char" -> "u8"
    [] OTHER -> StripPending(type)[1]

Size(dt) == CASE dt \in {"bool", "u8", "s8"}   -> 1
              [] dt \in {"u16", "s16"}         -> 2
              [] dt \in {"u32", "s32", "f32"}  -> 4
              [] dt \in {"u64", "s64", "f64", "ptr"} -> 8

Align(n, to) == ((n + to - 1) \div to) * to

(* ResolvePhysicalTypeInfo: the size, the alignment, the members' offsets. *)
RECURSIVE Layout(_)
Layout(type) ==
  IF ~TypeIsStruct(type)
  THEN [size |-> Size(DataTypeFromType(type)), align |-> Size(DataTypeFromType(type)), offsets |-> <<>>]
  ELSE FoldLeft(LAMBDA all, m :
                  LET l  == Layout(m.type)
                      at == Align(all.size, l.align)
                  IN [size |-> at + l.size, align |-> IF l.align > all.align THEN l.align ELSE all.align,
                      offsets |-> Append(all.offsets, at)],
                [size |-> 0, align |-> 0, offsets |-> <<>>], Members[type])

MemberOffset(type, name) ==
  Layout(type).offsets[CHOOSE k \in DOMAIN Members[type] : Members[type][k].name = name]

ElementSize(pointer) ==
  LET l == Layout(StripPending(pointer)[2]) IN Align(l.size, l.align)

-----------------------------------------------------------------------------
(* Coercion.                                                               *)

Width(t) ==
  LET tag == StripPending(t)[1]
  IN IF TypeIsSigned(t) THEN CHOOSE k \in 1 .. 4 : SignedTypes[k] = tag
     ELSE CHOOSE k \in 1 .. 4 : UnsignedTypes[k] = tag

(* An integer goes to the wider types, and to its own.                     *)
IntegersCoerce(from, to) ==
  IF TypeIsSigned(from) = TypeIsSigned(to) THEN Width(from) <= Width(to)
  ELSE Width(from) < Width(to)

CheckTypeCoercion(f, to) ==
  LET from == StripPending(f)
  IN CASE f = to \/ from = to \/ from \in {None, Nil} -> TRUE
       [] from = Null     -> TypeIsPointer(to)
       [] from[1] = "ptr" -> to[1] = "ptr" /\ TypesEqual(from[2], to[2])
       [] OTHER           -> /\ TypeIsIntegral(from)
                             /\ to[1] \in ToSet(SignedTypes) \cup ToSet(UnsignedTypes)
                             /\ IntegersCoerce(from, to)

-----------------------------------------------------------------------------
(* Results.                                                                *)

(* A tree that was checked starts with its kind and its type.              *)
MakeTypecast(node, type) == <<"cast", type, node>>

CastTo(node, type) == IF node[2] = type THEN node ELSE MakeTypecast(node, type)

R(type, assignable, node, faults) ==
  [type |-> type, assignable |-> assignable, literal |-> Nil, node |-> node, faults |-> faults]

Failed(node, faults) == R(None, FALSE, node, faults \cup {"error"})

ErrorIf(condition) == IF condition THEN {"error"} ELSE {}

-----------------------------------------------------------------------------
(* The leaves.                                                             *)

Narrowest(types, value) ==
  <<SelectSeq(types, LAMBDA t : value <= MaxInt[t] \/ t = types[Len(types)])[1]>>

(* `wanted' says whether the caller passes an Int_Lit_Info: without one,   *)
(* what is too great for an s32 has it written and read through nullptr.   *)
GetSignedIntLiteralType(value, wanted) ==
  LET small == value <= MaxInt["s32"]
      fits  == IF value > MaxInt["s64"] THEN <<"u64">> ELSE Narrowest(SignedTypes, value)
      type  == IF small THEN S32 ELSE fits
  IN [R(type, FALSE, <<"lit", type, value>>, IF small \/ wanted THEN {} ELSE {"stop"})
        EXCEPT !.literal = IF wanted THEN fits ELSE Nil]

GetUnsignedIntLiteralType(value, wanted) ==
  LET type == IF value <= MaxInt["u32"] THEN <<"u32">> ELSE <<"u64">>
  IN [R(type, FALSE, <<"lit", type, value>>, {})
        EXCEPT !.literal = IF wanted THEN Narrowest(UnsignedTypes, value) ELSE Nil]

(* <<"lit", kind, value>>; the kinds but the two above are types.          *)
CheckLiteral(e, wanted) ==
  CASE e[2] = "int"  -> GetSignedIntLiteralType(e[3], wanted)
    [] e[2] = "uint" -> GetUnsignedIntLiteralType(e[3], wanted)
    [] OTHER         -> R(<<e[2]>>, FALSE, <<"lit", <<e[2]>>, e[3]>>, {})

(* A variable, or the first function of the name.                          *)
CheckVariableRef(e, vars) ==
  CASE e[2] \in DOMAIN vars ->
         R(vars[e[2]], TRUE, <<"var", vars[e[2]], e[2], 0>>, {})
    [] e[2] \notin DOMAIN vars /\ e[2] \in DOMAIN Overloads ->
         R(Overloads[e[2]][1], TRUE, <<"var", Overloads[e[2]][1], e[2], 1>>, {})
    [] OTHER -> R(None, TRUE, <<"var", None, e[2], 0>>, {"error"})

-----------------------------------------------------------------------------
(* Function calls.                                                         *)

(* -1 if the arguments do not fit.                                         *)
ArgumentScore(arg, param) ==
  CASE TypesEqual(arg, param) -> 3
    [] ~TypesEqual(arg, param) /\ CheckTypeCoercion(arg, param) ->
         IF TypeIsIntegral(arg) /\ TypeIsIntegral(param)
         THEN IF TypeIsSigned(arg) = TypeIsSigned(param) THEN 2 ELSE 0
         ELSE 1
    [] OTHER -> -1

CheckFunctionArgs(ftype, args) ==
  LET scores == [k \in DOMAIN args |-> ArgumentScore(args[k], ftype[3][k])]
  IN IF Len(ftype[3]) # Len(args) \/ -1 \in ToSet(scores) THEN -1
     ELSE FoldLeft(LAMBDA a, b : a + b, 0, scores)

(* The first of the overloads with the best score, and whether a later one *)
(* has the same; a score of nothing is never ambiguous.                    *)
Better(best, k, score) ==
  CASE score > best.score -> [score |-> score, index |-> k, ambiguous |-> FALSE]
    [] score > 0 /\ score = best.score -> [best EXCEPT !.ambiguous = TRUE]
    [] OTHER -> best

BestOverload(overloads, args) ==
  FoldLeft(LAMBDA best, k : Better(best, k, CheckFunctionArgs(overloads[k], args)),
           [score |-> -1, index |-> 0, ambiguous |-> FALSE],
           [k \in DOMAIN overloads |-> k])

CoerceFunctionArgs(ftype, nodes) ==
  [k \in DOMAIN nodes |->
     IF TypesEqual(nodes[k][2], ftype[3][k]) THEN nodes[k]
     ELSE MakeTypecast(nodes[k], ftype[3][k])]

CallTree(type, callee, nodes) == <<"call", type, callee, nodes>>

CallOverload(node, best, nodes, faults) ==
  LET ftype == Overloads[node[3]][best.index]
  IN IF best.index = 0 THEN Failed(CallTree(None, node, nodes), faults)
     ELSE R(ftype[4], FALSE,
            CallTree(ftype[4], <<"var", ftype, node[3], best.index>>,
                     IF best.ambiguous THEN nodes ELSE CoerceFunctionArgs(ftype, nodes)),
            faults \cup ErrorIf(best.ambiguous))

(* The call of a name picks an overload; another callee has one type, and  *)
(* its arguments are compared with it but not converted.                   *)
CheckCall(callee, args) ==
  LET types  == [k \in DOMAIN args |-> args[k].type]
      nodes  == [k \in DOMAIN args |-> args[k].node]
      faults == UNION {args[k].faults : k \in DOMAIN args} \cup callee.faults
      node   == callee.node
      byName == node[1] = "var" /\ node[4] > 0
  IN CASE None \in ToSet(types) \cup {callee.type} ->
            R(None, FALSE, CallTree(None, node, nodes), faults)
       [] None \notin ToSet(types) \cup {callee.type} /\ callee.type[1] # "fn" ->
            Failed(CallTree(None, node, nodes), faults)
       [] OTHER ->
            IF byName THEN CallOverload(node, BestOverload(Overloads[node[3]], types), nodes, faults)
            ELSE IF CheckFunctionArgs(callee.type, types) < 0
            THEN Failed(CallTree(None, node, nodes), faults)
            ELSE R(callee.type[4], FALSE, CallTree(callee.type[4], node, nodes), faults)

=============================================================================
