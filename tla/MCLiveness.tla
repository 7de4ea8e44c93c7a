----------------------------- MODULE MCLiveness -----------------------------
(* Liveness on every list of three instructions over two registers between *)
(* a label and the return label: straight code, branches forward, loops    *)
(* back to the first label, labels in a row and unreachable code.          *)
EXTENDS Liveness

CONSTANTS x, y, l1, l2, ret

MCName  == {x, y}
MCLabel == {l1, l2, ret}

Plain(reads, writes, bases) ==
  [op |-> "other", label |-> NoLabel, reads |-> reads, writes |-> writes, bases |-> bases,
   uses |-> {}]
Control(op, l, reads) ==
  [op |-> op, label |-> l, reads |-> reads, writes |-> {}, bases |-> {},
   uses |-> {}]

Menu ==
  {Plain({}, {x}, {}), Plain({x}, {}, {}), Plain({x}, {x}, {}),
   Plain({x}, {y}, {}), Plain({y}, {x}, {}), Plain({y}, {}, {x}),
   Control("LABEL", l2, {}), Control("jmp", l1, {}), Control("jmp", ret, {}),
   Control("jmp", l2, {}), Control("jcc", l1, {}), Control("jcc", l2, {}),
   Control("jcc", ret, {})}

(* Every label is emitted at most once, and where a jump needs it.         *)
WellFormed(body) ==
  LET at(l) == {k \in DOMAIN body : IsLabel(body[k]) /\ body[k].label = l}
  IN /\ Cardinality(at(l2)) <= 1
     /\ (\E k \in DOMAIN body : Branches(body[k]) /\ body[k].label = l2) => at(l2) # {}

Bodies(n) == {body \in [1 .. n -> Menu] : WellFormed(body)}

Whole(body) == <<Control("LABEL", l1, {})>> \o body \o <<Control("LABEL", ret, {})>>

(* The first instruction reads nothing that is not an argument.            *)
Defined(r) == Uses(r.code[1]) \subseteq r.args

MCRoutines ==
  {r \in {[code |-> Whole(body), args |-> a] : body \in Bodies(3), a \in {{}, {x}}}
         \cup {[code |-> body \o <<Control("LABEL", ret, {})>>, args |-> {x}] :
                 body \in {b \in Bodies(3) : ~ \E k \in DOMAIN b : b[k].label = l1}}
     : Defined(r)}

=============================================================================
