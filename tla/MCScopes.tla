------------------------------ MODULE MCScopes ------------------------------
(* Scopes for TLC: every program within the bounds of the configuration.   *)
EXTENDS Scopes

CONSTANTS x, f

MCFunctions == {f}
OneName  == {x}

(* A function without a return type, with a number and with nothing.       *)
AllDeclared  == {None, "long", "void"}
OnlyInferred == {None}
=============================================================================
