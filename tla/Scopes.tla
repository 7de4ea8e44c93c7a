-------------------------------- MODULE Scopes --------------------------------
(***************************************************************************)
(* The scopes of the semantic check and the inference of return types: the *)
(* Environment of src/src/symbols.cpp as the statements of                 *)
(* src/src/semantic_check.cpp drive it.                                    *)
(*                                                                         *)
(* A program is what the actions choose: the statements of functions in    *)
(* any nesting, with the modules that import one another.  A function with *)
(* no declared return type has a pending type, a cell that the first       *)
(* suitable return statement fills.  An expression whose type is pending   *)
(* and empty is set aside with its scope, and checked again when the       *)
(* module's statements are done.                                           *)
(***************************************************************************)
EXTENDS Naturals, Sequences

CONSTANTS
  Names,        \* names of variables and parameters
  Functions,    \* names of functions
  Declared,     \* return types declared, None for a function without one
  None,         \* the null pointer
  MaxScopes,    \* bound on the scopes a program opens
  MaxReturns,   \* bound on its return statements
  MaxPending,   \* bound on the expressions set aside
  MaxModules,   \* bound on the modules compiled
  MaxRounds,    \* rounds of the pending loop, 10 in Check
  MaxErrors     \* options.max_error_count

Value == {"null", "ptr", "int", "long"}    \* types of a returned expression
Type  == Value \cup {"void"}

(* The null pointer is no type and no statement; there is a root scope.    *)
ASSUME ConstantAssumption ==
  /\ Declared \subseteq Type \cup {None}
  /\ None \notin Type \cup {"here"}
  /\ MaxScopes \in Nat \ {0}
  /\ {MaxReturns, MaxPending, MaxModules, MaxRounds, MaxErrors} \subseteq Nat

VARIABLES
  scopes,       \* Environment::scopes; 1 is the root
  current,      \* Environment::current
  cells,        \* the return types: declared, or pending with a base or none
  errors,       \* the errors reported, in order
  modules,      \* the modules being checked, the innermost last
  loaded,       \* the number of modules compiled so far
  nest,         \* ghost: the scopes of the open constructs, innermost last
  returned,     \* ghost: the returns of the open function that were accepted
  returns,      \* ghost: the return statements of the open function
  verdict       \* ghost: what the last function was given

vars == <<scopes, current, cells, errors, modules, loaded, nest, returned, returns, verdict>>

-----------------------------------------------------------------------------

RootScope ==
  [parent |-> 0, table |-> {}, function |-> FALSE, return_type |-> 0,
   rt_infer_loc |-> None, return_stmt_count |-> 0]

NewModule == [pending |-> <<>>, round |-> 0, queue |-> <<>>, phase |-> "statements"]

Module == modules[Len(modules)]
InModule(m) == modules' = [modules EXCEPT ![Len(modules)] = m]

ContinueChecking == Len(errors) < MaxErrors

Report(kinds) == errors' = errors \o kinds

(* LookupSymbol: the scope of the symbol found from scope s, 0 for none.   *)
Lookup(ss, s, n) ==
  LET From[t \in 0 .. MaxScopes] ==
        IF t = 0 \/ t \notin DOMAIN ss THEN 0
        ELSE IF n \in ss[t].table THEN t
        ELSE From[ss[t].parent]
  IN From[s]

ReturnType == cells[scopes[current].return_type]

(* The type a return type stands for, None while it is pending and empty.  *)
Base(c) == cells[c].base

(* Faulty variant: the scope does not learn the function's return type.    *)
OpenedBare(c, ss) ==
  Append(ss, [RootScope EXCEPT !.parent = c])

(* OpenScope on the scopes ss with current scope c: the result.  The new   *)
(* scope is the last one.                                                  *)
Opened(c, ss) ==
  Append(ss, [RootScope EXCEPT
                !.parent = c,
                !.return_type = ss[c].return_type,
                !.rt_infer_loc = ss[c].rt_infer_loc])

(* Faulty variant: the place of the inference is not handed to the parent. *)
ClosedForgets(c, ss) ==
  [ss EXCEPT ![ss[c].parent].return_stmt_count = ss[c].return_stmt_count]

(* CloseScope: what it hands to the parent.                                *)
Closed(c, ss) ==
  LET p == ss[c].parent
  IN [ss EXCEPT
        ![p].return_type  = IF ss[c].return_type # 0 THEN ss[c].return_type ELSE @,
        ![p].rt_infer_loc = IF ss[c].return_type # 0 THEN ss[c].rt_infer_loc ELSE @,
        ![p].return_stmt_count = ss[c].return_stmt_count]

(* InferReturnType at statement `loc'.                                     *)
Infer(c, type) == cells' = [cells EXCEPT ![c].base = type]

-----------------------------------------------------------------------------

Init ==
  /\ scopes = <<RootScope>>
  /\ current = 1
  /\ cells = <<>>
  /\ errors = <<>>
  /\ modules = <<NewModule>>
  /\ loaded = 1
  /\ nest = <<>>
  /\ returned = {}
  /\ returns = 0
  /\ verdict = [pending |-> FALSE, base |-> "void", returns |-> 0, types |-> {}]

AtTopLevel  == Module.phase = "statements" /\ nest = <<>> /\ ContinueChecking
InBlock     == nest # <<>> /\ Len(nest) > 1
AtStatement == InBlock /\ ContinueChecking

(* CheckFunction up to the statements of the body: AddFunction in the      *)
(* current scope, OpenFunctionScope, the parameters, and the scope of the  *)
(* block that is the body.                                                 *)
EnterFunction(f, parameters, declared) ==
  LET type   == IF declared = None THEN [pending |-> TRUE, base |-> None]
                                   ELSE [pending |-> FALSE, base |-> declared]
      cell   == Len(cells) + 1
      added  == [scopes EXCEPT ![current].table = @ \cup {f}]
      opened == [Opened(current, added) EXCEPT
                   ![Len(scopes) + 1].function = TRUE,
                   ![Len(scopes) + 1].table = parameters,
                   ![Len(scopes) + 1].return_type = cell,
                   ![Len(scopes) + 1].rt_infer_loc = None]
  IN /\ AtTopLevel
     /\ Len(scopes) + 2 <= MaxScopes
     /\ cells' = Append(cells, type)
     /\ scopes' = Opened(Len(scopes) + 1, opened)
     /\ current' = Len(scopes) + 2
     /\ nest' = <<Len(scopes) + 1, Len(scopes) + 2>>
     /\ returned' = {}
     /\ returns' = 0
     /\ UNCHANGED <<errors, modules, loaded, verdict>>

(* A block, or the scope CheckForStatement opens for its variable.         *)
OpenScope ==
  /\ AtStatement
  /\ Len(scopes) < MaxScopes
  /\ scopes' = Opened(current, scopes)
  /\ current' = Len(scopes) + 1
  /\ nest' = Append(nest, Len(scopes) + 1)
  /\ UNCHANGED <<cells, errors, modules, loaded, returned, returns, verdict>>

(* Faulty variant: the check goes on in the function's scope.              *)
CloseToFunction ==
  /\ InBlock
  /\ scopes' = Closed(current, scopes)
  /\ current' = nest[1]
  /\ nest' = SubSeq(nest, 1, Len(nest) - 1)
  /\ UNCHANGED <<cells, errors, modules, loaded, returned, returns, verdict>>

CloseScope ==
  /\ InBlock
  /\ scopes' = Closed(current, scopes)
  /\ current' = scopes[current].parent
  /\ nest' = SubSeq(nest, 1, Len(nest) - 1)
  /\ UNCHANGED <<cells, errors, modules, loaded, returned, returns, verdict>>

(* CheckVariableDecl of one name: an earlier declaration in the scope and  *)
(* a parameter of the name are errors, and the symbol is added all the     *)
(* same.                                                                   *)
Declare(n) ==
  LET old == Lookup(scopes, current, n)
  IN /\ AtStatement \/ AtTopLevel
     /\ Report(IF old = current THEN <<"declared earlier">>
               ELSE IF old # 0 /\ scopes[old].function THEN <<"shadows parameter">>
               ELSE <<>>)
     /\ scopes' = [scopes EXCEPT ![current].table = @ \cup {n}]
     /\ UNCHANGED <<current, cells, modules, loaded, nest, returned, returns, verdict>>

(* CheckExpression of a call of the function itself with argument n: its   *)
(* type is the return type, and is set aside while that is empty.          *)
SetAside(n) ==
  IF Base(scopes[current].return_type) = None
    THEN InModule([Module EXCEPT
           !.pending = Append(@, [name |-> n, scope |-> current,
                                  binding |-> Lookup(scopes, current, n)])])
    ELSE UNCHANGED modules

CallSelf(n) ==
  /\ AtStatement
  /\ Lookup(scopes, current, n) # 0
  /\ Len(Module.pending) < MaxPending
  /\ SetAside(n)
  /\ UNCHANGED <<scopes, current, cells, errors, loaded, nest, returned, returns, verdict>>

(* IncReturnStatements, and the place of the inference if it happens here. *)
CountReturn(inferred) ==
  scopes' = [scopes EXCEPT ![current].return_stmt_count = @ + 1,
                           ![current].rt_infer_loc = IF inferred THEN "here" ELSE @]

Accept(type) == returned' = returned \cup {type}

Reject(kind) == Report(<<kind>>) /\ UNCHANGED returned

(* The tags CheckTypeCoercion looks at are those of the return type itself *)
(* and not of what a pending type stands for, so that numbers are coerced  *)
(* to declared types only.                                                 *)
CoercesTo(type, r) ==
  \/ <<type, r.base>> = <<"null", "ptr">>
  \/ ~ r.pending /\ <<type, r.base>> = <<"int", "long">>

(* MakeTypecast(ctx, expr, type): the type of the expression returned.     *)
Cast(type, r) == type

(* `Infer only, if there was no dependency', and not from null.            *)
Infers(type) == type # "null"

(* Faulty variant: a pending type is filled again.                         *)
FillsAgain(r) == r.pending

IsEmpty(r) == r.pending /\ r.base = None

(* CheckReturnStatement without an expression.                             *)
ReturnNothing ==
  LET r == ReturnType
      infers == IsEmpty(r)
  IN /\ AtStatement
     /\ returns < MaxReturns
     /\ returns' = returns + 1
     /\ CountReturn(infers)
     /\ IF infers
          THEN /\ Infer(scopes[current].return_type, "void")
               /\ Accept("void")
               /\ UNCHANGED errors
          ELSE /\ UNCHANGED cells
               /\ IF r.base = "void" THEN Accept("void") /\ UNCHANGED errors
                                     ELSE Reject("return value expected")
     /\ UNCHANGED <<current, modules, loaded, nest, verdict>>

(* CheckReturnStatement with an expression of a type of its own.           *)
ReturnValue(type) ==
  LET r == ReturnType
      infers == IsEmpty(r) /\ Infers(type)
  IN /\ AtStatement
     /\ returns < MaxReturns
     /\ returns' = returns + 1
     /\ CountReturn(infers)
     /\ IF infers THEN Infer(scopes[current].return_type, type) ELSE UNCHANGED cells
     /\ IF IsEmpty(r) \/ type = r.base
          THEN Accept(type) /\ UNCHANGED errors
          ELSE IF CoercesTo(type, r)
          THEN Accept(Cast(type, r)) /\ UNCHANGED errors
          ELSE Reject("return type mismatch")
     /\ UNCHANGED <<current, modules, loaded, nest, verdict>>

(* CheckReturnStatement of a call of the function itself.                  *)
ReturnSelf(n) ==
  /\ AtStatement
  /\ Lookup(scopes, current, n) # 0
  /\ returns < MaxReturns
  /\ Len(Module.pending) < MaxPending
  /\ returns' = returns + 1
  /\ CountReturn(FALSE)
  /\ SetAside(n)
  /\ UNCHANGED <<current, cells, errors, loaded, nest, returned, verdict>>

(* The end of CheckFunction: CloseFunctionScope fills a pending type with  *)
(* void when the scope counted no return statement.                        *)
LeaveFunction ==
  LET scope == scopes[current]
      count == scope.return_stmt_count
      r     == ReturnType
      base  == IF r.pending /\ count = 0 THEN "void" ELSE r.base
  IN /\ Len(nest) = 1
     /\ Infer(scope.return_type, base)
     /\ current' = scope.parent
     /\ nest' = <<>>
     /\ Report((IF base # "void" /\ count = 0 THEN <<"no return statements">> ELSE <<>>)
               \o (IF base = None THEN <<"could not infer">>
                   ELSE IF base = "null" THEN <<"inferred from null">> ELSE <<>>))
     /\ verdict' = [pending |-> r.pending, base |-> base, returns |-> returns,
                    types |-> returned]
     /\ UNCHANGED <<scopes, modules, loaded, returned, returns>>

(* CheckImport: CompileModule checks the module before the next statement. *)
Import ==
  /\ AtTopLevel
  /\ loaded < MaxModules
  /\ loaded' = loaded + 1
  /\ modules' = Append(modules, NewModule)
  /\ UNCHANGED <<scopes, current, cells, errors, nest, returned, returns, verdict>>

(* The end of the loop over the top level statements.                      *)
StatementsDone ==
  /\ Module.phase = "statements"
  /\ nest = <<>>
  /\ InModule([Module EXCEPT !.phase = "pending"])
  /\ UNCHANGED <<scopes, current, cells, errors, loaded, nest, returned, returns, verdict>>

(* Faulty variant: the rounds are not counted.                             *)
PendingRoundUncounted ==
  /\ Module.phase = "pending"
  /\ Module.queue = <<>>
  /\ Module.pending # <<>>
  /\ Module.round < MaxRounds
  /\ InModule([Module EXCEPT !.queue = Module.pending, !.pending = <<>>])
  /\ UNCHANGED <<scopes, current, cells, errors, loaded, nest, returned, returns, verdict>>

(* A round of the pending loop begins.                                     *)
PendingRound ==
  /\ Module.phase = "pending"
  /\ Module.queue = <<>>
  /\ Module.pending # <<>>
  /\ Module.round < MaxRounds
  /\ InModule([Module EXCEPT !.queue = Module.pending, !.pending = <<>>,
                             !.round = @ + 1])
  /\ UNCHANGED <<scopes, current, cells, errors, loaded, nest, returned, returns, verdict>>

(* Faulty variant: the expression is checked in whatever scope is current. *)
RecheckInPlace ==
  LET pe == Head(Module.queue)
      r  == Base(scopes[pe.scope].return_type)
  IN /\ Module.phase = "pending"
     /\ Module.queue # <<>>
     /\ InModule([Module EXCEPT
          !.queue = Tail(@),
          !.pending = IF r = None
                      THEN Append(@, [pe EXCEPT !.binding = Lookup(scopes, current, pe.name)])
                      ELSE @])
     /\ UNCHANGED <<scopes, current, cells, errors, loaded, nest, returned, returns, verdict>>

(* An expression is checked again in its scope, which stays the current    *)
(* one; its names are looked up afresh.  It is set aside once more when    *)
(* the return type is still empty.                                         *)
Recheck ==
  LET pe == Head(Module.queue)
      r  == Base(scopes[pe.scope].return_type)
  IN /\ Module.phase = "pending"
     /\ Module.queue # <<>>
     /\ current' = pe.scope
     /\ InModule([Module EXCEPT
          !.queue = Tail(@),
          !.pending = IF r = None
                      THEN Append(@, [pe EXCEPT !.binding = Lookup(scopes, pe.scope, pe.name)])
                      ELSE @])
     /\ UNCHANGED <<scopes, cells, errors, loaded, nest, returned, returns, verdict>>

(* The end of Check; an importer goes on with its next statement.          *)
CheckDone ==
  /\ Module.phase = "pending"
  /\ Module.queue = <<>>
  /\ Module.pending = <<>> \/ Module.round = MaxRounds
  /\ Report(IF Module.pending # <<>> THEN <<"could not infer the expression">> ELSE <<>>)
  /\ modules' = IF Len(modules) > 1 THEN SubSeq(modules, 1, Len(modules) - 1)
                ELSE <<[Module EXCEPT !.phase = "done"]>>
  /\ UNCHANGED <<scopes, current, cells, loaded, nest, returned, returns, verdict>>

PendingLoop == PendingRound \/ Recheck \/ CheckDone

Next ==
  \/ \E f \in Functions, parameters \in SUBSET Names, declared \in Declared :
        EnterFunction(f, parameters, declared)
  \/ OpenScope
  \/ CloseScope
  \/ \E n \in Names : Declare(n) \/ CallSelf(n) \/ ReturnSelf(n)
  \/ ReturnNothing
  \/ \E type \in Value : ReturnValue(type)
  \/ LeaveFunction
  \/ Import
  \/ StatementsDone
  \/ PendingLoop

(* The check is one thread: while it runs it takes its next step.          *)
Spec == Init /\ [][Next]_vars /\ WF_vars(PendingLoop)

-----------------------------------------------------------------------------

(* Every variable has its type.                                            *)
TypeOK ==
  /\ \A s \in DOMAIN scopes :
        /\ scopes[s].parent \in 0 .. s - 1
        /\ scopes[s].table \subseteq Names \cup Functions
        /\ scopes[s].return_type \in 0 .. Len(cells)
        /\ scopes[s].return_stmt_count \in 0 .. MaxReturns
  /\ current \in DOMAIN scopes
  /\ \A c \in DOMAIN cells :
        /\ cells[c].base \in Type \cup {None}
        /\ ~ cells[c].pending => cells[c].base # None
  /\ returned \subseteq Type
  /\ \A m \in DOMAIN modules : modules[m].phase \in {"statements", "pending", "done"}

(* Names are looked up lexically: while statements are checked, the scopes *)
(* on the way from the current one to the root are those of the constructs *)
(* that are open, in their order, and no other.                            *)
Path(ss, s) ==
  LET To[t \in 0 .. MaxScopes] ==
        IF t = 0 \/ t \notin DOMAIN ss THEN <<>> ELSE Append(To[ss[t].parent], t)
  IN To[s]

LookupIsLexical ==
  loaded = 1 /\ Module.phase = "statements" => Path(scopes, current) = <<1>> \o nest

(* A return statement fills the cell of the function it stands in, at      *)
(* whatever depth: all open scopes of a function have its return type.     *)
ReturnTypeShared ==
  \A i \in DOMAIN nest : scopes[nest[i]].return_type = Len(cells)

(* Once a return statement has filled the cell, the place of that          *)
(* statement is known wherever the check stands: LeaveFunction reads the   *)
(* location through it, and the mismatch message shows it.                 *)
InferLocKnown ==
  nest # <<>> /\ ReturnType.pending /\ ReturnType.base # None
    => scopes[current].rt_infer_loc # None

(* All the values a function was allowed to return have its return type or *)
(* one that is coerced to it.  (A null that comes before the inference is  *)
(* not looked at again.)                                                   *)
ReturnsFit ==
  nest # <<>> /\ ReturnType.base # None =>
    \A t \in returned \ {"null"} : t = ReturnType.base \/ CoercesTo(t, ReturnType)

(* An expression that is checked again finds its names: what was bound     *)
(* when it was set aside is bound in its scope for good, at the same or a  *)
(* nearer declaration.                                                     *)
PendingStaysBound ==
  \A m \in DOMAIN modules :
    \A i \in DOMAIN modules[m].pending :
      LET pe == modules[m].pending[i]
      IN pe.binding # 0 /\ pe.binding <= Lookup(scopes, pe.scope, pe.name)

(* The pending loop ends although an expression checked again can be set   *)
(* aside again.                                                            *)
CheckEnds == (Module.phase = "pending") ~> (Module.phase # "pending")

(* `Infer return type to be void, if no return statements were             *)
(* encountered': a function that has return statements is given void by a  *)
(* return statement without a value, or not at all.                        *)
VoidOnlyWithoutReturns ==
  verdict.pending /\ verdict.base = "void" /\ verdict.returns > 0
    => "void" \in verdict.types
=============================================================================
