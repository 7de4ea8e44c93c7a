----------------------------- MODULE ScopesProofs -----------------------------
(***************************************************************************)
(* Proofs about Scopes, for any names, functions and declared types and    *)
(* any bounds on the program: the scopes of the open constructs form the   *)
(* chain that names are looked up along, they share the cell of their      *)
(* function, and what a function returns agrees with what is in it.        *)
(***************************************************************************)
EXTENDS Scopes, Lemmas, SequenceTheorems

Scope ==
  [parent : Nat, table : SUBSET (Names \cup Functions), function : BOOLEAN,
   return_type : Nat, rt_infer_loc : {None, "here"}, return_stmt_count : 0 .. MaxReturns]

Cell == [pending : BOOLEAN, base : Type \cup {None}]

PendingExpr == [name : Names, scope : Nat, binding : Nat]

ModuleState ==
  [pending : Seq(PendingExpr), round : Nat, queue : Seq(PendingExpr),
   phase : {"statements", "pending", "done"}]

(* The types of the variables; parents come before their children and only *)
(* the root has none.                                                      *)
ScopesShape(ss, cs) ==
  /\ ss \in Seq(Scope)
  /\ Len(ss) \in 1 .. MaxScopes
  /\ ss[1].parent = 0
  /\ \A s \in 2 .. Len(ss) : ss[s].parent \in 1 .. s - 1
  /\ \A s \in DOMAIN ss : ss[s].return_type \in 0 .. Len(cs)

CellsShape(cs) ==
  /\ cs \in Seq(Cell)
  /\ \A c \in DOMAIN cs : cs[c].base = None => cs[c].pending

(* Scopes are only added, and names are only added to their tables.        *)
Grows(ss, rs) ==
  /\ Len(ss) <= Len(rs)
  /\ \A t \in DOMAIN ss : rs[t].parent = ss[t].parent /\ ss[t].table \subseteq rs[t].table

(* An expression set aside has its scope, and its name is bound there.     *)
Bound(pe, ss) ==
  /\ pe.scope \in DOMAIN ss
  /\ pe.binding # 0
  /\ pe.binding <= Lookup(ss, pe.scope, pe.name)

ModulesShape(ms, ld, ss) ==
  /\ ms \in Seq(ModuleState)
  /\ ms # <<>>
  /\ ld \in Nat
  /\ Len(ms) <= ld
  /\ \A m \in DOMAIN ms :
       /\ \A i \in DOMAIN ms[m].pending : Bound(ms[m].pending[i], ss)
       /\ \A i \in DOMAIN ms[m].queue : Bound(ms[m].queue[i], ss)

Shape ==
  /\ ScopesShape(scopes, cells)
  /\ CellsShape(cells)
  /\ ModulesShape(modules, loaded, scopes)
  /\ current \in DOMAIN scopes
  /\ nest \in Seq(Nat)
  /\ returned \subseteq Type
  /\ returns \in 0 .. MaxReturns

(* While a function is open the check is at its statements, in the         *)
(* innermost of its scopes; each of them is the parent of the next, has    *)
(* the newest cell, and counts no more returns than there were.            *)
NestedIn(ns, ss, k, count) ==
  \A i \in DOMAIN ns :
    /\ ns[i] \in 2 .. Len(ss)
    /\ ss[ns[i]].return_type = k
    /\ ss[ns[i]].return_stmt_count <= count
    /\ i > 1 => ss[ns[i]].parent = ns[i - 1]

Nested ==
  /\ nest # <<>> =>
       /\ Module.phase = "statements"
       /\ current = nest[Len(nest)]
       /\ Len(cells) >= 1
  /\ NestedIn(nest, scopes, Len(cells), returns)

(* The innermost scope knows where the cell was filled; before that only   *)
(* null was returned, and what was returned fits what is in the cell.      *)
Inference ==
  LET r == cells[Len(cells)]
  IN nest # <<>> =>
       /\ r.pending /\ r.base # None => scopes[current].rt_infer_loc # None
       /\ r.base = None => returned \subseteq {"null"}
       /\ r.base # None => \A t \in returned \ {"null"} : t = r.base \/ CoercesTo(t, r)

(* In a program of one module a function stands in the root scope.         *)
Lexical ==
  loaded = 1 /\ Module.phase = "statements" =>
    IF nest = <<>> THEN current = 1 ELSE scopes[nest[1]].parent = 1

IInv == Shape /\ Nested /\ Inference /\ Lexical

-----------------------------------------------------------------------------
(* What the operations on the list of scopes do.                           *)

(* The root scope is a scope.                                              *)
LEMMA RootIsScope == RootScope \in Scope
BY ConstantAssumption DEF RootScope, Scope

(* OpenScope adds a child of the current scope that knows its return type. *)
LEMMA OpenedShape ==
  ASSUME NEW cs \in Seq(Cell), NEW ss, ScopesShape(ss, cs), Len(ss) < MaxScopes,
         NEW c \in DOMAIN ss
  PROVE  LET os == Opened(c, ss)
         IN  /\ ScopesShape(os, cs)
             /\ Grows(ss, os)
             /\ Len(os) = Len(ss) + 1
             /\ \A s \in DOMAIN ss : os[s] = ss[s]
             /\ os[Len(ss) + 1].parent = c
             /\ os[Len(ss) + 1].return_type = ss[c].return_type
             /\ os[Len(ss) + 1].rt_infer_loc = ss[c].rt_infer_loc
             /\ os[Len(ss) + 1].return_stmt_count = 0
<1> DEFINE new == [RootScope EXCEPT !.parent = c,
                                    !.return_type = ss[c].return_type,
                                    !.rt_infer_loc = ss[c].rt_infer_loc]
           os == Opened(c, ss)
<1>0. /\ ss \in Seq(Scope) /\ Len(ss) \in Nat \ {0} /\ DOMAIN ss = 1 .. Len(ss)
      /\ MaxScopes \in Nat /\ Len(cs) \in Nat
      /\ ss[c].return_type \in 0 .. Len(cs)
  BY ConstantAssumption DEF ScopesShape
<1>1. /\ ss[c] \in Scope /\ c \in 1 .. Len(ss) /\ c \in Nat
      /\ ss[c].return_type \in Nat
      /\ ss[c].rt_infer_loc \in {None, "here"}
  <2>1. ss[c] \in Scope
    BY <1>0
  <2>. QED  BY <1>0, <2>1 DEF Scope
<1>2. /\ new \in Scope /\ new.parent = c
      /\ new.return_type = ss[c].return_type
      /\ new.rt_infer_loc = ss[c].rt_infer_loc
      /\ new.return_stmt_count = 0
  <2>1. RootScope \in Scope /\ RootScope.return_stmt_count = 0
    BY RootIsScope DEF RootScope
  <2>. QED  BY <1>1, <2>1 DEF Scope
<1>3. os = Append(ss, new)
  BY DEF Opened
<1>. HIDE DEF new, os
<1>4. /\ os \in Seq(Scope) /\ Len(os) = Len(ss) + 1
      /\ \A s \in DOMAIN ss : os[s] = ss[s]
      /\ os[Len(ss) + 1] = new
      /\ DOMAIN os = 1 .. Len(ss) + 1
  BY <1>0, <1>2, <1>3
<1>5. ScopesShape(os, cs)
  <2>1. ASSUME NEW s \in 2 .. Len(os)
        PROVE  os[s].parent \in 1 .. s - 1
    <3>1. CASE s = Len(ss) + 1
      BY <1>0, <1>1, <1>2, <1>4, <3>1
    <3>2. CASE s # Len(ss) + 1
      <4>1. s \in 2 .. Len(ss) /\ s \in DOMAIN ss
        BY <1>0, <1>4, <3>2
      <4>. QED  BY <1>4, <4>1 DEF ScopesShape
    <3>. QED  BY <3>1, <3>2
  <2>2. ASSUME NEW s \in DOMAIN os
        PROVE  os[s].return_type \in 0 .. Len(cs)
    BY <1>0, <1>2, <1>4, SMTT(30) DEF ScopesShape
  <2>3. os[1].parent = 0 /\ Len(os) \in 1 .. MaxScopes
    BY <1>0, <1>4, SMTT(30) DEF ScopesShape
  <2>. QED  BY <1>4, <2>1, <2>2, <2>3 DEF ScopesShape
<1>6. Grows(ss, os)
  BY <1>0, <1>4 DEF Grows
<1>. QED  BY <1>2, <1>4, <1>5, <1>6 DEF os

(* A scope replaced by one with the same parent and no smaller table.      *)
LEMMA ReplacedShape ==
  ASSUME NEW cs \in Seq(Cell), NEW ss, ScopesShape(ss, cs), NEW c \in DOMAIN ss,
         NEW new \in Scope, new.parent = ss[c].parent, new.return_type \in 0 .. Len(cs),
         ss[c].table \subseteq new.table
  PROVE  /\ ScopesShape([ss EXCEPT ![c] = new], cs)
         /\ Grows(ss, [ss EXCEPT ![c] = new])
         /\ Len([ss EXCEPT ![c] = new]) = Len(ss)
         /\ DOMAIN [ss EXCEPT ![c] = new] = DOMAIN ss
         /\ \A s \in DOMAIN ss : [ss EXCEPT ![c] = new][s] = IF s = c THEN new ELSE ss[s]
<1> DEFINE rs == [ss EXCEPT ![c] = new]
<1>1. ss \in Seq(Scope) /\ Len(ss) \in Nat \ {0} /\ DOMAIN ss = 1 .. Len(ss)
  BY DEF ScopesShape
<1>2. /\ rs \in Seq(Scope) /\ Len(rs) = Len(ss) /\ DOMAIN rs = DOMAIN ss
      /\ \A s \in DOMAIN ss : rs[s] = IF s = c THEN new ELSE ss[s]
  BY <1>1
<1>. HIDE DEF rs
<1>3. ScopesShape(rs, cs)
  <2>1. \A s \in 1 .. Len(ss) : rs[s].parent = ss[s].parent
    BY <1>1, <1>2
  <2>2. \A s \in DOMAIN rs : rs[s].return_type \in 0 .. Len(cs)
    BY <1>1, <1>2 DEF ScopesShape
  <2>3. \A s \in 2 .. Len(rs) : rs[s].parent \in 1 .. s - 1
    BY <1>1, <1>2, <2>1 DEF ScopesShape
  <2>. QED  BY <1>1, <1>2, <2>1, <2>2, <2>3 DEF ScopesShape
<1>4. Grows(ss, rs)
  BY <1>1, <1>2 DEF Grows
<1>. QED  BY <1>2, <1>3, <1>4 DEF rs

(* CloseScope changes the parent only: what it is told of the return type. *)
LEMMA ClosedShape ==
  ASSUME NEW cs \in Seq(Cell), NEW ss, ScopesShape(ss, cs), NEW c \in DOMAIN ss,
         NEW p \in DOMAIN ss, ss[c].parent = p
  PROVE  LET rs == Closed(c, ss)
         IN  /\ ScopesShape(rs, cs)
             /\ Grows(ss, rs)
             /\ Len(rs) = Len(ss)
             /\ \A s \in DOMAIN ss \ {p} : rs[s] = ss[s]
             /\ rs[p].parent = ss[p].parent
             /\ rs[p].return_stmt_count = ss[c].return_stmt_count
             /\ ss[c].return_type # 0 => /\ rs[p].return_type = ss[c].return_type
                                         /\ rs[p].rt_infer_loc = ss[c].rt_infer_loc
<1> DEFINE new == [ss[p] EXCEPT
                     !.return_type  = IF ss[c].return_type # 0 THEN ss[c].return_type ELSE @,
                     !.rt_infer_loc = IF ss[c].return_type # 0 THEN ss[c].rt_infer_loc ELSE @,
                     !.return_stmt_count = ss[c].return_stmt_count]
           rs == Closed(c, ss)
<1>1. /\ ss[c] \in Scope /\ ss[p] \in Scope
      /\ ss[c].return_type \in 0 .. Len(cs) /\ ss[p].return_type \in 0 .. Len(cs)
  BY DEF ScopesShape
<1>2. /\ new \in Scope /\ new.parent = ss[p].parent /\ ss[p].table \subseteq new.table
      /\ new.return_type \in 0 .. Len(cs)
      /\ new.return_stmt_count = ss[c].return_stmt_count
      /\ ss[c].return_type # 0 => /\ new.return_type = ss[c].return_type
                                  /\ new.rt_infer_loc = ss[c].rt_infer_loc
  BY <1>1 DEF Scope
<1>3. rs = [ss EXCEPT ![p] = new]
  BY DEF Closed
<1>. HIDE DEF new, rs
<1>4. /\ ScopesShape(rs, cs)
      /\ Grows(ss, rs)
      /\ Len(rs) = Len(ss)
      /\ \A s \in DOMAIN ss : rs[s] = IF s = p THEN new ELSE ss[s]
  <2>1. new \in Scope /\ new.parent = ss[p].parent
    BY <1>2
  <2>2. ss[p].table \subseteq new.table /\ new.return_type \in 0 .. Len(cs)
    BY <1>2
  <2>3. /\ ScopesShape([ss EXCEPT ![p] = new], cs)
        /\ Grows(ss, [ss EXCEPT ![p] = new])
        /\ Len([ss EXCEPT ![p] = new]) = Len(ss)
        /\ \A s \in DOMAIN ss : [ss EXCEPT ![p] = new][s] = IF s = p THEN new ELSE ss[s]
    BY <2>1, <2>2, ReplacedShape
  <2>. QED  BY <1>3, <2>3
<1>. QED  BY <1>2, <1>4 DEF rs

-----------------------------------------------------------------------------
(* Lookup and Path are defined by recursion over the parents, which come   *)
(* before their children: that each is a function with its equation is an  *)
(* induction over the number of scopes.                                    *)

(* One step of the search: the scope itself, or what its parent gives.     *)
LookupStep(ss, n, g, t) ==
  IF t = 0 \/ t \notin DOMAIN ss THEN 0
  ELSE IF n \in ss[t].table THEN t
  ELSE g[ss[t].parent]

(* Solutions for more and more scopes, each built on the one before it;    *)
(* there is no least number of scopes without one.                         *)
LEMMA LookupExists ==
  ASSUME NEW ss, NEW cs, ScopesShape(ss, cs), NEW n, NEW m \in Nat
  PROVE  \E g : g = [t \in 0 .. m |-> LookupStep(ss, n, g, t)]
<1> DEFINE Solves(g, k) == g = [t \in 0 .. k |-> LookupStep(ss, n, g, t)]
           Unsolved == {k \in Nat : ~ \E g : Solves(g, k)}
<1>1. \E g : Solves(g, 0)
  <2>1. Solves([t \in 0 .. 0 |-> 0], 0)
    BY DEF LookupStep
  <2>. QED  BY <2>1
<1>2. ASSUME NEW k \in Nat, NEW g, Solves(g, k)
      PROVE  \E h : Solves(h, k + 1)
  <2>. DEFINE h == [t \in 0 .. k + 1 |-> IF t = k + 1 THEN LookupStep(ss, n, g, t) ELSE g[t]]
  <2>1. \A t \in 0 .. k : g[t] = LookupStep(ss, n, g, t)
    BY <1>2
  <2>2. ASSUME NEW t \in 0 .. k + 1, t # 0, t \in DOMAIN ss
        PROVE  ss[t].parent \in 0 .. k /\ ss[t].parent # k + 1
    BY <2>2 DEF ScopesShape
  <2>3. \A t \in 0 .. k + 1 : LookupStep(ss, n, h, t) = LookupStep(ss, n, g, t)
    BY <2>2 DEF LookupStep
  <2>4. h = [t \in 0 .. k + 1 |-> LookupStep(ss, n, h, t)]
    <3>1. \A t \in 0 .. k + 1 : h[t] = LookupStep(ss, n, h, t)
      BY <2>1, <2>3
    <3>2. h = [t \in 0 .. k + 1 |-> h[t]]
      OBVIOUS
    <3>. HIDE DEF h
    <3>. QED  BY <3>1, <3>2
  <2>. QED  BY <2>4
<1>3. Unsolved = {}
  <2>. SUFFICES ASSUME Unsolved # {}  PROVE FALSE
    OBVIOUS
  <2>1. PICK k \in Unsolved : \A j \in Unsolved : k <= j
    <3>1. Unsolved \subseteq Nat
      OBVIOUS
    <3>. HIDE DEF Unsolved
    <3>. QED  BY <3>1, LeastNatural
  <2>2. k \in Nat /\ k # 0 /\ ~ \E g : Solves(g, k)
    BY <1>1
  <2>3. k - 1 \in Nat /\ k - 1 \notin Unsolved /\ (k - 1) + 1 = k
    BY <2>1, <2>2
  <2>4. PICK g : Solves(g, k - 1)
    BY <2>3
  <2>5. \E h : Solves(h, (k - 1) + 1)
    <3>. HIDE DEF Solves, Unsolved
    <3>. QED  BY <1>2, <2>3, <2>4
  <2>. QED  BY <2>2, <2>3, <2>5
<1>. QED  BY <1>3

(* So that Lookup is the search along the parents it is written as.        *)
LEMMA LookupEquation ==
  ASSUME NEW ss, NEW cs, ScopesShape(ss, cs), NEW n, NEW s \in 0 .. MaxScopes
  PROVE  Lookup(ss, s, n) = IF s = 0 \/ s \notin DOMAIN ss THEN 0
                            ELSE IF n \in ss[s].table THEN s
                            ELSE Lookup(ss, ss[s].parent, n)
<1> DEFINE Fits(g) == g = [t \in 0 .. MaxScopes |->
                             IF t = 0 \/ t \notin DOMAIN ss THEN 0
                             ELSE IF n \in ss[t].table THEN t
                             ELSE g[ss[t].parent]]
           From == CHOOSE g : Fits(g)
<1>1. \E g : Fits(g)
  <2>1. MaxScopes \in Nat
    BY ConstantAssumption
  <2>2. PICK g : g = [t \in 0 .. MaxScopes |-> LookupStep(ss, n, g, t)]
    BY <2>1, LookupExists
  <2>3. Fits(g)
    BY <2>2 DEF LookupStep
  <2>. QED  BY <2>3
<1>2. \A t : Lookup(ss, t, n) = From[t]
  BY DEF Lookup
<1>3. Fits(From)
  <2>. HIDE DEF Fits
  <2>. QED  BY <1>1
<1>. HIDE DEF From
<1>. QED  BY <1>2, <1>3

(* The search ends at a scope at or above the one it starts from, or finds *)
(* nothing.                                                                *)
LEMMA LookupType ==
  ASSUME NEW ss, NEW cs, ScopesShape(ss, cs), NEW n, NEW s \in 0 .. Len(ss)
  PROVE  Lookup(ss, s, n) \in 0 .. s
<1> DEFINE Wrong == {t \in 0 .. Len(ss) : Lookup(ss, t, n) \notin 0 .. t}
<1>0. /\ DOMAIN ss = 1 .. Len(ss) /\ Len(ss) \in Nat /\ MaxScopes \in Nat
      /\ Len(ss) <= MaxScopes
  BY ConstantAssumption DEF ScopesShape
<1>1. SUFFICES ASSUME Wrong # {}  PROVE FALSE
  OBVIOUS
<1>2. PICK t \in Wrong : \A y \in Wrong : t <= y
  <2>1. Wrong \subseteq Nat
    BY <1>0
  <2>. HIDE DEF Wrong
  <2>. QED  BY <1>1, <2>1, LeastNatural
<1>3. t \in 0 .. Len(ss) /\ Lookup(ss, t, n) \notin 0 .. t
  OBVIOUS
<1>4. Lookup(ss, t, n) = IF t = 0 \/ t \notin DOMAIN ss THEN 0
                         ELSE IF n \in ss[t].table THEN t
                         ELSE Lookup(ss, ss[t].parent, n)
  BY <1>0, <1>3, LookupEquation
<1>5. t # 0 /\ Lookup(ss, t, n) = Lookup(ss, ss[t].parent, n)
  BY <1>0, <1>3, <1>4
<1>6. ss[t].parent \in 0 .. t - 1
  BY <1>0, <1>3, <1>5 DEF ScopesShape
<1>7. ss[t].parent \in 0 .. Len(ss) /\ ss[t].parent < t
  BY <1>0, <1>3, <1>6
<1>8. Lookup(ss, ss[t].parent, n) \in 0 .. ss[t].parent
  BY <1>0, <1>2, <1>7
<1>. QED  BY <1>0, <1>3, <1>5, <1>6, <1>8

(* What was found stays found, there or nearer, when scopes are opened and *)
(* tables grow.                                                            *)
LEMMA LookupGrows ==
  ASSUME NEW ss, NEW cs, ScopesShape(ss, cs), NEW rs, NEW ds, ScopesShape(rs, ds),
         Grows(ss, rs), NEW n, NEW s \in 0 .. Len(ss)
  PROVE  Lookup(ss, s, n) <= Lookup(rs, s, n)
<1> DEFINE Wrong == {t \in 0 .. Len(ss) : ~ (Lookup(ss, t, n) <= Lookup(rs, t, n))}
<1>0. /\ DOMAIN ss = 1 .. Len(ss) /\ Len(ss) \in Nat /\ MaxScopes \in Nat
      /\ Len(ss) <= MaxScopes
      /\ DOMAIN rs = 1 .. Len(rs) /\ Len(rs) \in Nat /\ Len(ss) <= Len(rs)
      /\ \A t \in DOMAIN ss : rs[t].parent = ss[t].parent /\ ss[t].table \subseteq rs[t].table
  BY ConstantAssumption DEF ScopesShape, Grows
<1>1. SUFFICES ASSUME Wrong # {}  PROVE FALSE
  OBVIOUS
<1>2. PICK t \in Wrong : \A y \in Wrong : t <= y
  <2>1. Wrong \subseteq Nat
    BY <1>0
  <2>. HIDE DEF Wrong
  <2>. QED  BY <1>1, <2>1, LeastNatural
<1>3. t \in 0 .. Len(ss) /\ t \in 0 .. Len(rs) /\ ~ (Lookup(ss, t, n) <= Lookup(rs, t, n))
  BY <1>0
<1>4. /\ Lookup(ss, t, n) = IF t = 0 \/ t \notin DOMAIN ss THEN 0
                            ELSE IF n \in ss[t].table THEN t
                            ELSE Lookup(ss, ss[t].parent, n)
      /\ Lookup(rs, t, n) = IF t = 0 \/ t \notin DOMAIN rs THEN 0
                            ELSE IF n \in rs[t].table THEN t
                            ELSE Lookup(rs, rs[t].parent, n)
  BY <1>0, <1>3, LookupEquation
<1>5. Lookup(ss, t, n) \in 0 .. t /\ Lookup(rs, t, n) \in 0 .. t
  BY <1>3, LookupType
<1>6. /\ t \in 1 .. Len(ss) /\ n \notin rs[t].table
      /\ ~ (Lookup(ss, ss[t].parent, n) <= Lookup(rs, ss[t].parent, n))
  <2>1. t # 0
    BY <1>3, <1>4
  <2>2. t \in DOMAIN ss /\ t \in DOMAIN rs
    BY <1>0, <1>3, <2>1
  <2>3. n \notin rs[t].table
    BY <1>0, <1>3, <1>4, <1>5, <2>1, <2>2
  <2>. QED  BY <1>0, <1>3, <1>4, <2>1, <2>2, <2>3
<1>7. ss[t].parent \in 0 .. t - 1
  BY <1>0, <1>6 DEF ScopesShape
<1>8. ss[t].parent \in Wrong /\ ss[t].parent < t
  BY <1>0, <1>6, <1>7
<1>. QED  BY <1>0, <1>2, <1>3, <1>7, <1>8

(* One step of the way to the root.                                        *)
PathStep(ss, g, t) ==
  IF t = 0 \/ t \notin DOMAIN ss THEN <<>> ELSE Append(g[ss[t].parent], t)

(* The same construction for the way to the root.                          *)
LEMMA PathExists ==
  ASSUME NEW ss, NEW cs, ScopesShape(ss, cs), NEW m \in Nat
  PROVE  \E g : g = [t \in 0 .. m |-> PathStep(ss, g, t)]
<1> DEFINE Solves(g, k) == g = [t \in 0 .. k |-> PathStep(ss, g, t)]
           Unsolved == {k \in Nat : ~ \E g : Solves(g, k)}
<1>1. \E g : Solves(g, 0)
  <2>1. Solves([t \in 0 .. 0 |-> <<>>], 0)
    BY DEF PathStep
  <2>. QED  BY <2>1
<1>2. ASSUME NEW k \in Nat, NEW g, Solves(g, k)
      PROVE  \E h : Solves(h, k + 1)
  <2>. DEFINE h == [t \in 0 .. k + 1 |-> IF t = k + 1 THEN PathStep(ss, g, t) ELSE g[t]]
  <2>1. \A t \in 0 .. k : g[t] = PathStep(ss, g, t)
    BY <1>2
  <2>2. ASSUME NEW t \in 0 .. k + 1, t # 0, t \in DOMAIN ss
        PROVE  ss[t].parent \in 0 .. k /\ ss[t].parent # k + 1
    BY <2>2 DEF ScopesShape
  <2>3. \A t \in 0 .. k + 1 : PathStep(ss, h, t) = PathStep(ss, g, t)
    BY <2>2 DEF PathStep
  <2>4. h = [t \in 0 .. k + 1 |-> PathStep(ss, h, t)]
    <3>1. \A t \in 0 .. k + 1 : h[t] = PathStep(ss, h, t)
      BY <2>1, <2>3
    <3>2. h = [t \in 0 .. k + 1 |-> h[t]]
      OBVIOUS
    <3>. HIDE DEF h
    <3>. QED  BY <3>1, <3>2
  <2>. QED  BY <2>4
<1>3. Unsolved = {}
  <2>. SUFFICES ASSUME Unsolved # {}  PROVE FALSE
    OBVIOUS
  <2>1. PICK k \in Unsolved : \A j \in Unsolved : k <= j
    <3>1. Unsolved \subseteq Nat
      OBVIOUS
    <3>. HIDE DEF Unsolved
    <3>. QED  BY <3>1, LeastNatural
  <2>2. k \in Nat /\ k # 0 /\ ~ \E g : Solves(g, k)
    BY <1>1
  <2>3. k - 1 \in Nat /\ k - 1 \notin Unsolved /\ (k - 1) + 1 = k
    BY <2>1, <2>2
  <2>4. PICK g : Solves(g, k - 1)
    BY <2>3
  <2>5. \E h : Solves(h, (k - 1) + 1)
    <3>. HIDE DEF Solves, Unsolved
    <3>. QED  BY <1>2, <2>3, <2>4
  <2>. QED  BY <2>2, <2>3, <2>5
<1>. QED  BY <1>3

(* So that Path is the way along the parents it is written as.             *)
LEMMA PathEquation ==
  ASSUME NEW ss, NEW cs, ScopesShape(ss, cs), NEW s \in 0 .. MaxScopes
  PROVE  Path(ss, s) = IF s = 0 \/ s \notin DOMAIN ss THEN <<>>
                       ELSE Append(Path(ss, ss[s].parent), s)
<1> DEFINE Fits(g) == g = [t \in 0 .. MaxScopes |->
                             IF t = 0 \/ t \notin DOMAIN ss THEN <<>>
                             ELSE Append(g[ss[t].parent], t)]
           To == CHOOSE g : Fits(g)
<1>1. \E g : Fits(g)
  <2>1. MaxScopes \in Nat
    BY ConstantAssumption
  <2>2. PICK g : g = [t \in 0 .. MaxScopes |-> PathStep(ss, g, t)]
    BY <2>1, PathExists
  <2>3. Fits(g)
    BY <2>2 DEF PathStep
  <2>. QED  BY <2>3
<1>2. \A t : Path(ss, t) = To[t]
  BY DEF Path
<1>3. Fits(To)
  <2>. HIDE DEF Fits
  <2>. QED  BY <1>1
<1>. HIDE DEF To
<1>. QED  BY <1>2, <1>3

-----------------------------------------------------------------------------
(* The modules, and the expressions set aside in them.                     *)

(* What is bound stays bound as scopes are added and tables grow.          *)
LEMMA BoundGrows ==
  ASSUME NEW ss, NEW cs, ScopesShape(ss, cs), NEW rs, NEW ds, ScopesShape(rs, ds),
         Grows(ss, rs), NEW pe \in PendingExpr, Bound(pe, ss)
  PROVE  Bound(pe, rs)
<1>1. /\ DOMAIN ss = 1 .. Len(ss) /\ Len(ss) \in Nat
      /\ DOMAIN rs = 1 .. Len(rs) /\ Len(rs) \in Nat /\ Len(ss) <= Len(rs)
  BY DEF ScopesShape, Grows
<1>2. /\ pe.scope \in 0 .. Len(ss) /\ pe.scope \in 0 .. Len(rs) /\ pe.scope \in DOMAIN rs
      /\ pe.binding \in Nat /\ pe.binding # 0
      /\ pe.binding <= Lookup(ss, pe.scope, pe.name)
  BY <1>1 DEF Bound, PendingExpr
<1>3. /\ Lookup(ss, pe.scope, pe.name) \in 0 .. pe.scope
      /\ Lookup(rs, pe.scope, pe.name) \in 0 .. pe.scope
      /\ Lookup(ss, pe.scope, pe.name) <= Lookup(rs, pe.scope, pe.name)
  BY <1>2, LookupType, LookupGrows
<1>. QED  BY <1>2, <1>3 DEF Bound

(* Each module has its type, and its expressions are bound.                *)
LEMMA ModuleType ==
  ASSUME NEW ms, NEW ld, NEW ss, ModulesShape(ms, ld, ss), NEW m \in DOMAIN ms
  PROVE  /\ ms[m] \in ModuleState
         /\ \A i \in DOMAIN ms[m].pending :
              ms[m].pending[i] \in PendingExpr /\ Bound(ms[m].pending[i], ss)
         /\ \A i \in DOMAIN ms[m].queue :
              ms[m].queue[i] \in PendingExpr /\ Bound(ms[m].queue[i], ss)
<1>1. ms[m] \in ModuleState
  BY DEF ModulesShape
<1>2. ms[m].pending \in Seq(PendingExpr) /\ ms[m].queue \in Seq(PendingExpr)
  BY <1>1 DEF ModuleState
<1>. QED  BY <1>1, <1>2 DEF ModulesShape

(* The modules keep their shape when scopes are added or tables grow.      *)
LEMMA ModulesGrow ==
  ASSUME NEW ss, NEW cs, ScopesShape(ss, cs), NEW rs, NEW ds, ScopesShape(rs, ds),
         Grows(ss, rs), NEW ms, NEW ld, ModulesShape(ms, ld, ss)
  PROVE  ModulesShape(ms, ld, rs)
<1>1. \A m \in DOMAIN ms :
        /\ \A i \in DOMAIN ms[m].pending : Bound(ms[m].pending[i], rs)
        /\ \A i \in DOMAIN ms[m].queue : Bound(ms[m].queue[i], rs)
  BY ModuleType, BoundGrows
<1>. QED  BY <1>1 DEF ModulesShape

(* There is a current module.                                              *)
LEMMA LastModule ==
  ASSUME NEW ms, NEW ld, NEW ss, ModulesShape(ms, ld, ss)
  PROVE  /\ Len(ms) \in Nat \ {0}
         /\ Len(ms) \in DOMAIN ms
         /\ ms[Len(ms)] \in ModuleState
BY DEF ModulesShape

(* The current module is replaced by a changed one.                        *)
LEMMA ModuleReplaced ==
  ASSUME NEW ss, NEW ms, NEW ld, ModulesShape(ms, ld, ss), NEW m \in ModuleState,
         \A i \in DOMAIN m.pending : Bound(m.pending[i], ss),
         \A i \in DOMAIN m.queue : Bound(m.queue[i], ss)
  PROVE  LET rs == [ms EXCEPT ![Len(ms)] = m]
         IN  ModulesShape(rs, ld, ss) /\ Len(rs) = Len(ms) /\ rs[Len(rs)] = m
<1> DEFINE rs == [ms EXCEPT ![Len(ms)] = m]
<1>1. /\ ms \in Seq(ModuleState) /\ ms # <<>> /\ Len(ms) \in Nat \ {0}
      /\ DOMAIN ms = 1 .. Len(ms) /\ ld \in Nat /\ Len(ms) <= ld
  BY DEF ModulesShape
<1>2. /\ rs \in Seq(ModuleState) /\ Len(rs) = Len(ms) /\ DOMAIN rs = DOMAIN ms
      /\ \A k \in DOMAIN ms : rs[k] = IF k = Len(ms) THEN m ELSE ms[k]
  BY <1>1
<1>. HIDE DEF rs
<1>3. \A k \in DOMAIN rs :
        /\ \A i \in DOMAIN rs[k].pending : Bound(rs[k].pending[i], ss)
        /\ \A i \in DOMAIN rs[k].queue : Bound(rs[k].queue[i], ss)
  BY <1>2 DEF ModulesShape
<1>4. ModulesShape(rs, ld, ss)
  BY <1>1, <1>2, <1>3 DEF ModulesShape
<1>. QED  BY <1>1, <1>2, <1>4 DEF rs

(* A list of bound expressions that gets one more or loses its first.      *)
LEMMA Appended ==
  ASSUME NEW ss, NEW q \in Seq(PendingExpr), \A i \in DOMAIN q : Bound(q[i], ss),
         NEW pe \in PendingExpr, Bound(pe, ss)
  PROVE  /\ Append(q, pe) \in Seq(PendingExpr)
         /\ \A i \in DOMAIN Append(q, pe) : Bound(Append(q, pe)[i], ss)
<1>1. Len(q) \in Nat /\ DOMAIN q = 1 .. Len(q)
  OBVIOUS
<1>2. \A i \in DOMAIN Append(q, pe) : Append(q, pe)[i] = IF i = Len(q) + 1 THEN pe ELSE q[i]
  BY <1>1
<1>3. \A i \in DOMAIN Append(q, pe) : i # Len(q) + 1 => i \in DOMAIN q
  BY <1>1
<1>. QED  BY <1>2, <1>3

(* The first of the expressions set aside and the rest of them.            *)
LEMMA Shortened ==
  ASSUME NEW ss, NEW q \in Seq(PendingExpr), q # <<>>, \A i \in DOMAIN q : Bound(q[i], ss)
  PROVE  /\ Head(q) \in PendingExpr /\ Bound(Head(q), ss)
         /\ Tail(q) \in Seq(PendingExpr)
         /\ \A i \in DOMAIN Tail(q) : Bound(Tail(q)[i], ss)
<1>1. Len(q) \in Nat \ {0} /\ DOMAIN q = 1 .. Len(q)
  OBVIOUS
<1>2. /\ Head(q) = q[1]
      /\ Tail(q) \in Seq(PendingExpr)
      /\ \A i \in DOMAIN Tail(q) : i + 1 \in DOMAIN q /\ Tail(q)[i] = q[i + 1]
  BY <1>1
<1>. QED  BY <1>1, <1>2

(* An expression set aside is bound where it stands.                       *)
LEMMA SetAsideShape ==
  ASSUME Shape, NEW n \in Names, Lookup(scopes, current, n) # 0, SetAside(n)
  PROVE  /\ ModulesShape(modules', loaded, scopes)
         /\ Len(modules') = Len(modules)
         /\ modules'[Len(modules')].phase = Module.phase
<1> DEFINE pe == [name |-> n, scope |-> current, binding |-> Lookup(scopes, current, n)]
           m  == [Module EXCEPT !.pending = Append(Module.pending, pe)]
<1>0. /\ ScopesShape(scopes, cells) /\ ModulesShape(modules, loaded, scopes)
      /\ current \in DOMAIN scopes
  BY DEF Shape
<1>1. CASE UNCHANGED modules
  BY <1>0, <1>1 DEF Module
<1>2. CASE ~ UNCHANGED modules
  <2>1. modules' = [modules EXCEPT ![Len(modules)] = m]
    BY <1>2 DEF SetAside, InModule
  <2>2. current \in Nat /\ current \in 0 .. Len(scopes)
    BY <1>0 DEF ScopesShape
  <2>3. Lookup(scopes, current, n) \in 0 .. current
    BY <1>0, <2>2, LookupType
  <2>4. pe \in PendingExpr
    BY <2>2, <2>3 DEF PendingExpr
  <2>5. Bound(pe, scopes)
    BY <1>0, <2>2, <2>3 DEF Bound
  <2>6. Module \in ModuleState
    BY <1>0, LastModule DEF Module
  <2>7. /\ \A i \in DOMAIN Module.pending : Bound(Module.pending[i], scopes)
        /\ \A i \in DOMAIN Module.queue : Bound(Module.queue[i], scopes)
    BY <1>0, LastModule, ModuleType DEF Module
  <2>8. Module.pending \in Seq(PendingExpr)
    BY <2>6 DEF ModuleState
  <2>. HIDE DEF pe
  <2>9. /\ Append(Module.pending, pe) \in Seq(PendingExpr)
        /\ \A i \in DOMAIN Append(Module.pending, pe) : Bound(Append(Module.pending, pe)[i], scopes)
    BY <2>4, <2>5, <2>7, <2>8, Appended
  <2>10. /\ m \in ModuleState /\ m.phase = Module.phase
         /\ m.pending = Append(Module.pending, pe) /\ m.queue = Module.queue
    BY <2>6, <2>9 DEF ModuleState
  <2>. HIDE DEF m
  <2>11. /\ \A i \in DOMAIN m.pending : Bound(m.pending[i], scopes)
         /\ \A i \in DOMAIN m.queue : Bound(m.queue[i], scopes)
    BY <2>7, <2>9, <2>10
  <2>12. /\ ModulesShape(modules', loaded, scopes)
         /\ Len(modules') = Len(modules)
         /\ modules'[Len(modules')] = m
    <3>1. LET rs == [modules EXCEPT ![Len(modules)] = m]
          IN  ModulesShape(rs, loaded, scopes) /\ Len(rs) = Len(modules) /\ rs[Len(rs)] = m
      <4>1. m \in ModuleState /\ ModulesShape(modules, loaded, scopes)
        BY <1>0, <2>10
      <4>. QED  BY <2>11, <4>1, ModuleReplaced
    <3>. QED  BY <2>1, <3>1
  <2>. QED  BY <2>10, <2>12
<1>. QED  BY <1>1, <1>2

-----------------------------------------------------------------------------
(* The statements of a function.                                           *)

(* What the invariant says while a block of a function is open.            *)
LEMMA AtWork ==
  ASSUME IInv
  PROVE  /\ Len(scopes) \in Nat \ {0} /\ DOMAIN scopes = 1 .. Len(scopes)
         /\ scopes \in Seq(Scope)
         /\ current \in 1 .. Len(scopes) /\ scopes[current] \in Scope
         /\ scopes[current].return_type \in 0 .. Len(cells)
         /\ cells \in Seq(Cell) /\ Len(cells) \in Nat
         /\ Len(nest) \in Nat /\ DOMAIN nest = 1 .. Len(nest) /\ nest \in Seq(Nat)
         /\ returns \in 0 .. MaxReturns /\ MaxReturns \in Nat
         /\ nest # <<>> =>
              /\ Len(nest) >= 1
              /\ current = nest[Len(nest)]
              /\ Len(cells) \in DOMAIN cells /\ cells[Len(cells)] \in Cell
              /\ scopes[current].return_type = Len(cells)
              /\ ReturnType = cells[Len(cells)]
<1>1. /\ scopes \in Seq(Scope) /\ Len(scopes) \in Nat \ {0}
      /\ DOMAIN scopes = 1 .. Len(scopes) /\ current \in 1 .. Len(scopes)
      /\ scopes[current].return_type \in 0 .. Len(cells)
  BY DEF IInv, Shape, ScopesShape
<1>2. scopes[current] \in Scope
  BY <1>1
<1>3. cells \in Seq(Cell) /\ Len(cells) \in Nat /\ DOMAIN cells = 1 .. Len(cells)
  BY DEF IInv, Shape, CellsShape
<1>4. nest \in Seq(Nat) /\ Len(nest) \in Nat /\ DOMAIN nest = 1 .. Len(nest)
  BY DEF IInv, Shape
<1>5. ASSUME nest # <<>>
      PROVE  /\ Len(nest) >= 1
             /\ current = nest[Len(nest)]
             /\ Len(cells) \in DOMAIN cells /\ cells[Len(cells)] \in Cell
             /\ scopes[current].return_type = Len(cells)
             /\ ReturnType = cells[Len(cells)]
  <2>1. Len(nest) \in DOMAIN nest /\ Len(nest) >= 1
    BY <1>4, <1>5
  <2>2. current = nest[Len(nest)] /\ Len(cells) >= 1
    BY <1>5 DEF IInv, Nested
  <2>3. scopes[current].return_type = Len(cells)
    BY <2>1, <2>2 DEF IInv, Nested, NestedIn
  <2>4. Len(cells) \in DOMAIN cells /\ cells[Len(cells)] \in Cell
    BY <1>3, <2>2
  <2>. QED  BY <2>1, <2>2, <2>3, <2>4 DEF ReturnType
<1>6. returns \in 0 .. MaxReturns /\ MaxReturns \in Nat
  BY ConstantAssumption DEF IInv, Shape
<1>. QED  BY <1>1, <1>2, <1>3, <1>4, <1>5, <1>6

(* The open constructs have their scopes below the root.                   *)
LEMMA NestIsScopes ==
  ASSUME IInv, NEW i \in DOMAIN nest
  PROVE  nest[i] \in 2 .. Len(scopes) /\ nest[i] \in DOMAIN scopes
<1>1. nest[i] \in 2 .. Len(scopes)
  BY DEF IInv, Nested, NestedIn
<1>. QED  BY <1>1, AtWork

(* A sequence of scopes without its last one.                              *)
LEMMA WithoutLast ==
  ASSUME NEW ns \in Seq(Nat), Len(ns) > 1
  PROVE  LET rs == SubSeq(ns, 1, Len(ns) - 1)
         IN  /\ rs \in Seq(Nat) /\ Len(rs) = Len(ns) - 1 /\ rs # <<>>
             /\ DOMAIN rs = 1 .. Len(ns) - 1
             /\ \A i \in DOMAIN rs : i \in DOMAIN ns /\ rs[i] = ns[i]
<1> DEFINE rs == SubSeq(ns, 1, Len(ns) - 1)
<1>1. /\ rs \in Seq(Nat) /\ Len(rs) = Len(ns) - 1
      /\ \A i \in 1 .. Len(ns) - 1 : rs[i] = ns[i]
  BY SubSeqProperties
<1>. HIDE DEF rs
<1>2. DOMAIN rs = 1 .. Len(ns) - 1 /\ DOMAIN ns = 1 .. Len(ns) /\ Len(ns) \in Nat
  BY <1>1
<1>3. rs # <<>> /\ \A i \in DOMAIN rs : i \in DOMAIN ns /\ rs[i] = ns[i]
  BY <1>1, <1>2
<1>. QED  BY <1>1, <1>2, <1>3 DEF rs

(* OpenScope keeps the invariant: the new scope has all its parent has.    *)
LEMMA OpenScopeKeeps ==
  ASSUME IInv, OpenScope
  PROVE  IInv'
<1>0. /\ AtStatement /\ Len(scopes) < MaxScopes
      /\ scopes' = Opened(current, scopes)
      /\ current' = Len(scopes) + 1
      /\ nest' = Append(nest, Len(scopes) + 1)
      /\ UNCHANGED <<cells, errors, modules, loaded, returned, returns, verdict>>
  BY DEF OpenScope
<1>1. nest # <<>> /\ Len(nest) > 1
  BY <1>0 DEF AtStatement, InBlock
<1>2. /\ ScopesShape(scopes', cells)
      /\ Grows(scopes, scopes')
      /\ Len(scopes') = Len(scopes) + 1
      /\ \A s \in DOMAIN scopes : scopes'[s] = scopes[s]
      /\ scopes'[Len(scopes) + 1].parent = current
      /\ scopes'[Len(scopes) + 1].return_type = scopes[current].return_type
      /\ scopes'[Len(scopes) + 1].rt_infer_loc = scopes[current].rt_infer_loc
      /\ scopes'[Len(scopes) + 1].return_stmt_count = 0
  <2>1. ScopesShape(scopes, cells) /\ current \in DOMAIN scopes /\ cells \in Seq(Cell)
    BY AtWork DEF IInv, Shape
  <2>. QED  BY <1>0, <2>1, OpenedShape
<1>3. /\ nest' \in Seq(Nat) /\ Len(nest') = Len(nest) + 1 /\ nest' # <<>>
      /\ \A i \in DOMAIN nest : nest'[i] = nest[i]
      /\ nest'[Len(nest) + 1] = Len(scopes) + 1
      /\ DOMAIN nest' = 1 .. Len(nest) + 1
  BY <1>0, AtWork
<1>4. Shape'
  <2>1. ModulesShape(modules, loaded, scopes')
    BY <1>2, ModulesGrow DEF IInv, Shape
  <2>2. current' \in DOMAIN scopes'
    BY <1>0, <1>2, AtWork DEF ScopesShape
  <2>. QED  BY <1>0, <1>2, <1>3, <2>1, <2>2 DEF IInv, Shape
<1>5. Nested'
  <2>1. Module.phase = "statements" /\ Len(cells) >= 1
    BY <1>1 DEF IInv, Nested
  <2>2. NestedIn(nest', scopes', Len(cells), returns)
    <3>. SUFFICES ASSUME NEW i \in DOMAIN nest'
                  PROVE  /\ nest'[i] \in 2 .. Len(scopes')
                         /\ scopes'[nest'[i]].return_type = Len(cells)
                         /\ scopes'[nest'[i]].return_stmt_count <= returns
                         /\ i > 1 => scopes'[nest'[i]].parent = nest'[i - 1]
      BY DEF NestedIn
    <3>1. CASE i \in DOMAIN nest
      <4>1. /\ nest[i] \in 2 .. Len(scopes)
            /\ scopes[nest[i]].return_type = Len(cells)
            /\ scopes[nest[i]].return_stmt_count <= returns
            /\ i > 1 => scopes[nest[i]].parent = nest[i - 1]
        BY <3>1 DEF IInv, Nested, NestedIn
      <4>2. scopes'[nest[i]] = scopes[nest[i]] /\ nest[i] \in 2 .. Len(scopes')
        BY <1>2, <4>1, AtWork
      <4>3. i > 1 => nest'[i - 1] = nest[i - 1]
        <5>1. i > 1 => i - 1 \in DOMAIN nest
          BY <3>1, AtWork
        <5>. QED  BY <1>3, <5>1
      <4>. QED  BY <1>3, <3>1, <4>1, <4>2, <4>3
    <3>2. CASE i = Len(nest) + 1
      <4>1. nest'[i - 1] = nest[Len(nest)]
        <5>1. Len(nest) \in DOMAIN nest /\ i - 1 = Len(nest)
          BY <1>1, <3>2, AtWork
        <5>. QED  BY <1>3, <5>1
      <4>. QED  BY <1>1, <1>2, <1>3, <3>2, <4>1, AtWork
    <3>. QED  BY <1>3, <3>1, <3>2, AtWork
  <2>. QED  BY <1>0, <1>3, <2>1, <2>2, AtWork DEF Nested, Module
<1>6. Inference'
  BY <1>0, <1>1, <1>2 DEF IInv, Inference, CoercesTo
<1>7. Lexical'
  <2>1. 1 \in DOMAIN nest
    BY <1>1, AtWork
  <2>2. nest'[1] = nest[1] /\ scopes'[nest[1]] = scopes[nest[1]]
    BY <1>2, <1>3, <2>1, NestIsScopes
  <2>. QED  BY <1>0, <1>1, <1>3, <2>2 DEF IInv, Lexical, Module
<1>. QED  BY <1>4, <1>5, <1>6, <1>7 DEF IInv

(* CloseScope keeps the invariant: the parent is the scope before it in    *)
(* the nest, and is told the place of the inference.                       *)
LEMMA CloseScopeKeeps ==
  ASSUME IInv, CloseScope
  PROVE  IInv'
<1> DEFINE p == scopes[current].parent
<1>0. /\ nest # <<>> /\ Len(nest) > 1
      /\ scopes' = Closed(current, scopes)
      /\ current' = p
      /\ nest' = SubSeq(nest, 1, Len(nest) - 1)
      /\ UNCHANGED <<cells, errors, modules, loaded, returned, returns, verdict>>
  BY DEF CloseScope, InBlock
<1>1. /\ p = nest[Len(nest) - 1] /\ p \in 2 .. Len(scopes) /\ p \in DOMAIN scopes
      /\ scopes[p].return_type = Len(cells)
      /\ scopes[current].return_type = Len(cells) /\ Len(cells) >= 1
      /\ scopes[current].return_stmt_count <= returns
  <2>1. Len(nest) \in DOMAIN nest /\ Len(nest) - 1 \in DOMAIN nest
    BY <1>0, AtWork
  <2>2. current = nest[Len(nest)] /\ Len(cells) >= 1
    BY <1>0 DEF IInv, Nested
  <2>3. /\ p = nest[Len(nest) - 1] /\ p \in 2 .. Len(scopes)
        /\ scopes[p].return_type = Len(cells)
        /\ scopes[current].return_type = Len(cells)
        /\ scopes[current].return_stmt_count <= returns
    BY <1>0, <2>1, <2>2 DEF IInv, Nested, NestedIn
  <2>. QED  BY <2>2, <2>3, AtWork
<1>. HIDE DEF p
<1>2. /\ ScopesShape(scopes', cells)
      /\ Grows(scopes, scopes')
      /\ Len(scopes') = Len(scopes)
      /\ \A s \in DOMAIN scopes \ {p} : scopes'[s] = scopes[s]
      /\ scopes'[p].parent = scopes[p].parent
      /\ scopes'[p].return_stmt_count = scopes[current].return_stmt_count
      /\ scopes'[p].return_type = Len(cells)
      /\ scopes'[p].rt_infer_loc = scopes[current].rt_infer_loc
  <2>1. /\ ScopesShape(scopes, cells) /\ current \in DOMAIN scopes /\ cells \in Seq(Cell)
        /\ scopes[current].parent = p /\ scopes[current].return_type # 0
    BY <1>1, AtWork DEF IInv, Shape, p
  <2>. QED  BY <1>0, <1>1, <2>1, ClosedShape
<1>3. /\ nest' \in Seq(Nat) /\ Len(nest') = Len(nest) - 1 /\ nest' # <<>>
      /\ \A i \in DOMAIN nest' : i \in DOMAIN nest /\ nest'[i] = nest[i]
      /\ DOMAIN nest' = 1 .. Len(nest) - 1
  <2>1. nest \in Seq(Nat)
    BY AtWork
  <2>. QED  BY <1>0, <2>1, WithoutLast
<1>4. Shape'
  <2>1. ModulesShape(modules, loaded, scopes')
    BY <1>2, ModulesGrow DEF IInv, Shape
  <2>2. current' \in DOMAIN scopes'
    BY <1>0, <1>1, <1>2 DEF ScopesShape
  <2>. QED  BY <1>0, <1>2, <1>3, <2>1, <2>2 DEF IInv, Shape
<1>5. Nested'
  <2>1. Module.phase = "statements"
    BY <1>0 DEF IInv, Nested
  <2>2. NestedIn(nest', scopes', Len(cells), returns)
    <3>. SUFFICES ASSUME NEW i \in DOMAIN nest'
                  PROVE  /\ nest'[i] \in 2 .. Len(scopes')
                         /\ scopes'[nest'[i]].return_type = Len(cells)
                         /\ scopes'[nest'[i]].return_stmt_count <= returns
                         /\ i > 1 => scopes'[nest'[i]].parent = nest'[i - 1]
      BY DEF NestedIn
    <3>1. i \in DOMAIN nest /\ nest'[i] = nest[i]
      BY <1>3
    <3>2. /\ nest[i] \in 2 .. Len(scopes)
          /\ scopes[nest[i]].return_type = Len(cells)
          /\ scopes[nest[i]].return_stmt_count <= returns
          /\ i > 1 => scopes[nest[i]].parent = nest[i - 1]
      BY <3>1 DEF IInv, Nested, NestedIn
    <3>3. nest[i] \in DOMAIN scopes
      BY <3>2, AtWork
    <3>4. i > 1 => nest'[i - 1] = nest[i - 1]
      <4>1. DOMAIN nest' = 1 .. Len(nest) - 1 /\ Len(nest) \in Nat
        BY <1>3, AtWork
      <4>2. i > 1 => i - 1 \in DOMAIN nest'
        BY <4>1
      <4>. QED  BY <1>3, <4>2
    <3>. QED  BY <1>1, <1>2, <3>1, <3>2, <3>3, <3>4
  <2>3. current' = nest'[Len(nest')]
    BY <1>0, <1>1, <1>3, AtWork
  <2>. QED  BY <1>0, <1>1, <2>1, <2>2, <2>3 DEF Nested, Module
<1>6. Inference'
  BY <1>0, <1>2 DEF IInv, Inference, CoercesTo
<1>7. Lexical'
  <2>1. 1 \in DOMAIN nest /\ nest[1] \in DOMAIN scopes /\ nest'[1] = nest[1]
    <3>1. 1 \in DOMAIN nest' /\ 1 \in DOMAIN nest /\ nest'[1] = nest[1]
      BY <1>0, <1>3, AtWork
    <3>. QED  BY <3>1, NestIsScopes
  <2>2. scopes'[nest[1]].parent = scopes[nest[1]].parent
    BY <1>2, <2>1
  <2>. QED  BY <1>0, <1>3, <2>1, <2>2 DEF IInv, Lexical, Module
<1>. QED  BY <1>4, <1>5, <1>6, <1>7 DEF IInv

(* The scopes after a step that changes the current one in its table, its  *)
(* count or its place of inference.                                        *)
LEMMA CurrentReplaced ==
  ASSUME IInv, NEW new \in Scope, new.parent = scopes[current].parent,
         new.return_type = scopes[current].return_type,
         scopes[current].table \subseteq new.table,
         scopes' = [scopes EXCEPT ![current] = new]
  PROVE  /\ ScopesShape(scopes', cells) /\ Grows(scopes, scopes')
         /\ ModulesShape(modules, loaded, scopes')
         /\ Len(scopes') = Len(scopes) /\ DOMAIN scopes' = DOMAIN scopes
         /\ \A s \in DOMAIN scopes : scopes'[s] = IF s = current THEN new ELSE scopes[s]
         /\ \A count \in Nat : returns <= count /\ new.return_stmt_count <= count
              => NestedIn(nest, scopes', Len(cells), count)
         /\ nest # <<>> => scopes'[nest[1]].parent = scopes[nest[1]].parent
<1>1. /\ ScopesShape(scopes, cells) /\ cells \in Seq(Cell) /\ current \in DOMAIN scopes
      /\ ModulesShape(modules, loaded, scopes)
      /\ new.return_type \in 0 .. Len(cells)
  BY AtWork DEF IInv, Shape
<1>2. /\ ScopesShape(scopes', cells) /\ Grows(scopes, scopes')
      /\ Len(scopes') = Len(scopes) /\ DOMAIN scopes' = DOMAIN scopes
      /\ \A s \in DOMAIN scopes : scopes'[s] = IF s = current THEN new ELSE scopes[s]
  BY <1>1, ReplacedShape
<1>3. ModulesShape(modules, loaded, scopes')
  BY <1>1, <1>2, ModulesGrow
<1>4. ASSUME NEW count \in Nat, returns <= count, new.return_stmt_count <= count
      PROVE  NestedIn(nest, scopes', Len(cells), count)
  <2>. SUFFICES ASSUME NEW i \in DOMAIN nest
                PROVE  /\ nest[i] \in 2 .. Len(scopes')
                       /\ scopes'[nest[i]].return_type = Len(cells)
                       /\ scopes'[nest[i]].return_stmt_count <= count
                       /\ i > 1 => scopes'[nest[i]].parent = nest[i - 1]
    BY DEF NestedIn
  <2>1. /\ nest[i] \in 2 .. Len(scopes)
        /\ scopes[nest[i]].return_type = Len(cells)
        /\ scopes[nest[i]].return_stmt_count <= returns
        /\ i > 1 => scopes[nest[i]].parent = nest[i - 1]
    BY DEF IInv, Nested, NestedIn
  <2>2. nest[i] \in DOMAIN scopes
    BY NestIsScopes
  <2>3. scopes[nest[i]].return_stmt_count <= count
    <3>1. scopes[nest[i]] \in Scope /\ returns \in Nat
      BY <2>2, AtWork
    <3>2. scopes[nest[i]].return_stmt_count \in Nat
      BY ONLY <3>1, ConstantAssumption DEF Scope
    <3>. QED  BY <1>4, <2>1, <3>1, <3>2
  <2>. QED  BY <1>2, <1>4, <2>1, <2>2, <2>3
<1>5. nest # <<>> => scopes'[nest[1]].parent = scopes[nest[1]].parent
  <2>1. nest # <<>> => nest[1] \in DOMAIN scopes
    <3>1. nest # <<>> => 1 \in DOMAIN nest
      BY AtWork
    <3>. QED  BY <3>1, NestIsScopes
  <2>. QED  BY <1>2, <2>1
<1>. QED  BY <1>2, <1>3, <1>4, <1>5

(* Declare adds a name to the current scope and nothing else.              *)
LEMMA DeclareKeeps ==
  ASSUME IInv, NEW n \in Names, Declare(n)
  PROVE  IInv'
<1> DEFINE new == [scopes[current] EXCEPT !.table = @ \cup {n}]
<1>1. /\ scopes' = [scopes EXCEPT ![current] = new]
      /\ UNCHANGED <<current, cells, modules, loaded, nest, returned, returns, verdict>>
  BY DEF Declare
<1>2. scopes[current] \in Scope
  BY AtWork
<1>3. /\ new \in Scope /\ new.parent = scopes[current].parent
      /\ new.return_type = scopes[current].return_type
      /\ scopes[current].table \subseteq new.table
      /\ new.return_stmt_count = scopes[current].return_stmt_count
      /\ new.rt_infer_loc = scopes[current].rt_infer_loc
  BY <1>2 DEF Scope
<1>. HIDE DEF new
<1>4. /\ ScopesShape(scopes', cells)
      /\ ModulesShape(modules, loaded, scopes')
      /\ Len(scopes') = Len(scopes) /\ DOMAIN scopes' = DOMAIN scopes
      /\ scopes'[current] = new
      /\ \A count \in Nat : returns <= count /\ new.return_stmt_count <= count
              => NestedIn(nest, scopes', Len(cells), count)
      /\ nest # <<>> => scopes'[nest[1]].parent = scopes[nest[1]].parent
  BY <1>1, <1>3, CurrentReplaced, AtWork
<1>5. Shape'
  BY <1>1, <1>4 DEF IInv, Shape
<1>6. Nested'
  <2>1. NestedIn(nest, scopes', Len(cells), returns)
    <3>1. CASE nest = <<>>
      BY <3>1 DEF NestedIn
    <3>2. CASE nest # <<>>
      <4>1. Len(nest) \in DOMAIN nest /\ current = nest[Len(nest)] /\ returns \in Nat
        BY <3>2, AtWork
      <4>2. new.return_stmt_count <= returns
        BY <1>3, <4>1 DEF IInv, Nested, NestedIn
      <4>. QED  BY <1>4, <4>1, <4>2
    <3>. QED  BY <3>1, <3>2
  <2>. QED  BY <1>1, <2>1 DEF IInv, Nested, Module
<1>7. Inference'
  BY <1>1, <1>3, <1>4 DEF IInv, Inference, CoercesTo
<1>8. Lexical'
  BY <1>1, <1>4 DEF IInv, Lexical, Module
<1>. QED  BY <1>5, <1>6, <1>7, <1>8 DEF IInv

(* CallSelf sets at most one expression aside.                             *)
LEMMA CallSelfKeeps ==
  ASSUME IInv, NEW n \in Names, CallSelf(n)
  PROVE  IInv'
<1>1. /\ Lookup(scopes, current, n) # 0 /\ SetAside(n)
      /\ UNCHANGED <<scopes, current, cells, errors, loaded, nest, returned, returns, verdict>>
  BY DEF CallSelf
<1>2. /\ ModulesShape(modules', loaded, scopes)
      /\ Module'.phase = Module.phase
  BY <1>1, SetAsideShape DEF IInv, Module
<1>3. Shape'
  BY <1>1, <1>2 DEF IInv, Shape
<1>4. Nested' /\ Lexical'
  BY <1>1, <1>2 DEF IInv, Nested, Lexical
<1>5. Inference'
  BY <1>1 DEF IInv, Inference, CoercesTo
<1>. QED  BY <1>3, <1>4, <1>5 DEF IInv

(* The scopes after a return statement.                                    *)
LEMMA ReturnCounted ==
  ASSUME IInv, nest # <<>>, returns < MaxReturns, returns' = returns + 1,
         NEW inferred \in BOOLEAN, CountReturn(inferred)
  PROVE  /\ ScopesShape(scopes', cells)
         /\ ModulesShape(modules, loaded, scopes')
         /\ Grows(scopes, scopes')
         /\ DOMAIN scopes' = DOMAIN scopes
         /\ scopes'[current].rt_infer_loc =
              IF inferred THEN "here" ELSE scopes[current].rt_infer_loc
         /\ NestedIn(nest, scopes', Len(cells), returns')
         /\ scopes'[nest[1]].parent = scopes[nest[1]].parent
<1> DEFINE new == [scopes[current] EXCEPT
                     !.return_stmt_count = @ + 1,
                     !.rt_infer_loc = IF inferred THEN "here" ELSE @]
<1>1. scopes' = [scopes EXCEPT ![current] = new]
  BY DEF CountReturn
<1>2. scopes[current] \in Scope /\ returns \in 0 .. MaxReturns /\ MaxReturns \in Nat
  BY AtWork
<1>3. scopes[current].return_stmt_count <= returns
  <2>1. Len(nest) \in DOMAIN nest /\ current = nest[Len(nest)]
    BY AtWork
  <2>. QED  BY <2>1 DEF IInv, Nested, NestedIn
<1>4. /\ new \in Scope /\ new.parent = scopes[current].parent
      /\ new.return_type = scopes[current].return_type
      /\ scopes[current].table \subseteq new.table
      /\ new.return_stmt_count = scopes[current].return_stmt_count + 1
      /\ new.rt_infer_loc = IF inferred THEN "here" ELSE scopes[current].rt_infer_loc
  <2>1. /\ scopes[current].return_stmt_count \in 0 .. MaxReturns
        /\ scopes[current].rt_infer_loc \in {None, "here"}
    BY <1>2 DEF Scope
  <2>2. scopes[current].return_stmt_count + 1 \in 0 .. MaxReturns
    BY <1>2, <1>3, <2>1
  <2>3. (IF inferred THEN "here" ELSE scopes[current].rt_infer_loc) \in {None, "here"}
    BY <2>1
  <2>. QED  BY <1>2, <2>2, <2>3 DEF Scope
<1>. HIDE DEF new
<1>5. /\ ScopesShape(scopes', cells) /\ Grows(scopes, scopes')
      /\ ModulesShape(modules, loaded, scopes')
      /\ DOMAIN scopes' = DOMAIN scopes
      /\ scopes'[current] = new
      /\ \A count \in Nat : returns <= count /\ new.return_stmt_count <= count
              => NestedIn(nest, scopes', Len(cells), count)
      /\ scopes'[nest[1]].parent = scopes[nest[1]].parent
  BY <1>1, <1>4, CurrentReplaced, AtWork
<1>6. /\ returns' \in Nat /\ returns <= returns'
      /\ new.return_stmt_count <= returns'
  <2>1. scopes[current].return_stmt_count \in Nat
    BY <1>2 DEF Scope
  <2>. QED  BY <1>2, <1>3, <1>4, <2>1
<1>. QED  BY <1>4, <1>5, <1>6

(* ReturnSelf counts a return and sets at most one expression aside.       *)
LEMMA ReturnSelfKeeps ==
  ASSUME IInv, NEW n \in Names, ReturnSelf(n)
  PROVE  IInv'
<1>1. /\ nest # <<>> /\ Lookup(scopes, current, n) # 0
      /\ returns < MaxReturns /\ returns' = returns + 1
      /\ CountReturn(FALSE) /\ SetAside(n)
      /\ UNCHANGED <<current, cells, errors, loaded, nest, returned, verdict>>
  BY DEF ReturnSelf, AtStatement, InBlock
<1>2. /\ ModulesShape(modules', loaded, scopes)
      /\ Module'.phase = Module.phase
  BY <1>1, SetAsideShape DEF IInv, Module
<1>3. /\ ScopesShape(scopes', cells) /\ Grows(scopes, scopes')
      /\ DOMAIN scopes' = DOMAIN scopes
      /\ scopes'[current].rt_infer_loc = scopes[current].rt_infer_loc
      /\ NestedIn(nest, scopes', Len(cells), returns')
      /\ scopes'[nest[1]].parent = scopes[nest[1]].parent
  BY <1>1, ReturnCounted
<1>4. Shape'
  <2>1. ScopesShape(scopes, cells)
    BY DEF IInv, Shape
  <2>2. ModulesShape(modules', loaded, scopes')
    BY <1>2, <1>3, <2>1, ModulesGrow
  <2>3. returns' \in 0 .. MaxReturns
    BY <1>1, AtWork
  <2>. QED  BY <1>1, <1>3, <2>2, <2>3 DEF IInv, Shape
<1>5. Nested' /\ Lexical'
  BY <1>1, <1>2, <1>3 DEF IInv, Nested, Lexical
<1>6. Inference'
  BY <1>1, <1>3 DEF IInv, Inference, CoercesTo
<1>. QED  BY <1>4, <1>5, <1>6 DEF IInv

(* A cell that is given a type.                                            *)
LEMMA CellFilled ==
  ASSUME NEW cs, CellsShape(cs), NEW c \in DOMAIN cs, NEW type \in Type \cup {None},
         cs[c].pending \/ type # None
  PROVE  LET ds == [cs EXCEPT ![c].base = type]
         IN  /\ CellsShape(ds) /\ Len(ds) = Len(cs)
             /\ ds[c].base = type /\ ds[c].pending = cs[c].pending
<1> DEFINE new == [cs[c] EXCEPT !.base = type]
           ds == [cs EXCEPT ![c] = new]
<1>1. cs \in Seq(Cell) /\ cs[c] \in Cell
  BY DEF CellsShape
<1>2. new \in Cell /\ new.base = type /\ new.pending = cs[c].pending
  BY <1>1 DEF Cell
<1>. HIDE DEF new
<1>3. /\ ds \in Seq(Cell) /\ Len(ds) = Len(cs) /\ DOMAIN ds = DOMAIN cs /\ ds[c] = new
      /\ \A d \in DOMAIN cs : ds[d] = IF d = c THEN new ELSE cs[d]
  BY <1>1, <1>2
<1>4. CellsShape(ds)
  BY <1>2, <1>3 DEF CellsShape
<1>. QED  BY <1>2, <1>3, <1>4 DEF new

(* A return statement keeps the invariant when it fills an empty cell with *)
(* the type it returns, or leaves the cell and accepts what fits.          *)
LEMMA ReturnKeeps ==
  ASSUME IInv, nest # <<>>, returns < MaxReturns, returns' = returns + 1,
         UNCHANGED <<current, modules, loaded, nest>>,
         NEW inferred \in BOOLEAN, CountReturn(inferred),
         NEW type \in Type,
         inferred => /\ ReturnType.base = None
                     /\ cells' = [cells EXCEPT ![Len(cells)].base = type]
                     /\ returned' = returned \cup {type},
         ~ inferred => /\ cells' = cells
                       /\ \/ returned' = returned
                          \/ /\ returned' = returned \cup {type}
                             /\ \/ type = "null" /\ ReturnType.base = None
                                \/ type = ReturnType.base
                                \/ CoercesTo(type, ReturnType)
  PROVE  IInv'
<1> DEFINE k == Len(cells)
<1>1. /\ k \in DOMAIN cells /\ cells[k] \in Cell /\ ReturnType = cells[k]
      /\ CellsShape(cells) /\ returned \subseteq Type
  BY AtWork DEF IInv, Shape
<1>2. /\ cells[k].pending /\ cells[k].base # None => scopes[current].rt_infer_loc # None
      /\ cells[k].base = None => returned \subseteq {"null"}
      /\ cells[k].base # None =>
           \A t \in returned \ {"null"} : t = cells[k].base \/ CoercesTo(t, cells[k])
  BY DEF IInv, Inference
<1>3. /\ ScopesShape(scopes', cells) /\ ModulesShape(modules, loaded, scopes')
      /\ DOMAIN scopes' = DOMAIN scopes
      /\ scopes'[current].rt_infer_loc =
           IF inferred THEN "here" ELSE scopes[current].rt_infer_loc
      /\ NestedIn(nest, scopes', k, returns')
      /\ scopes'[nest[1]].parent = scopes[nest[1]].parent
  BY ReturnCounted
<1>4. /\ CellsShape(cells') /\ Len(cells') = k
      /\ inferred => cells'[k].base = type
      /\ ~ inferred => cells' = cells
  <2>1. CASE inferred
    <3>1. cells[k].base = None /\ type # None
      BY <1>1, <2>1, ConstantAssumption
    <3>2. cells[k].pending
      BY <1>1, <3>1 DEF CellsShape
    <3>. QED  BY <1>1, <2>1, <3>2, CellFilled
  <2>2. CASE ~ inferred
    BY <1>1, <2>2
  <2>. QED  BY <2>1, <2>2
<1>. HIDE DEF k
<1>5. Shape'
  <2>1. ScopesShape(scopes', cells')
    BY <1>3, <1>4 DEF ScopesShape, k
  <2>2. returned' \subseteq Type /\ returns' \in 0 .. MaxReturns
    BY <1>1, AtWork
  <2>3. current' \in DOMAIN scopes' /\ nest' \in Seq(Nat)
    BY <1>3 DEF IInv, Shape
  <2>. QED  BY <1>3, <1>4, <2>1, <2>2, <2>3 DEF Shape
<1>6. Nested'
  BY <1>3, <1>4 DEF IInv, Nested, Module, k
<1>7. Inference'
  <2>. SUFFICES /\ cells'[k].pending /\ cells'[k].base # None
                     => scopes'[current].rt_infer_loc # None
                /\ cells'[k].base = None => returned' \subseteq {"null"}
                /\ cells'[k].base # None =>
                     \A t \in returned' \ {"null"} : t = cells'[k].base \/ CoercesTo(t, cells'[k])
    BY <1>4 DEF Inference, CoercesTo
  <2>1. CASE inferred
    <3>1. returned \subseteq {"null"} /\ returned' = returned \cup {type}
      BY <1>1, <1>2, <2>1
    <3>2. cells'[k].base = type /\ type # None
      BY <1>4, <2>1, ConstantAssumption
    <3>3. scopes'[current].rt_infer_loc # None
      BY <1>3, <2>1, ConstantAssumption
    <3>. QED  BY <3>1, <3>2, <3>3
  <2>2. CASE ~ inferred /\ returned' = returned
    BY <1>2, <1>3, <1>4, <2>2
  <2>3. CASE ~ inferred /\ returned' = returned \cup {type} /\ ReturnType.base = None
    <3>1. ~ CoercesTo(type, ReturnType)
      BY <2>3, ConstantAssumption DEF CoercesTo, Type, Value
    <3>2. type = "null" \/ type \in returned
      BY <2>3, <3>1, ConstantAssumption
    <3>. QED  BY <1>1, <1>2, <1>3, <1>4, <2>3, <3>2
  <2>4. CASE ~ inferred /\ returned' = returned \cup {type} /\ ReturnType.base # None
    <3>1. type = cells[k].base \/ CoercesTo(type, cells[k]) \/ type \in returned
      BY <1>1, <2>4
    <3>. QED  BY <1>1, <1>2, <1>3, <1>4, <2>4, <3>1
  <2>. QED  BY <2>1, <2>2, <2>3, <2>4
<1>8. Lexical'
  BY <1>3 DEF IInv, Lexical, Module
<1>. QED  BY <1>5, <1>6, <1>7, <1>8 DEF IInv

(* A return statement without an expression returns void.                  *)
LEMMA ReturnNothingKeeps ==
  ASSUME IInv, ReturnNothing
  PROVE  IInv'
<1> DEFINE r == ReturnType
           infers == r.pending /\ r.base = None
<1>1. nest # <<>>
  BY DEF ReturnNothing, AtStatement, InBlock
<1>2. scopes[current].return_type = Len(cells) /\ infers \in BOOLEAN /\ "void" \in Type
  BY <1>1, AtWork DEF Type
<1>. HIDE DEF r
<1>3. /\ returns < MaxReturns /\ returns' = returns + 1 /\ CountReturn(infers)
      /\ UNCHANGED <<current, modules, loaded, nest>>
      /\ infers => /\ cells' = [cells EXCEPT ![Len(cells)].base = "void"]
                   /\ returned' = returned \cup {"void"}
      /\ ~ infers => /\ cells' = cells
                     /\ \/ returned' = returned
                        \/ returned' = returned \cup {"void"} /\ r.base = "void"
  BY <1>2 DEF ReturnNothing, IsEmpty, Infer, Accept, Reject, r
<1>4. /\ infers => ReturnType.base = None
      /\ r = ReturnType
  BY DEF r
<1>. HIDE DEF infers
<1>. QED  BY <1>1, <1>2, <1>3, <1>4, ReturnKeeps

(* A return statement with an expression of a type of its own.             *)
LEMMA ReturnValueKeeps ==
  ASSUME IInv, NEW type \in Value, ReturnValue(type)
  PROVE  IInv'
<1> DEFINE r == ReturnType
           infers == r.pending /\ r.base = None /\ type # "null"
<1>1. nest # <<>>
  BY DEF ReturnValue, AtStatement, InBlock
<1>2. scopes[current].return_type = Len(cells) /\ infers \in BOOLEAN /\ type \in Type
  BY <1>1, AtWork DEF Type
<1>. HIDE DEF r
<1>3. /\ returns < MaxReturns /\ returns' = returns + 1 /\ CountReturn(infers)
      /\ UNCHANGED <<current, modules, loaded, nest>>
      /\ infers => /\ cells' = [cells EXCEPT ![Len(cells)].base = type]
                   /\ returned' = returned \cup {type}
      /\ ~ infers => /\ cells' = cells
                     /\ \/ returned' = returned
                        \/ /\ returned' = returned \cup {type}
                           /\ \/ type = "null" /\ r.base = None
                              \/ type = r.base
                              \/ CoercesTo(type, r)
  BY <1>2 DEF ReturnValue, IsEmpty, Infers, Infer, Accept, Reject, Cast, r
<1>4. /\ infers => ReturnType.base = None
      /\ r = ReturnType
  BY DEF r
<1>. HIDE DEF infers
<1>. QED  BY <1>1, <1>2, <1>3, <1>4, ReturnKeeps

(* LeaveFunction keeps the invariant: a declared type is not emptied, and  *)
(* the check goes on in the scope the function stands in.                  *)
LEMMA LeaveFunctionKeeps ==
  ASSUME IInv, LeaveFunction
  PROVE  IInv'
<1> DEFINE k == Len(cells)
           r == ReturnType
           base == IF r.pending /\ scopes[current].return_stmt_count = 0 THEN "void"
                   ELSE r.base
<1>1. /\ Len(nest) = 1 /\ nest' = <<>>
      /\ cells' = [cells EXCEPT ![scopes[current].return_type].base = base]
      /\ current' = scopes[current].parent
      /\ UNCHANGED <<scopes, modules, loaded, returned, returns>>
  BY DEF LeaveFunction, Infer
<1>2. nest # <<>> /\ 1 \in DOMAIN nest /\ current = nest[1]
  <2>1. Len(nest) = 1 /\ nest \in Seq(Nat)
    BY <1>1 DEF IInv, Shape
  <2>2. nest # <<>> /\ 1 \in DOMAIN nest
    BY <2>1
  <2>. QED  BY <2>1, <2>2, AtWork
<1>3. /\ k \in DOMAIN cells /\ cells[k] \in Cell /\ r = cells[k]
      /\ scopes[current].return_type = k /\ CellsShape(cells)
  BY <1>2, AtWork DEF IInv, Shape
<1>4. base \in Type \cup {None} /\ (cells[k].pending \/ base # None)
  <2>1. r.base \in Type \cup {None} /\ (r.base = None => r.pending)
    BY <1>3 DEF Cell, CellsShape
  <2>. QED  BY <1>3, <2>1, ConstantAssumption DEF Type
<1>. HIDE DEF k, r, base
<1>5. CellsShape(cells') /\ Len(cells') = k
  <2>1. LET ds == [cells EXCEPT ![k].base = base]
        IN  CellsShape(ds) /\ Len(ds) = Len(cells)
    BY <1>3, <1>4, CellFilled
  <2>2. cells' = [cells EXCEPT ![k].base = base]
    BY <1>1, <1>3
  <2>. QED  BY <2>1, <2>2 DEF k
<1>6. current' \in DOMAIN scopes
  <2>1. current \in 2 .. Len(scopes)
    BY <1>2, NestIsScopes
  <2>2. scopes[current].parent \in 1 .. current - 1
    BY <2>1 DEF IInv, Shape, ScopesShape
  <2>. QED  BY <1>1, <2>1, <2>2, AtWork
<1>7. Shape'
  <2>1. ScopesShape(scopes, cells')
    BY <1>5 DEF IInv, Shape, ScopesShape, k
  <2>2. nest' \in Seq(Nat)
    BY <1>1
  <2>. QED  BY <1>1, <1>5, <1>6, <2>1, <2>2 DEF IInv, Shape
<1>8. Nested' /\ Inference'
  BY <1>1 DEF Nested, NestedIn, Inference
<1>9. Lexical'
  BY <1>1, <1>2 DEF IInv, Lexical, Module
<1>. QED  BY <1>7, <1>8, <1>9 DEF IInv

(* The scopes and the cells after CheckFunction opened its two scopes.     *)
LEMMA EnteredShape ==
  ASSUME IInv, NEW f \in Functions, NEW parameters \in SUBSET Names,
         NEW declared \in Declared, EnterFunction(f, parameters, declared)
  PROVE  LET l == Len(scopes)
             k == Len(cells) + 1
         IN  /\ CellsShape(cells') /\ Len(cells') = k
             /\ cells'[k].base = declared
             /\ declared # None => ~ cells'[k].pending
             /\ ScopesShape(scopes', cells') /\ Grows(scopes, scopes')
             /\ Len(scopes') = l + 2
             /\ scopes'[l + 1].parent = current
             /\ scopes'[l + 2].parent = l + 1
             /\ \A s \in {l + 1, l + 2} :
                  scopes'[s].return_type = k /\ scopes'[s].return_stmt_count = 0
<1> DEFINE l == Len(scopes)
           k == Len(cells) + 1
           type == IF declared = None THEN [pending |-> TRUE, base |-> None]
                   ELSE [pending |-> FALSE, base |-> declared]
           named == [scopes[current] EXCEPT !.table = @ \cup {f}]
           added == [scopes EXCEPT ![current] = named]
           inner == Opened(current, added)
           outer == [inner[l + 1] EXCEPT !.function = TRUE,
                                         !.table = parameters,
                                         !.return_type = k,
                                         !.rt_infer_loc = None]
           opened == [inner EXCEPT ![l + 1] = outer]
<1>1. /\ l + 2 <= MaxScopes
      /\ cells' = Append(cells, type)
      /\ scopes' = Opened(l + 1, opened)
  BY DEF EnterFunction
<1>2. /\ cells' \in Seq(Cell) /\ Len(cells') = k /\ CellsShape(cells')
      /\ cells'[k].base = declared
      /\ declared # None => ~ cells'[k].pending
  <2>1. /\ type \in Cell /\ type.base = declared
        /\ declared = None => type.pending
        /\ declared # None => ~ type.pending
    BY ConstantAssumption DEF Cell
  <2>2. cells \in Seq(Cell) /\ CellsShape(cells) /\ Len(cells) \in Nat
    BY AtWork DEF IInv, Shape
  <2>. HIDE DEF type, named, added, inner, outer, opened, l
  <2>3. /\ cells' \in Seq(Cell) /\ Len(cells') = k /\ DOMAIN cells' = 1 .. k
        /\ \A c \in 1 .. k : cells'[c] = IF c = k THEN type ELSE cells[c]
    BY <1>1, <2>1, <2>2
  <2>4. \A c \in DOMAIN cells' : cells'[c].base = None => cells'[c].pending
    BY <2>1, <2>2, <2>3 DEF CellsShape
  <2>. QED  BY <2>1, <2>2, <2>3, <2>4 DEF CellsShape
<1>. HIDE DEF type
<1>3. /\ l \in Nat \ {0} /\ MaxScopes \in Nat /\ current \in 1 .. l
      /\ DOMAIN scopes = 1 .. l /\ scopes[current] \in Scope
      /\ scopes[current].return_type \in 0 .. Len(cells) /\ Len(cells) \in Nat
  BY AtWork, ConstantAssumption
<1>4. ScopesShape(scopes, cells')
  BY <1>2, <1>3 DEF IInv, Shape, ScopesShape
<1>5. /\ ScopesShape(added, cells') /\ Grows(scopes, added)
      /\ Len(added) = l /\ DOMAIN added = 1 .. l
      /\ added[current].return_type = scopes[current].return_type
  <2>1. /\ named \in Scope /\ named.parent = scopes[current].parent
        /\ named.return_type = scopes[current].return_type
        /\ scopes[current].table \subseteq named.table
    BY <1>3 DEF Scope
  <2>2. named.return_type \in 0 .. Len(cells')
    BY <1>2, <1>3, <2>1
  <2>. HIDE DEF named
  <2>3. current \in DOMAIN scopes /\ cells' \in Seq(Cell)
    BY <1>2, <1>3
  <2>4. /\ ScopesShape(added, cells') /\ Grows(scopes, added)
        /\ Len(added) = Len(scopes) /\ DOMAIN added = DOMAIN scopes
        /\ \A s \in DOMAIN scopes : added[s] = IF s = current THEN named ELSE scopes[s]
    BY <1>4, <2>1, <2>2, <2>3, ReplacedShape
  <2>. QED  BY <1>3, <2>1, <2>4
<1>. HIDE DEF added
<1>6. /\ ScopesShape(inner, cells') /\ Grows(added, inner) /\ Len(inner) = l + 1
      /\ inner[l + 1].parent = current /\ inner[l + 1].return_stmt_count = 0
  <2>1. cells' \in Seq(Cell) /\ Len(added) < MaxScopes /\ current \in DOMAIN added
    BY <1>1, <1>2, <1>3, <1>5
  <2>2. /\ ScopesShape(inner, cells') /\ Grows(added, inner) /\ Len(inner) = Len(added) + 1
        /\ inner[Len(added) + 1].parent = current
        /\ inner[Len(added) + 1].return_stmt_count = 0
    BY <1>5, <2>1, OpenedShape
  <2>. QED  BY <1>5, <2>2
<1>7. inner[l + 1].table = {}
  <2>1. inner = Append(added, [RootScope EXCEPT !.parent = current,
                                 !.return_type = added[current].return_type,
                                 !.rt_infer_loc = added[current].rt_infer_loc])
    BY DEF Opened
  <2>2. added \in Seq(Scope)
    BY <1>5 DEF ScopesShape
  <2>3. inner[l + 1] = [RootScope EXCEPT !.parent = current,
                          !.return_type = added[current].return_type,
                          !.rt_infer_loc = added[current].rt_infer_loc]
    BY <1>5, <2>1, <2>2
  <2>. QED  BY <2>3 DEF RootScope
<1>. HIDE DEF inner
<1>8. /\ ScopesShape(opened, cells') /\ Grows(inner, opened) /\ Len(opened) = l + 1
      /\ opened[l + 1] = outer /\ outer \in Scope
      /\ outer.parent = current /\ outer.return_type = k /\ outer.return_stmt_count = 0
  <2>1. inner[l + 1] \in Scope /\ l + 1 \in DOMAIN inner /\ l + 1 \in 1 .. Len(inner)
    BY <1>3, <1>6 DEF ScopesShape
  <2>2. /\ outer \in Scope /\ outer.parent = current /\ outer.parent = inner[l + 1].parent
        /\ outer.return_type = k /\ outer.return_stmt_count = 0
    <3>1. k \in Nat /\ parameters \subseteq Names \cup Functions
      BY <1>3
    <3>. HIDE DEF k
    <3>. QED  BY <1>6, <2>1, <3>1 DEF Scope
  <2>3. outer.return_type \in 0 .. Len(cells') /\ cells' \in Seq(Cell)
    BY <1>2, <1>3, <2>2
  <2>. HIDE DEF outer
  <2>4. inner[l + 1].table \subseteq outer.table
    BY <1>7
  <2>5. /\ ScopesShape(opened, cells') /\ Grows(inner, opened) /\ Len(opened) = Len(inner)
        /\ \A s \in DOMAIN inner : opened[s] = IF s = l + 1 THEN outer ELSE inner[s]
    <3>1. l + 1 \in DOMAIN inner /\ ScopesShape(inner, cells')
      BY <1>6, <2>1
    <3>. HIDE DEF l, k
    <3>. QED  BY <2>2, <2>3, <2>4, <3>1, ReplacedShape
  <2>. QED  BY <1>6, <2>1, <2>2, <2>5
<1>. HIDE DEF opened, outer
<1>9. /\ ScopesShape(scopes', cells') /\ Grows(opened, scopes') /\ Len(scopes') = l + 2
      /\ scopes'[l + 1] = outer
      /\ scopes'[l + 2].parent = l + 1 /\ scopes'[l + 2].return_type = k
      /\ scopes'[l + 2].return_stmt_count = 0
  <2>1. /\ cells' \in Seq(Cell) /\ Len(opened) < MaxScopes
        /\ l + 1 \in DOMAIN opened /\ Len(opened) + 1 = l + 2
    BY <1>1, <1>2, <1>3, <1>8 DEF ScopesShape
  <2>2. LET os == Opened(l + 1, opened)
        IN /\ ScopesShape(os, cells') /\ Grows(opened, os) /\ Len(os) = Len(opened) + 1
           /\ \A s \in DOMAIN opened : os[s] = opened[s]
           /\ os[Len(opened) + 1].parent = l + 1
           /\ os[Len(opened) + 1].return_type = opened[l + 1].return_type
           /\ os[Len(opened) + 1].return_stmt_count = 0
    BY <1>8, <2>1, OpenedShape
  <2>. QED  BY <1>1, <1>8, <2>1, <2>2
<1>10. Grows(scopes, scopes')
  <2>1. /\ Len(opened) <= Len(scopes') /\ l <= Len(scopes') /\ l <= l + 1
        /\ DOMAIN inner = 1 .. l + 1 /\ DOMAIN opened = 1 .. l + 1
    BY <1>3, <1>6, <1>8, <1>9 DEF ScopesShape
  <2>2. ASSUME NEW t \in DOMAIN scopes
        PROVE  scopes'[t].parent = scopes[t].parent /\ scopes[t].table \subseteq scopes'[t].table
    <3>1. t \in DOMAIN added /\ t \in DOMAIN inner /\ t \in DOMAIN opened
      BY <1>3, <1>5, <2>1
    <3>2. added[t].parent = scopes[t].parent /\ scopes[t].table \subseteq added[t].table
      BY <1>5 DEF Grows
    <3>3. inner[t].parent = added[t].parent /\ added[t].table \subseteq inner[t].table
      BY <1>6, <3>1 DEF Grows
    <3>4. opened[t].parent = inner[t].parent /\ inner[t].table \subseteq opened[t].table
      BY <1>8, <3>1 DEF Grows
    <3>5. scopes'[t].parent = opened[t].parent /\ opened[t].table \subseteq scopes'[t].table
      BY <1>9, <3>1 DEF Grows
    <3>. QED  BY <3>2, <3>3, <3>4, <3>5
  <2>. QED  BY <2>1, <2>2 DEF Grows
<1>. QED  BY <1>2, <1>8, <1>9, <1>10 DEF outer

(* EnterFunction keeps the invariant: the nest is that of the new function *)
(* and its cell the newest.                                                *)
LEMMA EnterFunctionKeeps ==
  ASSUME IInv, NEW f \in Functions, NEW parameters \in SUBSET Names,
         NEW declared \in Declared, EnterFunction(f, parameters, declared)
  PROVE  IInv'
<1> DEFINE l == Len(scopes)
           k == Len(cells) + 1
<1>1. /\ Module.phase = "statements" /\ nest = <<>>
      /\ current' = l + 2
      /\ nest' = <<l + 1, l + 2>>
      /\ returned' = {} /\ returns' = 0
      /\ UNCHANGED <<modules, loaded>>
  BY DEF EnterFunction, AtTopLevel
<1>2. /\ CellsShape(cells') /\ Len(cells') = k
      /\ cells'[k].base = declared
      /\ declared # None => ~ cells'[k].pending
      /\ ScopesShape(scopes', cells') /\ Grows(scopes, scopes')
      /\ Len(scopes') = l + 2
      /\ scopes'[l + 1].parent = current
      /\ scopes'[l + 2].parent = l + 1
      /\ \A s \in {l + 1, l + 2} :
           scopes'[s].return_type = k /\ scopes'[s].return_stmt_count = 0
  BY EnteredShape
<1>3. l \in Nat \ {0} /\ k \in Nat \ {0} /\ MaxReturns \in Nat
  BY AtWork, ConstantAssumption
<1>. HIDE DEF l, k
<1>4. /\ nest' \in Seq(Nat) /\ nest' # <<>> /\ Len(nest') = 2
      /\ DOMAIN nest' = 1 .. 2 /\ nest'[1] = l + 1 /\ nest'[2] = l + 2
  BY <1>1, <1>3
<1>5. Shape'
  <2>1. ModulesShape(modules', loaded', scopes')
    BY <1>1, <1>2, ModulesGrow DEF IInv, Shape
  <2>2. current' \in DOMAIN scopes' /\ returned' \subseteq Type /\ returns' \in 0 .. MaxReturns
    BY <1>1, <1>2, <1>3 DEF ScopesShape
  <2>. QED  BY <1>2, <1>4, <2>1, <2>2 DEF Shape
<1>6. Nested'
  <2>1. NestedIn(nest', scopes', k, 0)
    <3>1. \A i \in DOMAIN nest' : i = 1 \/ i = 2
      BY <1>4
    <3>2. l + 1 \in 2 .. l + 2 /\ l + 2 \in 2 .. l + 2
      BY <1>3
    <3>. QED  BY <1>2, <1>4, <3>1, <3>2 DEF NestedIn
  <2>2. Module'.phase = "statements" /\ current' = nest'[Len(nest')] /\ Len(cells') >= 1
    BY <1>1, <1>2, <1>3, <1>4 DEF Module
  <2>. QED  BY <1>1, <1>2, <2>1, <2>2 DEF Nested
<1>7. Inference'
  BY <1>1, <1>2 DEF Inference, CoercesTo
<1>8. Lexical'
  BY <1>1, <1>2, <1>4 DEF IInv, Lexical, Module
<1>. QED  BY <1>5, <1>6, <1>7, <1>8 DEF IInv

-----------------------------------------------------------------------------
(* The steps between functions.                                            *)

(* A step between functions, which changes the module and the current      *)
(* scope alone.                                                            *)
LEMMA ModuleStepKeeps ==
  ASSUME IInv, nest = <<>>, UNCHANGED <<scopes, cells, nest, returned, returns>>,
         ModulesShape(modules', loaded', scopes), current' \in DOMAIN scopes,
         loaded' = 1 /\ Module'.phase = "statements" => current' = 1
  PROVE  IInv'
<1>1. Shape'
  BY DEF IInv, Shape
<1>2. Nested'
  BY DEF IInv, Nested, NestedIn
<1>3. Inference' /\ Lexical'
  BY DEF Inference, Lexical
<1>. QED  BY <1>1, <1>2, <1>3 DEF IInv

(* A module that is out of its statements is replaced in its place.        *)
LEMMA ModuleChangeKeeps ==
  ASSUME IInv, nest = <<>>, UNCHANGED <<scopes, cells, nest, returned, returns, loaded>>,
         current' \in DOMAIN scopes,
         NEW m \in ModuleState, m.phase = "pending", InModule(m),
         \A i \in DOMAIN m.pending : Bound(m.pending[i], scopes),
         \A i \in DOMAIN m.queue : Bound(m.queue[i], scopes)
  PROVE  IInv'
<1>1. modules' = [modules EXCEPT ![Len(modules)] = m]
  BY DEF InModule
<1>2. ModulesShape(modules, loaded, scopes)
  BY DEF IInv, Shape
<1>3. LET rs == [modules EXCEPT ![Len(modules)] = m]
      IN  ModulesShape(rs, loaded, scopes) /\ Len(rs) = Len(modules) /\ rs[Len(rs)] = m
  BY <1>2, ModuleReplaced
<1>4. ModulesShape(modules', loaded', scopes) /\ Module' = m
  BY <1>1, <1>3 DEF Module
<1>. QED  BY <1>4, ModuleStepKeeps

(* What the invariant says of the module that is checked.                  *)
LEMMA CurrentModule ==
  ASSUME IInv
  PROVE  /\ Module \in ModuleState
         /\ Module.pending \in Seq(PendingExpr) /\ Module.queue \in Seq(PendingExpr)
         /\ \A i \in DOMAIN Module.pending : Bound(Module.pending[i], scopes)
         /\ \A i \in DOMAIN Module.queue : Bound(Module.queue[i], scopes)
         /\ Module.phase # "statements" => nest = <<>>
         /\ current \in DOMAIN scopes
<1>1. ModulesShape(modules, loaded, scopes) /\ current \in DOMAIN scopes
  BY DEF IInv, Shape
<1>2. Module \in ModuleState
  BY <1>1, LastModule DEF Module
<1>3. /\ \A i \in DOMAIN Module.pending : Bound(Module.pending[i], scopes)
      /\ \A i \in DOMAIN Module.queue : Bound(Module.queue[i], scopes)
  BY <1>1, LastModule, ModuleType DEF Module
<1>4. Module.phase # "statements" => nest = <<>>
  BY DEF IInv, Nested
<1>. QED  BY <1>1, <1>2, <1>3, <1>4 DEF ModuleState

(* Import adds a module with nothing set aside, after which there is more  *)
(* than one.                                                               *)
LEMMA ImportKeeps ==
  ASSUME IInv, Import
  PROVE  IInv'
<1>1. /\ nest = <<>> /\ loaded' = loaded + 1
      /\ modules' = Append(modules, NewModule)
      /\ UNCHANGED <<scopes, current, cells, nest, returned, returns>>
  BY DEF Import, AtTopLevel
<1>2. /\ modules \in Seq(ModuleState) /\ Len(modules) \in Nat \ {0}
      /\ loaded \in Nat /\ Len(modules) <= loaded
      /\ current \in DOMAIN scopes /\ ModulesShape(modules, loaded, scopes)
  BY LastModule DEF IInv, Shape, ModulesShape
<1>3. NewModule \in ModuleState /\ NewModule.pending = <<>> /\ NewModule.queue = <<>>
  BY DEF NewModule, ModuleState
<1>4. /\ modules' \in Seq(ModuleState) /\ Len(modules') = Len(modules) + 1
      /\ \A m \in DOMAIN modules' :
           modules'[m] = IF m = Len(modules) + 1 THEN NewModule ELSE modules[m]
      /\ \A m \in DOMAIN modules' : m # Len(modules) + 1 => m \in DOMAIN modules
  BY <1>1, <1>2, <1>3
<1>5. ModulesShape(modules', loaded', scopes)
  <2>1. ASSUME NEW m \in DOMAIN modules'
        PROVE  /\ \A i \in DOMAIN modules'[m].pending : Bound(modules'[m].pending[i], scopes)
               /\ \A i \in DOMAIN modules'[m].queue : Bound(modules'[m].queue[i], scopes)
    <3>1. CASE m = Len(modules) + 1
      BY <1>3, <1>4, <3>1
    <3>2. CASE m # Len(modules) + 1
      <4>1. m \in DOMAIN modules /\ modules'[m] = modules[m]
        BY <1>4, <3>2
      <4>. QED  BY <1>2, <4>1 DEF ModulesShape
    <3>. QED  BY <3>1, <3>2
  <2>2. modules' # <<>> /\ loaded' \in Nat /\ Len(modules') <= loaded'
    BY <1>1, <1>2, <1>4
  <2>. QED  BY <1>4, <2>1, <2>2 DEF ModulesShape
<1>6. loaded' # 1
  BY <1>1, <1>2
<1>. QED  BY <1>1, <1>2, <1>5, <1>6, ModuleStepKeeps

(* StatementsDone changes the phase of the module only.                    *)
LEMMA StatementsDoneKeeps ==
  ASSUME IInv, StatementsDone
  PROVE  IInv'
<1> DEFINE m == [Module EXCEPT !.phase = "pending"]
<1>1. /\ nest = <<>> /\ InModule(m)
      /\ UNCHANGED <<scopes, current, cells, nest, returned, returns, loaded>>
  BY DEF StatementsDone
<1>2. /\ m \in ModuleState /\ m.phase = "pending"
      /\ m.pending = Module.pending /\ m.queue = Module.queue
  BY CurrentModule DEF ModuleState
<1>. HIDE DEF m
<1>. QED  BY <1>1, <1>2, CurrentModule, ModuleChangeKeeps

(* PendingRound moves the expressions set aside to the queue.              *)
LEMMA PendingRoundKeeps ==
  ASSUME IInv, PendingRound
  PROVE  IInv'
<1> DEFINE m == [Module EXCEPT !.queue = Module.pending, !.pending = <<>>, !.round = @ + 1]
<1>1. /\ Module.phase = "pending" /\ InModule(m)
      /\ UNCHANGED <<scopes, current, cells, nest, returned, returns, loaded>>
  BY DEF PendingRound
<1>2. /\ m \in ModuleState /\ m.phase = "pending"
      /\ m.queue = Module.pending /\ m.pending = <<>>
  <2>1. /\ Module \in ModuleState /\ Module.pending \in Seq(PendingExpr)
        /\ <<>> \in Seq(PendingExpr) /\ Module.round + 1 \in Nat
    BY CurrentModule DEF ModuleState
  <2>. QED  BY <1>1, <2>1 DEF ModuleState
<1>. HIDE DEF m
<1>. QED  BY <1>1, <1>2, CurrentModule, ModuleChangeKeeps

(* Recheck keeps the invariant: the scope of the expression becomes the    *)
(* current one, and its name is still bound there.                         *)
LEMMA RecheckKeeps ==
  ASSUME IInv, Recheck
  PROVE  IInv'
<1> DEFINE pe == Head(Module.queue)
           again == [pe EXCEPT !.binding = Lookup(scopes, pe.scope, pe.name)]
           rest == IF Base(scopes[pe.scope].return_type) = None
                   THEN Append(Module.pending, again) ELSE Module.pending
           m == [Module EXCEPT !.queue = Tail(Module.queue), !.pending = rest]
<1>1. /\ Module.phase = "pending" /\ Module.queue # <<>>
      /\ current' = pe.scope
      /\ InModule(m)
      /\ UNCHANGED <<scopes, cells, nest, returned, returns, loaded>>
  BY DEF Recheck
<1>2. /\ pe \in PendingExpr /\ Bound(pe, scopes)
      /\ Tail(Module.queue) \in Seq(PendingExpr)
      /\ \A i \in DOMAIN Tail(Module.queue) : Bound(Tail(Module.queue)[i], scopes)
  BY <1>1, CurrentModule, Shortened
<1>. HIDE DEF pe
<1>3. again \in PendingExpr /\ Bound(again, scopes)
  <2>1. /\ pe.scope \in DOMAIN scopes /\ pe.scope \in 0 .. Len(scopes)
        /\ pe.binding \in Nat /\ pe.binding # 0
        /\ pe.binding <= Lookup(scopes, pe.scope, pe.name)
    BY <1>2, AtWork DEF Bound, PendingExpr
  <2>2. Lookup(scopes, pe.scope, pe.name) \in 0 .. pe.scope
    BY <2>1, LookupType DEF IInv, Shape
  <2>3. Lookup(scopes, pe.scope, pe.name) \in Nat \ {0} /\ pe.scope \in Nat
    BY <2>1, <2>2
  <2>4. /\ again \in PendingExpr /\ again.scope = pe.scope /\ again.name = pe.name
        /\ again.binding = Lookup(scopes, pe.scope, pe.name)
    BY <1>2, <2>3 DEF PendingExpr
  <2>. HIDE DEF again
  <2>. QED  BY <2>1, <2>3, <2>4 DEF Bound
<1>. HIDE DEF again
<1>4. rest \in Seq(PendingExpr) /\ \A i \in DOMAIN rest : Bound(rest[i], scopes)
  BY <1>3, CurrentModule, Appended
<1>. HIDE DEF rest
<1>5. /\ m \in ModuleState /\ m.phase = "pending"
      /\ m.queue = Tail(Module.queue) /\ m.pending = rest
  BY <1>1, <1>2, <1>4, CurrentModule DEF ModuleState
<1>. HIDE DEF m
<1>6. current' \in DOMAIN scopes /\ nest = <<>>
  BY <1>1, <1>2, CurrentModule DEF Bound
<1>7. /\ \A i \in DOMAIN m.pending : Bound(m.pending[i], scopes)
      /\ \A i \in DOMAIN m.queue : Bound(m.queue[i], scopes)
  BY <1>2, <1>4, <1>5
<1>. QED  BY <1>1, <1>5, <1>6, <1>7, ModuleChangeKeeps

(* CheckDone leaves the importer as the current module, or the root module *)
(* done.                                                                   *)
LEMMA CheckDoneKeeps ==
  ASSUME IInv, CheckDone
  PROVE  IInv'
<1> DEFINE m == [Module EXCEPT !.phase = "done"]
<1>1. /\ Module.phase = "pending"
      /\ modules' = IF Len(modules) > 1 THEN SubSeq(modules, 1, Len(modules) - 1) ELSE <<m>>
      /\ UNCHANGED <<scopes, current, cells, nest, returned, returns, loaded>>
  BY DEF CheckDone
<1>2. /\ modules \in Seq(ModuleState) /\ Len(modules) \in Nat \ {0}
      /\ loaded \in Nat /\ Len(modules) <= loaded
      /\ current \in DOMAIN scopes /\ ModulesShape(modules, loaded, scopes)
  BY LastModule DEF IInv, Shape, ModulesShape
<1>3. nest = <<>>
  BY <1>1, CurrentModule
<1>4. CASE Len(modules) > 1
  <2>1. /\ modules' \in Seq(ModuleState) /\ Len(modules') = Len(modules) - 1
        /\ \A i \in 1 .. Len(modules) - 1 : modules'[i] = modules[i]
    BY <1>1, <1>2, <1>4, SubSeqProperties
  <2>2. \A i \in DOMAIN modules' : i \in DOMAIN modules /\ modules'[i] = modules[i]
    <3>1. DOMAIN modules' = 1 .. Len(modules) - 1 /\ DOMAIN modules = 1 .. Len(modules)
      BY <1>2, <2>1
    <3>. QED  BY <1>2, <2>1, <3>1
  <2>3. ModulesShape(modules', loaded, scopes)
    <3>1. modules' # <<>> /\ Len(modules') <= loaded
      BY <1>2, <1>4, <2>1
    <3>. QED  BY <1>2, <2>1, <2>2, <3>1 DEF ModulesShape
  <2>4. loaded # 1
    BY <1>2, <1>4
  <2>. QED  BY <1>1, <1>2, <1>3, <2>3, <2>4, ModuleStepKeeps
<1>5. CASE ~ (Len(modules) > 1)
  <2>1. /\ m \in ModuleState /\ m.phase = "done"
        /\ m.pending = Module.pending /\ m.queue = Module.queue
    BY CurrentModule DEF ModuleState
  <2>. HIDE DEF m
  <2>2. /\ modules' = <<m>> /\ modules' \in Seq(ModuleState) /\ Len(modules') = 1
        /\ DOMAIN modules' = {1} /\ modules'[1] = m
    BY <1>1, <1>5, <2>1
  <2>3. ModulesShape(modules', loaded, scopes)
    BY <1>2, <2>1, <2>2, CurrentModule DEF ModulesShape
  <2>4. Module'.phase # "statements"
    BY <2>1, <2>2 DEF Module
  <2>. QED  BY <1>1, <1>2, <1>3, <2>3, <2>4, ModuleStepKeeps
<1>. QED  BY <1>4, <1>5

-----------------------------------------------------------------------------
(* The inductive invariant, and what follows from it.                      *)

(* The initial state has the invariant.                                    *)
LEMMA InitEstablishes ==
  ASSUME Init
  PROVE  IInv
<1>1. /\ scopes = <<RootScope>> /\ Len(scopes) = 1 /\ DOMAIN scopes = {1}
      /\ scopes \in Seq(Scope) /\ scopes[1] = RootScope
  BY RootIsScope DEF Init
<1>2. MaxScopes \in Nat \ {0} /\ MaxReturns \in Nat
  BY ConstantAssumption
<1>3. ScopesShape(scopes, cells) /\ CellsShape(cells)
  <2>1. cells = <<>> /\ cells \in Seq(Cell) /\ Len(cells) = 0 /\ DOMAIN cells = {}
    BY DEF Init
  <2>2. RootScope.parent = 0 /\ RootScope.return_type = 0
    BY DEF RootScope
  <2>. QED  BY <1>1, <1>2, <2>1, <2>2 DEF ScopesShape, CellsShape
<1>4. ModulesShape(modules, loaded, scopes)
  <2>1. NewModule \in ModuleState /\ NewModule.pending = <<>> /\ NewModule.queue = <<>>
    BY DEF NewModule, ModuleState
  <2>2. /\ modules \in Seq(ModuleState) /\ Len(modules) = 1 /\ DOMAIN modules = {1}
        /\ modules[1] = NewModule /\ loaded = 1
    BY <2>1 DEF Init
  <2>. QED  BY <2>1, <2>2 DEF ModulesShape
<1>5. Shape
  BY <1>1, <1>2, <1>3, <1>4 DEF Init, Shape
<1>6. Nested /\ Inference /\ Lexical
  BY DEF Init, Nested, NestedIn, Inference, Lexical
<1>. QED  BY <1>5, <1>6 DEF IInv

(* Each step keeps the invariant.                                          *)
LEMMA NextKeeps ==
  ASSUME IInv, [Next]_vars
  PROVE  IInv'
<1>1. CASE Next
  <2>1. CASE \E f \in Functions, parameters \in SUBSET Names, declared \in Declared :
               EnterFunction(f, parameters, declared)
    BY <2>1, EnterFunctionKeeps
  <2>2. CASE \E n \in Names : Declare(n) \/ CallSelf(n) \/ ReturnSelf(n)
    BY <2>2, DeclareKeeps, CallSelfKeeps, ReturnSelfKeeps
  <2>3. CASE \E type \in Value : ReturnValue(type)
    BY <2>3, ReturnValueKeeps
  <2>4. CASE OpenScope \/ CloseScope \/ ReturnNothing \/ LeaveFunction
    BY <2>4, OpenScopeKeeps, CloseScopeKeeps, ReturnNothingKeeps, LeaveFunctionKeeps
  <2>5. CASE Import \/ StatementsDone
    BY <2>5, ImportKeeps, StatementsDoneKeeps
  <2>6. CASE PendingLoop
    BY <2>6, PendingRoundKeeps, RecheckKeeps, CheckDoneKeeps DEF PendingLoop
  <2>. QED  BY <1>1, <2>1, <2>2, <2>3, <2>4, <2>5, <2>6 DEF Next
<1>2. CASE UNCHANGED vars
  <2>1. UNCHANGED <<scopes, current, cells, modules, loaded, nest, returned, returns>>
    BY <1>2 DEF vars
  <2>2. Shape' /\ Nested'
    BY <2>1 DEF IInv, Shape, Nested, Module
  <2>3. Inference' /\ Lexical'
    BY <2>1 DEF IInv, Inference, Lexical, Module, CoercesTo
  <2>. QED  BY <2>2, <2>3 DEF IInv
<1>. QED  BY <1>1, <1>2

(* The invariant of the check holds in every reachable state.              *)
THEOREM Invariance == Spec => []IInv
<1>1. Init => IInv
  BY InitEstablishes
<1>2. IInv /\ [Next]_vars => IInv'
  BY NextKeeps
<1>. QED  BY <1>1, <1>2, PTL DEF Spec

(* Every variable keeps its type: the parents of scopes come before them,  *)
(* a return type is one of the cells, and no declared one is empty.        *)
THEOREM TypeCorrect == Spec => []TypeOK
<1>1. IInv => TypeOK
  <2>. SUFFICES ASSUME IInv  PROVE TypeOK
    OBVIOUS
  <2>1. ASSUME NEW s \in DOMAIN scopes
        PROVE  /\ scopes[s].parent \in 0 .. s - 1
               /\ scopes[s].table \subseteq Names \cup Functions
               /\ scopes[s].return_type \in 0 .. Len(cells)
               /\ scopes[s].return_stmt_count \in 0 .. MaxReturns
    <3>1. scopes[s] \in Scope /\ s \in 1 .. Len(scopes) /\ Len(scopes) \in Nat
      BY AtWork
    <3>2. scopes[s].parent \in 0 .. s - 1
      BY <3>1 DEF IInv, Shape, ScopesShape
    <3>. QED  BY <3>1, <3>2 DEF IInv, Shape, ScopesShape, Scope
  <2>2. ASSUME NEW c \in DOMAIN cells
        PROVE  /\ cells[c].base \in Type \cup {None}
               /\ ~ cells[c].pending => cells[c].base # None
    <3>1. cells[c] \in Cell
      BY AtWork
    <3>. QED  BY <3>1 DEF IInv, Shape, CellsShape, Cell
  <2>3. ASSUME NEW m \in DOMAIN modules
        PROVE  modules[m].phase \in {"statements", "pending", "done"}
    <3>1. modules[m] \in ModuleState
      BY ModuleType DEF IInv, Shape
    <3>. QED  BY <3>1 DEF ModuleState
  <2>. QED  BY <2>1, <2>2, <2>3 DEF TypeOK, IInv, Shape
<1>. QED  BY <1>1, Invariance, PTL

(* All the open scopes of a function have its return type, so that a       *)
(* return statement at any depth fills the cell of the function it is in.  *)
THEOREM OneReturnType == Spec => []ReturnTypeShared
<1>1. IInv => ReturnTypeShared
  BY DEF IInv, Nested, NestedIn, ReturnTypeShared
<1>. QED  BY <1>1, Invariance, PTL

(* The place where the return type was inferred is known in the innermost  *)
(* scope, however many scopes were opened and closed since.                *)
THEOREM InferenceHasPlace == Spec => []InferLocKnown
<1>1. IInv => InferLocKnown
  <2>. SUFFICES ASSUME IInv, nest # <<>>  PROVE InferLocKnown
    BY DEF InferLocKnown
  <2>1. ReturnType = cells[Len(cells)]
    BY AtWork
  <2>. QED  BY <2>1 DEF InferLocKnown, IInv, Inference
<1>. QED  BY <1>1, Invariance, PTL

(* What a function was allowed to return has its return type, or a type    *)
(* that is coerced to it.                                                  *)
THEOREM ReturnedFits == Spec => []ReturnsFit
<1>1. IInv => ReturnsFit
  <2>. SUFFICES ASSUME IInv, nest # <<>>  PROVE ReturnsFit
    BY DEF ReturnsFit
  <2>1. ReturnType = cells[Len(cells)]
    BY AtWork
  <2>. QED  BY <2>1 DEF ReturnsFit, IInv, Inference, CoercesTo
<1>. QED  BY <1>1, Invariance, PTL

(* An expression set aside stays bound: what it named is found from its    *)
(* scope whenever it is checked again, at the same or a nearer place.      *)
THEOREM SetAsideStaysBound == Spec => []PendingStaysBound
<1>1. IInv => PendingStaysBound
  BY ModuleType DEF IInv, Shape, PendingStaysBound, Bound
<1>. QED  BY <1>1, Invariance, PTL

(* Names are looked up lexically: along the scopes of the open constructs, *)
(* innermost first, and then in the root.  By the way to the root from the *)
(* k outermost of them, for the least k where it would fail.               *)
LEMMA PathOfNest ==
  ASSUME IInv, nest # <<>>, scopes[nest[1]].parent = 1
  PROVE  Path(scopes, current) = <<1>> \o nest
<1> DEFINE Upto(k) == <<1>> \o SubSeq(nest, 1, k)
           Wrong == {k \in 1 .. Len(nest) : Path(scopes, nest[k]) # Upto(k)}
<1>0. /\ ScopesShape(scopes, cells) /\ MaxScopes \in Nat /\ Len(scopes) <= MaxScopes
      /\ DOMAIN scopes = 1 .. Len(scopes) /\ Len(scopes) \in Nat \ {0}
      /\ nest \in Seq(Nat) /\ Len(nest) \in Nat /\ DOMAIN nest = 1 .. Len(nest)
      /\ Len(nest) >= 1 /\ current = nest[Len(nest)]
  BY AtWork, ConstantAssumption DEF IInv, Shape, ScopesShape
<1>1. ASSUME NEW s \in DOMAIN scopes
      PROVE  Path(scopes, s) = Append(Path(scopes, scopes[s].parent), s)
  <2>1. s \in 0 .. MaxScopes /\ s # 0
    BY <1>0
  <2>. QED  BY <1>0, <2>1, PathEquation
<1>2. Path(scopes, 1) = <<1>>
  <2>1. Path(scopes, 0) = <<>>
    BY <1>0, PathEquation
  <2>2. scopes[1].parent = 0 /\ 1 \in DOMAIN scopes
    BY <1>0 DEF ScopesShape
  <2>3. Append(<<>>, 1) = <<1>>
    OBVIOUS
  <2>. QED  BY <1>1, <2>1, <2>2, <2>3
<1>3. ASSUME NEW k \in 1 .. Len(nest)
      PROVE  /\ Path(scopes, nest[k]) = Append(Path(scopes, scopes[nest[k]].parent), nest[k])
             /\ k > 1 => scopes[nest[k]].parent = nest[k - 1]
             /\ nest[k] \in Nat
  <2>1. nest[k] \in DOMAIN scopes
    BY <1>0, NestIsScopes
  <2>2. k > 1 => scopes[nest[k]].parent = nest[k - 1]
    BY <1>0 DEF IInv, Nested, NestedIn
  <2>. QED  BY <1>0, <1>1, <2>1, <2>2
<1>4. ASSUME NEW k \in 1 .. Len(nest)
      PROVE  Upto(k) = Append(<<1>> \o SubSeq(nest, 1, k - 1), nest[k])
  <2>1. SubSeq(nest, 1, k) = Append(SubSeq(nest, 1, k - 1), nest[k])
    BY <1>0
  <2>2. SubSeq(nest, 1, k - 1) \in Seq(Nat)
    BY <1>0, SubSeqProperties
  <2>. QED  BY <1>3, <2>1, <2>2
<1>5. Wrong = {}
  <2>. SUFFICES ASSUME Wrong # {}  PROVE FALSE
    OBVIOUS
  <2>1. PICK k \in Wrong : \A j \in Wrong : k <= j
    <3>1. Wrong \subseteq Nat
      BY <1>0
    <3>. HIDE DEF Wrong
    <3>. QED  BY <3>1, LeastNatural
  <2>2. k \in 1 .. Len(nest) /\ Path(scopes, nest[k]) # Upto(k)
    OBVIOUS
  <2>3. CASE k = 1
    <3>1. SubSeq(nest, 1, 0) = <<>> /\ <<1>> \o <<>> = <<1>>
      BY <1>0
    <3>2. Upto(k) = Append(<<1>>, nest[k])
      BY <1>4, <2>2, <2>3, <3>1
    <3>. QED  BY <1>2, <1>3, <2>2, <2>3, <3>2
  <2>4. CASE k # 1
    <3>1. k - 1 \in 1 .. Len(nest) /\ k > 1
      BY <1>0, <2>2, <2>4
    <3>2. k - 1 \notin Wrong
      BY <1>0, <2>1, <2>2, <3>1
    <3>3. Path(scopes, nest[k - 1]) = Upto(k - 1)
      BY <3>1, <3>2
    <3>. QED  BY <1>3, <1>4, <2>2, <3>1, <3>3
  <2>. QED  BY <2>3, <2>4
<1>6. Path(scopes, nest[Len(nest)]) = Upto(Len(nest))
  BY <1>0, <1>5
<1>7. SubSeq(nest, 1, Len(nest)) = nest
  BY <1>0
<1>. QED  BY <1>0, <1>6, <1>7

(* Names are looked up lexically in a program of one module: the scopes on *)
(* the way from the current one to the root are those of the constructs    *)
(* that are open, in their order, and no other.                            *)
THEOREM LexicalLookup == Spec => []LookupIsLexical
<1>1. IInv => LookupIsLexical
  <2>. SUFFICES ASSUME IInv, loaded = 1, Module.phase = "statements"
                PROVE  Path(scopes, current) = <<1>> \o nest
    BY DEF LookupIsLexical
  <2>1. CASE nest = <<>>
    <3>1. /\ current = 1 /\ ScopesShape(scopes, cells) /\ MaxScopes \in Nat \ {0}
          /\ 1 \in DOMAIN scopes /\ scopes[1].parent = 0
      BY <2>1, AtWork, ConstantAssumption DEF IInv, Lexical, Shape, ScopesShape
    <3>2. Path(scopes, 0) = <<>>
      BY <3>1, PathEquation
    <3>3. Path(scopes, 1) = Append(Path(scopes, 0), 1)
      BY <3>1, PathEquation
    <3>4. Append(<<>>, 1) = <<1>> /\ <<1>> \o <<>> = <<1>>
      OBVIOUS
    <3>. QED  BY <2>1, <3>1, <3>2, <3>3, <3>4
  <2>2. CASE nest # <<>>
    BY <2>2, PathOfNest DEF IInv, Lexical
  <2>. QED  BY <2>1, <2>2
<1>. QED  BY <1>1, Invariance, PTL
=============================================================================
