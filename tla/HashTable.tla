------------------------------- MODULE HashTable -------------------------------
(***************************************************************************)
(* A table of names as its clients change it, src/src/hashtable.h and the  *)
(* tables of scopes in src/src/symbols.cpp.  Most clients look before they *)
(* put; CheckVariableDecl reports a name declared before and adds it       *)
(* again, and so does CheckFunction.                                       *)
(***************************************************************************)
EXTENDS Probing

VARIABLES
  slots,        \* the slots, from 0 on: a value with its name, or None
  put           \* ghost: the values put for each name

table_vars == <<slots, put>>

TableInit ==
  /\ slots = Empty(FirstSize)
  /\ put = [n \in Names |-> {}]

(* Put, each value once for each name, which bounds the table.             *)
Put(n, v) ==
  /\ v \notin put[n]
  /\ slots' = Inserted(IF IsFull(slots) THEN Grown(slots) ELSE slots,
                       [name |-> n, value |-> v])
  /\ put' = [put EXCEPT ![n] = @ \cup {v}]

TableNext == \E n \in Names, v \in Values : Put(n, v)

TableSpec == TableInit /\ [][TableNext]_table_vars

-----------------------------------------------------------------------------

(* The table is a map: probing, wrapping and growing are not seen, no name *)
(* is lost or hidden by others, none is found that was not put, and a name *)
(* put once keeps its value whatever is put later.                         *)
Map == INSTANCE NameMap WITH map <- [n \in Names |-> Found(slots, n)]

IsMap == Map!Spec
=============================================================================
