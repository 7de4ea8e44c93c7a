-------------------------------- MODULE NameMap --------------------------------
(***************************************************************************)
(* What a table of names promises, src/src/hashtable.h: a name that was    *)
(* put is found from then on.  A name put once has the value put for it; a *)
(* name put again has one of its values, not always the same one.          *)
(***************************************************************************)
CONSTANTS Names, Values, None

VARIABLES
  put,    \* the values put for each name
  map     \* the value found for each name, None before one is put

vars == <<put, map>>

Init ==
  /\ put = [n \in Names |-> {}]
  /\ map = [n \in Names |-> None]

Put(n, v) ==
  /\ put' = [put EXCEPT ![n] = @ \cup {v}]
  /\ map' \in [Names -> Values \cup {None}]
  /\ \A m \in Names : IF put'[m] = {} THEN map'[m] = None ELSE map'[m] \in put'[m]

Next == \E n \in Names, v \in Values : Put(n, v)

Spec == Init /\ [][Next]_vars
=============================================================================
