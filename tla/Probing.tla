-------------------------------- MODULE Probing --------------------------------
(***************************************************************************)
(* The open addressing of src/src/hashtable.h, which src/src/symbols.cpp   *)
(* has once more for the tables of scopes, as functions of a table.  A     *)
(* value lies in the first free slot from the slot of its name's hash on,  *)
(* around the end of the table.  A full table is copied to a larger one,   *)
(* slot by slot.                                                           *)
(***************************************************************************)
EXTENDS Naturals, FiniteSets

CONSTANTS
  Names,
  Values,
  None,
  Hash,         \* the hash of each name
  FirstSize,    \* the size of a new table, 31 or INITIAL_SYM_TABLE_SIZE
  GrowSize      \* what a full one grows by, 32 or INITIAL_SYM_TABLE_SIZE

ASSUME TableAssumption ==
  /\ FirstSize \in Nat \ {0} /\ GrowSize \in Nat \ {0}
  /\ Hash \in [Names -> Nat]

Entry == [name : Names, value : Values]

(* The null pointer is not an entry.                                       *)
ASSUME NoneAssumption == None \notin Entry

Size(table) == Cardinality(DOMAIN table)

Empty(size) == [i \in 0 .. size - 1 |-> None]

Slot(table, n, offset) == (Hash[n] + offset) % Size(table)

(* The first offset of the probe at which P holds, the size if there is    *)
(* none.                                                                   *)
FirstOffset(table, P(_)) ==
  LET hits == {k \in 0 .. Size(table) - 1 : P(k)}
  IN IF hits = {} THEN Size(table) ELSE CHOOSE k \in hits : \A j \in hits : k <= j

FreeOffset(table, n) ==
  FirstOffset(table, LAMBDA k : table[Slot(table, n, k)] = None)

IsFull(table) == \A i \in DOMAIN table : table[i] # None

(* Put into a table with a free slot.                                      *)
Inserted(table, e) ==
  [table EXCEPT ![Slot(table, e.name, FreeOffset(table, e.name))] = e]

(* Faulty variant: the slots are copied as they lie.                       *)
GrownInPlace(table) ==
  [i \in 0 .. Size(table) + GrowSize - 1 |-> IF i < Size(table) THEN table[i] ELSE None]

(* Grow.                                                                   *)
Grown(table) ==
  LET Copied[i \in 0 .. Size(table)] ==
        IF i = 0 THEN Empty(Size(table) + GrowSize)
                 ELSE Inserted(Copied[i - 1], table[i - 1])
  IN Copied[Size(table)]

(* Lookup, which ends at the name, at a free slot, or after a round.       *)
Found(table, n) ==
  LET k == FirstOffset(table, LAMBDA j :
             LET e == table[Slot(table, n, j)] IN e = None \/ e.name = n)
      e == table[Slot(table, n, k)]
  IN IF k = Size(table) \/ e = None THEN None ELSE e.value
=============================================================================
