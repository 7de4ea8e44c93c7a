-------------------------------- MODULE Arrays --------------------------------
(***************************************************************************)
(* The arrays of src/src/array.h that the register allocator uses as sets  *)
(* and as stacks: a sequence, and what takes an element out of it.         *)
(***************************************************************************)
EXTENDS Naturals, Sequences

Elements(s) == {s[i] : i \in DOMAIN s}

Distinct(s) == \A i, j \in DOMAIN s : s[i] = s[j] => i = j

(* Faulty variant: the last element is dropped, not moved to the hole.     *)
EraseLast(s, i) == [j \in 1 .. Len(s) - 1 |-> s[j]]

(* array::EraseBySwap: the last element fills the hole.                    *)
EraseBySwap(s, i) ==
  [j \in 1 .. Len(s) - 1 |-> IF j = i THEN s[Len(s)] ELSE s[j]]

(* array::Back and array::Pop, as GetFreeGeneralRegister uses them.        *)
Back(s) == s[Len(s)]
Pop(s)  == [j \in 1 .. Len(s) - 1 |-> s[j]]

=============================================================================
