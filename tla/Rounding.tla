------------------------------- MODULE Rounding -------------------------------
(* Align of src/src/memory.cpp, which the arena and the stack frames use.  *)
EXTENDS Integers

(* Faulty variant: rounds down.                                            *)
AlignDown(x, a) == x - (x % a)

(* The mask of the code needs a power of two, and then this is its value.  *)
Align(x, a) == (x + (a - 1)) - ((x + (a - 1)) % a)
=============================================================================
