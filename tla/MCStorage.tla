------------------------------- MODULE MCStorage -------------------------------
(* What hands things out for TLC: the arena, the hash table and the pool   *)
(* of registers.  They share no state, so that a behaviour uses one.       *)
EXTENDS Arena, HashTable, RegAlloc, TLC

VARIABLE
  used      \* "arena", "table" or "pool"

(* Requests that fit, fill and exceed blocks of eight bytes, with and      *)
(* without padding.                                                        *)
SomeRequests ==
  {[size |-> 0, alignment |-> 1], [size |-> 1, alignment |-> 1], [size |-> 4, alignment |-> 4],
   [size |-> 8, alignment |-> 2], [size |-> 10, alignment |-> 1]}

SomeAddresses == {2, 13, 24, 37}

FourNames == {"a", "b", "c", "d"}
TwoValues == {1, 2}

(* Two names with one hash, one that meets them in tables of two slots and *)
(* lies at the end of one of four, one that meets them in tables of up to  *)
(* four and lies at the end of one of six.                                 *)
Hashes == [a |-> 1, b |-> 1, c |-> 3, d |-> 5]

(* Five registers of two classes: the middle of a free array, its last     *)
(* element and an array without callee saves all occur.                    *)
CONSTANTS general, float, rax, rcx, rbx, xmm0, xmm1

MCClass       == {general, float}
MCCallerSaved == (general :> <<rax, rcx>>) @@ (float :> <<xmm0, xmm1>>)
MCCalleeSaved == (general :> <<rbx>>) @@ (float :> <<>>)

MCInit ==
  /\ used \in {"arena", "table", "pool"}
  /\ Init
  /\ TableInit
  /\ PoolInit
  /\ used # "pool" => free_regs = FreshFreeRegs(TRUE)

MCNext ==
  \/ used = "arena" /\ Next      /\ UNCHANGED <<used, table_vars, pool_vars>>
  \/ used = "table" /\ TableNext /\ UNCHANGED <<used, vars, pool_vars>>
  \/ used = "pool"  /\ PoolNext  /\ UNCHANGED <<used, vars, table_vars>>

MCSpec == MCInit /\ [][MCNext]_<<used, vars, table_vars, pool_vars>>

=============================================================================
