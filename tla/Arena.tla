--------------------------------- MODULE Arena ---------------------------------
(***************************************************************************)
(* The memory arena of src/src/memory.cpp, from which all passes allocate: *)
(* a stack of blocks, of which the newest hands out memory from its bottom *)
(* to its top and takes back only what it handed out last.                 *)
(***************************************************************************)
EXTENDS Rounding, Sequences, FiniteSets

CONSTANTS
  Requests,     \* what is asked for: sizes with alignments
  Addresses,    \* the addresses at which malloc can place a block's memory
  HeaderSize,   \* sizeof(Memory_Block)
  BlockSize,    \* the usual size of a block, MBytes(4)
  Page,         \* larger ones are multiples of this, KBytes(4)
  MaxPushes     \* bound on the allocations

ASSUME RequestAssumption == Requests \subseteq [size : Nat, alignment : Nat \ {0}]
ASSUME AddressAssumption == Addresses \subseteq Nat
ASSUME SizeAssumption ==
  HeaderSize \in Nat \ {0} /\ BlockSize \in Nat /\ Page \in Nat \ {0} /\ MaxPushes \in Nat

VARIABLES
  blocks,       \* the blocks, arena->head the last: their memory and top_pointer
  live,         \* ghost: the allocations in use, as ranges of addresses
  pushed,       \* ghost: the number of allocations made
  null          \* ghost: whether one of them got a null pointer

vars == <<blocks, live, pushed, null>>

-----------------------------------------------------------------------------

Block == [base : Nat, size : Nat, top : Nat]

Limit(b) == b.base + b.size

Newest == blocks[Len(blocks)]

(* Faulty variant: the padding is forgotten.                               *)
FitsUnpadded(b, r) == b.top + r.size <= Limit(b)

(* AllocateFromMemoryBlock succeeds.                                       *)
Fits(b, r) == Align(b.top, r.alignment) + r.size <= Limit(b)

HasRoom(r) == IF blocks = <<>> THEN FALSE ELSE Fits(Newest, r)

(* The blocks bs with the request taken from the last one.                 *)
Taken(bs, r) ==
  [bs EXCEPT ![Len(bs)].top = Align(@, r.alignment) + r.size]

(* What the client gets; nothing to use when the size is zero.             *)
Handed(bs, r) ==
  LET lo == Align(bs[Len(bs)].top, r.alignment)
  IN IF r.size = 0 THEN {} ELSE {[lo |-> lo, hi |-> lo + r.size]}

(* Faulty variant: room for the size alone.                                *)
NewBlockSizeUnpadded(r) ==
  IF BlockSize < Align(r.size, Page) THEN Align(r.size, Page) ELSE BlockSize

(* AllocateNewMemoryBlock: room for the size and for any padding.          *)
NewBlockSize(r) ==
  LET min == Align(r.size + r.alignment, Page)
  IN IF BlockSize < min THEN min ELSE BlockSize

(* Memory with a header before it, apart from that of all other blocks, as *)
(* malloc returns it.                                                      *)
Apart(base, size, b) ==
  \/ base + size + HeaderSize <= b.base
  \/ Limit(b) + HeaderSize <= base

NewBlock(r, base) == [base |-> base, size |-> NewBlockSize(r), top |-> base]

-----------------------------------------------------------------------------

Init ==
  /\ blocks = <<>>
  /\ live = {}
  /\ pushed = 0
  /\ null = FALSE

(* PushData: from the newest block, or from a new one that becomes it; the *)
(* rest of the old one is never used.                                      *)
PushHere(r) ==
  /\ pushed < MaxPushes
  /\ HasRoom(r)
  /\ blocks' = Taken(blocks, r)
  /\ live' = live \cup Handed(blocks, r)
  /\ pushed' = pushed + 1
  /\ UNCHANGED null

PushInNewBlock(r, base) ==
  LET more == Append(blocks, NewBlock(r, base))
  IN /\ pushed < MaxPushes
     /\ ~ HasRoom(r)
     /\ \A i \in DOMAIN blocks : Apart(base, NewBlockSize(r), blocks[i])
     /\ pushed' = pushed + 1
     /\ IF Fits(NewBlock(r, base), r)
          THEN /\ blocks' = Taken(more, r)
               /\ live' = live \cup Handed(more, r)
               /\ UNCHANGED null
          ELSE /\ blocks' = more
               /\ null' = TRUE
               /\ UNCHANGED live

(* Faulty variant: the size is not compared with the top.                  *)
TryToFreeBelow(a) ==
  /\ a \in live
  /\ live' = live \ {a}
  /\ blocks' = IF Newest.base <= a.lo /\ a.lo <= Newest.top
               THEN [blocks EXCEPT ![Len(blocks)].top = a.lo] ELSE blocks
  /\ UNCHANGED <<pushed, null>>

(* TryToFreeData: the newest block takes back what it gave last; the       *)
(* client gives it up in any case.                                         *)
TryToFreeData(a) ==
  /\ a \in live
  /\ live' = live \ {a}
  /\ blocks' = IF Newest.top - (a.hi - a.lo) = a.lo
               THEN [blocks EXCEPT ![Len(blocks)].top = a.lo] ELSE blocks
  /\ UNCHANGED <<pushed, null>>

FreeMemoryArena ==
  /\ blocks # <<>>
  /\ blocks' = <<>>
  /\ live' = {}
  /\ UNCHANGED <<pushed, null>>

Next ==
  \/ \E r \in Requests : PushHere(r) \/ (\E base \in Addresses : PushInNewBlock(r, base))
  \/ \E a \in live : TryToFreeData(a)
  \/ FreeMemoryArena

Spec == Init /\ [][Next]_vars

-----------------------------------------------------------------------------

(* Every variable has its type.                                            *)
TypeOK ==
  /\ blocks \in Seq(Block)
  /\ live \subseteq [lo : Nat, hi : Nat]
  /\ pushed \in Nat
  /\ null \in BOOLEAN

(* Blocks are used up to their top and lie apart, headers between them.    *)
BlocksApart ==
  /\ \A i \in DOMAIN blocks : blocks[i].base <= blocks[i].top /\ blocks[i].top <= Limit(blocks[i])
  /\ \A i, j \in DOMAIN blocks :
       i # j => Apart(blocks[i].base, blocks[i].size, blocks[j])

(* What is in use lies below the top of a block: memory that is handed out *)
(* is never handed out again while it is in use.                           *)
LiveBelowTop ==
  \A a \in live :
    /\ a.lo < a.hi
    /\ \E i \in DOMAIN blocks : blocks[i].base <= a.lo /\ a.hi <= blocks[i].top

(* PushData never returns null, which no caller looks for: a block made    *)
(* for a request holds it with whatever padding its address calls for.     *)
NeverNull == ~ null

(* No two allocations in use share an address, whatever was pushed, freed  *)
(* or only tried to be freed before.                                       *)
AllocationsApart ==
  \A a, b \in live : a # b => a.hi <= b.lo \/ b.hi <= a.lo
=============================================================================
