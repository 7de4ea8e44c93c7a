------------------------------ MODULE RegAlloc ------------------------------
(***************************************************************************)
(* The pool of physical registers of src/src/reg_alloc.cpp.                *)
(*                                                                         *)
(* Reg_Alloc keeps one array of free registers per register class.  The    *)
(* arrays are stacks (the allocator pops the back, releasing pushes at the *)
(* back), except that a register wanted by name is taken out of the middle *)
(* with array::EraseBySwap, which moves the last register into the hole.   *)
(* Nothing in the pool records who holds a register; `held' is the client  *)
(* side of the contract: the registers of the client's active intervals.   *)
(***************************************************************************)
EXTENDS Naturals, Sequences, Arrays

CONSTANTS
  Class,        \* the register classes: general and float
  CallerSaved,  \* [Class -> Seq]: allocatable caller saves, in reg_info order
  CalleeSaved   \* [Class -> Seq]: allocatable callee saves, in reg_info order

VARIABLES
  free_regs,    \* Reg_Class::free_regs of every class
  dirty_regs,   \* Reg_Alloc::dirty_regs, the registers the routine mentions
  held          \* the registers handed out and not released

pool_vars == <<free_regs, dirty_regs, held>>

RegsOf(c) == Elements(CallerSaved[c]) \cup Elements(CalleeSaved[c])
Reg       == UNION {RegsOf(c) : c \in Class}

(* reg_info lists a register once, with one class and one saving rule.     *)
RegInfo ==
  /\ CallerSaved \in [Class -> Seq(Reg)]
  /\ CalleeSaved \in [Class -> Seq(Reg)]
  /\ \A c \in Class : /\ Distinct(CallerSaved[c])
                      /\ Distinct(CalleeSaved[c])
                      /\ Elements(CallerSaved[c]) \cap Elements(CalleeSaved[c]) = {}
  /\ \A c, d \in Class : c # d => RegsOf(c) \cap RegsOf(d) = {}

ASSUME RegInfoAssumption == RegInfo

-----------------------------------------------------------------------------
(* The arrays of free registers.                                           *)

(* TryRemoveFromFreeRegs; the result of the call is r \in Elements(s).     *)
RemoveFromFreeRegs(s, r) ==
  IF r \in Elements(s) THEN EraseBySwap(s, CHOOSE i \in DOMAIN s : s[i] = r) ELSE s

(* The arrays ResetRegAlloc builds with two calls of AppendFreeRegs.  The  *)
(* registers to be used first are appended last.                           *)
FreshFreeRegs(use_callee_saves_first) ==
  [c \in Class |-> IF use_callee_saves_first
                   THEN CallerSaved[c] \o CalleeSaved[c]
                   ELSE CalleeSaved[c] \o CallerSaved[c]]

HasFreeRegisters(c) == free_regs[c] # <<>>

-----------------------------------------------------------------------------

(* The state that the first ResetRegAlloc leaves: GenerateCode makes that  *)
(* call before it touches the pool for a routine.                          *)
PoolInit ==
  /\ \E first \in BOOLEAN : free_regs = FreshFreeRegs(first)
  /\ dirty_regs = {}
  /\ held = {}

(* ResetRegAlloc, at the start of a routine: the client holds no register. *)
ResetRegAlloc(use_callee_saves_first) ==
  /\ free_regs' = FreshFreeRegs(use_callee_saves_first)
  /\ dirty_regs' = {}
  /\ held' = {}

(* AllocateFreeRegister, called only after HasFreeRegisters.               *)
AllocateFreeRegister(c) ==
  /\ HasFreeRegisters(c)
  /\ free_regs' = [free_regs EXCEPT ![c] = Pop(@)]
  /\ held' = held \cup {Back(free_regs[c])}
  /\ UNCHANGED dirty_regs

(* TryAllocateRegister(reg), when it returns true.  When it returns false  *)
(* it changes nothing.  Both classes assert that reg is one of theirs.     *)
TryAllocateRegister(c, r) ==
  /\ r \in RegsOf(c)
  /\ r \in Elements(free_regs[c])
  /\ free_regs' = [free_regs EXCEPT ![c] = RemoveFromFreeRegs(@, r)]
  /\ held' = held \cup {r}
  /\ UNCHANGED dirty_regs

(* ReleaseRegister(reg) of a register the client holds.  The assertion on  *)
(* the class of reg is the guard r \in RegsOf(c).                          *)
ReleaseRegister(c, r) ==
  /\ r \in held \cap RegsOf(c)
  /\ free_regs' = [free_regs EXCEPT ![c] = Append(@, r)]
  /\ held' = held \ {r}
  /\ UNCHANGED dirty_regs

(* DirtyRegister, for every register operand SetRegOperand writes.  A      *)
(* fixed register operand need not be held.                                *)
DirtyRegister(r) ==
  /\ dirty_regs' = dirty_regs \cup {r}
  /\ UNCHANGED <<free_regs, held>>

PoolNext ==
  \/ \E first \in BOOLEAN : ResetRegAlloc(first)
  \/ \E c \in Class : AllocateFreeRegister(c)
  \/ \E c \in Class : \E r \in RegsOf(c) : TryAllocateRegister(c, r)
  \/ \E c \in Class : \E r \in RegsOf(c) : ReleaseRegister(c, r)
  \/ \E r \in Reg : DirtyRegister(r)

PoolSpec == PoolInit /\ [][PoolNext]_pool_vars

-----------------------------------------------------------------------------

PoolTypeOK ==
  /\ free_regs \in [Class -> Seq(Reg)]
  /\ dirty_regs \subseteq Reg
  /\ held \subseteq Reg

(* No array lists a register twice: two registers taken one after the      *)
(* other are different registers.                                          *)
FreeOnce == \A c \in Class : Distinct(free_regs[c])

(* Nothing the client holds can be handed out again.                       *)
HeldNotFree == \A c \in Class : Elements(free_regs[c]) \cap held = {}

(* No register is lost, and none appears in the array of the other class.  *)
NoneLost ==
  \A c \in Class : Elements(free_regs[c]) \cup (held \cap RegsOf(c)) = RegsOf(c)

(* The allocatable registers are conserved: at any moment, and for any     *)
(* order of the client's calls, each is in exactly one place, free once in *)
(* the array of its class or held by the client.  EraseBySwap, Pop and     *)
(* Push of the three entry points have to agree for this to hold.          *)
PoolConserved == FreeOnce /\ HeldNotFree /\ NoneLost

=============================================================================
