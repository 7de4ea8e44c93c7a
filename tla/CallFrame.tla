------------------------------ MODULE CallFrame ------------------------------
(***************************************************************************)
(* Where a call's arguments travel and how a routine's stack frame is laid *)
(* out: the argument walk of src/src/reg_alloc.cpp and the local offsets   *)
(* of src/src/amd64_codegen.cpp.                                           *)
(*                                                                         *)
(* The caller and the callee never exchange a layout: each walks the list  *)
(* of argument types with its own Reg_Seq_Index and must come to the same  *)
(* places.  The behaviour is one call of a routine: PushArgs generates the *)
(* caller's side, GenerateCode of the callee takes its parameters, and its *)
(* body then asks for local offsets by name, in whatever order instruction *)
(* selection, the register scan and the insertion of spills come to them.  *)
(***************************************************************************)
EXTENDS Integers, Sequences, FiniteSets, Rounding

CONSTANTS
  Class,        \* register classes, {general, float}
  Conventions,  \* calling conventions a code generator target can install
  Signatures,   \* parameter lists: sequences of register classes
  Name,         \* what the body keeps in the frame: structs, variables, saves
  StructVars,   \* the names of struct variables
  DataType,     \* the data types the names are asked for with
  TypesOf,      \* the data types a name is asked for with
  Size,         \* GetSize
  Alignment,    \* GetAlign
  NoReg         \* the null pointer GetArgRegister returns

ASSUME ConventionAssumption ==
  \A c \in Conventions :
     /\ c.arg_regs \in [Class -> Nat]
     /\ c.arg_index_shared \in BOOLEAN
     /\ c.shadow_arg_reg_count \in Nat

(* The two tables of registers: an index is shared between classes that    *)
(* have equally many argument registers, and shadow space backs these.     *)
ASSUME SharedIndexAssumption ==
  \A c \in Conventions :
     /\ c.arg_index_shared => \A k, l \in Class : c.arg_regs[k] = c.arg_regs[l]
     /\ c.shadow_arg_reg_count > 0 =>
          c.arg_index_shared /\ \A k \in Class : c.arg_regs[k] = c.shadow_arg_reg_count

ASSUME SignatureAssumption == Signatures \subseteq Seq(Class)

ASSUME TypeAssumption ==
  /\ TypesOf \in [Name -> SUBSET DataType]
  /\ Size \in [DataType -> Nat \ {0}]
  /\ Alignment \in [DataType -> Nat \ {0}]
  /\ StructVars \subseteq Name

(* A parameter is not one of the body's names, nor the null pointer a      *)
(* register.                                                               *)
ASSUME NameAssumption ==
  /\ Name \cap ({"param"} \X Nat) = {}
  /\ NoReg \notin Class \X Nat

WORD_SIZE == 8

VARIABLES
  conv,           \* the convention InitRegAlloc installed
  params,         \* the routine's signature
  phase,          \* "push", "enter", "body" or "done"
  caller,         \* per argument pushed: register, stack offset, index after
  arg_stack_alloc,\* the immediate of the caller's `sub rsp'
  callee,         \* per parameter taken: register, local offset, index after
  local_offsets,  \* Routine::local_offsets, of the names asked for so far
  extent,         \* ghost: the bytes a name was given
  touched,        \* ghost: the most bytes of a name that code accesses
  locals_size     \* Routine::locals_size

vars == <<conv, params, phase, caller, arg_stack_alloc, callee, local_offsets, extent,
          touched, locals_size>>

-----------------------------------------------------------------------------
(* The argument walk.                                                      *)

ZeroIndex(c) ==
  [reg |-> [k \in Class |-> 0], total_arg_count |-> 0, stack_arg_count |-> 0]

(* Faulty variant: the shared index moves in one class only.               *)
AdvanceOne(c, k, index, in_reg) ==
  [reg |-> [d \in Class |-> IF in_reg /\ d = k THEN index.reg[d] + 1 ELSE index.reg[d]],
   total_arg_count |-> index.total_arg_count + 1,
   stack_arg_count |-> index.stack_arg_count + (IF in_reg THEN 0 ELSE 1)]

AdvanceArgIndex(c, k, index, in_reg) ==
  [reg |-> [d \in Class |-> IF in_reg /\ (c.arg_index_shared \/ d = k)
                            THEN index.reg[d] + 1 ELSE index.reg[d]],
   total_arg_count |-> index.total_arg_count + 1,
   stack_arg_count |-> index.stack_arg_count + (IF in_reg THEN 0 ELSE 1)]

HasArgRegister(c, k, index) == index.reg[k] < c.arg_regs[k]

(* GetArgRegister: the result; the index it leaves is IndexAfter.          *)
GetArgRegister(c, k, index) ==
  IF HasArgRegister(c, k, index) THEN <<k, index.reg[k]>> ELSE NoReg

IndexAfter(c, k, index) ==
  AdvanceArgIndex(c, k, index, HasArgRegister(c, k, index))

(* The words of argument area that end with the argument just indexed.     *)
StackSlots(c, index) ==
  IF c.shadow_arg_reg_count > 0 THEN index.total_arg_count ELSE index.stack_arg_count

(* Faulty variant: the frame pointer's own word is forgotten.              *)
OffsetPastReturn(c, index) ==
  IF StackSlots(c, index) = 0 THEN -1 ELSE StackSlots(c, index) * WORD_SIZE

GetOffsetFromBasePointer(c, index) ==
  IF StackSlots(c, index) = 0 THEN -1 ELSE (StackSlots(c, index) + 1) * WORD_SIZE

GetOffsetFromStackPointer(c, index) ==
  IF StackSlots(c, index) = 0 THEN -1 ELSE (StackSlots(c, index) - 1) * WORD_SIZE

(* Faulty variant: the shadow space is left out.                           *)
StackArgsOnly(c, index) == index.stack_arg_count * WORD_SIZE

GetArgStackAllocSize(c, index) ==
  (c.shadow_arg_reg_count + index.stack_arg_count) * WORD_SIZE

IndexOf(side) == IF side = <<>> THEN ZeroIndex(conv) ELSE side[Len(side)].index

-----------------------------------------------------------------------------
(* The local offsets.                                                      *)

(* Faulty variant: the bytes are added and the bottom left where it is.    *)
Unaligned(t) == locals_size + Size[t]

Allocated(t) == Align(locals_size + Size[t], Alignment[t])

AddOffset(n, offset) ==
  local_offsets' = [m \in DOMAIN local_offsets \cup {n} |->
                      IF m = n THEN offset ELSE local_offsets[m]]

(* A new slot of the bytes of t at the bottom of the frame.                *)
NewSlot(n, t) ==
  /\ locals_size' = Allocated(t)
  /\ AddOffset(n, - Allocated(t))
  /\ extent' = [extent EXCEPT ![n] = Size[t]]

Touch(n, t) ==
  touched' = [touched EXCEPT ![n] = IF Size[t] > @ THEN Size[t] ELSE @]

-----------------------------------------------------------------------------

Param(i) == <<"param", i>>

Init ==
  /\ conv \in Conventions
  /\ params \in Signatures
  /\ phase = "push"
  /\ caller = <<>>
  /\ callee = <<>>
  /\ arg_stack_alloc = 0
  /\ local_offsets = [n \in {} |-> 0]
  /\ extent = [n \in Name |-> 0]
  /\ touched = [n \in Name |-> 0]
  /\ locals_size = 0

(* One turn of the loop of PushArgs.                                       *)
PushArg ==
  LET k     == params[Len(caller) + 1]
      index == IndexAfter(conv, k, IndexOf(caller))
  IN /\ phase = "push"
     /\ Len(caller) < Len(params)
     /\ caller' = Append(caller,
          [reg    |-> GetArgRegister(conv, k, IndexOf(caller)),
           offset |-> GetOffsetFromStackPointer(conv, index),
           index  |-> index])
     /\ UNCHANGED <<conv, params, phase, arg_stack_alloc, callee, local_offsets, extent,
                    touched, locals_size>>

(* The end of PushArgs, which patches the `sub rsp' it began with.         *)
PushArgsDone ==
  /\ phase = "push"
  /\ Len(caller) = Len(params)
  /\ arg_stack_alloc' = GetArgStackAllocSize(conv, IndexOf(caller))
  /\ phase' = "enter"
  /\ UNCHANGED <<conv, params, caller, callee, local_offsets, extent, touched,
                 locals_size>>

(* One turn of the loop over the arguments in GenerateCode; the offset of  *)
(* a parameter is recorded when it is positive.                            *)
TakeParam ==
  LET k      == params[Len(callee) + 1]
      index  == IndexAfter(conv, k, IndexOf(callee))
      offset == GetOffsetFromBasePointer(conv, index)
  IN /\ phase = "enter"
     /\ Len(callee) < Len(params)
     /\ callee' = Append(callee,
          [reg    |-> GetArgRegister(conv, k, IndexOf(callee)),
           offset |-> offset,
           index  |-> index])
     /\ IF offset > 0 THEN AddOffset(Param(Len(callee) + 1), offset)
                      ELSE UNCHANGED local_offsets
     /\ UNCHANGED <<conv, params, phase, caller, arg_stack_alloc, extent, touched,
                    locals_size>>

TakeParamsDone ==
  /\ phase = "enter"
  /\ Len(callee) = Len(params)
  /\ phase' = "body"
  /\ UNCHANGED <<conv, params, caller, arg_stack_alloc, callee, local_offsets, extent,
                 touched, locals_size>>

(* AddLocal: the declaration of a struct variable, which asserts that the  *)
(* name has no offset yet; a variable is declared once, before its uses.   *)
AddLocal(n, t) ==
  /\ phase = "body"
  /\ n \in StructVars \ DOMAIN local_offsets
  /\ t \in TypesOf[n]
  /\ NewSlot(n, t)
  /\ UNCHANGED <<conv, params, phase, caller, arg_stack_alloc, callee, touched>>

(* GetLocalOffset of a name and a data type, and the access of that type   *)
(* that GetAddress, InsertSpills and the callee saves make at the offset.  *)
GetLocalOffset(n, t) ==
  /\ phase = "body"
  /\ t \in TypesOf[n]
  /\ n \in StructVars => n \in DOMAIN local_offsets
  /\ IF n \in DOMAIN local_offsets
       THEN UNCHANGED <<local_offsets, extent, locals_size>>
       ELSE NewSlot(n, t)
  /\ Touch(n, t)
  /\ UNCHANGED <<conv, params, phase, caller, arg_stack_alloc, callee>>

(* The prologue gets the size of the frame.                                *)
FinishFrame ==
  /\ phase = "body"
  /\ locals_size' = IF locals_size > 0 THEN Align(locals_size, 16) ELSE 0
  /\ phase' = "done"
  /\ UNCHANGED <<conv, params, caller, arg_stack_alloc, callee, local_offsets, extent,
                 touched>>

Next ==
  \/ PushArg
  \/ PushArgsDone
  \/ TakeParam
  \/ TakeParamsDone
  \/ \E n \in Name, t \in DataType : AddLocal(n, t) \/ GetLocalOffset(n, t)
  \/ FinishFrame

Spec == Init /\ [][Next]_vars

-----------------------------------------------------------------------------

Index == [reg : [Class -> Nat], total_arg_count : Nat, stack_arg_count : Nat]
Place == [reg : {NoReg} \cup (Class \X Nat), offset : Int, index : Index]

(* Every variable has its type.                                            *)
TypeOK ==
  /\ conv \in Conventions
  /\ params \in Signatures
  /\ phase \in {"push", "enter", "body", "done"}
  /\ caller \in Seq(Place)
  /\ callee \in Seq(Place)
  /\ arg_stack_alloc \in Nat
  /\ DOMAIN local_offsets \subseteq Name \cup {Param(i) : i \in DOMAIN params}
  /\ local_offsets \in [DOMAIN local_offsets -> Int]
  /\ extent \in [Name -> Nat]
  /\ touched \in [Name -> Nat]
  /\ locals_size \in Nat

(* The caller and the callee agree on every argument: the same register,   *)
(* or no register and the same word of memory.  The frame pointer of the   *)
(* callee is two words (return address, old frame pointer) below the       *)
(* caller's stack pointer.                                                 *)
CallerCalleeAgree ==
  \A i \in DOMAIN callee :
     /\ callee[i].reg = caller[i].reg
     /\ callee[i].reg = NoReg => callee[i].offset = caller[i].offset + 2 * WORD_SIZE

(* The places of the walk are those the platform's convention gives, as a   *)
(* foreign function expects them.  The rank of an argument among the        *)
(* registers is its position where the index is shared, its position among  *)
(* those of its class where it is not; stack arguments lie in order above   *)
(* the shadow space.                                                        *)
Rank(i) ==
  IF conv.arg_index_shared THEN i - 1
  ELSE Cardinality({j \in 1 .. i - 1 : params[j] = params[i]})

InRegister(i) == Rank(i) < conv.arg_regs[params[i]]

FollowsConvention ==
  \A i \in DOMAIN caller :
     IF InRegister(i)
       THEN caller[i].reg = <<params[i], Rank(i)>>
       ELSE /\ caller[i].reg = NoReg
            /\ caller[i].offset =
                 WORD_SIZE * (conv.shadow_arg_reg_count
                              + Cardinality({j \in 1 .. i - 1 : ~ InRegister(j)}))

(* The stack arguments fit in what `sub rsp' takes, above the shadow space  *)
(* that the callee owns, no two in one word: the patched immediate and the  *)
(* offsets come from one walk.                                              *)
ArgsFit ==
  phase # "push" =>
    \A i \in DOMAIN caller :
       caller[i].reg = NoReg =>
         /\ caller[i].offset >= conv.shadow_arg_reg_count * WORD_SIZE
         /\ caller[i].offset + WORD_SIZE <= arg_stack_alloc
         /\ \A j \in DOMAIN caller :
              caller[j].reg = NoReg /\ caller[j].offset = caller[i].offset => i = j

(* The bytes of two names of the frame never overlap, and all lie between   *)
(* the bottom of the frame and the frame pointer, whatever the order of the *)
(* requests and the sizes.                                                  *)
Local == Name \cap DOMAIN local_offsets

SlotsApart ==
  \A n \in Local :
     /\ - locals_size <= local_offsets[n]
     /\ local_offsets[n] + extent[n] <= 0
     /\ \A m \in Local \ {n} :
          \/ local_offsets[m] + extent[m] <= local_offsets[n]
          \/ local_offsets[n] + extent[n] <= local_offsets[m]

(* An offset is aligned for the data type it was allocated for, so no later *)
(* request moves a name off its alignment, and the finished frame keeps the *)
(* stack pointer on 16 bytes.                                               *)
SlotsAligned ==
  /\ [][\A n \in Name : n \in DOMAIN local_offsets' /\ n \notin DOMAIN local_offsets =>
          \E t \in TypesOf[n] : /\ extent'[n] = Size[t]
                                /\ local_offsets'[n] % Alignment[t] = 0]_vars
  /\ [][phase' = "done" => locals_size' % 16 = 0 /\ locals_size' >= locals_size]_vars

(* `A spill from register to a stack slot': code that goes to the slot of a *)
(* name stays within the bytes the name was given.                          *)
AccessesFit ==
  \A n \in Local : touched[n] <= extent[n]
=============================================================================
