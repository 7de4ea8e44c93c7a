--------------------------- MODULE CallFrameProofs ---------------------------
(***************************************************************************)
(* Proofs about CallFrame, for any calling convention, signature and set   *)
(* of names and types: the two walks over the arguments agree, and the     *)
(* slots of the frame never overlap.                                       *)
(***************************************************************************)
EXTENDS CallFrame, Lemmas, FiniteSetTheorems

USE DEF WORD_SIZE

(* A request for a slot moves the bottom of the frame by the bytes of the  *)
(* type at least.                                                          *)
LEMMA AllocatedGrows ==
  ASSUME NEW t \in DataType, locals_size \in Nat
  PROVE  /\ Allocated(t) \in Nat
         /\ Allocated(t) >= locals_size + Size[t]
         /\ Size[t] \in Nat \ {0}
<1>1. Size[t] \in Nat \ {0} /\ Alignment[t] \in Nat \ {0}
  BY TypeAssumption
<1>2. locals_size + Size[t] \in Nat
  BY <1>1
<1>. QED  BY <1>1, <1>2, AlignRoundsUp DEF Allocated

(* The walk starts at an index.                                            *)
LEMMA ZeroIndexType ==
  ASSUME NEW c  PROVE  ZeroIndex(c) \in Index
BY DEF ZeroIndex, Index

(* The walk stays an index, and an argument without a register counts as a *)
(* word of the stack.                                                      *)
LEMMA WalkType ==
  ASSUME NEW c \in Conventions, NEW k \in Class, NEW index \in Index
  PROVE  /\ IndexAfter(c, k, index) \in Index
         /\ GetArgRegister(c, k, index) \in {NoReg} \cup (Class \X Nat)
         /\ GetArgRegister(c, k, index) = NoReg => StackSlots(c, IndexAfter(c, k, index)) > 0
         /\ StackSlots(c, IndexAfter(c, k, index)) \in Nat
<1>1. /\ index.reg \in [Class -> Nat]
      /\ index.total_arg_count \in Nat
      /\ index.stack_arg_count \in Nat
  BY DEF Index
<1>2. /\ IndexAfter(c, k, index).reg \in [Class -> Nat]
      /\ IndexAfter(c, k, index).total_arg_count = index.total_arg_count + 1
      /\ IndexAfter(c, k, index).stack_arg_count =
           index.stack_arg_count + (IF HasArgRegister(c, k, index) THEN 0 ELSE 1)
  BY <1>1 DEF IndexAfter, AdvanceArgIndex
<1>3. IndexAfter(c, k, index) \in Index
  BY <1>1 DEF IndexAfter, AdvanceArgIndex, Index
<1>4. GetArgRegister(c, k, index) \in {NoReg} \cup (Class \X Nat)
  BY <1>1 DEF GetArgRegister
<1>5. GetArgRegister(c, k, index) = NoReg => ~ HasArgRegister(c, k, index)
  BY <1>1, NameAssumption DEF GetArgRegister
<1>. QED  BY <1>1, <1>2, <1>3, <1>4, <1>5 DEF StackSlots

(* Offsets are numbers, and the callee finds a word of the stack above its *)
(* saved base pointer and return address.                                  *)
LEMMA OffsetTypes ==
  ASSUME NEW c \in Conventions, NEW index \in Index
  PROVE  /\ GetOffsetFromBasePointer(c, index) \in Int
         /\ GetOffsetFromStackPointer(c, index) \in Int
         /\ GetArgStackAllocSize(c, index) \in Nat
         /\ StackSlots(c, index) > 0 =>
              GetOffsetFromBasePointer(c, index) =
                GetOffsetFromStackPointer(c, index) + 2 * WORD_SIZE
<1>1. index.total_arg_count \in Nat /\ index.stack_arg_count \in Nat
  BY DEF Index
<1>2. c.shadow_arg_reg_count \in Nat
  BY ConventionAssumption
<1>3. StackSlots(c, index) \in Nat
  BY <1>1 DEF StackSlots
<1>. QED  BY <1>1, <1>2, <1>3 DEF GetOffsetFromBasePointer, GetOffsetFromStackPointer,
                               GetArgStackAllocSize

-----------------------------------------------------------------------------

(* Both walks are at an index.                                             *)
LEMMA IndexOfType ==
  ASSUME TypeOK
  PROVE  /\ IndexOf(caller) \in Index
         /\ IndexOf(callee) \in Index
         /\ conv \in Conventions
         /\ \A i \in DOMAIN params : params[i] \in Class
<1>1. conv \in Conventions /\ params \in Seq(Class)
  BY SignatureAssumption DEF TypeOK
<1>2. ASSUME NEW side \in Seq(Place)
      PROVE  IndexOf(side) \in Index
  <2>1. CASE side = <<>>
    BY <2>1, ZeroIndexType DEF IndexOf
  <2>2. CASE side # <<>>
    <3>1. Len(side) \in DOMAIN side
      BY <2>2
    <3>2. side[Len(side)] \in Place
      BY <3>1
    <3>. QED  BY <2>2, <3>2 DEF IndexOf, Place
  <2>. QED  BY <2>1, <2>2
<1>. QED  BY <1>1, <1>2 DEF TypeOK

(* The type invariant: every variable of CallFrame keeps its type; in      *)
(* particular no walk leaves the indices of GetArgRegister and the frame   *)
(* never shrinks below nothing.                                            *)
THEOREM TypeCorrect == Spec => []TypeOK
<1>1. Init => TypeOK
  BY DEF Init, TypeOK
<1>2. TypeOK /\ [Next]_vars => TypeOK'
  <2>. SUFFICES ASSUME TypeOK, [Next]_vars  PROVE TypeOK'
    OBVIOUS
  <2>. USE DEF TypeOK
  <2>1. CASE PushArg
    <3>. DEFINE k == params[Len(caller) + 1]
                index == IndexAfter(conv, k, IndexOf(caller))
                place == [reg    |-> GetArgRegister(conv, k, IndexOf(caller)),
                          offset |-> GetOffsetFromStackPointer(conv, index),
                          index  |-> index]
    <3>1. Len(caller) + 1 \in DOMAIN params
      BY <2>1, SignatureAssumption DEF PushArg
    <3>2. place \in Place
      BY <3>1, IndexOfType, WalkType, OffsetTypes DEF Place
    <3>. HIDE DEF place
    <3>3. caller' = Append(caller, place)
      BY <2>1 DEF PushArg, place
    <3>4. caller' \in Seq(Place)
      BY <3>2, <3>3
    <3>. QED  BY <2>1, <3>4 DEF PushArg
  <2>2. CASE PushArgsDone
    BY <2>2, IndexOfType, OffsetTypes DEF PushArgsDone
  <2>3. CASE TakeParam
    <3>. DEFINE i == Len(callee) + 1
                index == IndexAfter(conv, params[i], IndexOf(callee))
                offset == GetOffsetFromBasePointer(conv, index)
                place == [reg    |-> GetArgRegister(conv, params[i], IndexOf(callee)),
                          offset |-> offset,
                          index  |-> index]
    <3>1. i \in DOMAIN params
      BY <2>3, SignatureAssumption DEF TakeParam
    <3>2. place \in Place /\ offset \in Int
      BY <3>1, IndexOfType, WalkType, OffsetTypes DEF Place
    <3>. HIDE DEF place, offset
    <3>3. callee' = Append(callee, place)
      BY <2>3 DEF TakeParam, place, offset
    <3>4. callee' \in Seq(Place)
      BY <3>2, <3>3
    <3>5. \/ UNCHANGED local_offsets
          \/ local_offsets' = [m \in DOMAIN local_offsets \cup {Param(i)} |->
                                 IF m = Param(i) THEN offset ELSE local_offsets[m]]
      BY <2>3 DEF TakeParam, AddOffset, offset
    <3>6. /\ DOMAIN local_offsets' \subseteq DOMAIN local_offsets \cup {Param(i)}
          /\ local_offsets' \in [DOMAIN local_offsets' -> Int]
      BY <3>2, <3>5
    <3>. QED  BY <2>3, <3>1, <3>4, <3>6 DEF TakeParam
  <2>4. CASE TakeParamsDone
    BY <2>4 DEF TakeParamsDone
  <2>5. ASSUME NEW n \in Name, NEW t \in DataType, NewSlot(n, t)
        PROVE  /\ locals_size' \in Nat
               /\ extent' \in [Name -> Nat]
               /\ DOMAIN local_offsets' = DOMAIN local_offsets \cup {n}
               /\ local_offsets' \in [DOMAIN local_offsets' -> Int]
    BY <2>5, AllocatedGrows DEF NewSlot, AddOffset
  <2>6. ASSUME NEW n \in Name, NEW t \in DataType, AddLocal(n, t)
        PROVE  TypeOK'
    BY <2>5, <2>6 DEF AddLocal
  <2>7. ASSUME NEW n \in Name, NEW t \in DataType, GetLocalOffset(n, t)
        PROVE  TypeOK'
    <3>1. touched' \in [Name -> Nat]
      BY <2>7, AllocatedGrows DEF GetLocalOffset, Touch
    <3>2. CASE n \in DOMAIN local_offsets
      BY <2>7, <3>1, <3>2 DEF GetLocalOffset
    <3>3. CASE n \notin DOMAIN local_offsets
      BY <2>5, <2>7, <3>1, <3>3 DEF GetLocalOffset
    <3>. QED  BY <3>2, <3>3
  <2>8. CASE FinishFrame
    <3>1. locals_size' \in Nat
      <4>1. 16 \in Nat \ {0} /\ locals_size \in Nat
        OBVIOUS
      <4>2. Align(locals_size, 16) \in Nat
        BY <4>1, AlignRoundsUp
      <4>. QED  BY <2>8, <4>1, <4>2 DEF FinishFrame
    <3>. QED  BY <2>8, <3>1 DEF FinishFrame
  <2>9. CASE UNCHANGED vars
    BY <2>9 DEF vars
  <2>. QED  BY <2>1, <2>2, <2>3, <2>4, <2>6, <2>7, <2>8, <2>9 DEF Next
<1>. QED  BY <1>1, <1>2, PTL DEF Spec

-----------------------------------------------------------------------------

(* What makes the two walks agree: the caller has finished its walk before *)
(* the callee's begins, each place of the caller follows from the index    *)
(* before it, and so far the callee has the same places and indices.       *)
IndexBefore(i) == IF i = 1 THEN ZeroIndex(conv) ELSE caller[i - 1].index

WalksAgree ==
  /\ \A i \in DOMAIN caller :
        /\ i \in DOMAIN params
        /\ IndexBefore(i) \in Index
        /\ caller[i].reg = GetArgRegister(conv, params[i], IndexBefore(i))
        /\ caller[i].index = IndexAfter(conv, params[i], IndexBefore(i))
        /\ caller[i].offset = GetOffsetFromStackPointer(conv, caller[i].index)
  /\ phase = "push" => callee = <<>>
  /\ phase # "push" => Len(caller) = Len(params)
  /\ \A i \in DOMAIN callee :
        /\ i \in DOMAIN caller
        /\ callee[i].reg = caller[i].reg
        /\ callee[i].index = caller[i].index
        /\ callee[i].offset = GetOffsetFromBasePointer(conv, callee[i].index)

(* The callee looks for every argument where the caller put it, for any    *)
(* signature and convention: CallerCalleeAgree is an invariant.            *)
THEOREM ArgumentsMeet == Spec => []CallerCalleeAgree
<1>1. Init => WalksAgree
  BY DEF Init, WalksAgree
<1>2. TypeOK /\ WalksAgree /\ [Next]_vars => WalksAgree'
  <2>. SUFFICES ASSUME TypeOK, WalksAgree, [Next]_vars  PROVE WalksAgree'
    OBVIOUS
  <2>0. /\ caller \in Seq(Place) /\ callee \in Seq(Place)
        /\ params \in Seq(Class)
    BY SignatureAssumption DEF TypeOK
  <2>1. CASE PushArg
    <3>0. PICK i \in Nat : i = Len(caller) + 1
      BY <2>0
    <3>. DEFINE index == IndexAfter(conv, params[i], IndexOf(caller))
                place == [reg    |-> GetArgRegister(conv, params[i], IndexOf(caller)),
                          offset |-> GetOffsetFromStackPointer(conv, index),
                          index  |-> index]
    <3>1. /\ caller' = Append(caller, place) /\ callee = <<>> /\ callee' = <<>>
          /\ conv' = conv /\ params' = params /\ phase = "push" /\ phase' = "push"
          /\ i \in DOMAIN params
      BY <2>0, <2>1, <3>0 DEF PushArg, WalksAgree
    <3>2. IndexOf(caller) = IndexBefore(i)' /\ IndexBefore(i)' \in Index
      BY <2>0, <3>0, <3>1, IndexOfType DEF IndexOf, IndexBefore, ZeroIndex
    <3>3. /\ caller'[i].reg = GetArgRegister(conv, params[i], IndexBefore(i)')
          /\ caller'[i].index = IndexAfter(conv, params[i], IndexBefore(i)')
          /\ caller'[i].offset = GetOffsetFromStackPointer(conv, caller'[i].index)
      BY <2>0, <3>0, <3>1, <3>2
    <3>4. DOMAIN caller' = 1 .. i /\ \A j \in DOMAIN caller : caller'[j] = caller[j]
      BY <2>0, <3>0, <3>1
    <3>5. \A j \in DOMAIN caller : IndexBefore(j)' = IndexBefore(j)
      BY <2>0, <3>0, <3>1, <3>4 DEF IndexBefore, ZeroIndex
    <3>6. ASSUME NEW j \in DOMAIN caller'
          PROVE  /\ j \in DOMAIN params'
                 /\ IndexBefore(j)' \in Index
                 /\ caller'[j].reg = GetArgRegister(conv', params'[j], IndexBefore(j)')
                 /\ caller'[j].index = IndexAfter(conv', params'[j], IndexBefore(j)')
                 /\ caller'[j].offset = GetOffsetFromStackPointer(conv', caller'[j].index)
      <4>. HIDE DEF place
      <4>1. CASE j = i
        BY <3>1, <3>2, <3>3, <4>1
      <4>2. CASE j # i
        <5>1. j \in DOMAIN caller
          BY <2>0, <3>0, <3>4, <4>2
        <5>. QED  BY <3>1, <3>4, <3>5, <5>1 DEF WalksAgree
      <4>. QED  BY <4>1, <4>2
    <3>. QED  BY <3>1, <3>6 DEF WalksAgree
  <2>2. CASE PushArgsDone
    BY <2>0, <2>2 DEF PushArgsDone, WalksAgree, IndexBefore, ZeroIndex
  <2>3. CASE TakeParam
    <3>. DEFINE i == Len(callee) + 1
                index == IndexAfter(conv, params[i], IndexOf(callee))
                place == [reg    |-> GetArgRegister(conv, params[i], IndexOf(callee)),
                          offset |-> GetOffsetFromBasePointer(conv, index),
                          index  |-> index]
    <3>1. /\ callee' = Append(callee, place) /\ caller' = caller
          /\ conv' = conv /\ params' = params /\ phase = "enter" /\ phase' = "enter"
          /\ i \in DOMAIN caller
      BY <2>0, <2>3 DEF TakeParam, WalksAgree
    <3>2. IndexOf(callee) = IndexBefore(i)
      BY <2>0, <3>1 DEF IndexOf, IndexBefore, WalksAgree
    <3>3. /\ place.reg = caller[i].reg
          /\ place.index = caller[i].index
          /\ place.offset = GetOffsetFromBasePointer(conv, place.index)
      BY <3>1, <3>2 DEF WalksAgree
    <3>4. DOMAIN callee' = 1 .. i /\ \A j \in DOMAIN callee : callee'[j] = callee[j]
      BY <2>0, <3>1
    <3>5. callee'[i] = place
      BY <2>0, <3>1
    <3>6. ASSUME NEW j \in DOMAIN callee'
          PROVE  /\ j \in DOMAIN caller'
                 /\ callee'[j].reg = caller'[j].reg
                 /\ callee'[j].index = caller'[j].index
                 /\ callee'[j].offset = GetOffsetFromBasePointer(conv', callee'[j].index)
      <4>. HIDE DEF place
      <4>1. CASE j = i
        BY <3>1, <3>3, <3>5, <4>1
      <4>2. CASE j # i
        <5>1. j \in DOMAIN callee
          BY <2>0, <3>4, <4>2
        <5>. QED  BY <3>1, <3>4, <5>1 DEF WalksAgree
      <4>. QED  BY <4>1, <4>2
    <3>. QED  BY <2>0, <3>1, <3>6 DEF WalksAgree, IndexBefore, ZeroIndex
  <2>4. CASE UNCHANGED <<conv, params, caller, callee>> /\ phase # "push" /\ phase' # "push"
    BY <2>4 DEF WalksAgree, IndexBefore, ZeroIndex
  <2>5. CASE UNCHANGED vars
    BY <2>5 DEF vars, WalksAgree, IndexBefore, ZeroIndex
  <2>6. TakeParamsDone \/ FinishFrame
          \/ (\E n \in Name, t \in DataType : AddLocal(n, t) \/ GetLocalOffset(n, t))
        => UNCHANGED <<conv, params, caller, callee>> /\ phase # "push" /\ phase' # "push"
    BY DEF TakeParamsDone, FinishFrame, AddLocal, GetLocalOffset
  <2>. QED  BY <2>1, <2>2, <2>3, <2>4, <2>5, <2>6 DEF Next
<1>3. TypeOK /\ WalksAgree => CallerCalleeAgree
  <2>. SUFFICES ASSUME TypeOK, WalksAgree, NEW i \in DOMAIN callee
                PROVE  /\ callee[i].reg = caller[i].reg
                       /\ callee[i].reg = NoReg =>
                            callee[i].offset = caller[i].offset + 2 * WORD_SIZE
    BY DEF CallerCalleeAgree
  <2>1. /\ callee[i].reg = caller[i].reg
        /\ callee[i].index = caller[i].index
        /\ callee[i].offset = GetOffsetFromBasePointer(conv, caller[i].index)
        /\ caller[i].offset = GetOffsetFromStackPointer(conv, caller[i].index)
        /\ caller[i].reg = GetArgRegister(conv, params[i], IndexBefore(i))
        /\ caller[i].index = IndexAfter(conv, params[i], IndexBefore(i))
        /\ IndexBefore(i) \in Index
        /\ i \in DOMAIN params
    BY DEF WalksAgree
  <2>2. conv \in Conventions /\ params[i] \in Class
    BY <2>1, IndexOfType
  <2>3. /\ caller[i].index \in Index
        /\ caller[i].reg = NoReg => StackSlots(conv, caller[i].index) > 0
    BY <2>1, <2>2, WalkType
  <2>. QED  BY <2>1, <2>2, <2>3, OffsetTypes
<1>. QED  BY <1>1, <1>2, <1>3, TypeCorrect, PTL DEF Spec

-----------------------------------------------------------------------------

(* The bytes of two names of the frame never overlap and all lie inside    *)
(* the frame, whatever order the code asks for them: SlotsApart is an      *)
(* invariant.                                                              *)
THEOREM FrameSlotsApart == Spec => []SlotsApart
<1>1. Init => SlotsApart
  BY DEF Init, SlotsApart, Local
<1>2. TypeOK /\ SlotsApart /\ [Next]_vars => SlotsApart'
  <2>. SUFFICES ASSUME TypeOK, SlotsApart, [Next]_vars  PROVE SlotsApart'
    OBVIOUS
  <2>0. /\ locals_size \in Nat /\ extent \in [Name -> Nat]
        /\ local_offsets \in [DOMAIN local_offsets -> Int]
    BY DEF TypeOK
  <2>1. ASSUME NEW n \in Name, NEW t \in DataType, NewSlot(n, t),
               n \notin DOMAIN local_offsets
        PROVE  SlotsApart'
    <3>1. /\ locals_size' = Allocated(t)
          /\ local_offsets' = [m \in DOMAIN local_offsets \cup {n} |->
                                 IF m = n THEN - Allocated(t) ELSE local_offsets[m]]
          /\ extent' = [extent EXCEPT ![n] = Size[t]]
      BY <2>1 DEF NewSlot, AddOffset
    <3>2. /\ Allocated(t) \in Nat
          /\ Allocated(t) >= locals_size + Size[t]
          /\ Size[t] \in Nat
      BY <2>0, AllocatedGrows
    <3>3. /\ Local' = Local \cup {n}
          /\ local_offsets'[n] = - Allocated(t)
          /\ extent'[n] = Size[t]
      BY <2>0, <3>1 DEF Local
    <3>4. ASSUME NEW m \in Local
          PROVE  /\ m # n
                 /\ local_offsets'[m] = local_offsets[m] /\ local_offsets[m] \in Int
                 /\ extent'[m] = extent[m] /\ extent[m] \in Nat
                 /\ - locals_size <= local_offsets[m]
                 /\ local_offsets[m] + extent[m] <= 0
                 /\ - locals_size' <= local_offsets'[m]
                 /\ local_offsets'[n] + extent'[n] <= local_offsets'[m]
      <4>1. /\ m \in Name /\ m \in DOMAIN local_offsets /\ m # n
            /\ local_offsets'[m] = local_offsets[m] /\ local_offsets[m] \in Int
            /\ extent'[m] = extent[m] /\ extent[m] \in Nat
        BY <2>0, <2>1, <3>1 DEF Local
      <4>2. - locals_size <= local_offsets[m] /\ local_offsets[m] + extent[m] <= 0
        BY DEF SlotsApart
      <4>. QED  BY <2>0, <3>1, <3>2, <3>3, <4>1, <4>2
    <3>5. - locals_size' <= local_offsets'[n] /\ local_offsets'[n] + extent'[n] <= 0
      BY <2>0, <3>1, <3>2, <3>3
    <3>6. \A p, q \in Local : p # q =>
             \/ local_offsets'[q] + extent'[q] <= local_offsets'[p]
             \/ local_offsets'[p] + extent'[p] <= local_offsets'[q]
      BY <3>4 DEF SlotsApart
    <3>. QED  BY <3>3, <3>4, <3>5, <3>6 DEF SlotsApart
  <2>2. ASSUME NEW n \in Name, NEW t \in DataType, AddLocal(n, t)
        PROVE  SlotsApart'
    BY <2>1, <2>2 DEF AddLocal
  <2>3. ASSUME NEW n \in Name, NEW t \in DataType, GetLocalOffset(n, t)
        PROVE  SlotsApart'
    <3>1. CASE n \in DOMAIN local_offsets
      BY <2>3, <3>1 DEF GetLocalOffset, SlotsApart, Local
    <3>2. CASE n \notin DOMAIN local_offsets
      BY <2>1, <2>3, <3>2 DEF GetLocalOffset
    <3>. QED  BY <3>1, <3>2
  <2>4. CASE TakeParam
    <3>. DEFINE p == Param(Len(callee) + 1)
    <3>1. p \notin Name
      <4>1. Len(callee) + 1 \in Nat
        BY DEF TypeOK
      <4>2. p \in {"param"} \X Nat
        BY <4>1 DEF Param
      <4>. QED  BY <4>2, NameAssumption
    <3>2. /\ UNCHANGED <<locals_size, extent>>
          /\ Local' = Local
          /\ \A m \in Local : local_offsets'[m] = local_offsets[m]
      BY <2>4, <3>1 DEF TakeParam, AddOffset, Local
    <3>. QED  BY <3>2 DEF SlotsApart
  <2>5. CASE FinishFrame
    <3>1. locals_size' \in Nat /\ locals_size' >= locals_size
      BY <2>0, <2>5, AlignRoundsUp DEF FinishFrame
    <3>2. UNCHANGED <<local_offsets, extent>> /\ Local' = Local
      BY <2>5 DEF FinishFrame, Local
    <3>3. ASSUME NEW m \in Local
          PROVE  - locals_size' <= local_offsets[m]
      BY <2>0, <3>1 DEF SlotsApart, Local
    <3>. QED  BY <3>2, <3>3 DEF SlotsApart
  <2>6. PushArg \/ PushArgsDone \/ TakeParamsDone \/ UNCHANGED vars
          => UNCHANGED <<locals_size, extent, local_offsets>>
    BY DEF PushArg, PushArgsDone, TakeParamsDone, vars
  <2>7. CASE UNCHANGED <<locals_size, extent, local_offsets>>
    BY <2>7 DEF SlotsApart, Local
  <2>. QED  BY <2>2, <2>3, <2>4, <2>5, <2>6, <2>7 DEF Next
<1>. QED  BY <1>1, <1>2, TypeCorrect, PTL DEF Spec

-----------------------------------------------------------------------------

(* What is aligned above the base pointer is aligned below it.             *)
LEMMA NegationIsAligned ==
  ASSUME NEW x \in Nat, NEW a \in Nat \ {0}, x % a = 0
  PROVE  (- x) % a = 0
<1> DEFINE q == x \div a
<1>1. x = a * q + (x % a) /\ q \in Int
  OBVIOUS
<1>. HIDE DEF q
<1>2. x = a * q
  BY <1>1
<1>3. - x = a * (- q) /\ - q \in Int
  BY <1>1, <1>2
<1>4. \A p \in Int : (a * p) % a = 0
  OBVIOUS
<1>. QED  BY <1>3, <1>4

(* Every slot is aligned for the type it is made for, and the prologue's   *)
(* size is a multiple of 16 that no slot reaches below: SlotsAligned.      *)
THEOREM FrameSlotsAligned == Spec => SlotsAligned
<1>1. TypeOK /\ [Next]_vars =>
        [\A n \in Name : n \in DOMAIN local_offsets' /\ n \notin DOMAIN local_offsets =>
           \E t \in TypesOf[n] : /\ extent'[n] = Size[t]
                                 /\ local_offsets'[n] % Alignment[t] = 0]_vars
  <2>. SUFFICES ASSUME TypeOK, Next, NEW n \in Name,
                       n \in DOMAIN local_offsets', n \notin DOMAIN local_offsets
                PROVE  \E t \in TypesOf[n] : /\ extent'[n] = Size[t]
                                             /\ local_offsets'[n] % Alignment[t] = 0
    OBVIOUS
  <2>0. locals_size \in Nat /\ extent \in [Name -> Nat]
    BY DEF TypeOK
  <2>1. ASSUME NEW m \in Name, NEW t \in DataType, t \in TypesOf[m], NewSlot(m, t)
        PROVE  \E u \in TypesOf[n] : /\ extent'[n] = Size[u]
                                     /\ local_offsets'[n] % Alignment[u] = 0
    <3>1. /\ m = n
          /\ local_offsets'[n] = - Allocated(t)
          /\ extent'[n] = Size[t]
      BY <2>0, <2>1 DEF NewSlot, AddOffset
    <3>2. /\ locals_size + Size[t] \in Nat
          /\ Alignment[t] \in Nat \ {0}
      BY <2>0, TypeAssumption
    <3>3. Allocated(t) \in Nat /\ Allocated(t) % Alignment[t] = 0
      BY <3>2, AlignRoundsUp, AlignIsAligned DEF Allocated
    <3>4. (- Allocated(t)) % Alignment[t] = 0
      BY <3>2, <3>3, NegationIsAligned
    <3>. QED  BY <2>1, <3>1, <3>4
  <2>2. CASE TakeParam
    <3>1. Len(callee) + 1 \in Nat
      BY DEF TypeOK
    <3>2. Param(Len(callee) + 1) \notin Name
      BY <3>1, NameAssumption DEF Param
    <3>. QED  BY <2>2, <3>2 DEF TakeParam, AddOffset
  <2>3. ASSUME NEW m \in Name, NEW t \in DataType, AddLocal(m, t) \/ GetLocalOffset(m, t)
        PROVE  t \in TypesOf[m] /\ NewSlot(m, t)
    BY <2>3 DEF AddLocal, GetLocalOffset
  <2>. QED  BY <2>1, <2>2, <2>3 DEF Next, PushArg, PushArgsDone, TakeParamsDone, FinishFrame
<1>2. TypeOK /\ [Next]_vars =>
        [phase' = "done" => locals_size' % 16 = 0 /\ locals_size' >= locals_size]_vars
  <2>. SUFFICES ASSUME TypeOK, Next, phase' = "done"
                PROVE  locals_size' % 16 = 0 /\ locals_size' >= locals_size
    OBVIOUS
  <2>1. FinishFrame
    BY DEF Next, PushArg, PushArgsDone, TakeParam, TakeParamsDone, AddLocal, GetLocalOffset
  <2>2. locals_size \in Nat /\ 16 \in Nat \ {0}
    BY DEF TypeOK
  <2>3. Align(locals_size, 16) % 16 = 0 /\ Align(locals_size, 16) >= locals_size
    BY <2>2, AlignRoundsUp, AlignIsAligned
  <2>. QED  BY <2>1, <2>2, <2>3 DEF FinishFrame
<1>. QED  BY <1>1, <1>2, TypeCorrect, PTL DEF Spec, SlotsAligned

-----------------------------------------------------------------------------

(* How many of the first n arguments compete for the registers of a class, *)
(* and how many of them have none.                                         *)
Taken(k, n) ==
  IF conv.arg_index_shared THEN n ELSE Cardinality({j \in 1 .. n : params[j] = k})

StackArgs(n) == Cardinality({j \in 1 .. n : ~ InRegister(j)})

(* What the index says when n arguments are placed: an index of registers  *)
(* is the rank of the next argument, up to the registers there are.        *)
CountsAt(n, index) ==
  /\ index.total_arg_count = n
  /\ index.stack_arg_count = StackArgs(n)
  /\ \A k \in Class :
        index.reg[k] = IF Taken(k, n) < conv.arg_regs[k] THEN Taken(k, n) ELSE conv.arg_regs[k]
  /\ conv.shadow_arg_reg_count > 0 =>
        StackArgs(n) = IF n < conv.shadow_arg_reg_count THEN 0
                                                       ELSE n - conv.shadow_arg_reg_count

(* Adding an element to the end of a range counts it or does not.          *)
LEMMA CountNext ==
  ASSUME NEW n \in Nat, NEW P
  PROVE  /\ Cardinality({j \in 1 .. n : j \in P}) \in Nat
         /\ Cardinality({j \in 1 .. n + 1 : j \in P}) =
              Cardinality({j \in 1 .. n : j \in P}) + (IF n + 1 \in P THEN 1 ELSE 0)
<1> DEFINE S == {j \in 1 .. n : j \in P}
           T == {j \in 1 .. n + 1 : j \in P}
<1>1. IsFiniteSet(S)
  <2>1. IsFiniteSet(1 .. n)
    BY FS_Interval
  <2>. QED  BY <2>1, FS_Subset
<1>2. n + 1 \notin S /\ T = IF n + 1 \in P THEN S \cup {n + 1} ELSE S
  OBVIOUS
<1>. QED  BY <1>1, <1>2, FS_AddElement, FS_CardinalityType

(* What one more argument adds to the counts of the convention.            *)
LEMMA CountsNext ==
  ASSUME TypeOK, NEW n \in Nat, n + 1 \in DOMAIN params
  PROVE  /\ StackArgs(n) \in Nat
         /\ StackArgs(n + 1) = StackArgs(n) + (IF InRegister(n + 1) THEN 0 ELSE 1)
         /\ Rank(n + 1) = Taken(params[n + 1], n)
         /\ \A k \in Class :
              /\ Taken(k, n) \in Nat
              /\ Taken(k, n + 1) = IF conv.arg_index_shared \/ params[n + 1] = k
                                   THEN Taken(k, n) + 1 ELSE Taken(k, n)
<1>1. StackArgs(n) \in Nat
        /\ StackArgs(n + 1) = StackArgs(n) + (IF InRegister(n + 1) THEN 0 ELSE 1)
  <2>. DEFINE P == {j \in Nat : ~ InRegister(j)}
  <2>1. \A m \in Nat : {j \in 1 .. m : ~ InRegister(j)} = {j \in 1 .. m : j \in P}
    OBVIOUS
  <2>2. n + 1 \in P <=> ~ InRegister(n + 1)
    OBVIOUS
  <2>. HIDE DEF P
  <2>. QED  BY <2>1, <2>2, CountNext DEF StackArgs
<1>2. Rank(n + 1) = Taken(params[n + 1], n)
  BY DEF Rank, Taken
<1>3. ASSUME NEW k \in Class
      PROVE  /\ Taken(k, n) \in Nat
             /\ Taken(k, n + 1) = IF conv.arg_index_shared \/ params[n + 1] = k
                                  THEN Taken(k, n) + 1 ELSE Taken(k, n)
  <2>1. CASE conv.arg_index_shared
    BY <2>1 DEF Taken
  <2>2. CASE ~ conv.arg_index_shared
    <3>. DEFINE P == {j \in Nat : params[j] = k}
    <3>1. \A m \in Nat : {j \in 1 .. m : params[j] = k} = {j \in 1 .. m : j \in P}
      OBVIOUS
    <3>2. n + 1 \in P <=> params[n + 1] = k
      OBVIOUS
    <3>. HIDE DEF P
    <3>. QED  BY <2>2, <3>1, <3>2, CountNext DEF Taken
  <2>. QED  BY <2>1, <2>2
<1>. QED  BY <1>1, <1>2, <1>3

(* One turn of the walk: an argument gets a register exactly when its rank *)
(* is below the number of registers, then the one of its rank, and the     *)
(* index stays what CountsAt says.                                         *)
LEMMA WalkCounts ==
  ASSUME TypeOK, NEW n \in Nat, n + 1 \in DOMAIN params, NEW index \in Index,
         CountsAt(n, index)
  PROVE  LET k == params[n + 1]
             after == IndexAfter(conv, k, index)
         IN  /\ CountsAt(n + 1, after)
             /\ IF InRegister(n + 1)
                  THEN GetArgRegister(conv, k, index) = <<k, Rank(n + 1)>>
                  ELSE /\ GetArgRegister(conv, k, index) = NoReg
                       /\ GetOffsetFromStackPointer(conv, after) =
                            WORD_SIZE * (conv.shadow_arg_reg_count + StackArgs(n))
<1> DEFINE k == params[n + 1]
           after == IndexAfter(conv, k, index)
<1>1. /\ k \in Class /\ conv \in Conventions
      /\ conv.arg_regs \in [Class -> Nat]
      /\ conv.arg_index_shared \in BOOLEAN
      /\ conv.shadow_arg_reg_count \in Nat
      /\ conv.arg_index_shared => \A c, l \in Class : conv.arg_regs[c] = conv.arg_regs[l]
      /\ conv.shadow_arg_reg_count > 0 =>
           conv.arg_index_shared /\ \A c \in Class : conv.arg_regs[c] = conv.shadow_arg_reg_count
  BY IndexOfType, ConventionAssumption, SharedIndexAssumption
<1>2. /\ StackArgs(n) \in Nat
      /\ StackArgs(n + 1) = StackArgs(n) + (IF InRegister(n + 1) THEN 0 ELSE 1)
      /\ Rank(n + 1) = Taken(k, n)
      /\ \A c \in Class :
           /\ Taken(c, n) \in Nat
           /\ Taken(c, n + 1) = IF conv.arg_index_shared \/ k = c
                                THEN Taken(c, n) + 1 ELSE Taken(c, n)
  BY CountsNext
<1>3. InRegister(n + 1) <=> Taken(k, n) < conv.arg_regs[k]
  BY <1>2 DEF InRegister
<1>4. HasArgRegister(conv, k, index) <=> InRegister(n + 1)
  BY <1>1, <1>2, <1>3 DEF HasArgRegister, CountsAt
<1>5. /\ after.total_arg_count = n + 1
      /\ after.stack_arg_count = StackArgs(n + 1)
  BY <1>2, <1>4 DEF CountsAt, IndexAfter, AdvanceArgIndex, Index
<1>6. ASSUME NEW c \in Class
      PROVE  after.reg[c] = IF Taken(c, n + 1) < conv.arg_regs[c]
                            THEN Taken(c, n + 1) ELSE conv.arg_regs[c]
  <2>1. after.reg[c] = IF InRegister(n + 1) /\ (conv.arg_index_shared \/ c = k)
                       THEN index.reg[c] + 1 ELSE index.reg[c]
    BY <1>4 DEF IndexAfter, AdvanceArgIndex
  <2>2. index.reg[c] = IF Taken(c, n) < conv.arg_regs[c] THEN Taken(c, n) ELSE conv.arg_regs[c]
    BY DEF CountsAt
  <2>3. conv.arg_regs[c] \in Nat /\ conv.arg_regs[k] \in Nat
    BY <1>1
  <2>4. CASE conv.arg_index_shared
    <3>1. Taken(c, n) = Taken(k, n) /\ conv.arg_regs[c] = conv.arg_regs[k]
      BY <1>1, <2>4 DEF Taken
    <3>. QED  BY <1>2, <1>3, <2>1, <2>2, <2>3, <2>4, <3>1
  <2>5. CASE ~ conv.arg_index_shared
    BY <1>2, <1>3, <2>1, <2>2, <2>3, <2>5
  <2>. QED  BY <2>4, <2>5
<1>7. ASSUME conv.shadow_arg_reg_count > 0
      PROVE  /\ InRegister(n + 1) <=> n < conv.shadow_arg_reg_count
             /\ StackArgs(n) = IF n < conv.shadow_arg_reg_count
                               THEN 0 ELSE n - conv.shadow_arg_reg_count
  BY <1>1, <1>3, <1>7 DEF CountsAt, Taken
<1>8. CountsAt(n + 1, after)
  BY <1>1, <1>2, <1>5, <1>6, <1>7 DEF CountsAt
<1>9. CASE InRegister(n + 1)
  <2>1. index.reg[k] = Rank(n + 1)
    BY <1>1, <1>2, <1>3, <1>9 DEF CountsAt
  <2>. QED  BY <1>4, <1>8, <1>9, <2>1 DEF GetArgRegister
<1>10. CASE ~ InRegister(n + 1)
  <2>1. GetArgRegister(conv, k, index) = NoReg
    BY <1>4, <1>10 DEF GetArgRegister
  <2>2. GetOffsetFromStackPointer(conv, after) =
          WORD_SIZE * (conv.shadow_arg_reg_count + StackArgs(n))
    <3>1. CASE conv.shadow_arg_reg_count > 0
      BY <1>1, <1>5, <1>7, <1>10, <3>1 DEF GetOffsetFromStackPointer, StackSlots
    <3>2. CASE conv.shadow_arg_reg_count = 0
      BY <1>1, <1>2, <1>5, <1>10, <3>2 DEF GetOffsetFromStackPointer, StackSlots
    <3>. QED  BY <1>1, <3>1, <3>2
  <2>. QED  BY <1>8, <1>10, <2>1, <2>2
<1>. QED  BY <1>9, <1>10

(* What FollowsConvention says of one argument.                            *)
PlacedRight(i) ==
  IF InRegister(i)
    THEN caller[i].reg = <<params[i], Rank(i)>>
    ELSE /\ caller[i].reg = NoReg
         /\ caller[i].offset = WORD_SIZE * (conv.shadow_arg_reg_count + StackArgs(i - 1))

(* Strengthens FollowsConvention with the counts, and says what the caller *)
(* has taken off its stack pointer when its walk is done.                  *)
WalkFollows ==
  /\ Len(caller) <= Len(params)
  /\ \A i \in DOMAIN caller : CountsAt(i, caller[i].index) /\ PlacedRight(i)
  /\ phase # "push" =>
       /\ Len(caller) = Len(params)
       /\ arg_stack_alloc =
            WORD_SIZE * (conv.shadow_arg_reg_count + StackArgs(Len(params)))

(* The counts depend on the signature and the convention only.             *)
LEMMA CountsFixed ==
  ASSUME conv' = conv, params' = params
  PROVE  /\ \A n, index : CountsAt(n, index)' <=> CountsAt(n, index)
         /\ \A n : StackArgs(n)' = StackArgs(n)
         /\ \A i : /\ Rank(i)' = Rank(i)
                   /\ InRegister(i)' <=> InRegister(i)
<1>1. \A i : Rank(i)' = Rank(i) /\ (InRegister(i)' <=> InRegister(i))
  BY DEF Rank, InRegister
<1>2. \A n : StackArgs(n)' = StackArgs(n)
  BY <1>1 DEF StackArgs
<1>3. \A k, n : Taken(k, n)' = Taken(k, n)
  BY DEF Taken
<1>. QED  BY <1>1, <1>2, <1>3 DEF CountsAt

(* Before the first argument the walk has counted nothing.                 *)
LEMMA NothingCounted ==
  ASSUME TypeOK  PROVE  CountsAt(0, ZeroIndex(conv))
<1>1. StackArgs(0) = 0 /\ \A k \in Class : Taken(k, 0) = 0
  <2>1. /\ {j \in 1 .. 0 : ~ InRegister(j)} = {}
        /\ \A k : {j \in 1 .. 0 : params[j] = k} = {}
    OBVIOUS
  <2>. QED  BY <2>1, FS_EmptySet DEF StackArgs, Taken
<1>2. conv.arg_regs \in [Class -> Nat] /\ conv.shadow_arg_reg_count \in Nat
  BY ConventionAssumption DEF TypeOK
<1>. QED  BY <1>1, <1>2 DEF CountsAt, ZeroIndex

(* The counts of both walks are those that the convention prescribes.      *)
LEMMA WalkFollowsInvariant == Spec => []WalkFollows
<1>1. Init => WalkFollows
  <2>. SUFFICES ASSUME Init  PROVE WalkFollows
    OBVIOUS
  <2>1. params \in Seq(Class) /\ caller = <<>> /\ phase = "push"
    BY SignatureAssumption DEF Init
  <2>. QED  BY <2>1 DEF WalkFollows
<1>2. TypeOK /\ WalkFollows /\ [Next]_vars => WalkFollows'
  <2>. SUFFICES ASSUME TypeOK, WalkFollows, [Next]_vars  PROVE WalkFollows'
    OBVIOUS
  <2>0. caller \in Seq(Place) /\ params \in Seq(Class)
    BY SignatureAssumption DEF TypeOK
  <2>1. CASE PushArg
    <3>. DEFINE n == Len(caller)
                before == IndexOf(caller)
                after == IndexAfter(conv, params[n + 1], before)
                place == [reg    |-> GetArgRegister(conv, params[n + 1], before),
                          offset |-> GetOffsetFromStackPointer(conv, after),
                          index  |-> after]
    <3>1. /\ caller' = Append(caller, place)
          /\ conv' = conv /\ params' = params /\ phase' = "push"
          /\ n \in Nat /\ n + 1 \in DOMAIN params
      BY <2>0, <2>1 DEF PushArg
    <3>2. before \in Index /\ CountsAt(n, before)
      <4>1. before \in Index
        BY IndexOfType
      <4>2. CASE caller = <<>>
        BY <4>1, <4>2, NothingCounted DEF IndexOf
      <4>3. CASE caller # <<>>
        BY <2>0, <4>1, <4>3 DEF IndexOf, WalkFollows
      <4>. QED  BY <4>2, <4>3
    <3>. HIDE DEF before
    <3>3. /\ CountsAt(n + 1, after)
          /\ IF InRegister(n + 1)
               THEN place.reg = <<params[n + 1], Rank(n + 1)>>
               ELSE /\ place.reg = NoReg
                    /\ place.offset = WORD_SIZE * (conv.shadow_arg_reg_count + StackArgs(n))
      BY <3>1, <3>2, WalkCounts
    <3>4. place.index = after
      OBVIOUS
    <3>. HIDE DEF place, after
    <3>5. /\ Len(caller') = n + 1 /\ DOMAIN caller' = 1 .. n + 1
          /\ caller'[n + 1] = place
          /\ \A i \in DOMAIN caller : caller'[i] = caller[i]
      BY <2>0, <3>1
    <3>6. ASSUME NEW i \in DOMAIN caller'
          PROVE  CountsAt(i, caller[i].index)' /\ PlacedRight(i)'
      <4>1. CASE i = n + 1
        <5>1. CountsAt(i, caller[i].index)'
          BY <3>1, <3>3, <3>4, <3>5, <4>1, CountsFixed
        <5>2. PlacedRight(i)'
          BY <3>1, <3>3, <3>5, <4>1, CountsFixed DEF PlacedRight
        <5>. QED  BY <5>1, <5>2
      <4>2. CASE i # n + 1
        <5>1. i \in DOMAIN caller
          BY <2>0, <3>1, <3>5, <4>2
        <5>2. caller'[i] = caller[i] /\ CountsAt(i, caller[i].index) /\ PlacedRight(i)
          BY <3>5, <5>1 DEF WalkFollows
        <5>. QED  BY <3>1, <5>2, CountsFixed DEF PlacedRight
      <4>. QED  BY <4>1, <4>2
    <3>7. n + 1 <= Len(params)
      BY <2>0, <3>1
    <3>. QED  BY <3>1, <3>5, <3>6, <3>7 DEF WalkFollows
  <2>2. CASE PushArgsDone
    <3>1. /\ conv' = conv /\ params' = params /\ caller' = caller /\ Len(caller) = Len(params)
          /\ arg_stack_alloc' = GetArgStackAllocSize(conv, IndexOf(caller))
      BY <2>2 DEF PushArgsDone
    <3>2. CountsAt(Len(params), IndexOf(caller))
      <4>1. CASE caller = <<>>
        BY <3>1, <4>1, NothingCounted DEF IndexOf
      <4>2. CASE caller # <<>>
        BY <2>0, <3>1, <4>2 DEF IndexOf, WalkFollows
      <4>. QED  BY <4>1, <4>2
    <3>3. arg_stack_alloc' = WORD_SIZE * (conv.shadow_arg_reg_count + StackArgs(Len(params)))
      <4>1. conv.shadow_arg_reg_count \in Nat /\ IndexOf(caller).stack_arg_count \in Nat
        BY IndexOfType, ConventionAssumption DEF Index
      <4>. QED  BY <3>1, <3>2, <4>1 DEF GetArgStackAllocSize, CountsAt
    <3>. QED  BY <3>1, <3>3, CountsFixed DEF WalkFollows, PlacedRight
  <2>3. CASE /\ UNCHANGED <<conv, params, caller, arg_stack_alloc>>
             /\ phase # "push" \/ phase' = phase
    BY <2>3, CountsFixed DEF WalkFollows, PlacedRight
  <2>4. TakeParam \/ TakeParamsDone \/ FinishFrame \/ UNCHANGED vars
          \/ (\E n \in Name, t \in DataType : AddLocal(n, t) \/ GetLocalOffset(n, t))
        => /\ UNCHANGED <<conv, params, caller, arg_stack_alloc>>
           /\ phase # "push" \/ phase' = phase
    BY DEF TakeParam, TakeParamsDone, FinishFrame, AddLocal, GetLocalOffset, vars
  <2>. QED  BY <2>1, <2>2, <2>3, <2>4 DEF Next
<1>. QED  BY <1>1, <1>2, TypeCorrect, PTL DEF Spec

(* Every argument travels where the platform's convention puts the         *)
(* argument of its rank, for any signature and each convention whose       *)
(* tables are as assumed: FollowsConvention is an invariant.               *)
THEOREM PlacesFollowConvention == Spec => []FollowsConvention
<1>1. TypeOK /\ WalkFollows => FollowsConvention
  <2>. SUFFICES ASSUME TypeOK, WalkFollows, NEW i \in DOMAIN caller
                PROVE  IF InRegister(i)
                         THEN caller[i].reg = <<params[i], Rank(i)>>
                         ELSE /\ caller[i].reg = NoReg
                              /\ caller[i].offset =
                                   WORD_SIZE * (conv.shadow_arg_reg_count
                                     + Cardinality({j \in 1 .. i - 1 : ~ InRegister(j)}))
    BY DEF FollowsConvention
  <2>. QED  BY DEF WalkFollows, PlacedRight, StackArgs
<1>. QED  BY <1>1, TypeCorrect, WalkFollowsInvariant, PTL

(* Later arguments have no fewer stack arguments in front of them.         *)
LEMMA StackArgsGrow ==
  ASSUME NEW m \in Nat, NEW n \in Nat, m <= n
  PROVE  /\ StackArgs(m) \in Nat
         /\ StackArgs(n) \in Nat
         /\ StackArgs(m) <= StackArgs(n)
         /\ n > 0 /\ ~ InRegister(n) => StackArgs(n) = StackArgs(n - 1) + 1
<1> DEFINE P == {j \in Nat : ~ InRegister(j)}
           S(k) == {j \in 1 .. k : j \in P}
<1>1. \A k \in Nat : {j \in 1 .. k : ~ InRegister(j)} = S(k)
  OBVIOUS
<1>2. \A k \in Nat : IsFiniteSet(S(k))
  <2>1. \A k \in Nat : IsFiniteSet(1 .. k) /\ S(k) \subseteq 1 .. k
    BY FS_Interval
  <2>. QED  BY <2>1, FS_Subset
<1>3. S(m) \subseteq S(n)
  OBVIOUS
<1>4. StackArgs(m) = Cardinality(S(m)) /\ StackArgs(n) = Cardinality(S(n))
  BY <1>1 DEF StackArgs
<1>5. ASSUME n > 0, ~ InRegister(n)
      PROVE  StackArgs(n) = StackArgs(n - 1) + 1
  <2>1. n - 1 \in Nat /\ (n - 1) + 1 = n /\ n \in P
    BY <1>5
  <2>2. Cardinality({j \in 1 .. n : j \in P}) = Cardinality({j \in 1 .. n - 1 : j \in P}) + 1
    <3>. HIDE DEF P
    <3>. QED  BY <2>1, CountNext
  <2>. QED  BY <1>1, <2>1, <2>2 DEF StackArgs
<1>. HIDE DEF S
<1>. QED  BY <1>2, <1>3, <1>4, <1>5, FS_Subset, FS_CardinalityType

(* The arguments on the stack fit in what the caller takes off its stack   *)
(* pointer, above the shadow space and no two in one word: ArgsFit is an   *)
(* invariant.                                                              *)
THEOREM ArgumentsFit == Spec => []ArgsFit
<1>1. TypeOK /\ WalkFollows => ArgsFit
  <2>. SUFFICES ASSUME TypeOK, WalkFollows, phase # "push",
                       NEW i \in DOMAIN caller, caller[i].reg = NoReg
                PROVE  /\ caller[i].offset >= conv.shadow_arg_reg_count * WORD_SIZE
                       /\ caller[i].offset + WORD_SIZE <= arg_stack_alloc
                       /\ \A j \in DOMAIN caller :
                            caller[j].reg = NoReg /\ caller[j].offset = caller[i].offset
                              => i = j
    BY DEF ArgsFit
  <2>1. /\ caller \in Seq(Place) /\ params \in Seq(Class)
        /\ conv.shadow_arg_reg_count \in Nat
        /\ Len(caller) = Len(params)
        /\ arg_stack_alloc =
             WORD_SIZE * (conv.shadow_arg_reg_count + StackArgs(Len(params)))
    BY SignatureAssumption, ConventionAssumption DEF TypeOK, WalkFollows
  <2>2. ASSUME NEW j \in DOMAIN caller, caller[j].reg = NoReg
        PROVE  /\ ~ InRegister(j)
               /\ j \in Nat \ {0} /\ j <= Len(params)
               /\ caller[j].offset =
                    WORD_SIZE * (conv.shadow_arg_reg_count + StackArgs(j - 1))
               /\ StackArgs(j - 1) \in Nat /\ StackArgs(j) = StackArgs(j - 1) + 1
    <3>1. j \in Nat \ {0} /\ j <= Len(params) /\ PlacedRight(j)
      BY <2>1 DEF WalkFollows
    <3>2. ASSUME InRegister(j)  PROVE FALSE
      <4>1. <<params[j], Rank(j)>> = NoReg
        BY <2>2, <3>1, <3>2 DEF PlacedRight
      <4>2. params[j] \in Class /\ CountsAt(j, caller[j].index)
        BY <2>1, <3>1 DEF WalkFollows
      <4>3. Rank(j) \in Nat
        <5>1. j - 1 \in Nat /\ (j - 1) + 1 = j
          BY <3>1
        <5>2. (j - 1) + 1 \in DOMAIN params
          BY <2>1, <3>1, <5>1
        <5>. QED  BY <4>2, <5>1, <5>2, CountsNext
      <4>. QED  BY <4>1, <4>2, <4>3, NameAssumption
    <3>3. j - 1 \in Nat
      BY <3>1
    <3>. QED  BY <3>1, <3>2, <3>3, StackArgsGrow DEF PlacedRight
  <2>3. caller[i].offset >= conv.shadow_arg_reg_count * WORD_SIZE
    BY <2>1, <2>2
  <2>4. caller[i].offset + WORD_SIZE <= arg_stack_alloc
    <3>1. /\ i \in Nat /\ i <= Len(params) /\ Len(params) \in Nat
          /\ caller[i].offset =
               WORD_SIZE * (conv.shadow_arg_reg_count + StackArgs(i - 1))
          /\ StackArgs(i - 1) \in Nat /\ StackArgs(i) = StackArgs(i - 1) + 1
      BY <2>1, <2>2
    <3>2. StackArgs(i) <= StackArgs(Len(params)) /\ StackArgs(Len(params)) \in Nat
      BY <3>1, StackArgsGrow
    <3>. QED  BY <2>1, <3>1, <3>2
  <2>5. ASSUME NEW j \in DOMAIN caller, caller[j].reg = NoReg,
               caller[j].offset = caller[i].offset
        PROVE  i = j
    <3>1. /\ i \in Nat \ {0} /\ StackArgs(i - 1) \in Nat
          /\ StackArgs(i) = StackArgs(i - 1) + 1
          /\ caller[i].offset =
               WORD_SIZE * (conv.shadow_arg_reg_count + StackArgs(i - 1))
      BY <2>2
    <3>2. /\ j \in Nat \ {0} /\ StackArgs(j - 1) \in Nat
          /\ StackArgs(j) = StackArgs(j - 1) + 1
          /\ caller[j].offset =
               WORD_SIZE * (conv.shadow_arg_reg_count + StackArgs(j - 1))
      BY <2>2, <2>5
    <3>3. StackArgs(i) = StackArgs(j)
      BY <2>1, <2>5, <3>1, <3>2, SMTT(30)
    <3>4. ~ (i < j)
      <4>. SUFFICES ASSUME i < j  PROVE FALSE
        OBVIOUS
      <4>1. i \in Nat /\ j - 1 \in Nat /\ i <= j - 1
        BY <3>1, <3>2
      <4>2. StackArgs(i) <= StackArgs(j - 1)
        BY <4>1, StackArgsGrow
      <4>. QED  BY <3>1, <3>2, <3>3, <4>2
    <3>5. ~ (j < i)
      <4>. SUFFICES ASSUME j < i  PROVE FALSE
        OBVIOUS
      <4>1. j \in Nat /\ i - 1 \in Nat /\ j <= i - 1
        BY <3>1, <3>2
      <4>2. StackArgs(j) <= StackArgs(i - 1)
        BY <4>1, StackArgsGrow
      <4>. QED  BY <3>1, <3>2, <3>3, <4>2
    <3>. QED  BY <3>1, <3>2, <3>4, <3>5
  <2>. QED  BY <2>3, <2>4, <2>5
<1>. QED  BY <1>1, TypeCorrect, WalkFollowsInvariant, PTL

=============================================================================
