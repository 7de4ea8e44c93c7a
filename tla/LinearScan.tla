----------------------------- MODULE LinearScan -----------------------------
(***************************************************************************)
(* LinearScanRegAllocation of src/src/amd64_codegen.cpp: the live          *)
(* intervals of a routine, in the order of their starts, are given         *)
(* registers of the pool of RegAlloc; between two starts the instructions  *)
(* are scanned and their operands replaced by the places found.            *)
(*                                                                         *)
(* An action is one round of one loop of the code.  `pc' says which loop:  *)
(*   "sort"     the sort in AllocateRegisters                              *)
(*   "take"     the loop over unhandled        "expire"  ExpireOldIntervals *)
(*   "renew"    RenewInactiveIntervals         "place"   the if that follows *)
(*   "scan"     ScanInstructions               "instr"   ScanInstruction    *)
(*   "operands" its calls of SetOperand        "done"                      *)
(* and "abort" when an ASSERT or INVALID_CODE_PATH fails: the process is   *)
(* killed there.                                                           *)
(***************************************************************************)
EXTENDS Instructions, Arrays, SequencesExt

CONSTANTS
  Routines,                        \* [code, args] of the routines considered
  Class, CallerSaved, CalleeSaved, \* the register file, see RegAlloc
  ClassOf,                         \* [Name -> Class], from the data type
  FixedReg,                        \* [Name -> Reg \cup {NoReg}], of FixedRegOperand
  ArgReg,                          \* [Name -> Reg \cup {NoReg}], of GetArgRegister
  NoReg,                           \* REG_NONE
  Slot                             \* the stack slot of a name, as a place

VARIABLES
  code, args,          \* the routine
  live_in, live_out,   \* what ComputeLiveness finds, see Liveness
  unhandled, u,        \* Interval_Sets::unhandled and the index of its loop
  limit,               \* next_interval_start, or the instruction count at last
  last_start,          \* last_interval_start
  active, inactive, allocated,     \* the other Interval_Sets
  free_regs, dirty_regs,           \* the pool
  idx,                 \* instr_index of the loop at work
  k,                   \* index into inactive
  spills,              \* Reg_Alloc::spills
  slots,               \* names with a local offset
  place,               \* what SetOperand has replaced each operand by
  then,                \* where "renew" goes on: "place" or "instr"
  passed,              \* ghost: has the loop gone on behind the instructions scanned
  pc

routine   == <<code, args, live_in, live_out>>
pool      == <<free_regs, dirty_regs>>
sets      == <<unhandled, active, inactive, allocated>>
loops     == <<u, limit, last_start, idx, k, then, passed>>
emitted   == <<spills, slots, place>>
vars      == <<routine, pool, sets, loops, emitted, pc>>

Held == {active[j].reg : j \in DOMAIN active}

Pool == INSTANCE RegAlloc WITH held <- Held

Reg == Pool!Reg

N == Len(code)

(* reg_info and the operands: a name has one data type, and a fixed or an  *)
(* argument's register is a register of the machine.                       *)
ASSUME RegisterAssumption ==
  /\ Pool!RegInfo
  /\ ClassOf \in [Name -> Class]
  /\ FixedReg \in [Name -> Reg \cup {NoReg}]
  /\ ArgReg \in [Name -> Reg \cup {NoReg}]

(* A routine mentions finitely many names.                                 *)
ASSUME RoutineAssumption ==
  /\ IsFiniteSet(Name)
  /\ \A r \in Routines : Formed(r.code) /\ r.args \subseteq Name

-----------------------------------------------------------------------------
(* The intervals the scan starts from: one chain for each name.            *)

(* An interval of an argument that starts with the routine has the         *)
(* argument's register without being fixed, or is marked as spilled.       *)
Interval(li, a) ==
  LET arrives == li.name \in a /\ li.start = 1
  IN [name |-> li.name, start |-> li.start, end |-> li.end,
      reg |-> IF arrives THEN ArgReg[li.name] ELSE FixedReg[li.name],
      is_fixed |-> ~arrives /\ FixedReg[li.name] # NoReg,
      is_spilled |-> arrives /\ ArgReg[li.name] = NoReg,
      next |-> <<>>]

(* AllocateRegisters sorts each chain by the starts, which differ.         *)
Chain(lis, a) ==
  LET ivs    == {Interval(li, a) : li \in lis}
      sorted == CHOOSE s \in SetToSeqs(ivs) :
                  \A i, j \in DOMAIN s : i < j => s[i].start < s[j].start
  IN [Head(sorted) EXCEPT !.next = Tail(sorted)]

(* And it sorts the heads by their starts.  Heads that start together come *)
(* in the order of a live_out set.  The arguments entered that of the      *)
(* first instruction first, those in registers before those of the same    *)
(* class on the stack; the order of the other names is left open.          *)
Rank(iv) == IF iv.is_spilled THEN 1 ELSE IF iv.is_fixed \/ iv.reg = NoReg THEN 2 ELSE 0

Tied(heads, n) == SetToSeqs({iv \in heads : 3 * iv.start + Rank(iv) = n})

FollowedBy(before, after) == UNION {{o \o t : t \in after} : o \in before}

ByStart(heads) ==
  LET orders[n \in 0 .. 3 * N + 2] ==
        IF n = 0 THEN {<<>>} ELSE FollowedBy(orders[n - 1], Tied(heads, n))
  IN orders[3 * N + 2]

Chains(lis) == {Chain({li \in lis : li.name = x}, args) : x \in {li.name : li \in lis}}

IsLeaf(P) == \A p \in Positions(P) : P[p].op # "call"

(* The state after ComputeLiveness; an argument passed on the stack has    *)
(* its slot from SetArgLocalOffset.                                        *)
Init ==
  \E r \in Routines :
    /\ code = r.code
    /\ args = r.args
    /\ live_in = LiveIn(r.code, r.args)
    /\ live_out = LiveOut(r.code, r.args)
    /\ unhandled = <<>>
    /\ u = 1 /\ limit = 1 /\ last_start = 1 /\ idx = 1 /\ k = 1
    /\ active = <<>> /\ inactive = <<>> /\ allocated = <<>>
    /\ free_regs = Pool!FreshFreeRegs(~IsLeaf(r.code))
    /\ dirty_regs = {}
    /\ spills = <<>>
    /\ slots = {x \in r.args : ArgReg[x] = NoReg}
    /\ place = [p \in Positions(r.code) |-> <<>>]
    /\ then = "place"
    /\ passed = FALSE
    /\ pc = "sort"

(* AllocateRegisters sorts the heads of the chains.                        *)
SortIntervals ==
  /\ pc = "sort"
  /\ \E lis \in {LiveIntervals(code, live_in, live_out)} :
       \E heads \in {Chains(lis)} : unhandled' \in ByStart(heads)
  /\ pc' = "take"
  /\ UNCHANGED <<routine, pool, active, inactive, allocated, loops, emitted>>

-----------------------------------------------------------------------------
(* The interval sets.                                                      *)

EndPosition(set, iv) ==
  LET p == SelectInSeq(set, LAMBDA o : iv.end <= o.end)
  IN IF p = 0 THEN Len(set) + 1 ELSE p

(* AddToSetSortedByEnd asserts that the intervals it passes on the way to  *)
(* the position, and the one it stops at, have other registers.            *)
MayAddToActive(set, iv) ==
  \A j \in DOMAIN set : j <= EndPosition(set, iv) => set[j].reg # iv.reg

AddToActive(set, iv) == InsertAt(set, EndPosition(set, iv), iv)

AddByStart(set, iv) ==
  LET p == SelectInSeq(set, LAMBDA o : iv.start <= o.start)
  IN InsertAt(set, IF p = 0 THEN Len(set) + 1 ELSE p, iv)

(* The next interval of the chain, with the rest of the chain behind it.   *)
NextOf(iv) == [Head(iv.next) EXCEPT !.next = Tail(iv.next)]

AddNextToInactive(set, iv) ==
  IF iv.next = <<>> THEN set ELSE AddByStart(set, [NextOf(iv) EXCEPT !.reg = iv.reg])

IsOfClass(iv) == iv.reg \in Pool!RegsOf(ClassOf[iv.name])

Released(iv) == [free_regs EXCEPT ![ClassOf[iv.name]] = Append(@, iv.reg)]

Spilled(iv, kind, at) == [kind |-> kind, name |-> iv.name, reg |-> iv.reg,
                           instr_index |-> 2 * at]

(* An assertion of the code fails.                                         *)
Abort ==
  /\ pc' = "abort"
  /\ UNCHANGED <<routine, pool, sets, loops, emitted>>

-----------------------------------------------------------------------------
(* The loop over unhandled.                                                *)

Current == unhandled[u]

TakeInterval ==
  /\ pc = "take"
  /\ u <= Len(unhandled)
  /\ passed' = (passed \/ (u > 1 /\ idx < Current.start))
  /\ limit' = IF u < Len(unhandled) THEN unhandled[u + 1].start ELSE Current.end
  /\ idx' = Current.start
  /\ then' = "place"
  /\ pc' = "expire"
  /\ UNCHANGED <<routine, pool, sets, emitted, u, last_start, k>>

(* The scan after the loop begins again at the last interval.              *)
TakeRest ==
  /\ pc = "take"
  /\ u > Len(unhandled)
  /\ limit' = N + 1
  /\ idx' = last_start
  /\ pc' = "scan"
  /\ UNCHANGED <<routine, pool, sets, emitted, u, last_start, k, then, passed>>

(* One round of ExpireOldIntervals; the set is sorted by end, so the first *)
(* interval that has not expired ends the loop.                            *)
(* Faulty variant: an interval does not cover its last instruction.        *)
ExpiredAtEnd(iv) == iv.end <= idx

Expired(iv) == iv.end < idx

Expire ==
  /\ pc = "expire"
  /\ active # <<>> /\ Expired(active[1])
  /\ IF ~IsOfClass(active[1]) THEN Abort
     ELSE /\ active' = Tail(active)
          /\ allocated' = Append(allocated, active[1])
          /\ inactive' = AddNextToInactive(inactive, active[1])
          /\ free_regs' = Released(active[1])
          /\ UNCHANGED <<routine, dirty_regs, unhandled, loops, emitted, pc>>

ExpireDone ==
  /\ pc = "expire"
  /\ active # <<>> => ~Expired(active[1])
  /\ k' = 1
  /\ pc' = "renew"
  /\ UNCHANGED <<routine, pool, sets, emitted, u, limit, last_start, idx, then, passed>>

(* Faulty variant: the index is not advanced.                              *)
RenewLaterForever ==
  /\ pc = "renew"
  /\ k <= Len(inactive)
  /\ inactive[k].start > idx \/ inactive[k].end < idx
  /\ UNCHANGED vars

(* One round of RenewInactiveIntervals, for an interval that has not       *)
(* started yet.  That one has ended before it was renewed is an            *)
(* INVALID_CODE_PATH: "I don't know when this should happen".              *)
RenewLater ==
  /\ pc = "renew"
  /\ k <= Len(inactive)
  /\ inactive[k].start > idx \/ inactive[k].end < idx
  /\ IF inactive[k].end < idx THEN Abort
     ELSE /\ k' = k + 1
          /\ UNCHANGED <<routine, pool, sets, emitted, u, limit, last_start, idx, then, passed, pc>>

(* The interval starts but its class has no free register: it is dropped   *)
(* and its name lives in its slot.                                         *)
RenewToSlot ==
  /\ pc = "renew"
  /\ k <= Len(inactive)
  /\ inactive[k].start <= idx /\ inactive[k].end >= idx
  /\ ~Pool!HasFreeRegisters(ClassOf[inactive[k].name])
  /\ inactive' = RemoveAt(inactive, k)
  /\ slots' = slots \cup {inactive[k].name}
  /\ UNCHANGED <<routine, pool, unhandled, active, allocated, loops, spills, place, pc>>

(* TryAllocateRegister of the register of the interval before it, else     *)
(* AllocateFreeRegister.                                                   *)
RenewToRegister ==
  /\ pc = "renew"
  /\ k <= Len(inactive)
  /\ inactive[k].start <= idx /\ inactive[k].end >= idx
  /\ LET old  == inactive[k]
         c    == ClassOf[old.name]
         free == free_regs[c]
         same == old.reg \in Elements(free)
         new  == IF same THEN old ELSE [old EXCEPT !.reg = Back(free)]
     IN /\ Pool!HasFreeRegisters(c)
        /\ IF ~IsOfClass(old) \/ ~MayAddToActive(active, new) THEN Abort
           ELSE /\ inactive' = RemoveAt(inactive, k)
                /\ active' = AddToActive(active, new)
                /\ free_regs' = [free_regs EXCEPT ![c] =
                                   IF same THEN Pool!RemoveFromFreeRegs(@, old.reg)
                                   ELSE Pop(@)]
                /\ UNCHANGED <<routine, dirty_regs, unhandled, allocated, loops, emitted, pc>>

RenewDone ==
  /\ pc = "renew"
  /\ k > Len(inactive)
  /\ pc' = then
  /\ UNCHANGED <<routine, pool, sets, loops, emitted>>

-----------------------------------------------------------------------------
(* The place of the current interval.                                      *)

Placing == pc = "place"

(* Faulty variant: the register is not taken out of the pool.              *)
PlaceOwnFreeNotTaken ==
  /\ Placing
  /\ Current.reg # NoReg
  /\ Current.reg \notin Held
  /\ active' = AddToActive(active, Current)
  /\ pc' = "scan"
  /\ UNCHANGED <<routine, pool, unhandled, inactive, allocated, loops, emitted>>

(* An interval with a register of its own (SpillFixedRegAtInterval) whose  *)
(* register no active interval has: AllocateRegister asserts that the pool *)
(* has it.                                                                 *)
PlaceOwnFree ==
  /\ Placing
  /\ Current.reg # NoReg
  /\ Current.reg \notin Held
  /\ LET c == ClassOf[Current.name]
     IN IF \/ ~IsOfClass(Current)
           \/ Current.reg \notin Elements(free_regs[c])
        THEN Abort
        ELSE /\ free_regs' = [free_regs EXCEPT ![c] = Pool!RemoveFromFreeRegs(@, Current.reg)]
             /\ active' = AddToActive(active, Current)
             /\ pc' = "scan"
             /\ UNCHANGED <<routine, dirty_regs, unhandled, inactive, allocated, loops, emitted>>

Holder == SelectInSeq(active, LAMBDA o : o.reg = Current.reg)

(* The holder's last instruction is the one where the current interval     *)
(* starts: the function returns with the current interval in no set.       *)
PlaceOwnEnding ==
  /\ Placing
  /\ Current.reg # NoReg
  /\ Current.reg \in Held
  /\ active[Holder].end = Current.start
  /\ pc' = "scan"
  /\ UNCHANGED <<routine, pool, sets, loops, emitted>>

(* Faulty variant: the next interval of the chain is added in both cases.  *)
PlaceOwnSplitAddsTwice ==
  /\ Placing
  /\ Current.reg # NoReg
  /\ Current.reg \in Held
  /\ active[Holder].end # Current.start
  /\ LET spill  == active[Holder]
         front  == [spill EXCEPT !.end = Current.start, !.next = <<>>]
         rest   == [spill EXCEPT !.start = Current.end + 1]
         others == RemoveAt(active, Holder)
         out    == Spilled(spill, "Spill", Current.start)
     IN IF ~MayAddToActive(others, Current) THEN Abort
        ELSE /\ slots' = slots \cup {spill.name}
             /\ active' = AddToActive(others, Current)
             /\ allocated' = Append(allocated, front)
             /\ inactive' = AddNextToInactive(inactive, rest)
             /\ IF rest.end > rest.start
                THEN /\ spills' = spills \o <<out, Spilled(rest, "Unspill", rest.start)>>
                     /\ unhandled' = AddByStart(unhandled, rest)
                ELSE /\ spills' = Append(spills, out)
                     /\ UNCHANGED unhandled
             /\ pc' = "scan"
             /\ UNCHANGED <<routine, pool, loops, place>>

(* Otherwise the holder is split: up to here, and from the instruction     *)
(* after the current interval, with an Unspill, as a new unhandled one.    *)
PlaceOwnSplit ==
  /\ Placing
  /\ Current.reg # NoReg
  /\ Current.reg \in Held
  /\ active[Holder].end # Current.start
  /\ LET spill  == active[Holder]
         front  == [spill EXCEPT !.end = Current.start, !.next = <<>>]
         rest   == [spill EXCEPT !.start = Current.end + 1]
         others == RemoveAt(active, Holder)
         out    == Spilled(spill, "Spill", Current.start)
     IN IF ~MayAddToActive(others, Current) THEN Abort
        ELSE /\ slots' = slots \cup {spill.name}
             /\ active' = AddToActive(others, Current)
             /\ allocated' = Append(allocated, front)
             /\ IF rest.end > rest.start
                THEN /\ spills' = spills \o <<out, Spilled(rest, "Unspill", rest.start)>>
                     /\ unhandled' = AddByStart(unhandled, rest)
                     /\ UNCHANGED inactive
                ELSE /\ spills' = Append(spills, out)
                     /\ inactive' = AddNextToInactive(inactive, rest)
                     /\ UNCHANGED unhandled
             /\ pc' = "scan"
             /\ UNCHANGED <<routine, pool, loops, place>>

(* Faulty variant: the store of the interval that loses its register is    *)
(* forgotten.                                                              *)
PlaceBySpillingUnsaved ==
  /\ Placing
  /\ Current.reg = NoReg
  /\ ~Pool!HasFreeRegisters(ClassOf[Current.name])
  /\ active # <<>>
  /\ Last(active).end > Current.end
  /\ LET spill == Last(active)
         new   == [Current EXCEPT !.reg = spill.reg]
     IN /\ slots' = slots \cup {spill.name}
        /\ active' = AddToActive(Front(active), new)
        /\ allocated' = Append(allocated, [spill EXCEPT !.end = Current.start])
        /\ inactive' = AddNextToInactive(inactive, spill)
        /\ pc' = "scan"
        /\ UNCHANGED <<routine, pool, unhandled, loops, spills, place>>

(* Faulty variant: its register is released, and yet given to the current  *)
(* interval.                                                               *)
PlaceBySpillingReleases ==
  /\ Placing
  /\ Current.reg = NoReg
  /\ ~Pool!HasFreeRegisters(ClassOf[Current.name])
  /\ active # <<>>
  /\ Last(active).end > Current.end
  /\ LET spill == Last(active)
         new   == [Current EXCEPT !.reg = spill.reg]
     IN /\ slots' = slots \cup {spill.name}
        /\ active' = AddToActive(Front(active), new)
        /\ allocated' = Append(allocated, [spill EXCEPT !.end = Current.start])
        /\ inactive' = AddNextToInactive(inactive, spill)
        /\ free_regs' = Released(spill)
        /\ spills' = Append(spills, Spilled(spill, "Spill", Current.start))
        /\ pc' = "scan"
        /\ UNCHANGED <<routine, dirty_regs, unhandled, loops, place>>

(* SpillAtInterval: no register of the class is free, and the last of the  *)
(* active intervals, whatever its class, ends after the current one.       *)
PlaceBySpilling ==
  /\ Placing
  /\ Current.reg = NoReg
  /\ ~Pool!HasFreeRegisters(ClassOf[Current.name])
  /\ active # <<>>
  /\ Last(active).end > Current.end
  /\ LET spill == Last(active)
         new   == [Current EXCEPT !.reg = spill.reg]
     IN IF ~MayAddToActive(Front(active), new) THEN Abort
        ELSE /\ spills' = Append(spills, Spilled(spill, "Spill", Current.start))
             /\ slots' = slots \cup {spill.name}
             /\ active' = AddToActive(Front(active), new)
             /\ allocated' = Append(allocated, [spill EXCEPT !.end = Current.start])
             /\ inactive' = AddNextToInactive(inactive, spill)
             /\ pc' = "scan"
             /\ UNCHANGED <<routine, pool, unhandled, loops, place>>

(* SpillAtInterval when the current interval ends last: it lives in its    *)
(* slot, and the next of its chain is handled in its turn.  Without active *)
(* intervals it reads active[-1], an ASSERT of the array.                  *)
PlaceInSlot ==
  /\ Placing
  /\ Current.reg = NoReg
  /\ ~Pool!HasFreeRegisters(ClassOf[Current.name])
  /\ active # <<>> => Last(active).end <= Current.end
  /\ IF active = <<>> THEN Abort
     ELSE /\ slots' = slots \cup {Current.name}
          /\ unhandled' = IF Current.next = <<>> THEN unhandled
                          ELSE AddByStart(unhandled, NextOf(Current))
          /\ pc' = "scan"
          /\ UNCHANGED <<routine, pool, active, inactive, allocated, loops, spills, place>>

PlaceInFree ==
  /\ Placing
  /\ Current.reg = NoReg
  /\ Pool!HasFreeRegisters(ClassOf[Current.name])
  /\ LET c   == ClassOf[Current.name]
         new == [Current EXCEPT !.reg = Back(free_regs[c])]
     IN IF ~MayAddToActive(active, new) THEN Abort
        ELSE /\ free_regs' = [free_regs EXCEPT ![c] = Pop(@)]
             /\ active' = AddToActive(active, new)
             /\ spills' = IF new.is_spilled
                          THEN Append(spills, Spilled(new, "Unspill", new.start))
                          ELSE spills
             /\ pc' = "scan"
             /\ UNCHANGED <<routine, dirty_regs, unhandled, inactive, allocated, loops,
                            slots, place>>

-----------------------------------------------------------------------------
(* ScanInstructions and ScanInstruction.                                   *)

Scan ==
  /\ pc = "scan"
  /\ idx < limit
  /\ then' = "instr"
  /\ pc' = "expire"
  /\ UNCHANGED <<routine, pool, sets, emitted, u, limit, last_start, idx, k, passed>>

ScanDone ==
  /\ pc = "scan"
  /\ idx >= limit
  /\ IF u <= Len(unhandled)
     THEN /\ last_start' = Current.start
          /\ u' = u + 1
          /\ pc' = "take"
     ELSE /\ pc' = "done"
          /\ UNCHANGED <<last_start, u>>
  /\ UNCHANGED <<routine, pool, sets, emitted, limit, idx, k, then, passed>>

(* SpillCallerSaves and UnspillCallerSaves store the caller saves of the   *)
(* active intervals before a call and load them after it, in slots of the  *)
(* registers' own.                                                         *)
CallerSaves ==
  SelectSeq(active, LAMBDA o : ~o.is_fixed /\
                               \E c \in Class : o.reg \in Elements(CallerSaved[c]))

SavesAt(kind, at) ==
  [j \in DOMAIN CallerSaves |->
     [kind |-> kind, name |-> CallerSaves[j].reg, reg |-> CallerSaves[j].reg,
      instr_index |-> 2 * at]]

ScanCall ==
  /\ pc = "instr"
  /\ code[idx].op = "call"
  /\ spills' = spills \o SavesAt("Spill", idx) \o SavesAt("Unspill", idx + 1)
  /\ pc' = "operands"
  /\ UNCHANGED <<routine, pool, sets, loops, slots, place>>

ScanOther ==
  /\ pc = "instr"
  /\ code[idx].op # "call"
  /\ code[idx].op = "SPILL" => place[idx] # <<>>     \* replaced by an earlier scan
  /\ pc' = "operands"
  /\ UNCHANGED <<routine, pool, sets, loops, emitted>>

(* OP_SPILL, in front of an instruction that takes the address of x: the   *)
(* instruction becomes a store of x's register, and x loses the register.  *)
Spillee     == CHOOSE x \in code[idx].reads : TRUE
SpillHolder == SelectInSeq(active, LAMBDA o : o.name = Spillee)

AtSpill == pc = "instr" /\ code[idx].op = "SPILL" /\ place[idx] = <<>>

SpillDone(p) ==
  /\ place' = [place EXCEPT ![idx] = [x \in {Spillee} |-> p]]
  /\ idx' = idx + 1
  /\ pc' = "scan"
  /\ UNCHANGED <<routine, dirty_regs, unhandled, inactive, allocated, u, limit, last_start,
                 k, then, passed, spills>>

ScanSpill ==
  /\ AtSpill
  /\ SpillHolder # 0
  /\ IF ~IsOfClass(active[SpillHolder]) THEN Abort
     ELSE /\ SpillDone(active[SpillHolder].reg)
          /\ slots' = slots \cup {Spillee}
          /\ active' = RemoveAt(active, SpillHolder)
          /\ free_regs' = Released(active[SpillHolder])

(* Without an active interval of x the instruction becomes a nop.          *)
ScanSpillNop ==
  /\ AtSpill
  /\ SpillHolder = 0
  /\ SpillDone(Slot)
  /\ UNCHANGED <<active, free_regs, slots>>

(* SetRegOperand: the fixed register, else the register of the active      *)
(* interval of that name.                                                  *)
ActiveRegister(x) ==
  LET a == SelectInSeq(active, LAMBDA o : o.name = x)
  IN IF FixedReg[x] # NoReg THEN FixedReg[x] ELSE IF a = 0 THEN NoReg ELSE active[a].reg

(* SetOperand: that register, else the local slot, else INVALID_CODE_PATH. *)
SetOperand(x) ==
  /\ pc = "operands"
  /\ x \in Operands(code[idx]) \ DOMAIN place[idx]
  /\ LET r      == ActiveRegister(x)
         put(p) == place' = [place EXCEPT ![idx] =
                         [y \in {x} \cup DOMAIN @ |-> IF y = x THEN p ELSE @[y]]]
     IN IF r # NoReg
        THEN /\ put(r)
             /\ dirty_regs' = dirty_regs \cup {r}
             /\ UNCHANGED <<routine, free_regs, sets, loops, spills, slots, pc>>
        ELSE IF x \in slots
        THEN /\ put(Slot)
             /\ UNCHANGED <<routine, pool, sets, loops, spills, slots, pc>>
        ELSE Abort

OperandsSet ==
  /\ pc = "operands"
  /\ Operands(code[idx]) \subseteq DOMAIN place[idx]
  /\ idx' = idx + 1
  /\ pc' = "scan"
  /\ UNCHANGED <<routine, pool, sets, emitted, u, limit, last_start, k, then, passed>>

-----------------------------------------------------------------------------

Next ==
  \/ SortIntervals
  \/ TakeInterval \/ TakeRest
  \/ Expire \/ ExpireDone
  \/ RenewLater \/ RenewToSlot \/ RenewToRegister \/ RenewDone
  \/ PlaceOwnFree \/ PlaceOwnEnding \/ PlaceOwnSplit
  \/ PlaceBySpilling \/ PlaceInSlot \/ PlaceInFree
  \/ Scan \/ ScanDone
  \/ ScanCall \/ ScanOther \/ ScanSpill \/ ScanSpillNop
  \/ \E x \in Name : SetOperand(x)
  \/ OperandsSet

Spec == Init /\ [][Next]_vars /\ WF_vars(Next)

-----------------------------------------------------------------------------

IntervalType(iv) ==
  /\ iv.name \in Name
  /\ iv.start \in Positions(code) /\ iv.end \in Positions(code)
  /\ iv.reg \in Reg \cup {NoReg}

TypeOK ==
  /\ u \in 1 .. Len(unhandled) + 1
  /\ \A set \in {unhandled, active, inactive, allocated} :
       \A j \in DOMAIN set : IntervalType(set[j])
  /\ \A c \in Class : free_regs[c] \in Seq(Reg)
  /\ dirty_regs \subseteq Reg
  /\ slots \subseteq Name
  /\ pc \in {"sort", "take", "expire", "renew", "place", "scan", "instr",
            "operands", "done", "abort"}

(* The loop has gone on behind the instructions scanned: the interval it   *)
(* takes starts after the instruction where the last scan ended.  The      *)
(* operands alone do not show it, for an instruction passed over may have  *)
(* none.                                                                   *)
NothingPassedOver == ~passed

(* What the routine must be like for the scan to find every operand a      *)
(* place: only arguments are read at its first instruction, no operand     *)
(* stands in code that cannot run, OP_SPILL has its one operand, and two   *)
(* arguments have different registers.                                     *)
Readable(P, a) ==
  /\ Uses(P[1]) \subseteq a
  /\ \A p \in Positions(P) :
       /\ Operands(P[p]) # {} => p \in Reachable(P)
       /\ P[p].op = "SPILL" => \E x \in P[p].reads : Operands(P[p]) = {x}
  /\ \A x, y \in a : x # y /\ ArgReg[x] = ArgReg[y] => ArgReg[x] = NoReg

(* And the register file: one class, which has registers.                  *)
Placeable ==
  /\ NoReg \notin Reg
  /\ \A c, d \in Class : c = d
  /\ \A c \in Class : Pool!RegsOf(c) # {}
  /\ \A r \in Routines : Readable(r.code, r.args)

(* No ASSERT and no INVALID_CODE_PATH of the allocator fails while no      *)
(* instruction has been passed over.                                       *)
NoAssertionFails == NothingPassedOver => pc # "abort"

(* Two active intervals never share a register: what one of them writes    *)
(* cannot overwrite the value of the other.                                *)
ActiveDistinct ==
  \A m, n \in DOMAIN active : active[m].reg = active[n].reg => m = n

(* The scan uses the pool as RegAlloc promises it will be used: every      *)
(* register it takes was free, and every register it returns was held.     *)
UsesPool == Pool!PoolSpec

(* "This way we do not add it twice": no part of a name's life is handled  *)
(* twice.  The intervals of one name that are active, wait to be renewed   *)
(* or to be handled, or hang behind one of these, are apart, in whatever   *)
(* order splits, expiries and spills have moved them between the sets.     *)
Waiting == active \o inactive \o SubSeq(unhandled, u, Len(unhandled))

(* The interval itself, and those that hang behind it.                     *)
Part(iv, d) == IF d = 0 THEN iv ELSE iv.next[d]

Apart(a, b) == a.end < b.start \/ b.end < a.start

HandledOnce ==
  pc = "take" =>
    \A m, n \in DOMAIN Waiting :
      \A d \in 0 .. Len(Waiting[m].next), e \in 0 .. Len(Waiting[n].next) :
        /\ Part(Waiting[m], d).name = Part(Waiting[n], e).name
        /\ m = n => d # e
        => Apart(Part(Waiting[m], d), Part(Waiting[n], e))

(* No instruction is passed over: when the scan is done every operand has  *)
(* been replaced.                                                          *)
AllScanned ==
  pc = "done" => \A p \in Positions(code) : DOMAIN place[p] = Operands(code[p])

(* The scan comes to an end, although handling an interval can add one.    *)
Terminates == <>(pc \in {"done", "abort"})

=============================================================================
