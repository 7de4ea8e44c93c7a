# A TLA+ model of the hplang compiler

hplang is a small statically typed language. Its compiler (`src/src`, C++) reads a
module and the modules it imports, checks them, lowers them to an intermediate
representation (IR), generates amd64 assembly, and runs `nasm` and `gcc` on the result.
The program is sequential: nothing in it runs concurrently and nothing is persisted. What is hard in
it is data that several passes update in place in an order that matters: the register
allocator above all; then what every expression becomes on its way from tokens to
instructions, conversion by conversion; scopes and inferred types, which the checker revisits; and the
bookkeeping of errors across modules.

## Inventory

| Component | Source | State | Operations | Interacts with |
|---|---|---|---|---|
| Driver | `compiler.cpp`, `main.cpp`, `hplang.cpp` | open files, modules, error count, result | compile a module, import, run the phases, assemble, link | every phase; `nasm` and `gcc` as processes |
| Lexer | `lexer.cpp`, `token.cpp` | FSM state, position | next token | parser (pull) |
| Parser | `parser.cpp`, `ast_types.cpp` | token stream, AST arena | one function per production, error recovery | lexer, AST |
| Type checking of expressions | `semantic_check.cpp` 40-1930, `symbols.cpp` 100-400, `ast_types.cpp` | types and casts written into the tree | coerce, resolve overloads, check each kind of expression | checker, environment, IR generator |
| Symbol environment | `symbols.cpp`, `hashtable.h` | scope chain, symbol tables, return bookkeeping | open and close a scope, add, look up, add an overload | checker, IR generator |
| Semantic checker | `semantic_check.cpp` | AST annotations, pending expressions, inferred types | check statements, expressions, overload resolution, infer | environment, driver (imports) |
| IR generator | `ir_gen.cpp` | routines, IR instructions, break and continue labels | lower statements and expressions | checker's annotations, code generator |
| Instruction selection | `amd64_codegen.cpp` 460-2226, 3482-3560 | instruction list, pending arguments | select, load, push arguments, call | IR, register allocator |
| Call frame | `reg_alloc.cpp` 177-276, `amd64_codegen.cpp` 1676-1843 | argument index, local offsets, frame size | place an argument, push arguments, add a local | selection, allocator |
| Register pool | `reg_alloc.cpp` 87-160, 278-401 | free registers of two classes, dirty registers | reset, allocate, allocate by name, release, dirty | linear scan |
| Liveness | `amd64_codegen.cpp` 2228-2690 | live sets, intervals | sweep to a fixed point, reduce to intervals | linear scan |
| Linear scan | `amd64_codegen.cpp` 2998-3480, 3562-3620 | unhandled, active, inactive and allocated intervals, spills | expire, renew, place, spill, split, scan | pool, liveness, call frame |
| Spill insertion | `amd64_codegen.cpp` 2693-2785 | spills, instruction list | sort, insert | linear scan |
| Edge resolution | `amd64_codegen.cpp` 2787-2996 | moves at jumps | reconcile the registers of both ends of an edge | linear scan, spill insertion |
| Peephole pass | `amd64_codegen.cpp` 3652-3792 | instruction list | drop moves and jumps | after spill insertion |
| Assembly output | `amd64_codegen.cpp` 3794-4234, `codegen.cpp` | output file | print | the assembler |
| Arena, array, hash table | `memory.cpp`, `array.h`, `hashtable.h` | memory blocks, tables | allocate, put, look up, remove | everything |
| Errors, options, profiler, arguments | `error.cpp`, `compiler_options.cpp`, `time_profiler.cpp`, `args_util.cpp` | counters | report | driver |

What makes each of them correct:

* Pool: a register is free once or held, never both and never lost.
* Liveness: the sets are the textbook liveness of the program; an interval covers its value on every path.
* Linear scan: no two active intervals share a register, every operand of every instruction gets a place, no assertion fails, it ends.
* Allocator as a whole: the code it leaves reads, at each operand, the value the program wrote last.
* Call frame: caller and callee agree where each argument is; locals do not overlap.
* Lexer: a token is the longest there is, no character is lost, a position is that of the text.
* Parser: what the grammar writes parses back to the same tree; nothing is dropped in silence.
* Expressions: an operand is converted to a type that holds its values. IR generator and selection: what is accepted
  meets no assertion, can be encoded, and does what the tree says.
* Environment: scopes nest; a name means the innermost declaration; a function's returns are counted once.
* Driver: success is reported only when every phase of every module succeeded.
* Arena: blocks handed out do not overlap. Hash table: a lookup finds the last value put.

## Modules

```
Instructions <- LinearScan <- EdgeResolution <- AllocatedCode     Rounding <- CallFrame
             <- Liveness      Peephole       <-                            <- Arena
Arrays    <- RegAlloc  (LinearScan!Pool == INSTANCE RegAlloc)     Probing  <- HashTable, which implements NameMap
          <- LinearScan                                           Driver   <- Main
Options   (Main!Parse == INSTANCE Options)                        Lexer            <- FrontEnd
Types <- Expressions <- IrGen <- Selection <- Machine <- Lowering Parser <- Syntax <-
Scopes
```

`A <- B` says that B extends A. Proofs stand in modules of their own:

```
Lemmas <- StorageProofs      about Arena, RegAlloc and HashTable
       <- CallFrameProofs    about CallFrame
       <- ScopesProofs       about Scopes
       <- MainProofs         about Driver, Options and Main
       <- InstructionProofs <- LivenessProofs     about Liveness
                            <- AllocationProofs   about LinearScan, and AllocatedCode as far as it runs LinearScan
```

A module `MCX` instantiates X for TLC, with the configurations named in the table of runs; `MCStorage`
instantiates three components that share no state.

A definition marked "Faulty variant" is no part of the program: it is the definition that
follows it with a plausible bug, which was put in place of it to see that a property notices.

### The register allocator

**RegAlloc** is the pool of `reg_alloc.cpp`: `free_regs[c]` is the array of a register
class, used as a stack; `dirty_regs` is the set of registers a routine mentions. `held` is not in
the code: it is the set of registers the client took and has not returned. Its actions
are the functions `ResetRegAlloc`, `AllocateFreeRegister`, `TryAllocateRegister`, `ReleaseRegister`
and `DirtyRegister`. **Arrays** has the operations of `array.h` on sequences: `array::EraseBySwap` puts the last element
in the place of the erased one.

**Instructions** says what the allocator needs to know of an instruction: the names it
reads, writes, uses as a base of an address, or keeps in fixed registers, and its label.
It also has the successors of an instruction, the textbook liveness and the reduction
of live sets to intervals. `Formed` is what selection guarantees of a routine: it ends with a label, each jump has its
label, and a label mentions no register.

**Liveness** is `ComputeLiveness` with `ReduceLiveIntervals`. A step of the model visits one instruction in
a sweep, or begins the next sweep because a set has changed. The reduction to intervals is a
function of the sets, `LiveIntervals`. The reference definition is `LiveBefore`: a name is live where a path leads to a read with no write before it. It follows the edges
of the program; the sweeps follow the edges that the code looks at, which skip labels.

**LinearScan** is `LinearScanRegAllocation` with the functions below it. A step
is one round of one loop of the code: `pc` names the loop. `unhandled`, `active`,
`inactive` and `allocated` are the interval sets; `spills`, `slots` and `place` are what the
scan leaves: the moves to insert, the names with a slot, and the place of each operand. It starts from
the live sets that the run of Liveness shows to be computed; a name that is written several times has a
chain of several intervals. An assertion that fails is a step to `pc = "abort"`. The ghost `passed`
records that the loop went on at an interval that starts behind the instructions scanned (finding 1).

`Pool == INSTANCE RegAlloc WITH held <- Held` maps the active intervals to the registers
held. `UsesPool` says that every step of the scan is an operation of the pool or leaves it alone. So
what is proved of the pool holds in the scan.

**EdgeResolution** is `CfgEdgeResolution`. An edge is a jump and the instruction behind its label.
Where a name has one register at the jump and another at the target, a move, or a store and a load,
comes in front of the jump; where a conditional jump falls through, more moves undo it. It sees
the intervals that the scan has put in `allocated`; those still active at the end of the scan are not
among them, as in the code.

**Peephole** is `OptimizeCode`: an operator from a list of instructions to the positions it
comments out.

**AllocatedCode** adds `InsertSpills`, which puts what the scan and the edges have recorded into the
list, and a machine that runs what the peephole pass leaves. The machine does not
compute values. A location holds `<<x, p>>` when the value in it is the one that instruction p
wrote to x; a move passes on what it reads. A call writes `Junk` to all caller saves. At a
conditional jump both ways are taken. `ReadsSeeLastWrite` then
says that the code means the same as before the allocation, whatever the instructions compute.

### Frames and memory

**CallFrame** has the two walks over a list of parameters: `PushArgs`, which puts
arguments into registers and words above the stack pointer, and the loop in `GenerateCode` that looks
for parameters in registers and words above the frame pointer. Then it is the frame of a body:
`AddLocal` for structs, `GetLocalOffset` for all other names, asked for in any order. The
calling convention is a constant: how many registers each class has, whether the index is shared
between the classes, how many words of shadow space.

**Rounding** is the function `Align`.

**Arena** is `memory.cpp`: `PushData` in the newest block or in a new one,
`TryToFreeData`, `FreeMemoryArena`. `malloc` returns any address such that the block lies apart from
the blocks in use.

**Probing** has the operators of the open addressing: probe, insert, grow, look up.
**HashTable** is a table as its clients change it, and **NameMap** is what it promises: a partial map
from names to values.

### From text to instructions

**Lexer** is the state machine of `lexer.cpp`, one character a step: `LexFSM` as an operator on states and
characters, `NextToken` around it, lines and columns, errors and the end of the file. Its reference
is a definition of each kind of token as a set of texts: `TokensAreLongest` says that no longer
prefix of the rest of the text is a token.

**Parser** is the recursive descent of `parser.cpp` on lists of tokens; every `Parse` function is
an operator that threads a record with the position, the errors and whether it gives up. **Syntax** has
the grammar, as an operator `Write` from trees to tokens that puts parentheses where the precedence of
operators asks for them. `WrittenParsesBack` compares the two. **FrontEnd** composes the lexer and the parser as
`CompileModule` does: a text, or tokens, or a tree that is written and spelled out.

**Types** has the types, `CheckTypeCoercion`, the common type of two operands, literals and overload
resolution of `semantic_check.cpp`; **Expressions** every `Check...Expr` and the statements on
top. What it returns is the tree with types and casts put in, and the errors.

**IrGen** lowers checked trees to the intermediate code of `ir_gen.cpp`: temporaries, labels of branches
and loops, addresses of members and elements, the order in which operands and arguments are evaluated.

**Selection** makes instructions of it, as `amd64_codegen.cpp` from `IrOperand` to `GenerateCode`: what each
intermediate instruction becomes, and `ModifyOperand`, which loads an operand to a temporary
when the opcode does not take it where it is.

**Machine** executes the instructions: registers, memory, flags, a log of the calls. It is not code of the
repository. Widths are scaled: 8, 16, 32 and 64 bits are 2, 3, 4 and 6 bits, so that products stay small and every
cut, extension and comparison still differs between widths. **Lowering** composes all: check, lower,
select, run from several inputs; `Meaning` evaluates the checked tree directly, as the reference.

### Scopes, modules and the command line

**Scopes** is the `Environment` as the statements of the checker drive it. The actions choose the
program: enter a function, open a block, declare a variable, return a value, import a
module, close. `cells` are the return types; a pending one is filled by the first
return that has a type. `Module.pending` are the expressions set aside, and `Recheck` is the
pass over them at the end of a module.

**Driver** is `compiler.cpp` with the parts of the checker and the generators that a module or routine
of the program takes a step for. `program` is what the files contain: whether they lex and parse, and
their statements. `frames` is the stack of `CompileModule` calls that imports make
recursive. `symbols` and `error_count` are shared by all modules, as in the code. Every phase can fail and
every tool can fail. `MaxEvents` is the size of the profiler's event store, which every compilation
fills, profiled or not.

**Options** is the table of options of `main.cpp`, `GetNextOption` of `args_util.cpp` and the switch of `main` over
what it returns. **Main** composes it with Driver: parse the words one by one, open the source,
compile, exit.

## Runs

| Run | Question | Bounds, and why they are enough |
|---|---|---|
| `liveness` | Are the sets right, do the intervals cover them, do the sweeps end? | Every list of three instructions of a menu of 13 between two labels: loops, branches forward, unreachable code, labels in a row. A backward loop over a forward branch needs three. The three invariants are proved for all routines. |
| `allocation` | Does no assertion fail, is no register shared, nothing handled twice, is the scan a client of the pool, does it end; and does the code, moved over its jumps and passed by the peephole pass, read the values written last? | Three registers. Three statements, among them calls with and without a result and an address taken, with no argument, one in a register, one on the stack; two calls after two variables; five moves and three sums over four variables; an `if` or a loop around one or two statements over two variables, and over three where each branch ends with other registers. Spills, expiry, waiting and renewal to a register and to a slot, moves and stores at jumps, and each case of the peephole pass occur. `ActiveDistinct`, `HandledOnce` and `UsesPool` are proved for all, `NoAssertionFails` for all that are `Placeable`. |
| `passed_over` | Finding 1. | Four statements over three variables and two registers. |
| `call_frame` | Do caller and callee meet, where the convention says? Do slots overlap? | Every signature up to five parameters of two classes, with fewer registers than parameters; five names of 1 to 12 bytes in every order. All properties are proved for all. |
| `save_slots` | Finding 2. | One variable and one save slot. |
| `scopes` | Is lookup lexical, do returns agree, does what is set aside stay bound, does the loop end? | Five scopes, so that a function in the root has two nested blocks or siblings; two returns; one expression set aside; two modules; two rounds where `Check` has ten; one error. The invariants are proved for any bounds; `CheckEnds` is not. |
| `void_inference` | Finding 3. | Two blocks in a function. |
| `driver` | Are imports inclusions, is success complete, is the command line understood? | Every graph of imports over three modules of up to two statements, cycles and missing files included; or one import and each phase to stop after; or every command line of up to four of 16 words. The command line and the program meet only in the name of the source, so one varies at a time. `MaxEvents` of 60 is reached by cycles, as is 1024 by larger ones; `MaxErrors` of 6 likewise. All is proved for any programs and lines; the inductive invariant was checked by TLC first. |
| `storage` | Is every register free once or held? Do allocations overlap? Is the table a map? | Five registers of two classes: the middle of an array, its last element and a class without callee saves occur. Five pushes that fit, fill and exceed blocks of 8 bytes. Four colliding names with two values each in a table that grows from two to eight. A behaviour uses one of the three. All is proved for any sizes. |
| `front_end` | Are tokens the longest, is nothing lost, are positions exact? Does what is written parse back, and is nothing dropped? | Texts: each keyword, each of its beginnings and each operator followed by what could go on; numbers, quotes, comments and ends of lines from alphabets of the characters that the states tell apart, up to four and an ending. Trees: every kind of expression in every other, every kind of statement in two others, every definition. Lists of tokens: up to four of a menu at five places of a program, right or wrong. |
| `lowering` | Do operands keep their values? Is what the check accepts lowered without an assertion and encodable? Does the code do what the tree says? | Every operator over every pair of ten operands: variables of five types, a literal, an element, a member through a pointer and of a struct, a global and a call; two levels of operators over mixed types; every condition of two tests; every assignment to every kind of place; overloads; conversions; loops with break, continue and return; structs. Four inputs with zero, negative and greatest values and two sorts of garbage. |
| `dividend` | Finding 4. | One division of 32 and of 64 bits. |

Deadlock is not checked: the program ends, and so do the models of its parts.

### Fairness

The compiler is one thread that does nothing but take its next step, until it ends. `WF_vars(Next)`
in Liveness and, for the scan, in AllocatedCode says just that. It does not choose between
actions: in these modules the state decides which step comes next. The machine of AllocatedCode is the
generated program, of which no fairness is assumed. In Scopes the actions also choose
the program, which may go on for ever; so fairness is only assumed of `PendingLoop`, the part
that the code runs without input. `Terminates` (twice) and `CheckEnds` are the liveness properties.

## Proofs

A listed theorem is a statement about a specification for all values of its constants. Where its property is that of a
run, the run shows it on a small instance and found the mistakes before the proof was begun.

What is assumed of the constants stands in the modules, as `ASSUME`s that TLC evaluates in the runs:

| Assumption | What it says, and what in the code justifies it |
|---|---|
| `RegInfoAssumption`, `RegisterAssumption` | The register tables of a target list a register once; the fixed and the argument register of a name are registers of the file (`reg_alloc.cpp`, the tables of `amd64_codegen.cpp`). |
| `RoutineAssumption`, `RoutinesAssumption` | Each routine is `Formed`, its arguments are names, of which there are finitely many; Liveness also wants nothing but arguments read by the first instruction (see the disagreement about a variable without a value). |
| `Placeable` (a hypothesis of `AssertionsHold` and `EveryOperandPlaced` only; `PlaceableAssumption` of the runs) | The routine: only arguments are read by its first instruction, no operand stands in code that no path reaches (both are disagreements below: `amd64_codegen.cpp:3297`), OP_SPILL has its one operand (`amd64_codegen.cpp:1926`), two arguments come in different registers. The file: one class (with two, `SpillAtInterval` takes a register of the wrong one, `amd64_codegen.cpp:3110`), which has registers. |
| `ConventionAssumption`, `SharedIndexAssumption`, `SignatureAssumption`, `TypeAssumption`, `NameAssumption` | The two conventions of `reg_alloc.cpp`: where classes share an index they have as many registers; sizes and alignments are positive; a parameter's home is no other name's. |
| `RequestAssumption`, `AddressAssumption`, `SizeAssumption` | Sizes and addresses are numbers; alignments, headers and pages are not empty. |
| `TableAssumption`, `NoneAssumption` | A table has a first size and grows; an empty slot is no entry. |
| `ConstantAssumption` | The bounds of Scopes are numbers, and the null type is no type. |
| `SourceAssumption`, `ProgramsAssumption`, `StopAssumption`, `MaxErrorsAssumption`, `WordsAssumption` | The source is an open file when `Compile` is called; files have names, of which there are finitely many, and are lists of statements that use finitely many names; a phase to stop after is a phase; at least one error is allowed (6 in `compiler_options.cpp:21`, which no option changes); a word begins with at most two dashes; the null pointer is no option. |

* **StorageProofs**. *Pool*: `[]PoolTypeOK` and `[]PoolConserved`. The invariant is their conjunction; "no duplicates in
  an array" and "free and held are disjoint and together everything" need one another.
  *Arena*: `[]AllocationsApart`, `[]BlocksApart`, `[]LiveBelowTop` and `[]NeverNull`. The invariant is the
  conjunction of all properties of the module. `NewBlockFits` is the arithmetic: size plus alignment
  minus one holds the size after any padding. Freeing keeps `LiveBelowTop` because what is taken back is the top of the
  newest block and all other allocations lie apart from it.
  *Hash table*: `TableSpec => IsMap`, that a table implements a map, for any hash function and sizes. The invariant
  `TableInv` says that each entry is reached on the probe of its name through slots that are full (`Reached`), and
  that the entries are what was put. One lemma says what an insertion does to it; that copying to the grown table puts in
  all entries and leaves room is an induction over the slots copied.
* **CallFrameProofs**: `[]TypeOK`, `[]CallerCalleeAgree`, `[]FollowsConvention`, `[]ArgsFit`, `[]SlotsApart` and
  `SlotsAligned`, for every convention, signature and set of names. `CallerCalleeAgree` compares the finished walks; it
  is not inductive. `WalksAgree` strengthens it: each walk so far is the function of the parameters before it, with the
  index threaded from argument to argument. Two walks that are the same function
  agree, and the offsets differ by the two words between the frame pointer and the caller's stack pointer.
  `FollowsConvention` says where an argument goes by counting the arguments before it; `WalkFollows` says that the
  threaded index is that count, with one counter or two, capped at the registers there are.
  `SlotsApart` is inductive with `TypeOK`: a new slot lies beyond all earlier ones because `AlignRoundsUp` says that
  alignment never rounds down; `SlotsAligned` is an action property, from `AlignIsAligned`.
* **ScopesProofs**: `[]TypeOK`, `[]ReturnTypeShared`, `[]InferLocKnown`, `[]ReturnsFit`, `[]PendingStaysBound`
  and `[]LookupIsLexical`. The invariant has four parts. `Shape`: parents come before their scopes, so that
  looking up ends, and an expression set aside is bound in its scope. `Nested`: the ghost stack of open constructs is a chain of
  parents that share the newest cell. `Inference`: what is in the cell agrees with what was returned, and the innermost
  scope, to which the place is copied on opening and closing, knows where it was filled. `Lexical`: in a program of one
  module the chain begins at the root. `PendingStaysBound` needs that declaring a name only brings bindings nearer.
* **MainProofs**. *Driver*: `[]TypeOK`, `[]SuccessIsComplete`. The invariant's part `Progress` says which files are made, that no
  error is counted and that the source was checked last whenever a back end stage is at work; success is then what the
  last stage adds. `MainRunsDriver`: the process implements the driver, so that `SuccessIsComplete` holds in it. *Options*:
  `[]LettersSelect`, `[]CompiledIsUnderstood`. Both are about the whole line; the invariant `LineInv`
  states them of the words read so far, and that the next word to be read is one that stands for itself.
  *Imports*: `[]ImportsAreInclusions`, from the invariant `Inclusion`. While there is no error, the text with all imports
  replaced is what has been checked followed by what is ahead, the rest of the innermost module first and the rest of the
  source last (`Follows`); a definition moves from one to the other and is good there exactly when the environment
  takes it without an error (`NextDefinition`), an import unfolds in place (`AheadUnfolds`), and a file
  that is missing or cannot be read leaves a gap. Once the text is known to be bad, an error has been counted or some
  module is being checked inside itself. The last is where "no error" could be wrong: nesting deeper than there are files
  means such a circle (pigeonhole), and a circle is never left without an error: modules pass behind their imports
  (`Ordered`), so that the first module of the circle to pass would have passed before itself (`LoopNeverPasses`).
* **LivenessProofs**: `[]LiveSetsExact`, `[]FlowStaysCovered`, `[]IntervalsApart`, for every routine. The textbook
  liveness is the least solution of its equations (InstructionProofs). The invariant `SweepInv` says that the sets are within
  it, and that while the present sweep has changed nothing, the equations hold at the instructions visited. So at the end they
  are a solution, along edges that skip labels, and the textbook liveness is within them. From sets that are exact,
  `StaysLive` and `StartsInterval` make intervals that cover each path and do not meet.
* **AllocationProofs**. `[]TypeOK`, `[]ActiveDistinct` and the refinement `UsesPool`, from `IInv`: the registers of the
  active intervals are those the pool has handed out, each with one holder, so that pool and scan can only change together. `ActiveDistinct` is not inductive alone:
  that a register taken from the pool is held by no active interval is the pool's conservation.
  `[]HandledOnce`, from a second invariant, `LifeInv`: of the active, the inactive and the
  unhandled intervals behind the present one no two have one name, so a name's whole life is one interval and the chain of those
  behind it; the parts of a chain follow one another; the unhandled ones are sorted by their starts. The sort is needed
  because a part that is put back is inserted by its start, which must lie behind the present position, or it would be
  lost among those already handled. The initial chains are `IntervalsApart` of the routine. `MachineRunsScan`: the
  specification that also runs the code implements the scan, so that all of this holds in the run `allocation`.
  `[]NoAssertionFails`, from a third invariant, `Safe`, of the runs that have passed over nothing. Its centre is `CoverInv`:
  all in front of the present instruction has been scanned, and every interval of liveness is settled (its name has a slot or a
  register of its own, or all its instructions have been scanned) or is in some interval that is active, inactive
  or unhandled. An operand is live (`OperandIsLive`, from the proofs of liveness), so at its instruction
  the holder is active, because the others start later (`ClockInv`, `StartsInv`). That is what `SetOperand` asserts. An active interval
  ends no sooner than now and an inactive one starts no sooner (`EndsInv`, `StartsInv`), so none has ended before it was renewed. A
  register that is wanted and not held is free by the pool's conservation; the one case where the code takes a register
  without looking, that of an argument, comes before anything else is active (`EntryInv`, from the order of the sort). From `Safe` also
  `EveryOperandPlaced`: on such runs no operand is left without a place, so that for `Placeable` routines finding 1 is the only way to lose one.
* **Lemmas**: the least number of a set, `Align`, what erasing by swap, popping and appending do to the elements of an array,
  a pool from which one takes and to which one returns, iterations that exist and that become stationary.

Only model-checked: `ReadsSeeLastWrite` of the allocator, with the edges, the spills and the peephole pass; the
lexer and the parser; types, lowering and selection. `ReadsSeeLastWrite` would need an invariant that says of every
location whose value it has, between the scan's moves, those of the edges and those of the calls, in just the routines that
the findings leave.

Out of the prover's reach and left to the runs: temporal properties under fairness (`Terminates`, `CheckEnds`); every
module from Parser to Lowering, which work with RECURSIVE operators on trees of any depth; and Lexer, whose
texts are strings, of whose characters the provers know nothing.
Recursive functions can be proved about, one at a time, by a least counterexample (`LeastNatural`): so the
proofs do with `LiveBefore`, the sort `ByStart`, the copying of a table, `Stands`, `Joined` and `Included`.

## Findings

Each is shown by a run that TLC ends with a violation, and was confirmed with a small program given to
the compiler.

1. `passed_over`: the scan reads where the next interval starts before it handles the current one.
   Handling it can put another interval before that start, or behind the last, and the
   instructions between are not scanned: they keep virtual registers (`amd64_codegen.cpp:3420`). With 14
   variables alive at once the compiler stops when the peephole pass meets one. Behind a call the same line has
   a second effect: instructions are scanned before the rest of a split interval is active, so a variable
   loaded again behind the call, then updated in its slot, is read from the register that has the old value.
   A third effect came up in the attempt to prove `NoAssertionFails`, in the model only: that the instructions passed over may
   have no operands (jumps and labels), and an interval is then found to have ended before it was renewed,
   which is an `INVALID_CODE_PATH` ("I don't know when this should happen", `amd64_codegen.cpp:3080`).
2. `save_slots`: the slot that saves a register around calls has the size of the first thing saved in it
   (`amd64_codegen.cpp:3308`): a `bool`, then eight bytes over the neighbour.
3. `void_inference`: a block that closes overwrites the count of return statements of its
   parent (`symbols.cpp:552`), so that a function with returns can be given `void`.
4. `dividend`: a signed division of 32 bits sign-extends 64 (`amd64_codegen.cpp:1496`): `-10 / 2` is 2147483643.

`NoAssertionFails` is stated of the scans that have passed over nothing (`NothingPassedOver`). `ReadsSeeLastWrite` is stated of the
routines that 1 does not touch (`AllScanned`) and whose calls all have a result (`EachCallReturns`: the second effect
of 1 needs one without). The first two points below are why it is not stated of routines with both jumps and calls
(`JumpsAndCalls`), nor of an argument that a load has gone over (`LoadedOver`).

### Disagreements met while modelling

They are modelled as the code does them, or left out where said, and no run is kept for them.

The register allocator:

* When the holder of an argument's register ends at the argument's move, `SpillFixedRegAtInterval` returns with the
  new interval in no set (`amd64_codegen.cpp:3152`). The rest of a split interval may then be loaded into that
  register in front of the call: with `f(p) = p + p + 1`, the routine `x := a; y := b; x = f(y); y = f(y);
  return x + 3*y` returns -32 for a = b = -3, not -20. (`LoadedOver`.)
* A call inside a branch puts the names alive in their slots. At the jump over that branch they are still in
  registers, and nothing stores them there; at a conditional jump, an interval of the target that is not alive yet is
  stored from a register that has something else, and loaded where the jump is not taken. The comment of
  `CfgEdgeResolution` (`amd64_codegen.cpp:2789`) says that it "seems to work in most cases, but fails in some". Of
  small random functions with branches and calls, one to three in a hundred return something else. (`JumpsAndCalls`.)
* In code that no path reaches, such as `if y > 2 { return 2; z = y; }`, a name that is read there has no interval; its
  operand has neither register nor slot, and `SetOperand` stops the compiler (`amd64_codegen.cpp:3297`). The
  routines of the allocator's runs have no such code; Liveness has, and states its
  properties of the instructions that are reached. The same happens in code that runs, when the first instruction
  reads a variable without a value: `g :: () : s64 { x : s64; y := x; return y; }`. There the interval would begin
  behind the read. So `RoutinesAssumption` wants nothing but arguments read by the first instruction.
* `SpillAtInterval` takes the register of the last active interval whatever its class
  (`amd64_codegen.cpp:3110`); `ReleaseRegister` then asserts (`reg_alloc.cpp:356`). The runs use one class.
* The set of names whose address was taken is kept from one routine to the next (`amd64_codegen.cpp:1013`), while
  temporaries are numbered anew. The run of Lowering starts with none.

Frames, scopes, the driver and the options:

* Under the Unix convention a register parameter behind stack parameters gets the home of the last of
  them (`reg_alloc.cpp:225`), where the comment says it has none.
* The pending loop leaves the current scope where the last expression was (`semantic_check.cpp:2473`);
  the importer goes on there. `LookupIsLexical` is therefore stated of programs that have imported nothing.
* A returned expression is cast to the type it has, not to the function's (`semantic_check.cpp:2071`).
* A recursive call that initialises a variable of declared type reads the base of an empty
  pending type (`symbols.cpp:174`).
* The profiler's store of 1024 entries is full after about 125 functions or in any cycle of
  imports, and an assertion stops the compiler (`time_profiler.cpp:67`).
* When `out.s` cannot be opened the result stays `RES_OK` (`compiler.cpp:424`), which the tests
  compare (`tests.cpp:560`). `main` exits with 0 when a compilation fails.
* The initialisers of an importer run before those of its imports (`ir_gen.cpp:1575`).
* A long option with an argument selects the first argument it *differs* from
  (`args_util.cpp:151`), so `--profile time` counts instructions (README.md:58 of the repository).
* What stands behind the letter of a short option without letters is dropped: `-ofile -dA main.hp` writes to `-dA`
  (`args_util.cpp:177`). `Lettered` keeps such words out of what `LettersSelect` says.
* README.md:50 (of the repository) gives "out" as the default output; the code strips the source's extension.
* Nothing is aligned for a call: the argument area is a multiple of 8 bytes (`amd64_codegen.cpp:1821`).

Lexer, parser and types:

* An integer literal before `..` ends in front of it with the type of an earlier token (`lexer.cpp:1287`).
  A file that ends without a newline loses the end of its last token; `''` is a character literal.
* A block, or a file, that ends before its closing brace is accepted (`parser.cpp:227`). `NothingDropped` is stated
  of the texts whose braces are closed.
* A parameter or a member without a type is accepted (`parser.cpp:1421`); the checker asserts on it.
* An integer literal that does not fit 32 bits, anywhere but as the right side of an assignment or a declaration, is
  written through a null pointer (`semantic_check.cpp:458`). Trees that do so are not lowered (`"stop"`).
* An argument that fits by a conversion that changes the sign scores 0, which the comment of `CheckFunctionArgs`
  (`semantic_check.cpp:522`) means for no match; two such overloads are never ambiguous.
* To compare two types of structs stops the compiler (`symbols.cpp:233`), where the comment above says that it compares
  their names.

From trees to instructions. `Supported` of MCLowering names these and leaves them out of the run, which then shows
that there is nothing else within its bounds:

* The dividend of a signed division of 32 bits: finding 4 (`CutDividend`).
* A signed integer that becomes a wider unsigned one is moved without its sign (`LostSign`).
* A variable is read when the instruction is made whose operand it is: `x + (x = 1)` reads the new x, and a global
  argument is read after the calls in the arguments before it, which are generated later (`ReadLate`).
* A struct stored to an element or through a pointer is stored as its address (`StructStored`).
* An unsigned integer becomes a float as if it were signed, a narrow one with the bits above it in its register
  (`NotAsFloat`).
* The address of a member or an element is that of a temporary with its value (`AddressOfCopy`).
* A member of what an expression points to, as in `s.n.a`, meets an assertion (`amd64_codegen.cpp:2005`;
  `MemberOfPointer`).
* A narrow integer that is added to a pointer is not widened (`NarrowOffset`).
* The jump behind a comparison is made on its flags whether or not it tests its result
  (`amd64_codegen.cpp:1249`; `StrayComparison`).

The run has no program for the following, which the operators model as the code has them: a global pointer loses its
indirection in `g[1]` and `@g = 5`; `x += 5` behind `p := &x` changes a temporary that is never stored back
(`amd64_codegen.cpp:1030`); `x == x` of such an x compares memory with memory; a `for` without a condition or an
increment reads through a null pointer (`ir_gen.cpp:1325`); calls through variables do not convert arguments.

## What is not modelled

* Two register classes in the scan, and operands that are addresses: an operand of the allocator's modules is a name
  of one class. Selection has the kinds of operands.
* The values of literals and the texts of names: a token is its type or one of a few names. Of the built-in
  environment, the names of the types; `sqrt`, which is one instruction. Range loops, of which the checker stops.
* Names in the lowered trees: Expressions takes the variables in scope as a function. That this function is the scope
  chain's answer is what Scopes is about.
* `hashtable::Remove`, which nothing calls; the growth of arrays; texts of errors and of the
  assembly; the times of the profiler.
* The standard library and the tests are programs and statements about the compiler.

PROJECT.json lists the components and, under `hazards`, the places where each can go wrong with the
properties that cover them.

## Plan

Done: RegAlloc, Liveness, LinearScan, EdgeResolution, Peephole, AllocatedCode; CallFrame; Scopes; Options, Driver,
Main; Probing, HashTable, NameMap; Arena; Lexer, Parser, Syntax, FrontEnd; Types, Expressions, IrGen, Selection,
Machine, Lowering. Proofs of every invariant that the runs `storage`, `call_frame`, `scopes`, `liveness` and `driver` check, and of all
but `ReadsSeeLastWrite` of `allocation`.

What is left, in this order:

1. Two register classes in LinearScan, with `SpillAtInterval` taking a register of the wrong one
   (`amd64_codegen.cpp:3110`) as a finding.
2. Selection in front of LinearScan: the instructions that Lowering selects, with their fixed registers, as the
   routines of the allocator's run.
