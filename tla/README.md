# A verification project for LLVMDynamicTools

TLA+ models of the two programs of this repository, the LLVM IR interpreter
(`src/src/LLVMInterpreter`) and the random program generator (`src/src/LLVMFuzzer`), the TLC
runs that check them on small instances, and machine-checked proofs, for instances of every
size, about memory, control, arithmetic, the setup before main, printf, the values and the
generated programs. Paths below are relative to the directory that holds `src/` and `tla/`.

The code asserts a great deal, and its CMake files set no build type, so `NDEBUG` is not
defined: everywhere a failed `assert`, an `llvm_unreachable` or an uncaught exception is
modelled as the end of the process, with the reason in a `status` variable.

## 1. The system

### The interpreter

`main.cpp` parses a module, calls `Interpreter::evaluateGlobals` and then `runMain`. One
thread, no signals, no persistence. What is hard is not concurrency but long sequences of legal
operations on shared, untyped state: memory with three address spaces handed out by bump
allocators, a stack of frames that must be matched by C++ calls, values that exist as trees in
registers and as bytes in memory, and limits.

| Component | State | Operations | Correct when |
|---|---|---|---|
| `MemorySection` (`Memory.h`) | `totalSize`, `usedSize`, `mem` | `allocate`, `grow`, `deallocate`, `free`, `isAddressLegal`, `readAs*`, `write`, `getRawPointerAtAddress` | allocations do not overlap, every byte that was allocated (and no other) is legal |
| Interpreter memory operations (`Interpreter.cpp`, `External.cpp`, memory instructions of `Evaluation.cpp`, `StackFrame.h`) | `globalMem`, `stackMem`, `heapMem`, each frame's `allocSize` | `allocateGlobalMem`, `allocateStackMem`, Alloca, Load, Store, malloc, free, memset, memcpy, `callFunction`, `popStack` | an object keeps the bytes last written to it until it dies; a return releases what its frame took, and no more |
| `runFunction` (`Interpreter.cpp:102-212`) | `StackFrames`, `vRegs`, `curBB`, `prevBB`, `phiValueCache`, `instItr` | blocks, phis, Br, Switch, Ret, Call, `switchToNewBasicBlock` | phis change in parallel, calls nest, frames of one function share nothing, execution goes on |
| Typed values (`DynamicValue`, `Memory.h`, `loadValue`, `evaluateConstant`) | value trees; bytes | `write`, `readAs*`, `loadValue`, `evaluateConstant`, GetElementPtr, ExtractValue, InsertValue | what was stored is what is loaded, whole or in parts; padding and neighbours are left alone |
| Arithmetic, comparisons, casts (`Evaluation.cpp`) | none | one instruction and one constant expression per operator | both give what the language defines |
| Global setup (`main.cpp`, `evaluateGlobals`, `createArgvArray`, `runMain`) | `globalMem`, `globalEnv`, `funPtrMap` | find main, reserve, initialise, give functions addresses, copy argv, call main | objects are apart; pointers and strings are what the program and the command line say; main is reached |
| External functions (`External.cpp`) | none of their own | printf, malloc, free, memset, memcpy/memmove | as in the C library |
| `DynamicValue` ownership | a tagged union; the storage of wide integers, arrays, structs | construct, copy, move, set and get elements, destroy | a value behaves as a value: storage has one owner and is freed once |
| `InfoDump.cpp`, the rest of `main.cpp` | none | printing, command line | - |

The components share the three sections and the frames. `evaluateInstruction` calls
`callFunction`, which calls `runFunction`, which calls `evaluateInstruction`: the interpreted
call stack and the C++ one grow together and must stay in step.

### The fuzzer

| Component | State | Operations | Correct when |
|---|---|---|---|
| `GeneratorEnvironment` | `typeMap`, `ptrMap`, `numValue` | `addValue`, `initializePointsTo`, `recordStore`, lookups | the three containers agree; a `MemoryLoc` is valid exactly if the generated program has stored there |
| `BlockGenerator`, `ValueGenerator` | the block, the environment | `addAllocaInst`, `addStoreInst`, `addBinaryInst`, `addCmpInst`, `addCastInst`, `addReturnInst`, `getRandomValueOfType`, ... | what is generated is legitimate: defined before use, stored before load, every operation with a result, well typed |
| `ProgramGenerator` | the module | allocation block, body of 50 operations, return, main | the generator reaches the end |
| `Random`, `main.cpp` | a random engine | draws | - |

## 2. Modules

| Module | Models |
|---|---|
| `MemorySection` | one section as a record; its member functions as operators |
| `Runtime` | the three sections and the frames under every operation of a running guest program; composes three `MemorySection`s |
| `ObjectMemory` | abstract: memory as a store of named objects. `Runtime` implements it |
| `Runtime_proofs` | the theorems about the layout of `Runtime`'s memory |
| `Runtime_refines` | the theorems about its contents, up to the refinement of `ObjectMemory` |
| `IR` | the fragment of LLVM IR that control needs, and the evaluation of operands |
| `RunFunction` | `runFunction` with everything that moves control |
| `SsaSemantics` | abstract: what the language says of control. `RunFunction` implements it |
| `RunFunction_proofs` | the theorems about frames and calls |
| `RunFunction_refines` | the theorem that `RunFunction` implements `SsaSemantics` |
| `MCRunFunction` | the programs that `RunFunction` is run on |
| `TypedMemory` | value trees, their layout, their bytes, and the instructions on aggregates |
| `MCTypedMemory` | the types and values of `TypedMemory`'s instances |
| `ScalarOps` | operators on integers, floating-point numbers and pointers, and what the language says of each |
| `ScalarOps_proofs` | the theorems about operators and their results |
| `MCScalarOps` | the numbers and pointers that `ScalarOps`'s program starts with |
| `GlobalSetup` | what happens before main, step by step, and what main does with it: loads and stores of pointers, calls through them, printf; over one `MemorySection` |
| `GlobalSetup_proofs` | the theorems about `GlobalSetup` |
| `MCGlobalSetup` | the programs and command lines that `GlobalSetup` is run on |
| `DynamicValue` | values as C++ objects that own storage |
| `ValueStore` | abstract: variables that hold values. `DynamicValue` implements it |
| `DynamicValue_proofs` | the theorems about ownership, and that `DynamicValue` implements `ValueStore` |
| `MCDynamicValue` | the values of `DynamicValue`'s instance, and the symmetry of its variables |
| `GeneratorEnvironment` | the environment as a record; its member functions as operators |
| `ProgramGenerator` | generation of a program, and the execution of what is generated |
| `ProgramGenerator_proofs` | the theorems about the generator and its environment |

Operators marked "mutant" are plausible bugs: each run's property is known to fail when the
operator after it is replaced by the mutant.

### Runtime

`sec[space]` is `globalMem`, `stackMem` or `heapMem`; `frames[i]` is the `allocSize` of frame i;
`status` is the phase of the process. The guest is the most general program that respects the
language: at each step it does any operation on any object it owns. It may also dereference an
address that is not allocated, which the interpreter must reject (`AccessUnallocated`). The
history variables say what the program may believe: `objects` (what it owns, where, and which
call it belongs to), `frameBase` (where the stack ended when a frame was made) and `op` (what
the last operation was to leave or find). The actions are the code's operations, one each:
`AllocateGlobal`, `RunMain`, `CallFunction`, `Alloca` (all its elements in one step: the C++
loop between them runs no guest code), `Malloc`, `Free`, `Load`, `Store`, `Memset`, `MemCopy`,
`Return`.

`free` keeps the block reserved, as `MemorySection::free` does. A section that is full aborts:
`grow()` does not assign `totalSize`, so the assertion after it fails (finding 1). The copies
in one section go through `std::memcpy`: `CopyResults` is the set of outcomes that an overlap
leaves open. Bytes of fresh memory are one value, `Garbage`; a real buffer holds anything, and
no property depends on what.

### RunFunction

`calls` are the C++ calls of `runFunction` with their locals (`curBB`, `instItr`, the phi cache),
`frames` the `StackFrames` with the registers. A call refers to its frame by place (`frame`, its
parameter `StackFrame& frame`), and evaluates and binds through that reference; `callFunction` adds
a frame at the back and starts a call on it (`Push`), `popStack` drops the frame at the back,
whichever it is (`Pop`). That the two are the same is `FramesOwned`. Arguments for an ellipsis are
accepted (`ArityOK`), but kept nowhere: the code stores them in `varArgs`, which nothing reads.
The two loops of
`switchToNewBasicBlock` are two actions, one phi per step (`EvaluatePhi`, `CommitPhi`), because
their order is what makes phis parallel; `Call` and `FinishCall` are the two halves of a Call
instruction, with the callee's run between them. Three instructions (`add`, `sub`, `ult`)
stand for all that compute. The refinement mapping hides the phi stages: to the language a
frame between two blocks is still at its branch (the history field `before` keeps the
registers the branch saw), and a frame whose callee has returned already has its value.

### TypedMemory

One object of a type and one register, with the tree of scalars the language says they hold.
Bytes are two bits and a word four bytes, so that an address with its two tag bits, an `i4`, a
padded struct and a nested array fit in a handful of bytes. The operators use three separate
computations of an offset, as the code does: the offsets in the value (`WriteValue`), those of
the type (`LoadValue`) and those of getelementptr. `Spec` is the program that avoids the two
operations that do not work (insertvalue, and a load of a whole array of scalars);
`FullSpec` has them too.

### ScalarOps

One register is computed on again and again, each operator taking the last result and any other
value. The first half of the module is the two switches of `Evaluation.cpp`: what an operator
gives or why it stops (`EvaluateIntBinOp`, `ICmp`, `IntCast`, ...), as an instruction and, where
all operands are constants, as a constant expression; where the two switches are the same one
definition stands for both. The second half (`IntMeaning`, ...) is the language's definition,
by mathematical integers and not by operations modulo 2^w; a meaning is a set, which is empty
where the program has none. An integer carries how `findBasePointer` will see it (`from`) and
the space that its address belongs to (`prov`). Numbers are integers with a limited number of
binary digits, rounded as IEEE rounds; that is enough for NaN, signs, exactness and order.

### GlobalSetup

`program` is the input: globals with their initialisers (a string, an array of pointers to
globals and into them, or none), functions (defined, known as external, or unknown), the arguments, and what is known of
main. `stage` and `next` say which iteration of which loop of `evaluateGlobals` or
`createArgvArray` comes next; the `stage` of a process that has ended says why. Of a byte the
model knows whether it is a character or part of a pointer, which is what one needs to see
strings and pointers run into each other.

In main the guest takes addresses, loads pointers from its globals and from argv, stores one
(the bound) over another, calls through a pointer (`funPtrMap.at`) and prints. `meant` is the
history of what the program believes its globals to hold, `used` what it last did and
should have seen. Printing is modelled by what it does: a format is a sequence of characters
and directives, read from memory up to the next NUL; a directive is replaced by the string or
the number of the next argument.

### DynamicValue

`object` gives each variable (a register, a temporary, an argument of a C++ function) its
type and its data: a value in the union, or a block of the C++ heap that it owns (the words
of a wide `APInt`, the elements of a `std::vector`, the nodes of a `std::map`). Copying,
moving and clearing are the operators `CopyMap`, `Emptied` and `ClearedFor`; the actions are the
special member functions and the operations on elements. As in the interpreter, a
variable is never assigned to itself nor read after it was moved from; what moved-from objects
go through is assignment and destruction. `insertBinding` is `CopyConstruct` or `CopyAssign`
(its parameter is const, so its `std::move` copies). `MaxLost` is 0: a run ends at
its first leak. What would come after is what comes without the leak, since nothing reaches
the lost block.

The mapping to `ValueStore` reads values through the blocks, so a shared block would show as a
variable that changes when another does.

### GeneratorEnvironment and ProgramGenerator

A random draw is a choice among all values; pools are sets, since an index is drawn at random.
The generated function has no branch but the one between its two blocks, so it executes in the
order of its generation: `run` executes each instruction as it is written and collects what
the language calls undefined. `IRBuilder` folds constants (`Result`), which decides whether
an operation gives an instruction or a constant.

## 3. What the runs check

| Run | Question | Instance | Result |
|---|---|---|---|
| `runtime` | do sections, frames and objects agree? do objects keep their bytes? does `Runtime` implement `ObjectMemory`? | sections of 4 addresses (null, two bytes and the one never handed out) and 2 byte values, 3 objects of 1-2 bytes, 3 frames, accesses of 1-2 bytes | holds |
| `run_function` | does `runFunction` do what the language says, and end? | 33 programs: every way two phis of a loop take each other's values, recursion, switch, void, variadic, indirect, external calls, and each defect at which the interpreter stops | holds |
| `typed_memory` | is what was stored what is loaded? | a padded struct in an array, a struct with tail padding and a pointer of each space, a float with an array of bytes | holds |
| `scalar_ops` | do operators give what the language says? | integers of 1, 2 and 4 bits, pointers of 3, floats of 2 and 3 digits up to 16 and NaN, one or two pointers of each space | holds |
| `global_setup` | does what main finds agree with the program and the command line, and is main reached? | a section of 40 bytes, up to 3 globals (strings, formats, pointers to and into what comes before and after, and to themselves, empty ones), 1-2 functions, 1 or 3 arguments, 5 kinds of main; programs that fill the section at each loop | holds |
| `dynamic_value` | who owns storage? do objects behave as values? | 3 variables, 4 blocks, narrow and wide integers, undef, arrays of 1, structs of up to 2 fields | holds |
| `program_generator` | is the environment right, and are the operands of the program legitimate? | 0-2 allocations, 3 operations, pointers two deep, two integer widths | holds |
| `runtime_grow` | does a section grow? | sections of 6 bytes, 4 objects, 3 frames | violated: finding 1 |
| `scalar_fcmp` | does fcmp accept its predicates? | as `scalar_ops`, `FullSpec` | violated: finding 2 |
| `program_generator_abort` | does the generator reach its end? | 1 allocation, 1 operation | violated: finding 3 |
| `program_generator_undefined` | has every operation a result? | 1 allocation, 2 operations | violated: finding 4 |
| `dynamic_value_leak` | is all storage given back? | 2 variables, 2 blocks | violated: finding 5 |

The properties:

- `Runtime`. `FrameAccounting`: the allocation sizes of the frames add up to what is in use of
  the stack section. `NoOverlap`, `ObjectsLegal`: live objects share no byte and all their
  bytes are legal. `StackTiling`: a legal stack address is in an alloca of a frame that
  has not returned. `PopRestores`: a return brings the stack back to where it was at the call.
  `ContentsAsWritten`, `Isolation`: an operation leaves the bytes it should, and no other
  object changes. `ImplementsStore`: all of it together, as a refinement.
- `RunFunction`. `CallChain`: every frame but the last waits at the very Call that made the
  next. `FramesOwned`: each C++ call of `runFunction` holds the frame that was made for it, and
  the running call's is the one that `getCurrentFrame()` returns and `popStack` drops.
  `Implements`: `SsaSemantics`. `Terminates`: see Fairness.
- `TypedMemory`. `MemoryAgrees`, `RegisterAgrees`: memory and register hold what the language
  says, wherever that is defined. `StoresStayInside`: a store changes no other byte.
- `ScalarOps`. `NumbersAsDefined`, `PointersAsDefined`: every result is in its meaning, and a
  pointer that went through an integer is in its old space. `StopsOnlyIfUndefined`: an assertion
  fires only where there is no meaning (or at an inttoptr of what is no ptrtoint, which the
  interpreter says it does not support).
- `GlobalSetup`. `ObjectsApart`: globals, functions, argv and its strings share no byte, and no
  two functions an address. `ContentsAsDeclared`: while main runs, strings and pointers are in
  memory as declared, or as stored since. `CallsReachNamed`: a call through a pointer reaches
  the function whose address was taken, and null reaches none. `PrintsAsC`: what printf
  prints is what C prints, except for a negative number under `%d` and for an argument too
  many, with which the process ends. `ReachesMain`: see Fairness.
- `DynamicValue`. `OwnedOnce`: a block has one owner and is allocated, so that no destructor
  frees what another object uses. `HoldsValues`: the refinement of `ValueStore`. `NothingLost`:
  no block is without an owner; violated (finding 5). How far the loss goes is proved
  (`LeaksExplained`, section 4).
- `ProgramGenerator`. `EnvironmentConsistent`; `PointersInitialised`: between operations each
  pointer is valid and has been stored through; `AlwaysAValue`: a value is found for
  every type that is asked for; `OperandsLegitimate`: no operand is undefined, ill-typed, loaded
  from where nothing was stored, or a divisor that may be zero. That is not all that a program
  needs to have a meaning: `OperationsDefined` (no least number divided by -1, no shift by the
  width) is violated (finding 4), and so is `NeverAborts` (finding 3).

**Bounds.** A `DEFAULT_SIZE` of 4 lets two objects of a section meet each other, both ends of it
and the popped space of a returned frame (the first address is null, and `allocate` refuses the
last one); a third object is in another section. Three frames are a caller, a callee and a
bystander. One element and several are what the code distinguishes, and 0 elements, which
allocates 1. The theorems remove these bounds. A loop that goes
round three times sees its phis before, at and after the first exchange. Two integer widths are
what the generator's casts tell apart, with width 1 for conditions; three operations allow a
value to be made, stored, loaded and used. Of the constants of a type, 0, -1, the least number
and one for the rest are what division tells apart (`Numbers`); one bit has 0 and -1 only.
`CHECK_DEADLOCK FALSE` everywhere: every one of these programs stops (returns, aborts,
ends its generation).

In `scalar_ops`, 4 bits are wider than a pointer and 2 narrower, so an address is truncated and
extended on its way; all values of a width occur, so the ends of both ranges do.

In `global_setup`, pointers are 2 bytes so that one can be half overwritten; the initialisers
point both ways, because a global's address must be known before it has contents; the empty
argument is the string that is its terminator only. In `dynamic_value`, 4 blocks are what a
struct with a wide field and its copy take; three variables are the two of an assignment and a
bystander. An aggregate in an aggregate is left out: to the code that assigns an element it is
one more value that owns a block, as a wide integer is.

**Fairness.** `RunFunction` and `GlobalSetup` have liveness properties. The interpreter is a single thread
whose loop does nothing else, so it takes its next step whenever it has one: `WF_vars(Next)`.
No program of the instance runs forever, so the interpreter must come to an end on each. `GlobalSetup` assumes the same of the steps
before main (`WF_vars(Setup)`), and nothing of main. `ReachesMain` says for which programs they
end in main: those that fit, whose initialisers name no function, whose last globals are not
empty and initialised, and whose main is defined and takes no more than argc and argv.

### Findings

1. `MemorySection::grow` doubles the buffer but not `totalSize`; the assertion after it fails.
2. The `fcmp` instruction falls through all predicates and terminates.
3. A store that picks a loaded pointer makes `recordStore` throw.
4. The generator keeps zero from being a divisor, but not -1 from dividing the least number; and
   its shift amounts go up to the width, one too far. TLC shows the first, which takes fewer
   steps.
5. Assignment over a value of the same type does not destroy it: its storage is lost.

`PROJECT.json` has the lines and the words in the repository that each contradicts.

Other behaviour that differs from the language is reproduced by the models; the passing runs
stay clear of it, by the restrictions named, and nothing in the repository says otherwise:
`insertvalue` binds the element that is inserted and not the aggregate (`InsertValue`, which only
`FullSpec` takes); `memmove` is `std::memcpy` (`CopyResults`; `runtime` has `memcpy` only); with pointers
narrower than 8 bytes the address-space tag is not stored (`PointerBytes`; the instance has wide
ones); a load of an array of scalars leaves the elements undef (`LoadValue`; `Spec` has no such
load); pointers are compared without their spaces, so the first alloca and the first malloc are
equal (`ICmp`, `ToldApart`); constant `fcmp true` is false (`FCmpConstant`); `frem` is
`std::remainder` (`Remainder`); `sitofp` takes its operand for an unsigned number, so -1 becomes a
large positive one (`IntToFP`; `Spec` converts no negative integer); an `i1` is stored and
loaded in no byte at all, so that true comes back false (`ToBytes`, `FromBytes`; the instance has
whole bytes). Arithmetic on `float` is done in double and not rounded to
`float`: this one is not reproduced, results that would be rounded are left out
(`Representable`).

Two more are part of what the passing properties say: an initialiser that takes the address of
a function ends the process, because functions get addresses last, and so does an empty
one at the end of the globals, because `write` checks the address of the array
(`ReachesMain` excuses both); and printf shows negative numbers as unsigned (`PrintsAsC`). Not
reproduced: `argv[argc]` is not null (the guest does not read it), and a struct with an empty
field fails an assertion of `addField`, since it shares its offset (the layouts have none).

## 4. What is proved

Everything below holds for every value of the modules' constants: sections of any size, any
number of frames, objects, blocks, programs and operations, strings of any length, integers of
any width and floating-point numbers of any precision.

| Module | Theorem | States | Under |
|---|---|---|---|
| `Runtime_proofs` | `TypeCorrect` | `TypeOK` | `SizesFit` |
| | `StackAccounted` | `FrameAccounting` | `SizesFit` |
| | `ObjectsSafe` | `NoOverlap` | `SizesFit` |
| | `ObjectsAccepted` | `ObjectsLegal` | `SizesFit` |
| | `StackTiled` | `StackTiling` | `SizesFit` |
| | `PopRestoresStack` | `PopRestores` | `SizesFit` |
| | `WritesIsolated` | `Isolation` | `SizesFit` |
| `Runtime_refines` | `WritesKept` | `ContentsAsWritten` | `SizesFit`, `DefinedCopies` |
| | `MemoryImplements` | `ImplementsStore` (of `ObjectMemory`) | `SizesFit`, `DefinedCopies` |
| `RunFunction_proofs` | `TypeCorrect` | `TypeOK` | |
| | `CallsChained` | `CallChain` | |
| | `FramesStayOwned` | `FramesOwned` | |
| `RunFunction_refines` | `InterpreterImplements` | `Implements` (of `SsaSemantics`) | |
| `GlobalSetup_proofs` | `TypeCorrect` | `TypeOK` | `SizesFit` |
| | `ObjectsAreApart` | `ObjectsApart` | `SizesFit` |
| | `ContentsHeld` | `ContentsAsDeclared` | `SizesFit` |
| | `CallsReachTheNamed` | `CallsReachNamed` | `SizesFit` |
| | `PrintfPrintsAsC` | `PrintsAsC` | `SizesFit` |
| `ScalarOps_proofs` | `TypeCorrect` | `TypeOK` | |
| | `Numbers` | `NumbersAsDefined` | |
| | `PointersKeepTheirSpace` | `PointersAsDefined` | |
| | `NoLegalProgramStops` | `StopsOnlyIfUndefined` | |
| `DynamicValue_proofs` | `TypeCorrect` | `TypeOK` | |
| | `NothingFreedTwice` | `OwnedOnce` | |
| | `LeaksExplained` | `LeaksOnlyOverSameType` | |
| | `ValuesHeld` | `HoldsValues` (of `ValueStore`) | |
| `ProgramGenerator_proofs` | `EnvironmentAgrees` | `EnvironmentConsistent` | |
| | `PointersStoredThrough` | `PointersInitialised` | |
| | `ValueFound` | `AlwaysAValue` | |
| | `GeneratesLegitimate` | `OperandsLegitimate` | |

**Assumptions.** Two are hypotheses of theorems, because the code does not guarantee them:

- `SizesFit`: requested sizes are numbers that `unsigned`, the parameter of `allocate`, can hold. A
  larger malloc reserves only its low bits, and the theorems do not hold for one.
- `DefinedCopies`: the program calls `memcpy`, whose ranges C does not let overlap, and not
  `memmove`, which the interpreter carries out with `std::memcpy`: where the ranges overlap, any of
  `CopyResults` is left behind.

The others are ASSUMEs of the modules, which TLC evaluates on every instance:

- `RunFunctionAssumption`, `ProgramAssumption`: a program is well formed (`IsProgram`): its
  branches lead to blocks of the function, a block binds a register in one phi only, operands
  and initialisers are of the shapes that there are and name what is in the module. LLVM's parser
  and verifier see to this before the interpreter starts. `RunFunction` starts with a main that
  has a body, which `GlobalSetup` does not assume. Nothing is assumed of what makes the interpreter
  stop on the way (a phi without an entry for the predecessor, a register that is not bound, a call
  that reaches no function): these are steps of the models.
- `ProgramAssumption` also says that an argument has no NUL inside: it is a C string of the
  command line.
- `ValueAssumption`: leaves are values of the types of leaves, undef among them; the heap is finite;
  an array has an element, and fields have offsets that are numbers.
- `ScalarAssumption`: widths are positive and 1 is among them, a float has no more digits than a
  double, NaN is no number, and addresses fit in a pointer. `MaxFloat`, the bound of the runs, is any
  number.
- `SectionAssumption`, `RuntimeAssumption`, `SetupAssumption`, `GeneratorAssumption`: sizes and
  widths are positive numbers, and the return type and `i1` are among the generator's types.

**Runtime: the layout.** None of the properties is inductive alone. `FrameAccounting` speaks of
neighbouring frames, but a return must not reach into any older frame; `NoOverlap` says nothing
of where objects are, so an allocation could meet one beyond `usedSize`. `IInv` adds:

- `Phase`: guest code runs exactly while there is a frame;
- `FramesNested`: a frame starts no lower than *every* older one ends;
- `Placed`: every object lies in the used part of its section, a stack object within what
  its own frame allocated;
- `Disjoint`: `NoOverlap` in terms of the ends of objects, which the solver can use.

An allocation starts where the used part ended, so by `Placed` it meets no other object
(`AllocationStep`, shared by globals, allocas and mallocs). A return takes `usedSize` back to
the frame's base; by `FramesNested` the remaining frames end there or below, and by `Placed`
the objects that die are exactly those above it (`ReturnStep`). Everything else leaves the
layout alone. `AllocateFits` is why `grow` does not appear: `allocate` returns only when no
growth was needed. `Isolation` follows from `Disjoint`: the cells of a write
are cells of one object. `PopRestores` is `FrameAccounting` at the top frame.

**Runtime: the contents.** `ContentsAsWritten` follows from the layout: a write that fits its
object is found there byte by byte (`PutByte`), and a defined copy has exactly one outcome
(`DefinedCopy`, `CopyWrites`). For the refinement, each action is shown to be the action of
`ObjectMemory` of the same name on the objects' bytes. What needs an argument is that a
surviving object keeps its bytes through every action that is not about it, which is `Disjoint`
again, and that a return removes the same objects in both.

**RunFunction.** `CallChain` is a statement about *waiting* frames; that a step preserves it
needs to be known of all of them. `IInv` adds `GoodFrame`: a frame is at an instruction of a block
of a function that has a body; while the two loops of `switchToNewBasicBlock` run, the cache has no
more values than the block has phis (`PhiLoops`); a waiting frame is at a call that reaches a
function (`Waiting`); and `Shape`, which ties `status` and `retVal` to the stack. A call puts its
frame on top of one that is then `"calling"`, and only `FinishCall` changes that, when its callee
is gone. `Held` is `FramesOwned`: a reference is a place in
`frames`, so it stays good because every call pushes and every return pops one frame, and the call
that returns is the last. Since each action is written over what the running call sees through its
reference (`Seen`), the lemmas `ContinueActive`, `PushActive` and `PopActive` carry a step on
`calls` and `frames` over to the stack of activations on which the other invariants are stated.

The refinement adds `Entering`, which says what the phi loops have done so far in terms of the
registers that the branch saw (`before`): while evaluating, nothing is bound and the cache holds
the incoming values of the first phis; while committing, the phis that are no longer in the cache
are bound to their incoming values, all other registers are as before, and the rest of the cache
is the values of the remaining phis. The last commit thus leaves what the language's
simultaneous assignment leaves. The steps of the two loops before it are stutters.

**GlobalSetup.** Objects are handed out by a bump allocator over three loops, and the contents
that are written refer to objects that other loops place. The invariant:

- `Progress`, `ArgsProgress`: how far each loop is, and so which objects exist;
- `InOrder`: the objects that exist, by name (`Layout`), lie in what is allocated, and of two one
  ends before the other starts (`Ordered`). An allocation extends the layout at `usedSize`;
- `TablesInverse`: `funPtrMap` is the inverse of `globalEnv` on functions. Since functions are
  apart and not empty, no insertion into `funPtrMap` finds its key taken;
- `MeantShape`, `NamesKnown`: what the globals are meant to hold is an initialiser of the
  declared shape and length, of names that have an address;
- `Contents`: every object that has been written (`Held`) has its bytes in memory. A write stays
  inside one object and leaves what the others hold (`Ordered`);
- `MemoryTyped`: a byte is garbage, a character or a part of a pointer into what is allocated.

`ObjectsApart` and `ContentsAsDeclared` are `InOrder` and `Contents` in the words of the
property; that a pointer that is loaded is the one that was stored is `FindsPointer`, and with
`TablesInverse` a call through it reaches the function it names.

`PrintsAsC` compares what printf takes from bytes, up to the first NUL that it meets (`CString`),
with what the program declared (`TextOf`, `CPiece`). By `Contents` a string lies in memory with its
NUL, and by `IsProgram` there is none before it, so `CString` stops where the string ends, however
long it is (`CStringIs`, `ReadsCharacters`). The address it starts from was a name's, came from argv or was loaded from a
global (`LoadedFromArgv`, `StringAsMeant`). Then the two agree directive by directive
(`DirectivesAre`, `PieceAsC`), `%d` of a negative integer excepted. `Unused` is the one addition to
the invariant: before main nothing has been printed.

**DynamicValue.** `OwnedOnce` says nothing of kinds: it would let an integer own the block of an
array. `IInv` says that each object is `Sound` (its block is of the kind that its type reads, down
to the elements of an aggregate), that the sets of blocks of different variables are disjoint
(`Apart`), and that only what is alive was moved from (`Movable`; an array has lost its elements
only if it was moved from). `OwnershipIsLocal` carries the argument: a step that changes one or two
variables, frees or allocates only blocks of theirs or free ones, and leaves these sound and apart,
leaves everything sound and apart. The copy of an aggregate is the delicate case (`CopyIsSound`):
its blocks are the image of the original's under an injection into the free blocks. For the
leaks (finding 5), each step is also shown to lose a block only by assigning over a value of its
owner's type (`LeaksOnlyOverSameType`, by `DropsExplained`).

For `ValuesHeld` the mapping `Contents` reads a variable's value through its block; each action is shown
to change it as `ValueStore` says. By `OwnedOnce` no other variable reads a block that a step
frees or writes, so the others keep their values. An array and a struct are sequences in
`ValueStore` but maps from keys in `DynamicValue`; `Ranks` says that `KeyAt` reaches every key, at the
place that is the number of smaller keys.

**ScalarOps.** The register is computed on again and again, so an operator's result must be an
operand that the next operator is right on. `IInv` says that the register is `Sound`, its value is
of its type (`OfType`: within the width, within the digits of a float) and that its `Origin` is
consistent: what `findBasePointer` will answer is the space that the address belongs to, and a
constant, for which nobody asks, is of the global section. The language's meaning, where there is
one, is the register's value. Each action has a lemma that its operator is in its meaning on all
operands of the right types, and stops only if there is none: for integers `IntBinOpRight` and
`IntCastRight`, for which operations modulo 2^w are compared with mathematical integers in two's
complement (of `and`, `or` and `xor`, whose definition is the language's, only that there is a word
with such bits: `LogicalIsWord`); for floats `FloatBinOpRight` and `RoundOften` (rounding
twice is rounding once; a number with no more digits than a float is exact in both; and what rounded
to double has a float's digits is what rounding to float gives); for pointers `PointerComparison` and `ProvenanceRight`.

**ProgramGenerator.** `OperandsLegitimate` is about what an execution *has done*, while an operation
relies on what the environment *has*. `IInv` ties them: every value in a pool may be used
(`Usable`: if it is an instruction it has been executed), every pointer is valid and
written, and a pointer to a pointer points to something in a pool (`Pool`); in the loop of
`addAllocaInst`, the pointer it goes on from is among them (`CurrentKnown`), and the value
that `addReturnInst` may take has been computed (`LastKnown`). Code is built by
appending: `LegalAppend` says that an instruction whose operands may be used where it stands keeps
code legal, and `Computed` is what every operand, cast and result is: code that is legal to
run after what has been generated, and a value of its type that may be used after that code.

**Model-checked only.**

- Liveness (`Terminates`, `ReachesMain`), which is outside TLAPS's reach.
- `TypedMemory` (`MemoryAgrees`, `RegisterAgrees`, `StoresStayInside`): types, constants and values
  are trees of any depth, and a dozen of its operators are recursive over them, as the functions of
  the code are. The induction theorems of the library take an operator as a parameter, which the
  provers cannot instantiate. Inductions over numbers are done by hand, from a least
  counterexample (the end of a string, the bits of a number); over trees that
  would need, for each operator, a proof first that its recursion defines something.

The violations (section 3) are counterexamples, which TLC finds and shows.

## 5. What is not modelled

- `fdiv` (numbers are integers in `ScalarOps`), and bitcasts between integers and numbers.
- `%p`, `%c`, widths and flags in formats, and what printf returns; the value of the library's
  memcpy and memset (undef; C gives the destination).
- `InfoDump.cpp` and `toString` (printing), the command line and the reading of the IR file in
  both `main.cpp` (LLVM's), `Random` (draws are choices).
- `varArgs` of a frame, which nothing reads.
- The re-binding of a base pointer's register between ptrtoint and inttoptr (`Evaluation.cpp:1198`).
- In `GlobalSetup`, initialisers that are structs (`TypedMemory` has structs as values), and
  those that are constant expressions other than a getelementptr into a global.

## 6. Plan

1. `TypedMemory` by recursive functions over a table of types, in which an element's type comes
   before the array's or struct's, so that its theorems become inductions over numbers: first that
   the offsets of getelementptr are those that `write` finds in the value, then `MemoryAgrees`.
2. The bytes of `TypedMemory`'s values in `Runtime`, whose accesses are of uninterpreted bytes.
