------------------------------- MODULE GlobalSetup -------------------------------
(* From the command line to the first instructions of main (main.cpp,                *)
(* Interpreter.cpp): evaluateGlobals gives every global and function an address and  *)
(* writes the initialisers, createArgvArray copies the arguments, runMain calls      *)
(* main.  Then the program uses what was set up: it loads pointers from global       *)
(* memory, calls through them, and prints strings (callExternalFunction, printf).    *)
(*                                                                                   *)
(* Global memory is one MemorySection.  Of a byte the model knows what it is a part  *)
(* of: a character, or a pointer.                                                    *)
EXTENDS MemorySection, FiniteSetsExt, SequencesExt

CONSTANTS
    Programs,       \* the modules and arguments that the interpreter is started with
    PtrSize,        \* dataLayout.getPointerSize()
    Ints,           \* the integers that the program prints ...
    IntMod          \* ... and 2^w for their width

ASSUME SetupAssumption == PtrSize \in Nat \ {0} /\ IntMod \in Nat \ {0} /\ Ints \subseteq 0 .. IntMod - 1

VARIABLES
    program,    \* what was on the command line
    globalMem,
    globalEnv,  \* from the names of globals and functions to their addresses
    funPtrMap,  \* from addresses to functions
    strings,    \* createArgvArray: the address of the array, and of each string so far
    stage,      \* what is to be done next, or why the process has ended
    next,       \* ... and for which global, function or argument
    meant,      \* history: what the program means the globals to hold
    used        \* what the program did last with what was set up, and should have seen

setupVars == <<globalMem, globalEnv, funPtrMap, strings, stage, next>>
vars == <<program, setupVars, meant, used>>

(* ---------------------------------- the input --------------------------------------- *)

Global(i) == [kind |-> "global", i |-> i]
Function(i) == [kind |-> "function", i |-> i]
Argv == [kind |-> "argv", i |-> 0]
Arg(i) == [kind |-> "arg", i |-> i]
Null == [kind |-> "null", i |-> 0]
Element(i, offset) == [kind |-> "element", i |-> i, offset |-> offset]   \* getelementptr into global i

Object(name) == IF name.kind = "element" THEN Global(name.i) ELSE name

(* An initialiser is a string, a number of pointers, or none (an external global).      *)
IsRefs(init) == init.kind = "refs"

SizeOf(init) ==
    CASE init.kind = "chars" -> Len(init.chars)
      [] init.kind = "refs" -> Len(init.names) * PtrSize
      [] init.kind = "none" -> init.size

(* What LLVM guarantees of the module: initialisers name what is in it, and addresses      *)
(* inside a global, or at its end.  The arguments are the process's own, C strings.       *)
IsSequence(s) == s \in Seq(ToSet(s))

IsName(name, p) ==
    \/ name = Null
    \/ \E i \in DOMAIN p.globals :
          \/ name = Global(i)
          \/ \E offset \in 0 .. SizeOf(p.globals[i]) : name = Element(i, offset)
    \/ \E i \in DOMAIN p.functions : name = Function(i)

IsInit(init, p) ==
    \/ init.kind = "chars" /\ init = [kind |-> "chars", chars |-> init.chars] /\ IsSequence(init.chars)
    \/ /\ init.kind = "refs" /\ init = [kind |-> "refs", names |-> init.names]
       /\ IsSequence(init.names) /\ \A j \in DOMAIN init.names : IsName(init.names[j], p)
    \/ init.kind = "none" /\ init = [kind |-> "none", size |-> init.size] /\ init.size \in Nat

IsProgram(p) ==
    /\ IsSequence(p.globals) /\ \A i \in DOMAIN p.globals : IsInit(p.globals[i], p)
    /\ IsSequence(p.functions)
    /\ IsSequence(p.args)
    /\ \A i \in DOMAIN p.args : IsSequence(p.args[i]) /\ "NUL" \notin ToSet(p.args[i])

ASSUME ProgramAssumption == \A p \in Programs : IsProgram(p)

Char(c) == [kind |-> "char", char |-> c]
PtrByte(a, part) == [kind |-> "ptr", addr |-> a, part |-> part]
NUL == Char("NUL")

Text(chars) == [i \in DOMAIN chars |-> Char(chars[i])]

PtrBytes(a) == [i \in 1 .. PtrSize |-> PtrByte(a, i)]

(* An array of pointers, one after the other.                                           *)
PtrArray(addrs) ==
    [k \in 1 .. Len(addrs) * PtrSize |->
        PtrByte(addrs[((k - 1) \div PtrSize) + 1], ((k - 1) % PtrSize) + 1)]

Wild == -1      \* what readAsPointer makes of bytes that are no pointer

ReadAsPointer(a) ==
    LET bytes == ReadBytes(globalMem, a, PtrSize)
    IN  IF bytes[1].kind = "ptr" /\ bytes = PtrBytes(bytes[1].addr) THEN bytes[1].addr ELSE Wild

(* ----------------------------------- setting up ------------------------------------- *)

Init ==
    /\ program \in Programs
    /\ globalMem = NewSection
    /\ globalEnv = <<>> /\ funPtrMap = <<>>
    /\ strings = [array |-> 0, addrs |-> <<>>]
    /\ stage = "start" /\ next = 1
    /\ meant = program.globals
    /\ used = [kind |-> "none"]

Stop(why) == stage' = why /\ UNCHANGED <<globalMem, globalEnv, funPtrMap, strings, next>>

(* allocateGlobalMem, and globalMem.allocate: the size is converted to unsigned.        *)
NewGlobalMem(size) == Allocate(globalMem, ToUnsigned(size))
Fits(size) == CanAllocate(globalMem, ToUnsigned(size))

(* One iteration of a loop over 1 .. n, or the step to what comes after the loop.       *)
Loop(here, n, body, then) ==
    /\ stage = here
    /\ IF next <= n THEN body
       ELSE /\ stage' = then /\ next' = 1
            /\ UNCHANGED <<globalMem, globalEnv, funPtrMap, strings>>
    /\ UNCHANGED <<program, meant, used>>

Advance == next' = next + 1 /\ UNCHANGED stage

(* main.cpp looks for main before anything is evaluated.                                *)
FindMain ==
    /\ stage = "start"
    /\ stage' = IF program.main.found THEN "allocate" ELSE "noMain"
    /\ UNCHANGED <<program, globalMem, globalEnv, funPtrMap, strings, next, meant, used>>

(* unordered_map::insert: a key that is there keeps its value.                          *)
Inserted(map, key, value) ==
    [k \in DOMAIN map \cup {key} |-> IF k \in DOMAIN map THEN map[k] ELSE value]

AllocateOne ==
    LET size == SizeOf(program.globals[next])
    IN  IF ~Fits(size) THEN Stop("sectionFull")
        ELSE /\ globalMem' = NewGlobalMem(size)
             /\ globalEnv' = Inserted(globalEnv, Global(next), globalMem.usedSize)
             /\ Advance /\ UNCHANGED <<funPtrMap, strings>>

AllocateGlobals == Loop("allocate", Len(program.globals), AllocateOne, "initialise")

(* evaluateConstant: the address of a name is what globalEnv has for it; a constant       *)
(* getelementptr adds its offset to the address of its base.                            *)
HasAddress(name) == name = Null \/ Object(name) \in DOMAIN globalEnv

ConstantElement(name) == globalEnv[Object(name)] + name.offset

AddressOf(name) ==
    CASE name = Null -> 0
      [] name.kind = "element" -> ConstantElement(name)
      [] OTHER -> globalEnv[name]

EvaluateInitializer(init) ==
    IF IsRefs(init) THEN PtrArray([i \in DOMAIN init.names |-> AddressOf(init.names[i])])
    ELSE Text(init.chars)

(* write() rejects an address that is not allocated: of the array, though it may be      *)
(* empty, and of each character or pointer in it, though not of a pointer's last bytes.   *)
StartsScalar(byte) == byte.kind = "char" \/ byte.part = 1

Writable(s, a, bytes) ==
    /\ IsAddressLegal(s, a)
    /\ \A i \in DOMAIN bytes : StartsScalar(bytes[i]) => IsAddressLegal(s, a + i - 1)

InitialiseOne ==
    LET init == program.globals[next]
        bytes == EvaluateInitializer(init)
    IN  CASE init.kind = "none" -> Advance /\ UNCHANGED <<globalMem, globalEnv, funPtrMap, strings>>
          [] IsRefs(init) /\ ~(\A i \in DOMAIN init.names : HasAddress(init.names[i])) ->
                Stop("noAddress")
          [] OTHER ->
                IF ~Writable(globalMem, globalEnv[Global(next)], bytes) THEN Stop("illegalWrite")
                ELSE /\ globalMem' = WriteBytes(globalMem, globalEnv[Global(next)], bytes)
                     /\ Advance /\ UNCHANGED <<globalEnv, funPtrMap, strings>>

InitialiseGlobals == Loop("initialise", Len(program.globals), InitialiseOne, "functions")

FunctionKeyByNumber(addr, i) == i                       \* mutant: keyed by the position

FunctionKey(addr, i) == addr

PlaceOne ==
    IF ~Fits(PtrSize) THEN Stop("sectionFull")
    ELSE /\ globalMem' = NewGlobalMem(PtrSize)
         /\ globalEnv' = Inserted(globalEnv, Function(next), globalMem.usedSize)
         /\ funPtrMap' = Inserted(funPtrMap, FunctionKey(globalMem.usedSize, next), Function(next))
         /\ Advance /\ UNCHANGED strings

PlaceFunctions == Loop("functions", Len(program.functions), PlaceOne, "argv")

(* createArgvArray *)
ArgvSizeInElements == Len(program.args)                 \* mutant: * ptrSize forgotten

ArgvSize == Len(program.args) * PtrSize

AllocateArgv ==
    /\ stage = "argv"
    /\ IF ~Fits(ArgvSize) THEN Stop("sectionFull")
       ELSE /\ globalMem' = NewGlobalMem(ArgvSize)
            /\ strings' = [strings EXCEPT !.array = globalMem.usedSize]
            /\ stage' = "strings"
            /\ UNCHANGED <<globalEnv, funPtrMap, next>>
    /\ UNCHANGED <<program, meant, used>>

CharsOfUnterminated(arg) == Text(arg)                   \* mutant: the terminator forgotten

CharsOf(arg) == Text(arg) \o <<NUL>>

ArgvSlotFirst(i) == strings.array                       \* mutant: argvPtrAddr not advanced

ArgvSlot(i) == strings.array + (i - 1) * PtrSize

CopyOne ==
    LET arg == program.args[next]
        addr == globalMem.usedSize
        withPointer == WriteBytes(NewGlobalMem(Len(arg) + 1), ArgvSlot(next), PtrBytes(addr))
    IN  IF ~Fits(Len(arg) + 1) THEN Stop("sectionFull")
        ELSE IF ~Writable(withPointer, addr, CharsOf(arg)) THEN Stop("illegalWrite")
        ELSE /\ globalMem' = WriteBytes(withPointer, addr, CharsOf(arg))
             /\ strings' = [strings EXCEPT !.addrs = Append(@, addr)]
             /\ Advance /\ UNCHANGED <<globalEnv, funPtrMap>>

CopyArguments == Loop("strings", Len(program.args), CopyOne, "callMain")

(* callFunction: main gets argc and argv, and may have fewer parameters, but not more.  *)
Arguments == 2

MainCallableExactly(main) ==                            \* mutant: no exception for main
    main.defined /\ main.formals = Arguments

MainCallable(main) == main.defined /\ main.formals <= Arguments

CallMain ==
    /\ stage = "callMain"
    /\ stage' = IF MainCallable(program.main) THEN "main" ELSE "badMain"
    /\ UNCHANGED <<program, globalMem, globalEnv, funPtrMap, strings, next, meant, used>>

(* -------------------------------- what main does with it ---------------------------- *)

(* An operand is the address of something, or a pointer loaded from an array of them.    *)
AddressOperands ==
    [via : {"address"}, name : DOMAIN globalEnv \cup {Null}, at : {1}]

Slots == UNION {[name : {Global(g)}, at : DOMAIN program.globals[g].names] :
                    g \in {i \in DOMAIN program.globals : IsRefs(program.globals[i])}}

LoadOperands ==
    {[via |-> "load", name |-> slot.name, at |-> slot.at] : slot \in Slots}
    \cup [via : {"load"}, name : {Argv}, at : DOMAIN program.args]

Base(name) == IF name = Argv THEN strings.array ELSE globalEnv[name]

(* The address of the slot that a pointer is loaded from or stored to.                    *)
Slot(name, at) == Base(name) + (at - 1) * PtrSize

Value(op) ==
    IF op.via = "address" THEN AddressOf(op.name)
    ELSE IF IsAddressLegal(globalMem, Slot(op.name, op.at)) THEN ReadAsPointer(Slot(op.name, op.at))
    ELSE Wild

(* What the program means by the operand.                                               *)
Meant(op) ==
    CASE op.via = "address" -> op.name
      [] op.name = Argv -> Arg(op.at)
      [] OTHER -> meant[op.name.i].names[op.at]

(* One pointer is stored (the bound): a function's address, which no initialiser can give. *)
StoreBound == meant = program.globals

StorePointer(slot, name) ==
    /\ stage = "main" /\ StoreBound
    /\ globalMem' = WriteBytes(globalMem, Slot(slot.name, slot.at), PtrBytes(AddressOf(name)))
    /\ meant' = [meant EXCEPT ![slot.name.i].names[slot.at] = name]
    /\ UNCHANGED <<program, globalEnv, funPtrMap, strings, stage, next, used>>

Uses == stage = "main" /\ UNCHANGED <<program, globalMem, globalEnv, funPtrMap, strings, next, meant>>

(* A call through a pointer (or a cast): funPtrMap.at(), and for a declaration the map    *)
(* of external functions.                                                               *)
CallThrough(op) ==
    /\ Uses /\ Meant(op).kind \in {"function", "null"}
    /\ LET addr == Value(op)
           callee == IF addr \in DOMAIN funPtrMap THEN funPtrMap[addr] ELSE Null
       IN  /\ stage' = CASE callee = Null -> "noSuchFunction"
                         [] program.functions[callee.i] = "unknown" -> "unknownExternal"
                         [] OTHER -> "main"
           /\ used' = [kind |-> "call", meant |-> Meant(op), got |-> callee]

(* getRawPointerAtAddress, and what C code reads from there as a string.                 *)
CString(a) ==
    LET ends == {e \in a .. globalMem.totalSize - 1 : globalMem.mem[e] = NUL}
        end == IF ends = {} THEN globalMem.totalSize ELSE Min(ends)
    IN  ReadBytes(globalMem, a, end - a)

(* printf prints a signed integer, an unsigned one, or a string.                         *)
Signed == Char("%d")
Unsigned == Char("%u")
Directives == {Signed, Unsigned, Char("%s")}

Number(n) == [kind |-> "number", value |-> n]

(* How many directives there are up to a place, and which.                               *)
DirectivesUpTo(text, place) == Cardinality({i \in 1 .. place : text[i] \in Directives})

DirectivesIn(text) ==
    [k \in 1 .. DirectivesUpTo(text, Len(text)) |->
        text[CHOOSE i \in DOMAIN text : text[i] \in Directives /\ DirectivesUpTo(text, i) = k]]

(* Each directive replaced by what the next argument is printed as.                      *)
Format(text, pieces) ==
    FlattenSeq([i \in DOMAIN text |->
        IF text[i] \in Directives THEN pieces[DirectivesUpTo(text, i)]
        ELSE <<text[i]>>])

(* An argument is an integer, or a pointer.                                             *)
Piece(arg) ==
    IF arg.kind = "int" THEN <<Number(arg.value)>>      \* getZExtValue()
    ELSE CString(Value(arg.op))

(* boost::format throws if there are more or fewer arguments than directives.            *)
Accepts(text, args) == Len(DirectivesIn(text)) = Len(args)

Printf(fmt, args) ==
    /\ Uses
    /\ LET text == CString(Value(fmt))
           printed == IF Accepts(text, args) THEN Format(text, [i \in DOMAIN args |-> Piece(args[i])]) ELSE <<>>
       IN  /\ stage' = IF Accepts(text, args) THEN "main" ELSE "badFormat"
           /\ used' = [kind |-> "printf", fmt |-> Meant(fmt),
                       args |-> [i \in DOMAIN args |-> IF args[i].kind = "int" THEN args[i]
                                                       ELSE [kind |-> "ptr", to |-> Meant(args[i].op)]],
                       out |-> printed]

(* The program is well-formed: a format is a terminated string, and there is an argument  *)
(* of the right type for each directive, and perhaps one more.                           *)
CharsFrom(name) ==
    LET chars == program.globals[name.i].chars
    IN  IF name.kind = "element" THEN SubSeq(chars, name.offset + 1, Len(chars)) ELSE chars

TextOf(name) ==
    IF name.kind = "arg" THEN Text(program.args[name.i])
    ELSE LET chars == CharsFrom(name)
         IN  SubSeq(Text(chars), 1, Min({i \in DOMAIN chars : chars[i] = "NUL"}) - 1)

IsString(name) ==
    \/ name.kind = "arg"
    \/ /\ name.kind \in {"global", "element"} /\ program.globals[name.i].kind = "chars"
       /\ "NUL" \in ToSet(CharsFrom(name))

Operands == AddressOperands \cup LoadOperands
StringOperands == {op \in Operands : IsString(Meant(op))}

IntArgs == {[kind |-> "int", value |-> n] : n \in Ints}
StringArgs == {[kind |-> "ptr", op |-> op] : op \in StringOperands}

ArgsFor(directive) == IF directive = Char("%s") THEN StringArgs ELSE IntArgs

Matching(directives) == {args \in [DOMAIN directives -> StringArgs \cup IntArgs] :
                              \A i \in DOMAIN directives : args[i] \in ArgsFor(directives[i])}

WellFormed(directives) ==
    Matching(directives) \cup {Append(args, extra) : args \in Matching(directives), extra \in IntArgs}

Setup ==
    \/ FindMain \/ AllocateGlobals \/ InitialiseGlobals \/ PlaceFunctions
    \/ AllocateArgv \/ CopyArguments \/ CallMain

Next ==
    \/ Setup
    \/ stage = "main" /\ \E slot \in Slots, name \in DOMAIN globalEnv : StorePointer(slot, name)
    \/ stage = "main" /\ \E op \in Operands : CallThrough(op)
    \/ stage = "main" /\ \E fmt \in StringOperands :
           \E args \in WellFormed(DirectivesIn(TextOf(Meant(fmt)))) : Printf(fmt, args)

(* The process does nothing else: until main runs, it takes the next step of the setup.   *)
Spec == Init /\ [][Next]_vars /\ WF_vars(Setup)

(* ---------------------------------- properties -------------------------------------- *)

Stages == {"start", "noMain", "allocate", "initialise", "functions", "argv", "strings",
           "callMain", "badMain", "sectionFull", "noAddress", "illegalWrite", "main",
           "noSuchFunction", "unknownExternal", "badFormat"}

(* Bytes are characters or parts of pointers into allocated memory, the tables know only   *)
(* the program's names, and the two tables of functions are inverse to each other.        *)
TypeOK ==
    /\ program \in Programs
    /\ globalMem.usedSize \in 1 .. DEFAULT_SIZE /\ globalMem.totalSize = DEFAULT_SIZE
    /\ \A a \in DOMAIN globalMem.mem :
          \/ globalMem.mem[a] = Garbage \/ globalMem.mem[a].kind = "char"
          \/ /\ globalMem.mem[a].kind = "ptr" /\ globalMem.mem[a].part \in 1 .. PtrSize
             /\ globalMem.mem[a].addr \in 0 .. globalMem.usedSize
    /\ DOMAIN globalEnv \subseteq
          {Global(i) : i \in DOMAIN program.globals} \cup {Function(i) : i \in DOMAIN program.functions}
    /\ \A a \in DOMAIN funPtrMap : globalEnv[funPtrMap[a]] = a
    /\ stage \in Stages

(* What has been placed so far: an address and a size for each object.                    *)
Placed ==
    {[at |-> globalEnv[name], size |-> IF name.kind = "function" THEN PtrSize
                                       ELSE SizeOf(program.globals[name.i])] : name \in DOMAIN globalEnv}
    \cup (IF strings.array = 0 THEN {} ELSE {[at |-> strings.array, size |-> Len(program.args) * PtrSize]})
    \cup {[at |-> strings.addrs[i], size |-> Len(program.args[i]) + 1] : i \in DOMAIN strings.addrs}

Extent(object) == object.at .. object.at + object.size - 1

(* The globals, the functions, argv and its strings lie in allocated memory, apart from    *)
(* each other: no two of them share a byte, and no function shares its address (the key   *)
(* of funPtrMap) with another.                                                           *)
ObjectsApart ==
    /\ \A object \in Placed : Extent(object) \subseteq 1 .. globalMem.usedSize - 1
    /\ \A x, y \in Placed : x # y => Extent(x) \cap Extent(y) = {}
    /\ \A f, g \in {n \in DOMAIN globalEnv : n.kind = "function"} :
          f # g => globalEnv[f] # globalEnv[g]

(* While main runs, memory holds what the program and the command line say: every string   *)
(* is there with its terminator, and every pointer in a global or in argv is the address  *)
(* of what it names (of the byte inside a global, if it names one), whatever was set up or *)
(* stored after it was written.                                                          *)
Holds(a, bytes) == ReadBytes(globalMem, a, Len(bytes)) = bytes

PointsTo(name) ==
    IF name = Null THEN 0
    ELSE globalEnv[Object(name)] + (IF name.kind = "element" THEN name.offset ELSE 0)

Declared(init) ==
    IF IsRefs(init) THEN PtrArray([i \in DOMAIN init.names |-> PointsTo(init.names[i])])
    ELSE Text(init.chars)

ContentsAsDeclared ==
    stage = "main" =>
        /\ \A i \in DOMAIN program.globals :
              meant[i].kind # "none" => Holds(globalEnv[Global(i)], Declared(meant[i]))
        /\ \A i \in DOMAIN program.args :
              /\ Holds(strings.array + (i - 1) * PtrSize, PtrBytes(strings.addrs[i]))
              /\ Holds(strings.addrs[i], Text(program.args[i]) \o <<NUL>>)

(* A call through a pointer reaches the function that the pointer was made from, and the   *)
(* process ends there if the pointer is null.                                            *)
CallsReachNamed ==
    used.kind = "call" => used.got = used.meant

(* printf prints what C prints, for strings that were set up anywhere in global memory     *)
(* and for integers; but a negative one under %d is printed as unsigned, and an argument  *)
(* too many, which C ignores, ends the process.                                          *)
CPiece(directive, arg) ==
    CASE directive = Char("%s") -> TextOf(arg.to)
      [] directive = Signed ->
            <<Number(IF 2 * arg.value < IntMod THEN arg.value ELSE arg.value - IntMod)>>
      [] OTHER -> <<Number(arg.value)>>

PrintsAsC ==
    used.kind = "printf" =>
        LET text == TextOf(used.fmt)
            directives == DirectivesIn(text)
            pieces == [i \in DOMAIN directives |-> CPiece(directives[i], used.args[i])]
            negative == \E i \in DOMAIN directives :
                            directives[i] = Signed /\ 2 * used.args[i].value >= IntMod
        IN  IF Len(used.args) > Len(directives) THEN stage = "badFormat"
            ELSE ~negative => stage # "badFormat" /\ used.out = Format(text, pieces)

SizeNeeded ==
    1 + MapThenSumSet(LAMBDA i : SizeOf(program.globals[i]), DOMAIN program.globals)
      + MapThenSumSet(LAMBDA i : Len(program.args[i]) + 1 + PtrSize, DOMAIN program.args)
      + Len(program.functions) * PtrSize

(* Every program that fits, whose initialisers name no function (functions have no        *)
(* address yet) and are not empty at the end of the globals (an address that is not       *)
(* allocated), and whose main is defined with at most two parameters, gets to main.       *)
Startable ==
    /\ program.main.found /\ program.main.defined /\ program.main.formals <= 2
    /\ \A i \in DOMAIN program.globals :
          IsRefs(program.globals[i]) =>
              \A j \in DOMAIN program.globals[i].names : program.globals[i].names[j].kind # "function"
    /\ \A i \in DOMAIN program.globals :
          program.globals[i].kind # "none" =>
              \E j \in i .. Len(program.globals) : SizeOf(program.globals[j]) > 0
    /\ SizeNeeded < DEFAULT_SIZE

ReachesMain == (stage = "start" /\ Startable) ~> (stage = "main")
=================================================================================
