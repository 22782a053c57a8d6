----------------------------- MODULE ProgramGenerator ----------------------------
(* The fuzzer: ProgramGenerator, BlockGenerator and ValueGenerator write a function  *)
(* of one block of allocations and one of random operations.                         *)
(*                                                                                   *)
(* The function has no branch but the one between its blocks, so its execution goes  *)
(* through the instructions in the order in which they are generated: the module     *)
(* runs each as it is written, and notes what the language calls undefined.          *)
EXTENDS GeneratorEnvironment, Sequences

CONSTANTS
    RetWidth,       \* the width of the function's return type: 32
    NumAllocs,      \* what generateAllocationBlock may draw around FunctionAllocSize
    NumOps,         \* operations in the body: 50
    MaxDepth        \* bound: pointers on top of one allocation

ASSUME GeneratorAssumption ==
    /\ Widths \subseteq Nat \ {0} /\ RetWidth \in Widths /\ 1 \in Widths
    /\ NumAllocs \subseteq Nat /\ NumOps \in Nat /\ MaxDepth \in Nat

VARIABLES
    env,        \* the GeneratorEnvironment
    next,       \* number of the next instruction
    phase,      \* what is being generated: "allocas", "pointers", "body", "done", "aborted"
    todo,       \* allocations, then operations, that are left
    current,    \* allocInst of addAllocaInst, in phase "pointers"
    lastInt,    \* {the last integer instruction of the body} or {}
    why,        \* why the generator terminated, or ""
    run         \* history: the execution of what has been generated

vars == <<env, next, phase, todo, current, lastInt, why, run>>

NoValue == UndefValue(IntType(RetWidth))

Init ==
    /\ env = EmptyEnvironment
    /\ next = 1
    /\ phase = "allocas"
    /\ todo \in NumAllocs
    /\ current = NoValue
    /\ lastInt = {}
    /\ why = ""
    /\ run = [defined |-> {}, written |-> {}, nonzero |-> {}, faults |-> {}]

(* ------------------------- execution of an instruction --------------------------- *)

(* An instruction is [op, dst, args]; "shiftOut" is a shift by the whole width.       *)
Instr(op, dst, args) == [op |-> op, dst |-> dst, args |-> args]

IfSo(cond, what) == IF cond THEN {what} ELSE {}

Divisions == {"udiv", "sdiv", "urem", "srem"}

(* What a value may be when the program runs, for all that is known of it. *)
MayBeNumber(v, n) == IsConstant(v) => v.n = n
MayBeZero(r, v) == v \notin r.nonzero /\ MayBeNumber(v, 0)

(* The least number divided by -1 is out of range, and so is the remainder. *)
MayOverflow(op, a, b) ==
    op \in {"sdiv", "srem"} /\ MayBeNumber(a, LeastNumber(a.type)) /\ MayBeNumber(b, -1)

Faults(r, i) ==
    LET arg(k) == i.args[k]
    IN  (UNION {IfSo(arg(k).kind = "inst" /\ arg(k) \notin r.defined, "undefined value")
                  : k \in DOMAIN i.args})
        \cup IfSo(i.op = "load" /\ arg(1) \notin r.written, "uninitialised load")
        \cup IfSo(\/ i.op = "store" /\ arg(2).type # PointerTo(arg(1).type)
                  \/ i.op \in Divisions \cup {"arith", "icmp"} /\ arg(1).type # arg(2).type
                  \/ i.op = "ret" /\ arg(1).type # IntType(RetWidth), "ill-typed")
        \cup IfSo(i.op \in Divisions /\ MayBeZero(r, arg(2)), "division by zero")
        \cup IfSo(i.op \in Divisions /\ MayOverflow(i.op, arg(1), arg(2)), "signed overflow")
        \cup IfSo(i.op = "shiftOut", "shift by the width")

(* What is known after the first k instructions, and what goes wrong in the course of   *)
(* all of them.                                                                       *)
After(r, code, k) ==
    LET done == {code[j] : j \in 1 .. k}
    IN  [r EXCEPT !.defined = @ \cup {i.dst : i \in done},
                  !.written = @ \cup {i.args[2] : i \in {j \in done : j.op = "store"}},
                  !.nonzero = @ \cup {i.dst : i \in {j \in done : j.op = "guard"}}]

Run(r, code) ==
    [After(r, code, Len(code)) EXCEPT
        !.faults = @ \cup UNION {Faults(After(r, code, k - 1), code[k]) : k \in DOMAIN code}]

(* What every operation does with the instructions that it has emitted. *)
Emit(code) ==
    /\ run' = Run(run, code)
    /\ next' = next + Len(code)
    /\ LET ints == {k \in DOMAIN code : code[k].dst.kind = "inst" /\ ~IsPointer(code[k].dst)}
           last == {k \in ints : \A j \in ints : j <= k}
       IN  lastInt' = IF phase = "body" /\ ints # {} THEN {code[k].dst : k \in last} ELSE lastInt

Abort(reason) ==
    /\ phase' = "aborted" /\ why' = reason
    /\ UNCHANGED <<env, next, todo, current, lastInt, run>>

(* ------------------------------- ValueGenerator ---------------------------------- *)

(* getRandomValueOfType: from the pool, or else a constant; there is none of a pointer *)
(* type, and then the process terminates. *)
ConstantsOf(t) == IF t.depth > 0 THEN {} ELSE {ConstantInt(n, t) : n \in Numbers(t)}

RandomValueOfType(t) ==
    IF GetAttachedValues(env, t) # {} THEN GetAttachedValues(env, t) ELSE ConstantsOf(t)

RandomScalar == UNION {RandomValueOfType(IntType(w)) : w \in Widths}

(* BlockGenerator::getRandomOperandOfType: a value, with the code that computes it. A  *)
(* pointer to the type may be picked in its place; if it is valid it is loaded from.   *)
Plain(v) == [val |-> v, code |-> <<>>]

LoadFrom(p) ==
    LET dst == Inst(next, Pointee(p.type)) IN [val |-> dst, code |-> <<Instr("load", dst, <<p>>)>>]

RandomOperandOfType(t) ==
    LET values == GetAttachedValues(env, t)
        ptrs == GetAttachedValues(env, PointerTo(t))
        valid == {p \in ptrs : env.ptrMap[p]}
    IN  (IF values # {} \/ ptrs = {} \/ valid # ptrs
         THEN {Plain(v) : v \in RandomValueOfType(t)} ELSE {})
        \cup {LoadFrom(p) : p \in valid}

(* ------------------------------ allocation block --------------------------------- *)

(* addAllocaInst, up to its loop. *)
AddAlloca ==
    /\ phase = "allocas" /\ todo > 0
    /\ \E w \in Widths : \E v \in RandomValueOfType(IntType(w)) :
          LET p == Inst(next, PointerTo(IntType(w)))
          IN  /\ Emit(<<Instr("alloca", p, <<>>), Instr("store", NoValue, <<v, p>>)>>)
              /\ env' = SetValid(AddValue(env, p), p)
              /\ current' = p
    /\ phase' = "pointers"
    /\ todo' = todo - 1
    /\ UNCHANGED why

(* Its loop: a pointer to what was allocated last, with probability 1/3. *)
AddPointer ==
    /\ phase = "pointers"
    /\ current.type.depth <= MaxDepth
    /\ LET p == Inst(next, PointerTo(current.type))
       IN  /\ Emit(<<Instr("alloca", p, <<>>), Instr("store", NoValue, <<current, p>>)>>)
           /\ env' = SetValid(AddValue(env, p), p)
           /\ current' = p
           /\ why' = RecordStoreAborts(AddValue(env, p), current, p)
    /\ phase' = IF why' = "" THEN phase ELSE "aborted"
    /\ UNCHANGED todo

EndPointers ==
    /\ phase = "pointers"
    /\ phase' = "allocas"
    /\ UNCHANGED <<env, next, todo, current, lastInt, why, run>>

StartBody ==
    /\ phase = "allocas" /\ todo = 0
    /\ phase' = "body"
    /\ todo' = NumOps
    /\ UNCHANGED <<env, next, current, lastInt, why, run>>

(* -------------------------------- operations ------------------------------------- *)

AtOperation == phase = "body" /\ todo > 0

(* addStoreInst.  A value that was loaded is not in the environment: recordStore does  *)
(* not find it if it is a pointer. *)
AddStore ==
    /\ AtOperation
    /\ \/ DOMAIN env.ptrMap = {} /\ Abort("no pointer")
       \/ \E p \in DOMAIN env.ptrMap : \E o \in RandomOperandOfType(Pointee(p.type)) :
             \/ /\ RecordStoreAborts(env, o.val, p) # ""
                /\ Abort(RecordStoreAborts(env, o.val, p))
             \/ /\ RecordStoreAborts(env, o.val, p) = ""
                /\ Emit(Append(o.code, Instr("store", NoValue, <<o.val, p>>)))
                /\ env' = SetValid(env, p)
                /\ todo' = todo - 1
                /\ UNCHANGED <<phase, current, why>>

(* IRBuilder (LLVM's, external) folds an operation on constants into a constant, and   *)
(* some operations on one into their other operand.                                    *)
Result(op, t, code, args) ==
    IF \A k \in DOMAIN args : IsConstant(args[k])
    THEN {[val |-> v, code |-> code] : v \in ConstantsOf(t)}
    ELSE LET dst == Inst(next + Len(code), t)
         IN  {[val |-> dst, code |-> Append(code, Instr(op, dst, args))]}

(* The operation leaves its result in the environment. *)
Finish(result) ==
    /\ Emit(result.code)
    /\ env' = AddValue(env, result.val)
    /\ todo' = todo - 1
    /\ UNCHANGED <<phase, current, why>>

AddArithmetic ==
    /\ AtOperation
    /\ \E a \in RandomScalar : \E b \in RandomOperandOfType(a.type) :
          \/ \E r \in Result("arith", a.type, b.code, <<a, b.val>>) : Finish(r)
          \/ IsConstant(b.val) /\ Finish([val |-> a, code |-> b.code])

(* udiv, sdiv, urem, srem: a select puts a constant c in the place of a divisor that   *)
(* is zero; of two constants, that is folded to one of them. *)
NonZeroUnguarded(b, c) == b     \* mutant: the divisor is taken as it is

NonZero(b, c) ==
    IF IsConstant(b.val) THEN [b EXCEPT !.val = IF @.n = 0 THEN c ELSE @]
    ELSE LET isZero == Inst(next + Len(b.code), IntType(1))
             chosen == Inst(next + Len(b.code) + 1, b.val.type)
         IN  [val |-> chosen,
              code |-> b.code \o <<Instr("icmp", isZero, <<b.val, ConstantInt(0, b.val.type)>>),
                                   Instr("guard", chosen, <<isZero, c, b.val>>)>>]

(* The folding of a division of constants that overflows may give undef. *)
Quotient(op, t, code, args) ==
    Result(op, t, code, args)
        \cup IF (\A k \in DOMAIN args : IsConstant(args[k])) /\ MayOverflow(op, args[1], args[2])
             THEN {[val |-> UndefValue(t), code |-> code]} ELSE {}

AddDivision ==
    /\ AtOperation
    /\ \E a \in RandomScalar : \E b \in RandomOperandOfType(a.type) : \E op \in Divisions :
          \E c \in {n \in ConstantsOf(a.type) : n.n # 0} :
             LET d == NonZero(b, c)
             IN  \E r \in Quotient(op, a.type, d.code, <<a, d.val>>) : Finish(r)

(* The shift amount is drawn from 1 to the width; the second operand is not used. *)
ShiftAmounts(t) == 1 .. t.width

AddShift ==
    /\ AtOperation
    /\ \E a \in RandomScalar : \E b \in RandomOperandOfType(a.type) :
          \E amount \in ShiftAmounts(a.type) :
             LET dst == Inst(next + Len(b.code), a.type)
                 op == IF amount < a.type.width THEN "shift" ELSE "shiftOut"
             IN  \/ ~IsConstant(a) /\ Finish([val |-> dst, code |-> Append(b.code, Instr(op, dst, <<a>>))])
                 \/ /\ IsConstant(a) /\ op = "shift"
                    /\ \E v \in ConstantsOf(a.type) : Finish([val |-> v, code |-> b.code])
                 \/ /\ IsConstant(a) /\ op = "shiftOut"
                    /\ Finish([val |-> UndefValue(a.type), code |-> b.code])

(* addCastInst between integers: the cast, which is added to the environment.          *)
Cast(v, w, code) == IF v.type = IntType(w) THEN {[val |-> v, code |-> code]}
                    ELSE Result("cast", IntType(w), code, <<v>>)

AddSelect ==
    /\ AtOperation
    /\ \E a \in RandomScalar : \E b \in RandomOperandOfType(a.type) : \E c \in RandomScalar :
          \E cond \in Cast(c, 1, b.code) :
             \E r \in Result("select", a.type, cond.code, <<cond.val, a, b.val>>) :
                /\ Emit(r.code)
                /\ env' = AddValue(IF cond.val = c THEN env ELSE AddValue(env, cond.val), r.val)
    /\ todo' = todo - 1
    /\ UNCHANGED <<phase, current, why>>

AddCmp ==
    /\ AtOperation
    /\ \E a \in RandomScalar : \E b \in RandomOperandOfType(a.type) :
          \E r \in Result("icmp", IntType(1), b.code, <<a, b.val>>) : Finish(r)

(* addReturnInst: the last integer instruction of the body, cast to the return type,   *)
(* or else a value of that type. *)
AddReturn ==
    /\ phase = "body" /\ todo = 0
    /\ \E v \in (IF lastInt # {} THEN lastInt ELSE RandomValueOfType(IntType(RetWidth))) :
          \E r \in Cast(v, RetWidth, <<>>) :
             /\ Emit(Append(r.code, Instr("ret", NoValue, <<r.val>>)))
             /\ env' = IF r.val = v THEN env ELSE AddValue(env, r.val)
    /\ phase' = "done"
    /\ UNCHANGED <<todo, current, why>>

Next ==
    \/ AddAlloca \/ AddPointer \/ EndPointers \/ StartBody
    \/ AddStore \/ AddArithmetic \/ AddDivision \/ AddShift \/ AddSelect \/ AddCmp
    \/ AddReturn

Spec == Init /\ [][Next]_vars

(* --------------------------------- correctness ----------------------------------- *)

(* The environment's containers agree: values are counted once and filed under their   *)
(* type, and the pointers among them are exactly those that have a MemoryLoc.          *)
EnvironmentConsistent == Consistent(env)

(* A MemoryLoc is valid when, and only when, the program that has been generated       *)
(* stores through its pointer; between two operations all of them are.                 *)
PointersInitialised == \A p \in DOMAIN env.ptrMap : env.ptrMap[p] /\ p \in run.written

(* getRandomValueOfType finds a value of every type it is asked for, also of a pointer *)
(* type, for which it cannot make a constant.                                          *)
AlwaysAValue == \A p \in DOMAIN env.ptrMap : RandomValueOfType(Pointee(p.type)) # {}

(* Every operand of the program is one that its instruction may have: a value is used   *)
(* after its definition, a load is of what was stored, the types agree up to the        *)
(* return, and no divisor is zero, whatever the values are that the divisor takes. *)
OperandsLegitimate ==
    run.faults \cap {"undefined value", "uninitialised load", "ill-typed", "division by zero"} = {}

(* Every division and every shift has a result: the select that keeps zero from being    *)
(* the divisor would have to keep -1 from dividing the least number, too, and a shift     *)
(* amount to be less than the width.                                                     *)
OperationsDefined == run.faults \cap {"signed overflow", "shift by the width"} = {}

(* Every operation that the generator picks can be carried out.                        *)
NeverAborts == phase # "aborted"
================================================================================
