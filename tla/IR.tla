----------------------------------- MODULE IR ------------------------------------
(* The shape of the programs that Interpreter executes, as far as runFunction sees   *)
(* it.  LLVM owns these structures; the interpreter only reads them.                 *)
(*                                                                                   *)
(* A program is [fns, funPtrMap]: its functions by name, and the functions that have *)
(* an address.  A function is                                                        *)
(*   [params  |-> sequence of registers,  returnsVoid, isVarArg |-> Booleans,        *)
(*    entry   |-> a block,                blocks |-> [block -> [phis, insts, term]]] *)
(* and a declaration is [external |-> TRUE, returnsVoid].                            *)
EXTENDS Integers, Sequences, Functions

CONSTANT IntMod     \* 2^w for the integers of the program

ASSUME IRAssumption == IntMod \in Nat \ {0}

Undef == -1

Int0 == 0 .. IntMod - 1
Value == Int0 \cup {Undef}

(* An operand is a constant or a register. *)
Const(v) == [kind |-> "const", value |-> v]
Reg(r) == [kind |-> "reg", name |-> r]

(* evaluateOperand: a constant, or vRegs.at(), which throws for an unbound register. *)
Evaluable(regs, operand) == operand.kind = "reg" => operand.name \in DOMAIN regs

AllEvaluable(regs, operands) == \A k \in DOMAIN operands : Evaluable(regs, operands[k])

Eval(regs, operand) == IF operand.kind = "const" THEN operand.value ELSE regs[operand.name]

EvalAll(regs, operands) == [k \in DOMAIN operands |-> Eval(regs, operands[k])]

(* An operand that getAsIntValue() accepts: it asserts that the value is an integer. *)
IsInt(regs, operand) == Evaluable(regs, operand) /\ Eval(regs, operand) # Undef

(* insertBinding: a register is bound, or bound again. *)
Bind(regs, r, v) == [x \in DOMAIN regs \cup {r} |-> IF x = r THEN v ELSE regs[x]]

(* Three instructions stand for all those that compute a value from values. *)
Computes == {"add", "sub", "ult"}

Compute(op, a, b) ==
    CASE op = "add" -> (a + b) % IntMod
      [] op = "sub" -> (a - b) % IntMod
      [] op = "ult" -> IF a < b THEN 1 ELSE 0

(* A block's phis come first, then its other instructions, then one terminator: br,  *)
(* condbr, switch, ret or unreachable. *)
Block(p, fn, bb) == p.fns[fn].blocks[bb]

IsDeclaration(p, fn) == "external" \in DOMAIN p.fns[fn]

(* Call: the callee is named, or a register holds an address that funPtrMap knows;   *)
(* the empty set when lookup() or funPtrMap.at() throws. *)
Callee(p, regs, i) ==
    IF i.callee \in DOMAIN p.fns THEN {i.callee}
    ELSE IF i.callee \in DOMAIN regs /\ regs[i.callee] \in DOMAIN p.funPtrMap
         THEN {p.funPtrMap[regs[i.callee]]}
         ELSE {}

(* callFunction: the arity assertion; a function with an ellipsis, and main, may be   *)
(* passed more than it takes.  What is too much is put into varArgs, which no          *)
(* instruction reads (va_arg is not implemented), or for main dropped. *)
ArityOK(p, fn, args) ==
    LET n == Len(p.fns[fn].params)
    IN  Len(args) = n \/ (Len(args) > n /\ (p.fns[fn].isVarArg \/ fn = "main"))

(* The parameters of a function bound to the arguments of a call. *)
BindParams(p, fn, args) ==
    LET params == p.fns[fn].params
    IN  [r \in Range(params) |-> args[CHOOSE i \in DOMAIN params : params[i] = r]]

(* A conditional branch goes to its second successor on zero; a switch to the first  *)
(* case that matches, or to the default. *)
Successor(term, v) ==
    IF term.kind = "condbr" THEN (IF v # 0 THEN term.then ELSE term.else)
    ELSE LET hits == {i \in DOMAIN term.cases : term.cases[i].value = v}
         IN  IF hits = {} THEN term.default
             ELSE term.cases[CHOOSE i \in hits : \A j \in hits : i <= j].dest

(* What LLVM guarantees of a program before the interpreter sees it: operands are       *)
(* constants or registers, a block assigns each phi once, a branch leads to a block of   *)
(* its function, and an address that has a function has one of the program's.           *)
IsSequence(s) == s \in Seq(Range(s))

IsOperand(o) == o.kind = "reg" \/ (o.kind = "const" /\ o.value \in Value)

AreOperands(os) == IsSequence(os) /\ \A k \in DOMAIN os : IsOperand(os[k])

IsPhi(phi) == \A from \in DOMAIN phi.from : IsOperand(phi.from[from])

IsInst(i) == AreOperands(i.args) /\ (i.op = "call" \/ (i.op \in Computes /\ Len(i.args) = 2))

IsTerm(t, blocks) ==
    \/ t.kind = "br" /\ t.dest \in blocks
    \/ t.kind = "condbr" /\ IsOperand(t.on) /\ t.then \in blocks /\ t.else \in blocks
    \/ /\ t.kind = "switch" /\ IsOperand(t.on) /\ t.default \in blocks
       /\ IsSequence(t.cases) /\ \A i \in DOMAIN t.cases : t.cases[i].dest \in blocks
    \/ t.kind = "ret" /\ IsOperand(t.value)
    \/ t.kind = "unreachable"

IsBlock(b, blocks) ==
    /\ IsSequence(b.phis) /\ \A i \in DOMAIN b.phis : IsPhi(b.phis[i])
    /\ \A i, j \in DOMAIN b.phis : b.phis[i].dst = b.phis[j].dst => i = j
    /\ IsSequence(b.insts) /\ \A i \in DOMAIN b.insts : IsInst(b.insts[i])
    /\ IsTerm(b.term, blocks)

IsFunction(f) ==
    /\ IsSequence(f.params) /\ f.isVarArg \in BOOLEAN /\ f.entry \in DOMAIN f.blocks
    /\ \A bb \in DOMAIN f.blocks : IsBlock(f.blocks[bb], DOMAIN f.blocks)

IsProgram(p) ==
    /\ "main" \in DOMAIN p.fns /\ ~IsDeclaration(p, "main")
    /\ \A fn \in DOMAIN p.fns : IsDeclaration(p, fn) \/ IsFunction(p.fns[fn])
    /\ \A a \in DOMAIN p.funPtrMap : p.funPtrMap[a] \in DOMAIN p.fns
================================================================================
