-------------------------------- MODULE ScalarOps --------------------------------
(* Instructions and constant expressions on scalars (Evaluation.cpp): integer and     *)
(* floating-point arithmetic, comparisons, conversions, select, and pointers that     *)
(* pass through integers.                                                             *)
(*                                                                                    *)
(* A register is computed on again and again: each instruction takes the last result, *)
(* and any other value of the program.  The register has the value that the           *)
(* interpreter bound ("val"), and those that the language allows there ("meant": one, *)
(* or none where the program has no meaning).  Floating-point numbers are integers    *)
(* here, so there is no fdiv.                                                         *)
EXTENDS Integers, FiniteSets

CONSTANTS
    Widths,         \* widths of the integer types
    PtrWidth,       \* DataLayout::getPointerSizeInBits()
    SingleBits,     \* digits of a float and of a double: 24 and 53
    DoubleBits,
    MaxFloat,       \* bound: the program computes no larger floating-point number
    NaN,            \* the floating-point number that is none
    Floats,         \* numbers and ...
    Pointers        \* ... pointers, [space, addr], that the program starts with

Spaces == {"global", "stack", "heap"}

ASSUME ScalarAssumption ==
    /\ 1 \in Widths /\ Widths \subseteq Nat \ {0} /\ PtrWidth \in Nat \ {0}
    /\ SingleBits \in Nat \ {0} /\ DoubleBits \in Nat /\ SingleBits <= DoubleBits
    /\ MaxFloat \in Nat /\ NaN \notin Int /\ Floats \subseteq Int \cup {NaN}
    /\ Pointers \subseteq [space : Spaces, addr : 0 .. 2 ^ PtrWidth - 1]

IntT(w) == [kind |-> "int", width |-> w]
FloatT(double) == [kind |-> "float", double |-> double]
PtrT == [kind |-> "ptr"]

Digits(t) == IF t.double THEN DoubleBits ELSE SingleBits

(* ------------------------- llvm::APInt: integers modulo 2^w ------------------------ *)

Wrap(w, n) == n % 2 ^ w
Signed(w, n) == IF n >= 2 ^ (w - 1) THEN n - 2 ^ w ELSE n
Negated(w, n) == Wrap(w, -n)

SDiv(w, a, b) ==
    LET abs(n) == IF Signed(w, n) < 0 THEN Negated(w, n) ELSE n
        quotient == abs(a) \div abs(b)
    IN  IF (Signed(w, a) < 0) # (Signed(w, b) < 0) THEN Negated(w, quotient) ELSE quotient

SRem(w, a, b) ==
    LET abs(n) == IF Signed(w, n) < 0 THEN Negated(w, n) ELSE n
        rest == abs(a) % abs(b)
    IN  IF Signed(w, a) < 0 THEN Negated(w, rest) ELSE rest

AShr(w, a, k) ==
    LET sign == IF Signed(w, a) < 0 /\ k < w THEN 2 ^ w - 2 ^ (w - k) ELSE 0
    IN  sign + a \div 2 ^ k

Bit(n, i) == (n \div 2 ^ i) % 2
LogicalBit(op, p, q) ==
    CASE op = "and" -> p * q
      [] op = "or" -> p + q - p * q
      [] op = "xor" -> (p + q) % 2
Logical(op, w, a, b) ==
    CHOOSE n \in 0 .. 2 ^ w - 1 :
        \A i \in 0 .. w - 1 : Bit(n, i) = LogicalBit(op, Bit(a, i), Bit(b, i))

SExt(from, to, n) == Wrap(to, Signed(from, n))

(* -------------------- double and float, of integers: IEEE rounding ----------------- *)

Abs(n) == IF n < 0 THEN -n ELSE n
Sign(n) == IF n < 0 THEN -1 ELSE 1

(* The place of the last of p binary digits, and the nearest number that has none after   *)
(* it, the even one if there are two.                                                   *)
Exponent(p, n) ==
    CHOOSE k \in 0 .. n : n < 2 ^ (p + k) /\ (k > 0 => 2 ^ (p + k - 1) <= n)

Round(p, n) ==
    IF n = NaN THEN NaN
    ELSE LET unit == 2 ^ Exponent(p, Abs(n))
             q == Abs(n) \div unit
             rest == 2 * (Abs(n) % unit)
             up == IF rest > unit \/ (rest = unit /\ q % 2 = 1) THEN 1 ELSE 0
         IN  Sign(n) * (q + up) * unit

(* C's fmod: the sign of the dividend.  C's remainder: of the nearest quotient. *)
FMod(x, y) == IF y = 0 THEN NaN ELSE Sign(x) * (Abs(x) % Abs(y))
Remainder(x, y) ==
    IF y = 0 THEN NaN
    ELSE LET q == Abs(x) \div Abs(y)
             rest == 2 * (Abs(x) % Abs(y))
             up == IF rest > Abs(y) \/ (rest = Abs(y) /\ q % 2 = 1) THEN 1 ELSE 0
         IN  Sign(x) * (Abs(x) - (q + up) * Abs(y))

(* ------------------------------ evaluation of operators ---------------------------- *)

Value(v) == [stop |-> "", val |-> v]
Stop(why) == [stop |-> why, val |-> 0]

Divisions == {"udiv", "sdiv", "urem", "srem"}
Shifts == {"shl", "lshr", "ashr"}
LogicalOps == {"and", "or", "xor"}
IntBinOps == {"add", "sub", "mul"} \cup LogicalOps \cup Divisions \cup Shifts

ShiftTooFarAtWidth(w, k) == k + 1 > w - 1      \* mutant: the last amounts are rejected

ShiftTooFar(w, k) == k > w

EvaluateIntBinOp(op, w, a, b) ==
    CASE op = "add" -> Value(Wrap(w, a + b))
      [] op = "sub" -> Value(Wrap(w, a - b))
      [] op = "mul" -> Value(Wrap(w, a * b))
      [] op \in LogicalOps -> Value(Logical(op, w, a, b))
      [] op \in Divisions /\ b = 0 -> Stop("Divide by zero")          \* APInt asserts it
      [] op = "udiv" /\ b # 0 -> Value(a \div b)
      [] op = "urem" /\ b # 0 -> Value(a % b)
      [] op = "sdiv" /\ b # 0 -> Value(SDiv(w, a, b))
      [] op = "srem" /\ b # 0 -> Value(SRem(w, a, b))
      [] op \in Shifts /\ ShiftTooFar(w, b) -> Stop("Illegal shift amount")
      [] op = "shl" /\ ~ShiftTooFar(w, b) -> Value(Wrap(w, a * 2 ^ b))
      [] op = "lshr" /\ ~ShiftTooFar(w, b) -> Value(a \div 2 ^ b)
      [] op = "ashr" /\ ~ShiftTooFar(w, b) -> Value(AShr(w, a, b))

(* The arithmetic is C++'s on doubles, for floats too. *)
FloatBinOps == {"fadd", "fsub", "fmul", "frem"}

EvaluateFloatBinOp(op, x, y) ==
    IF x = NaN \/ y = NaN THEN NaN
    ELSE CASE op = "fadd" -> Round(DoubleBits, x + y)
           [] op = "fsub" -> Round(DoubleBits, x - y)
           [] op = "fmul" -> Round(DoubleBits, x * y)
           [] op = "frem" -> Remainder(x, y)

(* A predicate is the set of relations for which it is true: "less", "equal",          *)
(* "greater" and, for floating-point numbers, "unordered".                             *)
Relation(a, b) == IF a < b THEN "less" ELSE IF a = b THEN "equal" ELSE "greater"
FRelation(x, y) == IF x = NaN \/ y = NaN THEN "unordered" ELSE Relation(x, y)

Orders == {"less", "equal", "greater"}
ICmpPredicates ==
    [signed : BOOLEAN, rel : (SUBSET Orders) \ {{}, Orders, {"equal"}, {"less", "greater"}}]
    \cup [signed : {FALSE}, rel : {{"equal"}, {"less", "greater"}}]
FCmpPredicates == SUBSET (Orders \cup {"unordered"})

Truth(b) == IF b THEN 1 ELSE 0

Compare(w, p, a, b) ==
    IF p.signed THEN Truth(Relation(Signed(w, a), Signed(w, b)) \in p.rel)
    ELSE Truth(Relation(a, b) \in p.rel)

ICmp(p, t, x, y) ==
    IF t.kind = "int" THEN Value(Compare(t.width, p, x, y))
    ELSE IF t.kind = "ptr" THEN Value(Compare(PtrWidth, p, x.addr, y.addr))
    ELSE Stop("Illegal icmp compare types")

(* The instruction's switch has no break: every predicate falls through to the end.    *)
FCmpInstruction(p, x, y) == Stop("Illegal fcmp predicate")

(* FCMP_TRUE is the one predicate with the wrong answer. *)
FCmpConstant(p, x, y) ==
    Value(Truth(FRelation(x, y) \in p /\ p # Orders \cup {"unordered"}))

IntCasts == {"trunc", "zext", "sext"}

SExtAsZExt(op, from, to, n) ==      \* mutant: the two extensions are the same
    IF op = "trunc" THEN Wrap(to, n) ELSE n

IntCast(op, from, to, n) ==
    CASE op = "trunc" -> Wrap(to, n)
      [] op = "zext" -> n
      [] op = "sext" -> SExt(from, to, n)

(* Both conversions from an integer take it for an unsigned one, and give a double.     *)
(* Both conversions to an integer wrap around.                                          *)
IntToFP(n) == Round(DoubleBits, n)
FPToInt(w, x) == IF x = NaN THEN 0 ELSE Wrap(w, x)

FPTruncUnrounded(x) == x       \* mutant: a no-op, as FPExt is

FPTrunc(x) == Round(SingleBits, x)

PtrToInt(w, p) == Wrap(w, p.addr)

(* findBasePointer: the operand of inttoptr is a ptrtoint, or an add whose first       *)
(* operand is one.  "from" says so, with the space of the pointer found.               *)
NotFrom == [how |-> "none", space |-> "global"]
FromPtr(p) == [how |-> "ptrtoint", space |-> p.space]
FromAdd(op, x) ==
    IF op = "add" /\ x.from.how = "ptrtoint" THEN [how |-> "add", space |-> x.from.space] ELSE NotFrom

IntToGlobalPtr(x) ==        \* mutant: the address space is not looked for
    IF x.from.how = "none" THEN Stop("Unhandled case for findBasePointer()")
    ELSE Value([space |-> "global", addr |-> Wrap(PtrWidth, x.val)])

IntToPtr(x) ==
    IF x.from.how = "none" THEN Stop("Unhandled case for findBasePointer()")
    ELSE Value([space |-> x.from.space, addr |-> Wrap(PtrWidth, x.val)])

IntToPtrConstant(x) == Value([space |-> "global", addr |-> Wrap(PtrWidth, x.val)])

(* ------------------------------ what the language says ----------------------------- *)

Means(cond, v) == IF cond THEN {v} ELSE {}

IntMeaning(op, w, a, b) ==
    LET sa == Signed(w, a)
        sb == Signed(w, b)
        trunc(n, d) == Sign(n) * Sign(d) * (Abs(n) \div Abs(d))
        fits == sa # -(2 ^ (w - 1)) \/ sb # -1
    IN  CASE op = "add" -> {Wrap(w, sa + sb)}
          [] op = "sub" -> {Wrap(w, sa - sb)}
          [] op = "mul" -> {Wrap(w, sa * sb)}
          [] op = "udiv" -> IF b = 0 THEN {} ELSE {a \div b}
          [] op = "urem" -> IF b = 0 THEN {} ELSE {a - b * (a \div b)}
          [] op = "sdiv" -> IF b = 0 THEN {} ELSE Means(fits, Wrap(w, trunc(sa, sb)))
          [] op = "srem" -> IF b = 0 THEN {} ELSE Means(fits, Wrap(w, sa - sb * trunc(sa, sb)))
          [] op = "shl" -> IF b >= w THEN {} ELSE {Wrap(w, sa * 2 ^ b)}
          [] op = "lshr" -> IF b >= w THEN {} ELSE {a \div 2 ^ b}
          [] op = "ashr" -> IF b >= w THEN {} ELSE {Wrap(w, sa \div 2 ^ b)}
          [] OTHER -> {EvaluateIntBinOp(op, w, a, b).val}

FloatMeaning(op, p, x, y) ==
    IF x = NaN \/ y = NaN THEN {NaN}
    ELSE CASE op = "fadd" -> {Round(p, x + y)}
           [] op = "fsub" -> {Round(p, x - y)}
           [] op = "fmul" -> {Round(p, x * y)}
           [] op = "frem" -> {Round(p, FMod(x, y))}

FCmpMeaning(p, x, y) == {Truth(FRelation(x, y) \in p)}

(* Pointers into different spaces are never equal; how they are ordered is not said.    *)
ICmpMeaning(p, t, x, y) ==
    IF t.kind = "int"
    THEN {Truth(Relation(IF p.signed THEN Signed(t.width, x) ELSE x,
                         IF p.signed THEN Signed(t.width, y) ELSE y) \in p.rel)}
    ELSE IF x.space = y.space THEN {Compare(PtrWidth, p, x.addr, y.addr)}
    ELSE IF p.rel = {"equal"} THEN {0}
    ELSE Means(p.rel = {"less", "greater"}, 1)

IntCastMeaning(op, from, to, n) == {Wrap(to, IF op = "sext" THEN Signed(from, n) ELSE n)}

IntToFPMeaning(op, from, p, n) == {Round(p, IF op = "sitofp" THEN Signed(from, n) ELSE n)}

FPToIntMeaning(op, w, x) ==
    Means(/\ x # NaN
          /\ x \in IF op = "fptosi" THEN -(2 ^ (w - 1)) .. 2 ^ (w - 1) - 1 ELSE 0 .. 2 ^ w - 1,
          Wrap(w, x))

(* An integer made from a pointer, to which others have been added, is an address in   *)
(* that pointer's space; it makes a pointer there again.                               *)
Provenance(op, x, y) ==
    IF op = "add" /\ x.prov = "none" THEN y.prov
    ELSE IF op \in {"add", "sub"} /\ y.prov = "none" THEN x.prov
    ELSE "none"

IntToPtrMeaning(x) == Means(x.prov # "none", [space |-> x.prov, addr |-> Wrap(PtrWidth, x.val)])

(* ------------------------------------ the program ---------------------------------- *)

VARIABLES
    reg,        \* the last result
    stopped     \* why the interpreter has stopped, or ""

vars == <<reg, stopped>>

Types == {IntT(w) : w \in Widths} \cup {FloatT(double) : double \in BOOLEAN} \cup {PtrT}

Representable(t, x) == x = Round(Digits(t), x)

Values(t) ==
    CASE t.kind = "int" -> 0 .. 2 ^ t.width - 1
      [] t.kind = "float" -> {x \in Floats : Representable(t, x)}
      [] t.kind = "ptr" -> Pointers

(* Addresses of objects on the stack and on the heap are no constants. *)
Register(t, v) ==
    [type |-> t, val |-> v, meant |-> {v}, from |-> NotFrom, prov |-> "none",
     constant |-> t.kind # "ptr" \/ v \in {p \in Pointers : p.space = "global"}]

Init == /\ \E t \in Types : \E v \in Values(t) : reg = Register(t, v)
        /\ stopped = ""

(* The program has had a meaning so far, and the interpreter has not stopped. *)
Running(kind) == stopped = "" /\ reg.meant # {} /\ reg.type.kind = kind

Operands == {<<reg, Register(reg.type, v)>> : v \in Values(reg.type)}
            \cup {<<Register(reg.type, v), reg>> : v \in Values(reg.type)}

(* The result of an instruction, or of a constant expression if the operands are       *)
(* constants.                                                                          *)
BindFrom(t, result, meant, operands, from, prov) ==
    /\ \E c \in {FALSE, \A i \in DOMAIN operands : operands[i].constant} :
          reg' = [type |-> t, val |-> result.val, meant |-> meant,
                  from |-> from, prov |-> prov, constant |-> c]
    /\ stopped' = result.stop

Bind(t, result, meant, operands) == BindFrom(t, result, meant, operands, NotFrom, "none")

IntBinOp ==
    /\ Running("int")
    /\ \E op \in IntBinOps, xy \in Operands :
          LET w == reg.type.width
          IN  BindFrom(reg.type, EvaluateIntBinOp(op, w, xy[1].val, xy[2].val),
                       IntMeaning(op, w, xy[1].val, xy[2].val), xy,
                       FromAdd(op, xy[1]), Provenance(op, xy[1], xy[2]))

FloatBinOp(ops) ==
    /\ Running("float")
    /\ \E op \in ops, xy \in Operands :
          LET r == EvaluateFloatBinOp(op, xy[1].val, xy[2].val)
          IN  /\ r # NaN => Abs(r) <= MaxFloat
              /\ Representable(reg.type, r)
              /\ Bind(reg.type, Value(r),
                      FloatMeaning(op, Digits(reg.type), xy[1].val, xy[2].val), xy)

ICmpInst(pairs) ==
    /\ Running("int") \/ Running("ptr")
    /\ \E p \in ICmpPredicates, xy \in pairs :
          Bind(IntT(1), ICmp(p, reg.type, xy[1].val, xy[2].val),
               ICmpMeaning(p, reg.type, xy[1].val, xy[2].val), xy)

(* Addresses are compared without their spaces. *)
ToldApart(x, y) == x.type = PtrT => (x.val.addr = y.val.addr => x.val.space = y.val.space)

FCmpInst ==
    /\ Running("float")
    /\ \E p \in FCmpPredicates, xy \in Operands :
          Bind(IntT(1), FCmpInstruction(p, xy[1].val, xy[2].val),
               FCmpMeaning(p, xy[1].val, xy[2].val), xy)

FCmpExpr(predicates) ==
    /\ Running("float")
    /\ \E p \in predicates, xy \in Operands :
          /\ xy[1].constant /\ xy[2].constant
          /\ Bind(IntT(1), FCmpConstant(p, xy[1].val, xy[2].val),
                  FCmpMeaning(p, xy[1].val, xy[2].val), xy)

Cast ==
    /\ Running("int")
    /\ \E op \in IntCasts, w \in Widths :
          /\ IF op = "trunc" THEN w < reg.type.width ELSE w > reg.type.width
          /\ Bind(IntT(w), Value(IntCast(op, reg.type.width, w, reg.val)),
                  IntCastMeaning(op, reg.type.width, w, reg.val), <<reg>>)

FPCast ==
    /\ Running("float")
    /\ IF reg.type.double THEN Bind(FloatT(FALSE), Value(FPTrunc(reg.val)),
                                    {Round(SingleBits, reg.val)}, <<reg>>)
       ELSE Bind(FloatT(TRUE), Value(reg.val), {reg.val}, <<reg>>)

IntToFPCast(op) ==
    /\ Running("int")
    /\ \E t \in {FloatT(FALSE), FloatT(TRUE)} :
          LET r == IntToFP(reg.val)
          IN  /\ r <= MaxFloat
              /\ Representable(t, r)
              /\ Bind(t, Value(r), IntToFPMeaning(op, reg.type.width, Digits(t), reg.val), <<reg>>)

NonNegative == reg.type.kind = "int" /\ Signed(reg.type.width, reg.val) >= 0

FPToIntCast ==
    /\ Running("float")
    /\ \E op \in {"fptoui", "fptosi"}, w \in Widths :
          Bind(IntT(w), Value(FPToInt(w, reg.val)), FPToIntMeaning(op, w, reg.val), <<reg>>)

PtrToIntCast ==
    /\ Running("ptr")
    /\ \E w \in Widths :
          LET v == PtrToInt(w, reg.val)
          IN  BindFrom(IntT(w), Value(v), {v}, <<reg>>, FromPtr(reg.val), reg.val.space)

IntToPtrCast ==
    /\ Running("int")
    /\ \/ Bind(PtrT, IntToPtr(reg), IntToPtrMeaning(reg), <<reg>>)
       \/ reg.constant /\ Bind(PtrT, IntToPtrConstant(reg), IntToPtrMeaning(reg), <<reg>>)

Select ==
    /\ Running("int") /\ reg.type.width = 1
    /\ \E t \in Types : \E v1, v2 \in Values(t) :
          Bind(t, Value(IF reg.val = 1 THEN v1 ELSE v2), {IF reg.val # 0 THEN v1 ELSE v2},
               <<reg, Register(t, v1), Register(t, v2)>>)
(* The program that keeps to what works.  It does not use: fcmp as an instruction, and  *)
(* the predicate "true"; sitofp of a negative number; frem; comparisons of pointers     *)
(* with one address in two spaces; and (Representable) arithmetic on floats, or         *)
(* conversions to float, of which the result has to be rounded.                         *)
Next ==
    \/ IntBinOp
    \/ FloatBinOp(FloatBinOps \ {"frem"})
    \/ ICmpInst({xy \in Operands : ToldApart(xy[1], xy[2])})
    \/ FCmpExpr(FCmpPredicates \ {Orders \cup {"unordered"}})
    \/ Cast
    \/ FPCast
    \/ IntToFPCast("uitofp")
    \/ NonNegative /\ IntToFPCast("sitofp")
    \/ FPToIntCast
    \/ PtrToIntCast
    \/ IntToPtrCast
    \/ Select

Spec == Init /\ [][Next]_vars

(* The program that uses all that is modelled. *)
FullNext ==
    \/ Next
    \/ FloatBinOp(FloatBinOps)
    \/ ICmpInst(Operands)
    \/ FCmpInst
    \/ FCmpExpr(FCmpPredicates)
    \/ IntToFPCast("sitofp")

FullSpec == Init /\ [][FullNext]_vars

(* ------------------------------------ properties ----------------------------------- *)

Limitation == "Unhandled case for findBasePointer()"

(* A register has a value of its type: integers fit their width, floats have a float's  *)
(* digits and pointers have a space.                                                    *)
TypeOK ==
    /\ reg.type \in Types /\ Cardinality(reg.meant) <= 1
    /\ stopped = "" =>
          CASE reg.type.kind = "int" -> reg.val \in 0 .. 2 ^ reg.type.width - 1
            [] reg.type.kind = "float" -> reg.val = NaN \/ (reg.val \in Int /\ Representable(reg.type, reg.val))
            [] reg.type.kind = "ptr" -> reg.val \in [space : Spaces, addr : 0 .. 2 ^ PtrWidth - 1]

(* Integers and numbers are what the language defines, in instructions and in constant *)
(* expressions (both switches of Evaluation.cpp): signed and unsigned operators at the *)
(* ends of their ranges, comparisons with NaN, widths that change.                     *)
NumbersAsDefined == stopped = "" /\ reg.type # PtrT /\ reg.meant # {} => reg.val \in reg.meant

(* A pointer that went through an integer, and was moved there, points where it should, *)
(* into the space it came from (findBasePointer finds that space by the instructions    *)
(* that led to the integer).                                                            *)
PointersAsDefined == stopped = "" /\ reg.type = PtrT /\ reg.meant # {} => reg.val \in reg.meant

(* The assertions of the operators fire only where the program has no meaning: the      *)
(* checks on shift amounts, divisors and operand types reject no legal program.  An     *)
(* inttoptr whose operand is no ptrtoint is the one thing that is not supported.  Spec   *)
(* has no fcmp instruction: what that one does is FCmpAcceptsLegalPredicates, below.     *)
StopsOnlyIfUndefined == stopped \notin {"", Limitation} => reg.meant = {}

(* What fcmp says when it ends the process: that the predicate is an illegal one.  All  *)
(* the predicates of the model are legal.                                               *)
FCmpAcceptsLegalPredicates == stopped # "Illegal fcmp predicate"
================================================================================
