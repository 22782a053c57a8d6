------------------------ MODULE ProgramGenerator_proofs --------------------------
(* What holds of the fuzzer for all widths of integers, any number of allocations and  *)
(* operations, and pointers of any depth: every operand in what it generates is defined, *)
(* initialised, of the right type and, as a divisor, not zero.                         *)
EXTENDS ProgramGenerator, FiniteSetTheorems, SequenceTheorems, TLAPS

Type == [width : Widths, depth : Nat]
Value == [kind : {"inst", "const", "undef"}, n : Int, type : Type]
Ops == {"alloca", "store", "load", "arith", "udiv", "sdiv", "urem", "srem", "icmp", "guard",
        "shift", "shiftOut", "cast", "select", "ret"}
Instruction == [op : Ops, dst : Value, args : Seq(Value)]

(* An execution knows values; its operands have been legitimate so far: what is wrong with *)
(* it is the size of an amount or of a quotient, of which nothing is claimed.              *)
Tolerated == {"shift by the width", "signed overflow"}

IsRun(r) ==
    /\ r = [defined |-> r.defined, written |-> r.written, nonzero |-> r.nonzero, faults |-> r.faults]
    /\ r.defined \subseteq Value
    /\ r.faults \subseteq Tolerated

(* What one may use: a constant, undef, or an instruction that has been executed.        *)
Usable(r, v) == v \in Value /\ (v.kind = "inst" => v \in r.defined)

IsEnv(e) ==
    /\ e = [typeMap |-> e.typeMap, ptrMap |-> e.ptrMap, numValue |-> e.numValue]
    /\ e.typeMap = [t \in DOMAIN e.typeMap |-> e.typeMap[t]]
    /\ e.ptrMap = [p \in DOMAIN e.ptrMap |-> e.ptrMap[p]]
    /\ IsFiniteSet(AllValues(e))

(* The environment holds what the generated program has computed; its pointers point    *)
(* to what has been stored, and to what is of their type or is in the environment too.   *)
Pool(e, r) ==
    /\ \A v \in AllValues(e) : Usable(r, v) /\ (IsPointer(v) => v.kind = "inst")
    /\ \A p \in DOMAIN e.ptrMap :
          /\ e.ptrMap[p] = TRUE /\ p \in r.written
          /\ p.type.depth > 1 => GetAttachedValues(e, Pointee(p.type)) # {}

GoodEnv(e, r) == IsEnv(e) /\ Consistent(e) /\ Pool(e, r)

(* The allocation that the loop of addAllocaInst goes on from, and the integer that       *)
(* addReturnInst may take.                                                             *)
CurrentKnown == phase = "pointers" => current \in DOMAIN env.ptrMap

LastKnown == \A v \in lastInt : Usable(run, v) /\ ~IsPointer(v)

IInv ==
    /\ next \in Nat /\ IsRun(run) /\ GoodEnv(env, run) /\ CurrentKnown /\ LastKnown

----------------------------------------------------------------------------------
(* Types and values are what they are made of.                                         *)
LEMMA Types ==
    /\ \A t \in Type : /\ PointerTo(t) \in Type /\ PointerTo(t).depth = t.depth + 1
                       /\ Pointee(PointerTo(t)) = t
                       /\ t.depth > 0 => Pointee(t) \in Type /\ PointerTo(Pointee(t)) = t
                       /\ t.depth = 0 => t = IntType(t.width)
    /\ \A w \in Widths : IntType(w) \in Type /\ IntType(w).depth = 0
    /\ RetWidth \in Widths /\ 1 \in Widths
<1>1. ASSUME NEW t \in Type
      PROVE  /\ PointerTo(t) = [width |-> t.width, depth |-> t.depth + 1]
             /\ Pointee(t) = [width |-> t.width, depth |-> t.depth - 1]
             /\ t = [width |-> t.width, depth |-> t.depth] /\ t.depth \in Nat /\ t.width \in Widths
  BY DEF Type, PointerTo, Pointee
<1>2. ASSUME NEW t \in Type
      PROVE  /\ PointerTo(t) \in Type /\ PointerTo(t).depth = t.depth + 1
             /\ Pointee(PointerTo(t)) = t
  <2>1. PointerTo(t) \in Type /\ PointerTo(t).depth = t.depth + 1 /\ PointerTo(t).width = t.width
    BY <1>1 DEF Type
  <2>2. Pointee(PointerTo(t)) = [width |-> t.width, depth |-> t.depth]
    BY <1>1, <2>1
  <2> QED BY <1>1, <2>1, <2>2
<1>3. ASSUME NEW t \in Type, t.depth > 0
      PROVE  Pointee(t) \in Type /\ PointerTo(Pointee(t)) = t
  <2>1. Pointee(t) \in Type /\ Pointee(t).depth = t.depth - 1 /\ Pointee(t).width = t.width
    BY <1>1, <1>3 DEF Type
  <2>2. PointerTo(Pointee(t)) = [width |-> t.width, depth |-> t.depth]
    BY <1>1, <2>1
  <2> QED BY <1>1, <2>1, <2>2
<1>4. \A t \in Type : t.depth = 0 => t = IntType(t.width)
  BY <1>1 DEF IntType
<1>5. \A w \in Widths : IntType(w) \in Type /\ IntType(w).depth = 0
  BY DEF Type, IntType
<1>6. RetWidth \in Widths /\ 1 \in Widths
  BY GeneratorAssumption DEF GeneratorAssumption
<1> QED BY <1>2, <1>3, <1>4, <1>5, <1>6

LEMMA Values ==
    ASSUME NEW t \in Type, NEW n \in Int
    PROVE  /\ Inst(n, t) \in Value /\ Inst(n, t).kind = "inst" /\ Inst(n, t).type = t
           /\ ConstantInt(n, t) \in Value /\ ConstantInt(n, t).kind = "const" /\ ConstantInt(n, t).type = t
           /\ UndefValue(t) \in Value /\ UndefValue(t).kind = "undef" /\ UndefValue(t).type = t
  BY DEF Value, Inst, ConstantInt, UndefValue

LEMMA NoValueIsValue == NoValue \in Value /\ NoValue.kind = "undef"
  BY Types, Values DEF NoValue

LEMMA Instructions ==
    ASSUME NEW op \in Ops, NEW dst \in Value, NEW args \in Seq(Value)
    PROVE  /\ Instr(op, dst, args) \in Instruction
           /\ Instr(op, dst, args).op = op /\ Instr(op, dst, args).dst = dst
           /\ Instr(op, dst, args).args = args
  BY DEF Instruction, Instr

----------------------------------------------------------------------------------
(* What the language asks of one instruction in what is known before it.                *)
Allowed(r, op, args) ==
    /\ \A k \in DOMAIN args : Usable(r, args[k])
    /\ op = "load" => args[1] \in r.written
    /\ op = "store" => args[2].type = PointerTo(args[1].type)
    /\ op \in Divisions \cup {"arith", "icmp"} => args[1].type = args[2].type
    /\ op = "ret" => args[1].type = IntType(RetWidth)
    /\ op \in Divisions => ~MayBeZero(r, args[2])

LEMMA NoFaults ==
    ASSUME NEW r, NEW i, Allowed(r, i.op, i.args)
    PROVE  Faults(r, i) \subseteq Tolerated
<1>1. \A k \in DOMAIN i.args : ~(i.args[k].kind = "inst" /\ i.args[k] \notin r.defined)
  BY DEF Allowed, Usable
<1>2. ~(i.op = "load" /\ i.args[1] \notin r.written)
  BY DEF Allowed
<1>3. ~(\/ i.op = "store" /\ i.args[2].type # PointerTo(i.args[1].type)
        \/ i.op \in Divisions \cup {"arith", "icmp"} /\ i.args[1].type # i.args[2].type
        \/ i.op = "ret" /\ i.args[1].type # IntType(RetWidth))
  BY DEF Allowed
<1>4. ~(i.op \in Divisions /\ MayBeZero(r, i.args[2]))
  BY DEF Allowed
<1>5. /\ IfSo(i.op = "shiftOut", "shift by the width") \subseteq Tolerated
      /\ IfSo(i.op \in Divisions /\ MayOverflow(i.op, i.args[1], i.args[2]), "signed overflow")
           \subseteq Tolerated
  BY DEF IfSo, Tolerated
<1>6. UNION {IfSo(i.args[k].kind = "inst" /\ i.args[k] \notin r.defined, "undefined value")
               : k \in DOMAIN i.args} = {}
  BY <1>1 DEF IfSo
<1>7. /\ IfSo(i.op = "load" /\ i.args[1] \notin r.written, "uninitialised load") = {}
      /\ IfSo(\/ i.op = "store" /\ i.args[2].type # PointerTo(i.args[1].type)
              \/ i.op \in Divisions \cup {"arith", "icmp"} /\ i.args[1].type # i.args[2].type
              \/ i.op = "ret" /\ i.args[1].type # IntType(RetWidth), "ill-typed") = {}
      /\ IfSo(i.op \in Divisions /\ MayBeZero(r, i.args[2]), "division by zero") = {}
  BY <1>2, <1>3, <1>4 DEF IfSo
<1> QED BY <1>5, <1>6, <1>7 DEF Faults

(* The code of an operation, from what is known before it: nothing that it does is      *)
(* undefined.                                                                         *)
Legal(r, code) ==
    /\ code \in Seq(Instruction)
    /\ \A k \in DOMAIN code : Faults(After(r, code, k - 1), code[k]) \subseteq Tolerated

End(r, code) == After(r, code, Len(code))

(* Code makes more values usable, and more pointers written, and takes none away.         *)
Extends(r, s) ==
    r.defined \subseteq s.defined /\ r.written \subseteq s.written /\ r.nonzero \subseteq s.nonzero

LEMMA AfterFields ==
    ASSUME NEW r, IsRun(r), NEW code, NEW k
    PROVE  LET done == {code[j] : j \in 1 .. k}
               a == After(r, code, k)
           IN  /\ a = [defined |-> a.defined, written |-> a.written, nonzero |-> a.nonzero,
                       faults |-> r.faults]
               /\ a.defined = r.defined \cup {i.dst : i \in done}
               /\ a.written = r.written \cup {i.args[2] : i \in {j \in done : j.op = "store"}}
               /\ a.nonzero = r.nonzero \cup {i.dst : i \in {j \in done : j.op = "guard"}}
               /\ Extends(r, a)
<1> DEFINE done == {code[j] : j \in 1 .. k}
           d == r.defined \cup {i.dst : i \in done}
           w == r.written \cup {i.args[2] : i \in {j \in done : j.op = "store"}}
           n == r.nonzero \cup {i.dst : i \in {j \in done : j.op = "guard"}}
<1>1. After(r, code, k) = [r EXCEPT !.defined = d, !.written = w, !.nonzero = n]
  BY DEF After
<1>2. r.defined \subseteq d /\ r.written \subseteq w /\ r.nonzero \subseteq n
  OBVIOUS
<1> HIDE DEF d, w, n
<1>3. After(r, code, k) = [defined |-> d, written |-> w, nonzero |-> n, faults |-> r.faults]
  BY <1>1 DEF IsRun
<1>4. Extends(r, After(r, code, k))
  BY <1>2, <1>3 DEF Extends
<1> QED BY <1>3, <1>4 DEF d, w, n

LEMMA EndOfNothing ==
    ASSUME NEW r, IsRun(r)
    PROVE  Legal(r, <<>>) /\ End(r, <<>>) = r
<1>1. Legal(r, <<>>)
  BY DEF Legal
<1>2. PICK c, z : c = <<>> /\ z = 0
  OBVIOUS
<1>3. /\ {i.dst : i \in {c[j] : j \in 1 .. z}} = {}
      /\ {i.args[2] : i \in {j \in {c[j] : j \in 1 .. z} : j.op = "store"}} = {}
      /\ {i.dst : i \in {j \in {c[j] : j \in 1 .. z} : j.op = "guard"}} = {}
  <2>1. {c[j] : j \in 1 .. z} = {}
    BY <1>2
  <2> QED BY <2>1
<1>4. /\ After(r, c, z).defined = r.defined \cup {i.dst : i \in {c[j] : j \in 1 .. z}}
      /\ After(r, c, z).written
           = r.written \cup {i.args[2] : i \in {j \in {c[j] : j \in 1 .. z} : j.op = "store"}}
      /\ After(r, c, z).nonzero
           = r.nonzero \cup {i.dst : i \in {j \in {c[j] : j \in 1 .. z} : j.op = "guard"}}
      /\ After(r, c, z) = [defined |-> After(r, c, z).defined, written |-> After(r, c, z).written,
                           nonzero |-> After(r, c, z).nonzero, faults |-> r.faults]
  BY AfterFields
<1>5. After(r, c, z) = r
  <2>1. /\ After(r, c, z).defined = r.defined /\ After(r, c, z).written = r.written
        /\ After(r, c, z).nonzero = r.nonzero
    BY <1>3, <1>4
  <2> QED BY <1>4, <2>1 DEF IsRun
<1>6. Len(<<>>) = 0
  OBVIOUS
<1> QED BY <1>1, <1>2, <1>5, <1>6 DEF End

(* One more instruction.                                                              *)
LEMMA EndOfAppend ==
    ASSUME NEW r, IsRun(r), NEW code \in Seq(Instruction), NEW i \in Instruction
    PROVE  LET more == Append(code, i)
           IN  /\ more \in Seq(Instruction) /\ Len(more) = Len(code) + 1
               /\ \A k \in 0 .. Len(code) : After(r, more, k) = After(r, code, k)
               /\ End(r, more).defined = End(r, code).defined \cup {i.dst}
               /\ i.op = "store" => End(r, more).written = End(r, code).written \cup {i.args[2]}
               /\ i.op = "guard" => End(r, more).nonzero = End(r, code).nonzero \cup {i.dst}
               /\ Extends(End(r, code), End(r, more))
<1> DEFINE more == Append(code, i)
           done(c, k) == {c[j] : j \in 1 .. k}
<1>1. PICK n \in Nat : n = Len(code)
  OBVIOUS
<1>2. /\ more \in Seq(Instruction) /\ Len(more) = n + 1
      /\ \A k \in 1 .. n : more[k] = code[k]
      /\ more[n + 1] = i
  BY <1>1
<1> HIDE DEF more
<1>3. \A k \in 0 .. n : done(more, k) = done(code, k)
  BY <1>2
<1>4. done(more, n + 1) = done(code, n) \cup {i}
  <2>1. 1 .. n + 1 = (1 .. n) \cup {n + 1}
    OBVIOUS
  <2> QED BY <1>2, <2>1
<1> HIDE DEF done
<1>5. \A k \in 0 .. n : After(r, more, k) = After(r, code, k)
  BY <1>3 DEF After, done
<1>6. /\ End(r, more).defined = r.defined \cup {j.dst : j \in done(more, n + 1)}
      /\ End(r, more).written = r.written \cup {j.args[2] : j \in {l \in done(more, n + 1) : l.op = "store"}}
      /\ End(r, more).nonzero = r.nonzero \cup {j.dst : j \in {l \in done(more, n + 1) : l.op = "guard"}}
  BY <1>2, AfterFields DEF End, done
<1>7. /\ End(r, code).defined = r.defined \cup {j.dst : j \in done(code, n)}
      /\ End(r, code).written = r.written \cup {j.args[2] : j \in {l \in done(code, n) : l.op = "store"}}
      /\ End(r, code).nonzero = r.nonzero \cup {j.dst : j \in {l \in done(code, n) : l.op = "guard"}}
  BY <1>1, AfterFields DEF End, done
<1>8. End(r, more).defined = End(r, code).defined \cup {i.dst}
  BY <1>4, <1>6, <1>7
<1>9. i.op = "store" => End(r, more).written = End(r, code).written \cup {i.args[2]}
  BY <1>4, <1>6, <1>7
<1>10. i.op = "guard" => End(r, more).nonzero = End(r, code).nonzero \cup {i.dst}
  BY <1>4, <1>6, <1>7
<1>11. Extends(End(r, code), End(r, more))
  BY <1>4, <1>6, <1>7 DEF Extends
<1> QED BY <1>1, <1>2, <1>5, <1>8, <1>9, <1>10, <1>11 DEF more

(* Code stays legal when an allowed instruction is appended.                            *)
LEMMA LegalAppend ==
    ASSUME NEW r, IsRun(r), NEW code, Legal(r, code), NEW op \in Ops, NEW dst \in Value,
           NEW args \in Seq(Value), Allowed(End(r, code), op, args)
    PROVE  LET more == Append(code, Instr(op, dst, args))
           IN  /\ Legal(r, more) /\ Len(more) = Len(code) + 1
               /\ Usable(End(r, more), dst)
               /\ op = "store" => args[2] \in End(r, more).written
               /\ op = "guard" => dst \in End(r, more).nonzero
               /\ Extends(End(r, code), End(r, more))
<1> DEFINE i == Instr(op, dst, args)
           more == Append(code, i)
<1>1. i \in Instruction /\ i.op = op /\ i.dst = dst /\ i.args = args
  BY Instructions
<1>2. code \in Seq(Instruction)
  BY DEF Legal
<1> HIDE DEF i
<1>3. /\ more \in Seq(Instruction) /\ Len(more) = Len(code) + 1
      /\ \A k \in 0 .. Len(code) : After(r, more, k) = After(r, code, k)
      /\ End(r, more).defined = End(r, code).defined \cup {i.dst}
      /\ i.op = "store" => End(r, more).written = End(r, code).written \cup {i.args[2]}
      /\ i.op = "guard" => End(r, more).nonzero = End(r, code).nonzero \cup {i.dst}
      /\ Extends(End(r, code), End(r, more))
  BY <1>1, <1>2, EndOfAppend
<1>4. ASSUME NEW k \in DOMAIN more
      PROVE  Faults(After(r, more, k - 1), more[k]) \subseteq Tolerated
  <2>1. PICK n \in Nat : n = Len(code)
    BY <1>2
  <2>2. CASE k \in 1 .. n
    <3>1. k \in DOMAIN code /\ k - 1 \in 0 .. n /\ more[k] = code[k]
      BY <1>1, <1>2, <2>1, <2>2
    <3>2. Faults(After(r, code, k - 1), code[k]) \subseteq Tolerated
      BY <3>1 DEF Legal
    <3>3. After(r, more, k - 1) = After(r, code, k - 1)
      BY <1>3, <2>1, <3>1
    <3> QED BY <3>1, <3>2, <3>3
  <2>3. CASE k = n + 1
    <3>1. more[k] = i /\ After(r, more, k - 1) = End(r, code)
      BY <1>1, <1>2, <1>3, <2>1, <2>3 DEF End
    <3>2. Faults(End(r, code), i) \subseteq Tolerated
      BY <1>1, NoFaults
    <3> QED BY <3>1, <3>2
  <2>4. k \in 1 .. n \/ k = n + 1
    <3> HIDE DEF more
    <3> QED BY <1>3, <2>1
  <2> QED BY <2>2, <2>3, <2>4
<1>5. Legal(r, more)
  BY <1>3, <1>4 DEF Legal
<1>6. Usable(End(r, more), dst)
  BY <1>1, <1>3 DEF Usable
<1> QED BY <1>1, <1>3, <1>5, <1>6 DEF i

(* Legal code leaves the execution as legitimate as it was.                             *)
LEMMA RunLegal ==
    ASSUME NEW r, IsRun(r), NEW code, Legal(r, code)
    PROVE  /\ IsRun(Run(r, code))
           /\ Run(r, code).defined = End(r, code).defined
           /\ Run(r, code).written = End(r, code).written
           /\ Extends(r, Run(r, code)) /\ Extends(r, End(r, code))
<1> DEFINE wrong == UNION {Faults(After(r, code, k - 1), code[k]) : k \in DOMAIN code}
           e == End(r, code)
<1>1. wrong \subseteq Tolerated
  BY DEF Legal
<1>2. /\ e = [defined |-> e.defined, written |-> e.written, nonzero |-> e.nonzero, faults |-> r.faults]
      /\ e.defined = r.defined \cup {i.dst : i \in {code[j] : j \in 1 .. Len(code)}}
      /\ Extends(r, e)
  <2> SUFFICES
        /\ After(r, code, Len(code)) = [defined |-> After(r, code, Len(code)).defined,
                                        written |-> After(r, code, Len(code)).written,
                                        nonzero |-> After(r, code, Len(code)).nonzero,
                                        faults |-> r.faults]
        /\ After(r, code, Len(code)).defined
             = r.defined \cup {i.dst : i \in {code[j] : j \in 1 .. Len(code)}}
        /\ Extends(r, After(r, code, Len(code)))
    BY DEF End
  <2> QED BY AfterFields
<1>3. e.defined \subseteq Value
  <2>1. \A j \in 1 .. Len(code) : code[j].dst \in Value
    <3>1. \A j \in 1 .. Len(code) : code[j] \in Instruction
      BY DEF Legal
    <3> QED BY <3>1 DEF Instruction
  <2> QED BY <1>2, <2>1 DEF IsRun
<1>4. Run(r, code) = [e EXCEPT !.faults = e.faults \cup wrong]
  BY DEF Run, End
<1> HIDE DEF e, wrong
<1>5. e.faults = r.faults
  BY <1>2
<1>6. Run(r, code) = [defined |-> e.defined, written |-> e.written, nonzero |-> e.nonzero,
                      faults |-> r.faults \cup wrong]
  BY <1>2, <1>4, <1>5
<1>7. r.faults \cup wrong \subseteq Tolerated
  BY <1>1 DEF IsRun
<1>8. IsRun(Run(r, code))
  BY <1>3, <1>6, <1>7 DEF IsRun
<1> QED BY <1>2, <1>6, <1>8 DEF Extends, e

----------------------------------------------------------------------------------
(* What is in a pool may be used, and is of the pool's type.                            *)
LEMMA Pooled ==
    ASSUME NEW e, NEW r, GoodEnv(e, r), NEW t, NEW v \in GetAttachedValues(e, t)
    PROVE  v \in AllValues(e) /\ v.type = t /\ v.kind # "undef" /\ Usable(r, v)
<1>1. t \in DOMAIN e.typeMap /\ v \in e.typeMap[t]
  BY DEF GetAttachedValues
<1>2. v \in AllValues(e)
  BY <1>1 DEF AllValues
<1> QED BY <1>1, <1>2 DEF GoodEnv, Consistent, Pool

(* What may be used in an environment may still be used later.                           *)
LEMMA LaterEnv ==
    ASSUME NEW e, NEW r, GoodEnv(e, r), NEW s, Extends(r, s)
    PROVE  GoodEnv(e, s)
<1>1. Pool(e, s)
  BY DEF GoodEnv, Pool, Usable, Extends
<1> QED BY <1>1 DEF GoodEnv

LEMMA LaterUse ==
    ASSUME NEW r, NEW v, Usable(r, v), NEW s, Extends(r, s)
    PROVE  Usable(s, v)
  BY DEF Usable, Extends

(* The first two of addValue's containers: the value is counted once.                    *)
LEMMA PoolOneMore ==
    ASSUME NEW e, IsEnv(e), Consistent(e), NEW v \in Value, v.kind # "undef",
           v \notin GetAttachedValues(e, v.type)
    PROVE  LET f == AddToPool(e, v)
           IN  /\ f = [typeMap |-> f.typeMap, ptrMap |-> e.ptrMap, numValue |-> f.numValue]
               /\ f.typeMap = [u \in DOMAIN f.typeMap |-> f.typeMap[u]]
               /\ AllValues(f) = AllValues(e) \cup {v} /\ IsFiniteSet(AllValues(f))
               /\ f.numValue = Cardinality(AllValues(f))
               /\ \A t \in DOMAIN f.typeMap : \A x \in f.typeMap[t] : x.type = t /\ x.kind # "undef"
               /\ \A t : GetAttachedValues(e, t) \subseteq GetAttachedValues(f, t)
               /\ v \in GetAttachedValues(f, v.type)
<1> DEFINE f == AddToPool(e, v)
           ty == v.type
           tm == [u \in DOMAIN e.typeMap \cup {ty} |->
                    IF u = ty THEN GetAttachedValues(e, ty) \cup {v} ELSE e.typeMap[u]]
<1>1. f = [typeMap |-> tm, ptrMap |-> e.ptrMap, numValue |-> e.numValue + 1]
  <2>1. f = [e EXCEPT !.numValue = e.numValue + 1, !.typeMap = tm]
    BY DEF AddToPool
  <2>2. e = [typeMap |-> e.typeMap, ptrMap |-> e.ptrMap, numValue |-> e.numValue]
    BY DEF IsEnv
  <2> HIDE DEF tm, f
  <2> QED BY <2>1, <2>2
<1>2. /\ DOMAIN tm = DOMAIN e.typeMap \cup {ty}
      /\ tm[ty] = GetAttachedValues(e, ty) \cup {v}
      /\ \A u \in DOMAIN e.typeMap : u # ty => tm[u] = e.typeMap[u]
      /\ tm = [u \in DOMAIN tm |-> tm[u]]
  OBVIOUS
<1> HIDE DEF tm, f, ty
<1>3. f.typeMap = tm /\ f.numValue = e.numValue + 1
  BY <1>1
<1>4. AllValues(f) = AllValues(e) \cup {v}
  <2>1. AllValues(f) = UNION {tm[t] : t \in DOMAIN tm}
    BY <1>3 DEF AllValues
  <2>2. ASSUME NEW x \in AllValues(f)
        PROVE  x \in AllValues(e) \cup {v}
    <3>1. PICK t \in DOMAIN tm : x \in tm[t]
      BY <2>1
    <3> QED BY <1>2, <3>1 DEF AllValues, GetAttachedValues
  <2>3. ASSUME NEW x \in AllValues(e)
        PROVE  x \in AllValues(f)
    <3>1. PICK t \in DOMAIN e.typeMap : x \in e.typeMap[t]
      BY DEF AllValues
    <3>2. t \in DOMAIN tm /\ x \in tm[t]
      BY <1>2, <3>1 DEF GetAttachedValues
    <3> QED BY <2>1, <3>2
  <2>4. v \in AllValues(f)
    BY <1>2, <2>1
  <2> QED BY <2>2, <2>3, <2>4
<1>5. v \notin AllValues(e)
  <2> SUFFICES ASSUME v \in AllValues(e) PROVE FALSE
    OBVIOUS
  <2>1. PICK t \in DOMAIN e.typeMap : v \in e.typeMap[t]
    BY DEF AllValues
  <2>2. v.type = t
    BY <2>1 DEF Consistent
  <2> QED BY <2>1, <2>2 DEF GetAttachedValues
<1>6. IsFiniteSet(AllValues(f)) /\ f.numValue = Cardinality(AllValues(f))
  <2>1. IsFiniteSet(AllValues(e)) /\ e.numValue = Cardinality(AllValues(e))
    BY DEF IsEnv, Consistent
  <2>2. /\ IsFiniteSet(AllValues(e) \cup {v})
        /\ Cardinality(AllValues(e) \cup {v}) = Cardinality(AllValues(e)) + 1
    BY <1>5, <2>1, FS_AddElement
  <2> QED BY <1>3, <1>4, <2>1, <2>2
<1>7. ASSUME NEW t \in DOMAIN f.typeMap, NEW x \in f.typeMap[t]
      PROVE  x.type = t /\ x.kind # "undef"
  <2>1. \A u \in DOMAIN e.typeMap : \A y \in e.typeMap[u] : y.type = u /\ y.kind # "undef"
    BY DEF Consistent
  <2> QED BY <1>2, <1>3, <2>1 DEF GetAttachedValues, ty
<1>8. \A t : GetAttachedValues(e, t) \subseteq GetAttachedValues(f, t)
  <2> TAKE t
  <2>1. f.typeMap = tm
    BY <1>3
  <2> QED BY <1>2, <2>1 DEF GetAttachedValues
<1>9. v \in GetAttachedValues(f, ty)
  BY <1>2, <1>3 DEF GetAttachedValues
<1> QED BY <1>1, <1>2, <1>3, <1>4, <1>6, <1>7, <1>8, <1>9 DEF f, ty

(* An integer goes into a pool; there is nothing else to keep of it.                     *)
LEMMA AddInteger ==
    ASSUME NEW e, NEW r, GoodEnv(e, r), NEW v, Usable(r, v), ~IsPointer(v)
    PROVE  GoodEnv(AddValue(e, v), r) /\ e.ptrMap = AddValue(e, v).ptrMap
<1>1. CASE v.kind = "undef" \/ v \in GetAttachedValues(e, v.type)
  BY <1>1 DEF AddValue
<1>2. CASE ~(v.kind = "undef" \/ v \in GetAttachedValues(e, v.type))
  <2> DEFINE f == AddToPool(e, v)
  <2>1. AddValue(e, v) = f
    BY <1>2 DEF AddValue
  <2>2. IsEnv(e) /\ Consistent(e) /\ Pool(e, r) /\ v \in Value
    BY DEF GoodEnv, Usable
  <2>3. /\ f = [typeMap |-> f.typeMap, ptrMap |-> e.ptrMap, numValue |-> f.numValue]
        /\ f.typeMap = [u \in DOMAIN f.typeMap |-> f.typeMap[u]]
        /\ AllValues(f) = AllValues(e) \cup {v} /\ IsFiniteSet(AllValues(f))
        /\ f.numValue = Cardinality(AllValues(f))
        /\ \A t \in DOMAIN f.typeMap : \A x \in f.typeMap[t] : x.type = t /\ x.kind # "undef"
        /\ \A t : GetAttachedValues(e, t) \subseteq GetAttachedValues(f, t)
    BY <1>2, <2>2, PoolOneMore
  <2> HIDE DEF f
  <2>4. f.ptrMap = e.ptrMap
    BY <2>3
  <2>5. IsEnv(f)
    BY <2>2, <2>3, <2>4 DEF IsEnv
  <2>6. Consistent(f)
    <3>1. {x \in AllValues(f) : IsPointer(x)} = {x \in AllValues(e) : IsPointer(x)}
      BY <2>3
    <3> QED BY <2>2, <2>3, <2>4, <3>1 DEF Consistent
  <2>7. Pool(f, r)
    <3>1. \A x \in AllValues(f) : Usable(r, x) /\ (IsPointer(x) => x.kind = "inst")
      BY <2>2, <2>3 DEF Pool
    <3>2. ASSUME NEW p \in DOMAIN f.ptrMap
          PROVE  /\ f.ptrMap[p] = TRUE /\ p \in r.written
                 /\ p.type.depth > 1 => GetAttachedValues(f, Pointee(p.type)) # {}
      <4>1. /\ e.ptrMap[p] = TRUE /\ p \in r.written
            /\ p.type.depth > 1 => GetAttachedValues(e, Pointee(p.type)) # {}
        BY <2>2, <2>4 DEF Pool
      <4>2. GetAttachedValues(e, Pointee(p.type)) \subseteq GetAttachedValues(f, Pointee(p.type))
        BY <2>3
      <4> QED BY <2>4, <4>1, <4>2
    <3> QED BY <3>1, <3>2 DEF Pool
  <2> QED BY <2>1, <2>4, <2>5, <2>6, <2>7 DEF GoodEnv
<1> QED BY <1>1, <1>2

(* A valid pointer that is stored through is as valid as it was.                         *)
LEMMA StillValid ==
    ASSUME NEW e, NEW r, GoodEnv(e, r), NEW p \in DOMAIN e.ptrMap
    PROVE  SetValid(e, p) = e
<1>1. e.ptrMap[p] = TRUE
  BY DEF GoodEnv, Pool
<1>2. e.ptrMap = [q \in DOMAIN e.ptrMap |-> e.ptrMap[q]]
  BY DEF GoodEnv, IsEnv
<1>3. PICK m : m = e.ptrMap
  OBVIOUS
<1>4. [m EXCEPT ![p] = TRUE] = m
  BY <1>1, <1>2, <1>3
<1>5. e = [typeMap |-> e.typeMap, ptrMap |-> m, numValue |-> e.numValue]
  BY <1>3 DEF GoodEnv, IsEnv
<1>6. SetValid(e, p) = [e EXCEPT !.ptrMap = [m EXCEPT ![p] = TRUE]]
  BY <1>3 DEF SetValid
<1> QED BY <1>3, <1>4, <1>5, <1>6

(* A pointer that has been stored through, to something that the pools have, is filed in *)
(* all three containers.                                                              *)
LEMMA AddPointerValue ==
    ASSUME NEW e, NEW r, GoodEnv(e, r), NEW p, Usable(r, p), p.kind = "inst", IsPointer(p),
           p \in r.written, p.type.depth > 1 => GetAttachedValues(e, Pointee(p.type)) # {}
    PROVE  LET f == SetValid(AddValue(e, p), p) IN GoodEnv(f, r) /\ p \in DOMAIN f.ptrMap
<1>1. IsEnv(e) /\ Consistent(e) /\ Pool(e, r) /\ p \in Value
  BY DEF GoodEnv, Usable
<1>2. CASE p \in GetAttachedValues(e, p.type)
  <2>1. AddValue(e, p) = e
    BY <1>2 DEF AddValue
  <2>2. p \in DOMAIN e.ptrMap
    <3>1. p \in AllValues(e)
      BY <1>2, Pooled
    <3> QED BY <1>1, <3>1 DEF Consistent
  <2> QED BY <2>1, <2>2, StillValid
<1>3. CASE p \notin GetAttachedValues(e, p.type)
  <2> DEFINE g == AddToPool(e, p)
             m == [q \in DOMAIN e.ptrMap \cup {p} |-> q # p /\ e.ptrMap[q]]
             n == [q \in DOMAIN e.ptrMap \cup {p} |-> TRUE]
             f == SetValid(AddValue(e, p), p)
  <2>1. /\ g = [typeMap |-> g.typeMap, ptrMap |-> e.ptrMap, numValue |-> g.numValue]
        /\ g.typeMap = [u \in DOMAIN g.typeMap |-> g.typeMap[u]]
        /\ AllValues(g) = AllValues(e) \cup {p} /\ IsFiniteSet(AllValues(g))
        /\ g.numValue = Cardinality(AllValues(g))
        /\ \A t \in DOMAIN g.typeMap : \A x \in g.typeMap[t] : x.type = t /\ x.kind # "undef"
        /\ \A t : GetAttachedValues(e, t) \subseteq GetAttachedValues(g, t)
    BY <1>1, <1>3, PoolOneMore
  <2>2. AddValue(e, p) = InitializePointsTo(g, p)
    BY <1>3 DEF AddValue
  <2> HIDE DEF g
  <2>3. g.ptrMap = e.ptrMap
    BY <2>1
  <2>4. InitializePointsTo(g, p) = [g EXCEPT !.ptrMap = m]
    BY <2>3 DEF InitializePointsTo
  <2>5. [m EXCEPT ![p] = TRUE] = n
    <3>1. \A q \in DOMAIN e.ptrMap : e.ptrMap[q] = TRUE
      BY <1>1 DEF Pool
    <3> QED BY <3>1
  <2> HIDE DEF m
  <2>6. AddValue(e, p) = [typeMap |-> g.typeMap, ptrMap |-> m, numValue |-> g.numValue]
    BY <2>1, <2>2, <2>4
  <2>7. f = [AddValue(e, p) EXCEPT !.ptrMap = [AddValue(e, p).ptrMap EXCEPT ![p] = TRUE]]
    BY DEF SetValid
  <2>8. DOMAIN n = DOMAIN e.ptrMap \cup {p} /\ \A q \in DOMAIN n : n[q] = TRUE
    OBVIOUS
  <2>9. n = [q \in DOMAIN n |-> n[q]]
    OBVIOUS
  <2> HIDE DEF f, n
  <2>10. f = [typeMap |-> g.typeMap, ptrMap |-> n, numValue |-> g.numValue]
    <3>1. PICK a : a = AddValue(e, p)
      OBVIOUS
    <3>2. a.ptrMap = m
      BY <2>6, <3>1
    <3>3. f = [a EXCEPT !.ptrMap = n]
      BY <2>5, <2>7, <3>1, <3>2
    <3> QED BY <2>6, <3>1, <3>3
  <2>11. f.typeMap = g.typeMap /\ f.ptrMap = n /\ f.numValue = g.numValue
    BY <2>10
  <2>12. AllValues(f) = AllValues(e) \cup {p} /\ AllValues(f) = AllValues(g)
    BY <2>1, <2>11 DEF AllValues
  <2>13. \A t : GetAttachedValues(e, t) \subseteq GetAttachedValues(f, t)
    BY <2>1, <2>11 DEF GetAttachedValues
  <2>14. IsEnv(f)
    <3>1. f = [typeMap |-> f.typeMap, ptrMap |-> f.ptrMap, numValue |-> f.numValue]
      BY <2>10, <2>11
    <3>2. f.typeMap = [t \in DOMAIN f.typeMap |-> f.typeMap[t]]
      BY <2>1, <2>11
    <3>3. f.ptrMap = [q \in DOMAIN f.ptrMap |-> f.ptrMap[q]]
      BY <2>9, <2>11
    <3>4. IsFiniteSet(AllValues(f))
      BY <2>1, <2>12
    <3> QED BY <3>1, <3>2, <3>3, <3>4 DEF IsEnv
  <2>15. Consistent(f)
    <3>1. {x \in AllValues(f) : IsPointer(x)} = {x \in AllValues(e) : IsPointer(x)} \cup {p}
      BY <2>12
    <3>2. DOMAIN f.ptrMap = {x \in AllValues(f) : IsPointer(x)}
      BY <1>1, <2>8, <2>11, <3>1 DEF Consistent
    <3>3. f.numValue = Cardinality(AllValues(f))
      BY <2>1, <2>11, <2>12
    <3>4. \A t \in DOMAIN f.typeMap : \A x \in f.typeMap[t] : x.type = t /\ x.kind # "undef"
      BY <2>1, <2>11
    <3> QED BY <3>2, <3>3, <3>4 DEF Consistent
  <2>16. Pool(f, r)
    <3>1. \A x \in AllValues(f) : Usable(r, x) /\ (IsPointer(x) => x.kind = "inst")
      BY <1>1, <2>12 DEF Pool
    <3>2. ASSUME NEW q \in DOMAIN f.ptrMap
          PROVE  /\ f.ptrMap[q] = TRUE /\ q \in r.written
                 /\ q.type.depth > 1 => GetAttachedValues(f, Pointee(q.type)) # {}
      <4>1. f.ptrMap[q] = TRUE /\ (q \in DOMAIN e.ptrMap \/ q = p)
        BY <2>8, <2>11
      <4>2. q \in r.written /\ (q.type.depth > 1 => GetAttachedValues(e, Pointee(q.type)) # {})
        BY <1>1, <4>1 DEF Pool
      <4>3. GetAttachedValues(e, Pointee(q.type)) \subseteq GetAttachedValues(f, Pointee(q.type))
        BY <2>13
      <4> QED BY <4>1, <4>2, <4>3
    <3> QED BY <3>1, <3>2 DEF Pool
  <2>17. p \in DOMAIN f.ptrMap
    BY <2>8, <2>11
  <2> QED BY <2>14, <2>15, <2>16, <2>17 DEF GoodEnv, f
<1> QED BY <1>2, <1>3

----------------------------------------------------------------------------------
(* A value with the code that computes it: the code may be run, and then the value may   *)
(* be used.                                                                           *)
Computed(x, t) ==
    /\ x = [val |-> x.val, code |-> x.code]
    /\ Legal(run, x.code)
    /\ Usable(End(run, x.code), x.val) /\ x.val.type = t

(* What getRandomValueOfType finds.                                                    *)
LEMMA RandomValue ==
    ASSUME IInv, NEW t \in Type, NEW v \in RandomValueOfType(t)
    PROVE  Usable(run, v) /\ v.type = t
<1>1. CASE GetAttachedValues(env, t) # {}
  BY <1>1, Pooled DEF RandomValueOfType, IInv
<1>2. CASE GetAttachedValues(env, t) = {}
  <2>1. v \in ConstantsOf(t)
    BY <1>2 DEF RandomValueOfType
  <2>2. PICK n \in {0, 1, -1, -2} : v = ConstantInt(n, t)
    BY <2>1 DEF ConstantsOf, Numbers
  <2> QED BY <2>2, Values DEF Usable
<1> QED BY <1>1, <1>2

LEMMA RandomScalars ==
    ASSUME IInv, NEW v \in RandomScalar
    PROVE  Usable(run, v) /\ v.type \in Type /\ v.type.depth = 0
<1>1. PICK w \in Widths : v \in RandomValueOfType(IntType(w))
  BY DEF RandomScalar
<1> QED BY <1>1, RandomValue, Types

(* A valid pointer has been stored through: it may be loaded from.                       *)
LEMMA RandomOperand ==
    ASSUME IInv, NEW t \in Type, NEW o \in RandomOperandOfType(t)
    PROVE  Computed(o, t)
<1>1. IsRun(run) /\ GoodEnv(env, run) /\ next \in Nat
  BY DEF IInv
<1>2. CASE \E v \in RandomValueOfType(t) : o = Plain(v)
  <2>1. PICK v \in RandomValueOfType(t) : o = [val |-> v, code |-> <<>>]
    BY <1>2 DEF Plain
  <2>2. Usable(run, v) /\ v.type = t
    BY RandomValue
  <2>3. o.val = v /\ o.code = <<>>
    BY <2>1
  <2>4. Legal(run, o.code) /\ End(run, o.code) = run
    BY <1>1, <2>3, EndOfNothing
  <2> QED BY <2>1, <2>2, <2>3, <2>4 DEF Computed
<1>3. CASE \E p \in GetAttachedValues(env, PointerTo(t)) : env.ptrMap[p] /\ o = LoadFrom(p)
  <2>1. PICK p \in GetAttachedValues(env, PointerTo(t)) : o = LoadFrom(p)
    BY <1>3
  <2>2. p \in AllValues(env) /\ p.type = PointerTo(t) /\ Usable(run, p)
    BY <1>1, Pooled
  <2>3. IsPointer(p) /\ Pointee(p.type) = t
    BY <2>2, Types DEF IsPointer, Type
  <2>4. p \in run.written
    <3>1. p \in DOMAIN env.ptrMap
      BY <1>1, <2>2, <2>3 DEF GoodEnv, Consistent
    <3> QED BY <1>1, <3>1 DEF GoodEnv, Pool
  <2> DEFINE dst == Inst(next, t)
             code == <<Instr("load", dst, <<p>>)>>
  <2>5. o = [val |-> dst, code |-> code]
    BY <2>1, <2>3 DEF LoadFrom
  <2>6. dst \in Value /\ dst.type = t
    BY <1>1, Values
  <2>7. Legal(run, code) /\ Usable(End(run, code), dst)
    <3>1. Legal(run, <<>>) /\ End(run, <<>>) = run
      BY <1>1, EndOfNothing
    <3>2. <<p>> \in Seq(Value) /\ DOMAIN <<p>> = {1} /\ <<p>>[1] = p
      BY <2>2 DEF Usable
    <3>3. Allowed(End(run, <<>>), "load", <<p>>)
      BY <2>2, <2>4, <3>1, <3>2 DEF Allowed, Divisions
    <3>4. code = Append(<<>>, Instr("load", dst, <<p>>))
      OBVIOUS
    <3>5. "load" \in Ops
      BY DEF Ops
    <3> HIDE DEF dst, code
    <3> QED BY <1>1, <2>6, <3>1, <3>2, <3>3, <3>4, <3>5, LegalAppend
  <2> HIDE DEF dst, code
  <2>8. o.val = dst /\ o.code = code
    BY <2>5
  <2> QED BY <2>5, <2>6, <2>7, <2>8 DEF Computed
<1>4. \/ \E v \in RandomValueOfType(t) : o = Plain(v)
      \/ \E p \in GetAttachedValues(env, PointerTo(t)) : env.ptrMap[p] /\ o = LoadFrom(p)
  BY DEF RandomOperandOfType
<1> QED BY <1>2, <1>3, <1>4

(* IRBuilder's result is a constant or an instruction, of the same type.                  *)
LEMMA ResultComputed ==
    ASSUME IInv, NEW op \in Ops, NEW t \in Type, NEW code, Legal(run, code),
           NEW args \in Seq(Value), Allowed(End(run, code), op, args),
           NEW x \in Result(op, t, code, args)
    PROVE  Computed(x, t)
<1>1. IsRun(run) /\ next \in Nat
  BY DEF IInv
<1>2. CASE \A k \in DOMAIN args : IsConstant(args[k])
  <2>1. PICK n \in {0, 1, -1, -2} : x = [val |-> ConstantInt(n, t), code |-> code]
    BY <1>2 DEF Result, ConstantsOf, Numbers
  <2>2. /\ ConstantInt(n, t) \in Value /\ ConstantInt(n, t).kind = "const"
        /\ ConstantInt(n, t).type = t
    BY Values
  <2>3. x.val = ConstantInt(n, t) /\ x.code = code
    BY <2>1
  <2> QED BY <2>1, <2>2, <2>3 DEF Computed, Usable
<1>3. CASE ~ \A k \in DOMAIN args : IsConstant(args[k])
  <2> DEFINE dst == Inst(next + Len(code), t)
             more == Append(code, Instr(op, dst, args))
  <2>1. x = [val |-> dst, code |-> more]
    BY <1>3 DEF Result
  <2>2. dst \in Value /\ dst.type = t
    <3>1. next + Len(code) \in Nat
      BY <1>1 DEF Legal
    <3> QED BY <3>1, Values
  <2>3. Legal(run, more) /\ Usable(End(run, more), dst)
    <3> HIDE DEF dst
    <3> QED BY <1>1, <2>2, LegalAppend
  <2> HIDE DEF dst, more
  <2>4. x.val = dst /\ x.code = more
    BY <2>1
  <2> QED BY <2>1, <2>2, <2>3, <2>4 DEF Computed
<1> QED BY <1>2, <1>3

(* One argument, two and three.                                                        *)
LEMMA Arguments ==
    ASSUME NEW a \in Value, NEW b \in Value, NEW c \in Value
    PROVE  /\ <<a>> \in Seq(Value) /\ DOMAIN <<a>> = {1} /\ <<a>>[1] = a
           /\ <<a, b>> \in Seq(Value) /\ DOMAIN <<a, b>> = {1, 2}
           /\ <<a, b>>[1] = a /\ <<a, b>>[2] = b
           /\ <<a, b, c>> \in Seq(Value) /\ DOMAIN <<a, b, c>> = {1, 2, 3}
           /\ <<a, b, c>>[1] = a /\ <<a, b, c>>[2] = b /\ <<a, b, c>>[3] = c
  OBVIOUS

----------------------------------------------------------------------------------
(* Code that is legal to run leaves a legitimate execution, in which what it computed may *)
(* be used.                                                                           *)
LEMMA EmitStep ==
    ASSUME IInv, NEW code, Legal(run, code), Emit(code)
    PROVE  /\ next' \in Nat /\ IsRun(run') /\ LastKnown'
           /\ run'.written = End(run, code).written
           /\ \A v : Usable(End(run, code), v) => Usable(run', v)
           /\ Extends(run, run') /\ GoodEnv(env, run')
<1>1. IsRun(run) /\ next \in Nat /\ LastKnown /\ GoodEnv(env, run)
  BY DEF IInv
<1>2. run' = Run(run, code) /\ next' = next + Len(code)
  BY DEF Emit
<1>3. /\ IsRun(run') /\ run'.defined = End(run, code).defined
      /\ run'.written = End(run, code).written /\ Extends(run, run')
  BY <1>1, <1>2, RunLegal
<1>4. next' \in Nat
  BY <1>1, <1>2 DEF Legal
<1>5. \A v : Usable(End(run, code), v) => Usable(run', v)
  BY <1>3 DEF Usable
<1>6. ASSUME NEW v \in lastInt'
      PROVE  Usable(run', v) /\ ~IsPointer(v)
  <2>1. CASE v \in lastInt
    BY <1>1, <1>3, <2>1, LaterUse DEF LastKnown
  <2>2. CASE v \notin lastInt
    <3>1. PICK k \in DOMAIN code : ~IsPointer(code[k].dst) /\ v = code[k].dst
      BY <2>2 DEF Emit
    <3>2. k \in 1 .. Len(code) /\ v \in Value
      <4>1. code[k] \in Instruction /\ k \in 1 .. Len(code)
        BY <3>1 DEF Legal
      <4> QED BY <3>1, <4>1 DEF Instruction
    <3>3. v \in End(run, code).defined
      <4>1. End(run, code).defined
              = run.defined \cup {i.dst : i \in {code[j] : j \in 1 .. Len(code)}}
        BY <1>1, AfterFields DEF End
      <4> QED BY <3>1, <3>2, <4>1
    <3> QED BY <1>3, <3>1, <3>2, <3>3 DEF Usable
  <2> QED BY <2>1, <2>2
<1>7. LastKnown'
  BY <1>6 DEF LastKnown
<1>8. GoodEnv(env, run')
  BY <1>1, <1>3, LaterEnv
<1> QED BY <1>3, <1>4, <1>5, <1>7, <1>8

(* An operation that leaves an integer in the environment.                               *)
LEMMA FinishStep ==
    ASSUME IInv, NEW x, NEW t \in Type, t.depth = 0, Computed(x, t), phase # "pointers", Finish(x)
    PROVE  IInv'
<1>1. Legal(run, x.code) /\ Usable(End(run, x.code), x.val) /\ ~IsPointer(x.val)
  BY DEF Computed, IsPointer
<1>2. Emit(x.code) /\ env' = AddValue(env, x.val) /\ phase' = phase
  BY DEF Finish
<1>3. /\ next' \in Nat /\ IsRun(run') /\ LastKnown' /\ GoodEnv(env, run')
      /\ Usable(run', x.val)
  BY <1>1, <1>2, EmitStep
<1>4. GoodEnv(env', run')
  BY <1>1, <1>2, <1>3, AddInteger
<1> QED BY <1>2, <1>3, <1>4 DEF IInv, CurrentKnown

(* Two operands of a type: one of the pool, and then one that may have to be loaded.        *)
LEMMA Operands ==
    ASSUME IInv, NEW a \in RandomScalar, NEW b \in RandomOperandOfType(a.type)
    PROVE  /\ a.type \in Type /\ a.type.depth = 0 /\ Computed(b, a.type)
           /\ Legal(run, b.code) /\ b.val.type = a.type
           /\ Usable(End(run, b.code), a) /\ Usable(End(run, b.code), b.val)
           /\ Extends(run, End(run, b.code))
<1>1. Usable(run, a) /\ a.type \in Type /\ a.type.depth = 0
  BY RandomScalars
<1>2. Computed(b, a.type)
  BY <1>1, RandomOperand
<1>3. Legal(run, b.code) /\ b.val.type = a.type /\ Usable(End(run, b.code), b.val)
  BY <1>2 DEF Computed
<1>4. Extends(run, End(run, b.code))
  BY <1>3, RunLegal DEF IInv
<1>5. Usable(End(run, b.code), a)
  BY <1>1, <1>4, LaterUse
<1> QED BY <1>1, <1>2, <1>3, <1>4, <1>5

LEMMA AllowedTwo ==
    ASSUME NEW r, NEW op \in {"arith", "icmp"}, NEW a, NEW b, Usable(r, a), Usable(r, b), a.type = b.type
    PROVE  <<a, b>> \in Seq(Value) /\ Allowed(r, op, <<a, b>>)
<1>1. a \in Value /\ b \in Value
  BY DEF Usable
<1>2. /\ <<a, b>> \in Seq(Value) /\ DOMAIN <<a, b>> = {1, 2}
      /\ <<a, b>>[1] = a /\ <<a, b>>[2] = b
  BY <1>1, Arguments
<1> QED BY <1>2 DEF Allowed, Divisions

LEMMA AddArithmeticStep == ASSUME IInv, AddArithmetic PROVE IInv'
<1>1. PICK a \in RandomScalar : \E b \in RandomOperandOfType(a.type) :
          \/ \E r \in Result("arith", a.type, b.code, <<a, b.val>>) : Finish(r)
          \/ IsConstant(b.val) /\ Finish([val |-> a, code |-> b.code])
  BY DEF AddArithmetic
<1>2. PICK b \in RandomOperandOfType(a.type) :
          \/ \E r \in Result("arith", a.type, b.code, <<a, b.val>>) : Finish(r)
          \/ IsConstant(b.val) /\ Finish([val |-> a, code |-> b.code])
  BY <1>1
<1>3. /\ a.type \in Type /\ a.type.depth = 0 /\ Legal(run, b.code) /\ b.val.type = a.type
      /\ Usable(End(run, b.code), a) /\ Usable(End(run, b.code), b.val)
  BY Operands
<1>4. phase # "pointers" /\ "arith" \in Ops
  BY DEF AddArithmetic, AtOperation, Ops
<1>5. CASE \E r \in Result("arith", a.type, b.code, <<a, b.val>>) : Finish(r)
  <2>1. PICK r \in Result("arith", a.type, b.code, <<a, b.val>>) : Finish(r)
    BY <1>5
  <2>2. <<a, b.val>> \in Seq(Value) /\ Allowed(End(run, b.code), "arith", <<a, b.val>>)
    BY <1>3, AllowedTwo
  <2>3. Computed(r, a.type)
    BY <1>3, <1>4, <2>2, ResultComputed
  <2> QED BY <1>3, <1>4, <2>1, <2>3, FinishStep
<1>6. CASE Finish([val |-> a, code |-> b.code])
  <2>1. Computed([val |-> a, code |-> b.code], a.type)
    BY <1>3 DEF Computed
  <2> QED BY <1>3, <1>4, <1>6, <2>1, FinishStep
<1> QED BY <1>2, <1>5, <1>6

LEMMA AddCmpStep == ASSUME IInv, AddCmp PROVE IInv'
<1>1. PICK a \in RandomScalar : \E b \in RandomOperandOfType(a.type) :
          \E r \in Result("icmp", IntType(1), b.code, <<a, b.val>>) : Finish(r)
  BY DEF AddCmp
<1>2. PICK b \in RandomOperandOfType(a.type) :
          \E r \in Result("icmp", IntType(1), b.code, <<a, b.val>>) : Finish(r)
  BY <1>1
<1>3. PICK r \in Result("icmp", IntType(1), b.code, <<a, b.val>>) : Finish(r)
  BY <1>2
<1>4. /\ Legal(run, b.code) /\ b.val.type = a.type
      /\ Usable(End(run, b.code), a) /\ Usable(End(run, b.code), b.val)
  BY Operands
<1>5. <<a, b.val>> \in Seq(Value) /\ Allowed(End(run, b.code), "icmp", <<a, b.val>>)
  BY <1>4, AllowedTwo
<1>6. IntType(1) \in Type /\ IntType(1).depth = 0
  BY Types
<1>7. phase # "pointers" /\ "icmp" \in Ops
  BY DEF AddCmp, AtOperation, Ops
<1>8. Computed(r, IntType(1))
  BY <1>4, <1>5, <1>6, <1>7, ResultComputed
<1> QED BY <1>3, <1>6, <1>7, <1>8, FinishStep

(* The divisor is a constant that is not zero, or the select has chosen it.                *)
LEMMA NonZeroComputed ==
    ASSUME IInv, NEW t \in Type, NEW b, Computed(b, t), NEW c \in ConstantsOf(t), c.n # 0
    PROVE  LET d == NonZero(b, c)
           IN  /\ Computed(d, t) /\ Extends(End(run, b.code), End(run, d.code))
               /\ ~MayBeZero(End(run, d.code), d.val)
<1>1. /\ b = [val |-> b.val, code |-> b.code] /\ Legal(run, b.code)
      /\ Usable(End(run, b.code), b.val) /\ b.val.type = t
      /\ IsRun(run) /\ next \in Nat
  BY DEF Computed, IInv
<1>0. c \in Value /\ c.kind = "const" /\ c.type = t
  <2>1. PICK n \in {0, 1, -1, -2} : c = ConstantInt(n, t)
    BY DEF ConstantsOf, Numbers
  <2> QED BY <2>1, Values
<1>2. CASE IsConstant(b.val)
  <2>1. PICK v : v = IF b.val.n = 0 THEN c ELSE b.val
    OBVIOUS
  <2>2. NonZero(b, c) = [val |-> v, code |-> b.code]
    BY <1>1, <1>2, <2>1 DEF NonZero
  <2>3. NonZero(b, c).val = v /\ NonZero(b, c).code = b.code
    BY <2>2
  <2>4. IsConstant(v) /\ v.n # 0 /\ v.type = t /\ Usable(End(run, b.code), v)
    BY <1>0, <1>1, <1>2, <2>1 DEF IsConstant, Usable
  <2> QED BY <1>1, <2>2, <2>3, <2>4 DEF Computed, Extends, MayBeZero, MayBeNumber
<1>3. CASE ~IsConstant(b.val)
  <2> DEFINE c0 == b.code
             zero == ConstantInt(0, t)
             isZero == Inst(next + Len(c0), IntType(1))
             chosen == Inst(next + Len(c0) + 1, t)
             c1 == Append(c0, Instr("icmp", isZero, <<b.val, zero>>))
             c2 == Append(c1, Instr("guard", chosen, <<isZero, c, b.val>>))
  <2>1. NonZero(b, c) = [val |-> chosen,
                      code |-> c0 \o <<Instr("icmp", isZero, <<b.val, zero>>),
                                       Instr("guard", chosen, <<isZero, c, b.val>>)>>]
    BY <1>1, <1>3 DEF NonZero
  <2>2. /\ isZero \in Value /\ chosen \in Value /\ chosen.type = t
        /\ zero \in Value /\ zero.kind = "const" /\ zero.type = t
        /\ c \in Value /\ c.kind = "const"
    <3>1. next + Len(c0) \in Nat /\ next + Len(c0) + 1 \in Nat
      BY <1>1 DEF Legal
    <3> QED BY <1>0, <3>1, Types, Values
  <2>3. b.val \in Value /\ {"icmp", "guard"} \subseteq Ops /\ c0 \in Seq(Instruction)
    BY <1>1 DEF Usable, Ops, Legal
  <2> HIDE DEF isZero, chosen, zero
  <2>4. c0 \o <<Instr("icmp", isZero, <<b.val, zero>>),
                Instr("guard", chosen, <<isZero, c, b.val>>)>> = c2
    <3>1. PICK i, j : /\ i = Instr("icmp", isZero, <<b.val, zero>>)
                      /\ j = Instr("guard", chosen, <<isZero, c, b.val>>)
      OBVIOUS
    <3>2. i \in Instruction /\ j \in Instruction
      BY <2>2, <2>3, <3>1, Arguments, Instructions
    <3>3. c0 \o <<i, j>> = Append(Append(c0, i), j)
      BY <2>3, <3>2
    <3> QED BY <3>1, <3>3
  <2>5. <<b.val, zero>> \in Seq(Value) /\ Allowed(End(run, c0), "icmp", <<b.val, zero>>)
    <3>1. Usable(End(run, c0), zero)
      BY <2>2 DEF Usable
    <3> QED BY <1>1, <2>2, <3>1, AllowedTwo
  <2>6. Legal(run, c1) /\ Usable(End(run, c1), isZero) /\ Extends(End(run, c0), End(run, c1))
    BY <1>1, <2>2, <2>3, <2>5, LegalAppend
  <2>7. <<isZero, c, b.val>> \in Seq(Value) /\ Allowed(End(run, c1), "guard", <<isZero, c, b.val>>)
    <3>1. Usable(End(run, c1), c) /\ Usable(End(run, c1), b.val)
      BY <1>1, <2>2, <2>6, LaterUse DEF Usable
    <3>2. /\ <<isZero, c, b.val>> \in Seq(Value) /\ DOMAIN <<isZero, c, b.val>> = {1, 2, 3}
          /\ <<isZero, c, b.val>>[1] = isZero /\ <<isZero, c, b.val>>[2] = c
          /\ <<isZero, c, b.val>>[3] = b.val
      BY <2>2, <2>3, Arguments
    <3> QED BY <2>6, <3>1, <3>2 DEF Allowed, Divisions
  <2> HIDE DEF c1
  <2>8. /\ Legal(run, c2) /\ Usable(End(run, c2), chosen) /\ Extends(End(run, c1), End(run, c2))
        /\ chosen \in End(run, c2).nonzero
    BY <1>1, <2>2, <2>3, <2>6, <2>7, LegalAppend
  <2> HIDE DEF c2
  <2>9. NonZero(b, c) = [val |-> chosen, code |-> c2]
    BY <2>1, <2>4
  <2>10. NonZero(b, c).val = chosen /\ NonZero(b, c).code = c2
    BY <2>9
  <2>11. Extends(End(run, c0), End(run, c2))
    BY <2>6, <2>8 DEF Extends
  <2> QED BY <2>2, <2>8, <2>9, <2>10, <2>11 DEF Computed, MayBeZero
<1> QED BY <1>2, <1>3

(* A quotient is what IRBuilder makes of any other operation, or undef.                     *)
LEMMA AddDivisionStep == ASSUME IInv, AddDivision PROVE IInv'
<1>1. PICK a \in RandomScalar : \E b \in RandomOperandOfType(a.type) : \E op \in Divisions :
          \E c \in {v \in ConstantsOf(a.type) : v.n # 0} :
             \E r \in Quotient(op, a.type, NonZero(b, c).code, <<a, NonZero(b, c).val>>) : Finish(r)
  BY DEF AddDivision
<1>2. PICK b \in RandomOperandOfType(a.type), op \in Divisions,
           c \in {v \in ConstantsOf(a.type) : v.n # 0} :
          \E r \in Quotient(op, a.type, NonZero(b, c).code, <<a, NonZero(b, c).val>>) : Finish(r)
  BY <1>1
<1>3. PICK d : d = NonZero(b, c)
  OBVIOUS
<1>4. PICK r \in Quotient(op, a.type, d.code, <<a, d.val>>) : Finish(r)
  BY <1>2, <1>3
<1>5. /\ a.type \in Type /\ a.type.depth = 0 /\ Computed(b, a.type)
      /\ Usable(End(run, b.code), a)
  BY Operands
<1>6. /\ Computed(d, a.type) /\ Extends(End(run, b.code), End(run, d.code))
      /\ ~MayBeZero(End(run, d.code), d.val)
  BY <1>3, <1>5, NonZeroComputed
<1>7. /\ Legal(run, d.code) /\ Usable(End(run, d.code), d.val) /\ d.val.type = a.type
      /\ Usable(End(run, d.code), a)
  BY <1>5, <1>6, LaterUse DEF Computed
<1>8. <<a, d.val>> \in Seq(Value) /\ Allowed(End(run, d.code), op, <<a, d.val>>)
  <2>1. a \in Value /\ d.val \in Value
    BY <1>7 DEF Usable
  <2>2. /\ <<a, d.val>> \in Seq(Value) /\ DOMAIN <<a, d.val>> = {1, 2}
        /\ <<a, d.val>>[1] = a /\ <<a, d.val>>[2] = d.val
    BY <2>1, Arguments
  <2> QED BY <1>6, <1>7, <2>2 DEF Allowed, Divisions
<1>9. phase # "pointers" /\ op \in Ops
  BY DEF AddDivision, AtOperation, Ops, Divisions
<1>10. Computed(r, a.type)
  <2>1. CASE r \in Result(op, a.type, d.code, <<a, d.val>>)
    BY <1>5, <1>7, <1>8, <1>9, <2>1, ResultComputed
  <2>2. CASE r = [val |-> UndefValue(a.type), code |-> d.code]
    <3>1. r.val = UndefValue(a.type) /\ r.code = d.code
      BY <2>2
    <3>2. r.val \in Value /\ r.val.kind = "undef" /\ r.val.type = a.type
      BY <1>5, <3>1, Values
    <3> QED BY <1>7, <2>2, <3>1, <3>2 DEF Computed, Usable
  <2> QED BY <1>4, <2>1, <2>2 DEF Quotient
<1> QED BY <1>4, <1>5, <1>9, <1>10, FinishStep

LEMMA AddShiftStep == ASSUME IInv, AddShift PROVE IInv'
<1>1. PICK a \in RandomScalar : \E b \in RandomOperandOfType(a.type) :
          \E amount \in ShiftAmounts(a.type) : \E op \in {"shift", "shiftOut"} :
             \/ LET dst == Inst(next + Len(b.code), a.type)
                IN  Finish([val |-> dst, code |-> Append(b.code, Instr(op, dst, <<a>>))])
             \/ \E v \in ConstantsOf(a.type) : Finish([val |-> v, code |-> b.code])
             \/ Finish([val |-> UndefValue(a.type), code |-> b.code])
  BY Zenon DEF AddShift
<1>2. PICK b \in RandomOperandOfType(a.type), op \in {"shift", "shiftOut"} :
             \/ LET dst == Inst(next + Len(b.code), a.type)
                IN  Finish([val |-> dst, code |-> Append(b.code, Instr(op, dst, <<a>>))])
             \/ \E v \in ConstantsOf(a.type) : Finish([val |-> v, code |-> b.code])
             \/ Finish([val |-> UndefValue(a.type), code |-> b.code])
  BY <1>1, Zenon
<1>3. /\ a.type \in Type /\ a.type.depth = 0 /\ Legal(run, b.code)
      /\ Usable(End(run, b.code), a)
  BY Operands
<1>4. phase # "pointers" /\ op \in Ops /\ IsRun(run) /\ next \in Nat
  BY DEF AddShift, AtOperation, Ops, IInv
<1> DEFINE dst == Inst(next + Len(b.code), a.type)
           more == Append(b.code, Instr(op, dst, <<a>>))
<1>5. CASE Finish([val |-> dst, code |-> more])
  <2>1. dst \in Value /\ dst.type = a.type
    <3>1. next + Len(b.code) \in Nat
      BY <1>3, <1>4 DEF Legal
    <3> QED BY <1>3, <3>1, Values
  <2> HIDE DEF dst
  <2>2. <<a>> \in Seq(Value) /\ Allowed(End(run, b.code), op, <<a>>)
    <3>1. a \in Value
      BY <1>3 DEF Usable
    <3>2. <<a>> \in Seq(Value) /\ DOMAIN <<a>> = {1} /\ <<a>>[1] = a
      BY <3>1, Arguments
    <3> QED BY <1>3, <3>2 DEF Allowed, Divisions
  <2>3. Legal(run, more) /\ Usable(End(run, more), dst)
    BY <1>3, <1>4, <2>1, <2>2, LegalAppend
  <2> HIDE DEF more
  <2>4. Computed([val |-> dst, code |-> more], a.type)
    BY <2>1, <2>3 DEF Computed
  <2> QED BY <1>3, <1>4, <1>5, <2>4, FinishStep
<1>6. ASSUME NEW v \in Value, v.kind # "inst", v.type = a.type,
             Finish([val |-> v, code |-> b.code])
      PROVE  IInv'
  <2>1. Computed([val |-> v, code |-> b.code], a.type)
    BY <1>3, <1>6 DEF Computed, Usable
  <2> QED BY <1>3, <1>4, <1>6, <2>1, FinishStep
<1>7. CASE \E v \in ConstantsOf(a.type) : Finish([val |-> v, code |-> b.code])
  <2>1. PICK n \in {0, 1, -1, -2} : Finish([val |-> ConstantInt(n, a.type), code |-> b.code])
    BY <1>7 DEF ConstantsOf, Numbers
  <2> QED BY <1>3, <1>6, <2>1, Values
<1>8. CASE Finish([val |-> UndefValue(a.type), code |-> b.code])
  BY <1>3, <1>6, <1>8, Values
<1> QED BY <1>2, <1>5, <1>7, <1>8

(* A cast of a value that may be used, or no cast.                                        *)
LEMMA CastComputed ==
    ASSUME IInv, NEW w \in Widths, NEW code, Legal(run, code), NEW v, Usable(End(run, code), v),
           NEW x \in Cast(v, w, code)
    PROVE  Computed(x, IntType(w)) /\ Extends(End(run, code), End(run, x.code))
<1>1. CASE v.type = IntType(w)
  <2>1. x = [val |-> v, code |-> code]
    BY <1>1 DEF Cast
  <2>2. x.val = v /\ x.code = code
    BY <2>1
  <2> QED BY <1>1, <2>1, <2>2 DEF Computed, Extends
<1>2. CASE v.type # IntType(w)
  <2>1. x \in Result("cast", IntType(w), code, <<v>>)
    BY <1>2 DEF Cast
  <2>2. IntType(w) \in Type /\ "cast" \in Ops /\ v \in Value /\ IsRun(run) /\ next \in Nat
    BY Types DEF Ops, Usable, IInv
  <2>3. <<v>> \in Seq(Value) /\ Allowed(End(run, code), "cast", <<v>>)
    <3>1. <<v>> \in Seq(Value) /\ DOMAIN <<v>> = {1} /\ <<v>>[1] = v
      BY <2>2, Arguments
    <3> QED BY <3>1 DEF Allowed, Divisions
  <2>4. Computed(x, IntType(w))
    BY <2>1, <2>2, <2>3, ResultComputed
  <2>5. Extends(End(run, code), End(run, x.code))
    <3>1. \/ x.code = code
          \/ x.code = Append(code, Instr("cast", Inst(next + Len(code), IntType(w)), <<v>>))
      BY <2>1 DEF Result
    <3>2. Inst(next + Len(code), IntType(w)) \in Value
      <4>1. next + Len(code) \in Nat
        BY <2>2 DEF Legal
      <4> QED BY <2>2, <4>1, Values
    <3>3. CASE x.code = code
      BY <3>3 DEF Extends
    <3>4. CASE x.code = Append(code, Instr("cast", Inst(next + Len(code), IntType(w)), <<v>>))
      BY <2>2, <2>3, <3>2, <3>4, LegalAppend
    <3> QED BY <3>1, <3>3, <3>4
  <2> QED BY <2>4, <2>5
<1> QED BY <1>1, <1>2

LEMMA AddSelectStep == ASSUME IInv, AddSelect PROVE IInv'
<1>1. PICK a \in RandomScalar : \E b \in RandomOperandOfType(a.type) : \E c \in RandomScalar :
          \E cond \in Cast(c, 1, b.code) :
             \E r \in Result("select", a.type, cond.code, <<cond.val, a, b.val>>) :
                /\ Emit(r.code)
                /\ env' = AddValue(IF cond.val = c THEN env ELSE AddValue(env, cond.val), r.val)
  BY DEF AddSelect
<1>2. PICK b \in RandomOperandOfType(a.type) : \E c \in RandomScalar :
          \E cond \in Cast(c, 1, b.code) :
             \E r \in Result("select", a.type, cond.code, <<cond.val, a, b.val>>) :
                /\ Emit(r.code)
                /\ env' = AddValue(IF cond.val = c THEN env ELSE AddValue(env, cond.val), r.val)
  BY <1>1
<1>3. PICK c \in RandomScalar : \E cond \in Cast(c, 1, b.code) :
             \E r \in Result("select", a.type, cond.code, <<cond.val, a, b.val>>) :
                /\ Emit(r.code)
                /\ env' = AddValue(IF cond.val = c THEN env ELSE AddValue(env, cond.val), r.val)
  BY <1>2
<1>4. PICK cond \in Cast(c, 1, b.code) :
             \E r \in Result("select", a.type, cond.code, <<cond.val, a, b.val>>) :
                /\ Emit(r.code)
                /\ env' = AddValue(IF cond.val = c THEN env ELSE AddValue(env, cond.val), r.val)
  BY <1>3
<1>5. PICK r \in Result("select", a.type, cond.code, <<cond.val, a, b.val>>) :
                /\ Emit(r.code)
                /\ env' = AddValue(IF cond.val = c THEN env ELSE AddValue(env, cond.val), r.val)
  BY <1>4
<1>6. /\ a.type \in Type /\ a.type.depth = 0 /\ Legal(run, b.code)
      /\ Usable(End(run, b.code), a) /\ Usable(End(run, b.code), b.val)
      /\ Extends(run, End(run, b.code))
  BY Operands
<1>7. Usable(run, c) /\ Usable(End(run, b.code), c)
  BY <1>6, RandomScalars, LaterUse
<1>8. 1 \in Widths /\ IntType(1).depth = 0
  BY Types
<1>9. Computed(cond, IntType(1)) /\ Extends(End(run, b.code), End(run, cond.code))
  BY <1>6, <1>7, <1>8, CastComputed
<1>10. /\ Legal(run, cond.code) /\ Usable(End(run, cond.code), cond.val)
       /\ cond.val.type = IntType(1)
       /\ Usable(End(run, cond.code), a) /\ Usable(End(run, cond.code), b.val)
  BY <1>6, <1>9, LaterUse DEF Computed
<1> DEFINE args == <<cond.val, a, b.val>>
<1>11. args \in Seq(Value) /\ Allowed(End(run, cond.code), "select", args)
  <2>1. cond.val \in Value /\ a \in Value /\ b.val \in Value
    BY <1>10 DEF Usable
  <2>2. /\ args \in Seq(Value) /\ DOMAIN args = {1, 2, 3}
        /\ args[1] = cond.val /\ args[2] = a /\ args[3] = b.val
    BY <2>1, Arguments
  <2> HIDE DEF args
  <2> QED BY <1>10, <2>2 DEF Allowed, Divisions
<1> HIDE DEF args
<1>12. phase # "pointers" /\ phase' = phase /\ "select" \in Ops /\ IsRun(run) /\ next \in Nat
  BY DEF AddSelect, AtOperation, Ops, IInv
<1>13. Computed(r, a.type)
  BY <1>5, <1>6, <1>10, <1>11, <1>12, ResultComputed DEF args
<1>14. Extends(End(run, cond.code), End(run, r.code))
  <2>1. \/ r.code = cond.code
        \/ r.code = Append(cond.code, Instr("select", Inst(next + Len(cond.code), a.type), args))
    BY <1>5 DEF Result, args
  <2>2. Inst(next + Len(cond.code), a.type) \in Value
    <3>1. next + Len(cond.code) \in Nat
      BY <1>10, <1>12 DEF Legal
    <3> QED BY <1>6, <3>1, Values
  <2>3. CASE r.code = cond.code
    BY <2>3 DEF Extends
  <2>4. CASE r.code = Append(cond.code, Instr("select", Inst(next + Len(cond.code), a.type), args))
    BY <1>10, <1>11, <1>12, <2>2, <2>4, LegalAppend
  <2> QED BY <2>1, <2>3, <2>4
<1>15. /\ Legal(run, r.code) /\ Usable(End(run, r.code), r.val) /\ ~IsPointer(r.val)
       /\ Usable(End(run, r.code), cond.val) /\ ~IsPointer(cond.val)
  BY <1>6, <1>8, <1>10, <1>13, <1>14, LaterUse DEF Computed, IsPointer
<1>16. /\ next' \in Nat /\ IsRun(run') /\ LastKnown' /\ GoodEnv(env, run')
       /\ Usable(run', r.val) /\ Usable(run', cond.val)
  BY <1>5, <1>15, EmitStep
<1> DEFINE between == IF cond.val = c THEN env ELSE AddValue(env, cond.val)
<1>17. GoodEnv(between, run')
  BY <1>15, <1>16, AddInteger
<1>18. env' = AddValue(between, r.val)
  BY <1>5
<1> HIDE DEF between
<1>19. GoodEnv(env', run')
  BY <1>15, <1>16, <1>17, <1>18, AddInteger
<1> QED BY <1>12, <1>16, <1>19 DEF IInv, CurrentKnown

LEMMA AddReturnStep == ASSUME IInv, AddReturn PROVE IInv'
<1>1. PICK v \in (IF lastInt # {} THEN lastInt ELSE RandomValueOfType(IntType(RetWidth))) :
          \E r \in Cast(v, RetWidth, <<>>) :
             /\ Emit(Append(r.code, Instr("ret", NoValue, <<r.val>>)))
             /\ env' = IF r.val = v THEN env ELSE AddValue(env, r.val)
  BY DEF AddReturn
<1>2. PICK r \in Cast(v, RetWidth, <<>>) :
             /\ Emit(Append(r.code, Instr("ret", NoValue, <<r.val>>)))
             /\ env' = IF r.val = v THEN env ELSE AddValue(env, r.val)
  BY <1>1
<1>3. /\ IsRun(run) /\ RetWidth \in Widths /\ IntType(RetWidth) \in Type
      /\ IntType(RetWidth).depth = 0 /\ "ret" \in Ops /\ phase' = "done"
  BY Types DEF IInv, Ops, AddReturn
<1>4. Usable(run, v)
  BY <1>3, RandomValue DEF IInv, LastKnown
<1>5. Legal(run, <<>>) /\ End(run, <<>>) = run
  BY <1>3, EndOfNothing
<1>6. Computed(r, IntType(RetWidth))
  BY <1>3, <1>4, <1>5, CastComputed
<1>7. Legal(run, r.code) /\ Usable(End(run, r.code), r.val) /\ r.val.type = IntType(RetWidth)
  BY <1>6 DEF Computed
<1>8. <<r.val>> \in Seq(Value) /\ Allowed(End(run, r.code), "ret", <<r.val>>)
  <2>1. r.val \in Value
    BY <1>7 DEF Usable
  <2>2. <<r.val>> \in Seq(Value) /\ DOMAIN <<r.val>> = {1} /\ <<r.val>>[1] = r.val
    BY <2>1, Arguments
  <2> QED BY <1>7, <2>2 DEF Allowed, Divisions
<1> DEFINE more == Append(r.code, Instr("ret", NoValue, <<r.val>>))
<1>9. Legal(run, more) /\ Extends(End(run, r.code), End(run, more))
  BY <1>3, <1>7, <1>8, LegalAppend, NoValueIsValue
<1>10. Emit(more)
  BY <1>2
<1> HIDE DEF more
<1>11. Usable(End(run, more), r.val) /\ ~IsPointer(r.val)
  BY <1>3, <1>7, <1>9, LaterUse DEF IsPointer
<1>12. /\ next' \in Nat /\ IsRun(run') /\ LastKnown' /\ GoodEnv(env, run') /\ Usable(run', r.val)
  BY <1>9, <1>10, <1>11, EmitStep
<1>13. GoodEnv(env', run')
  BY <1>2, <1>11, <1>12, AddInteger
<1> QED BY <1>3, <1>12, <1>13 DEF IInv, CurrentKnown

(* An allocation, or a pointer to one, and the store of its first value.                   *)
LEMMA AllocationStep ==
    ASSUME IInv, NEW v, Usable(run, v), v.type \in Type,
           NEW p, p = Inst(next, PointerTo(v.type)),
           v.type.depth > 0 => GetAttachedValues(env, v.type) # {},
           Emit(<<Instr("alloca", p, <<>>), Instr("store", NoValue, <<v, p>>)>>),
           env' = SetValid(AddValue(env, p), p), current' = p
    PROVE  IInv'
<1>1. /\ p \in Value /\ p.kind = "inst" /\ p.type = PointerTo(v.type) /\ IsPointer(p)
      /\ p.type.depth = v.type.depth + 1 /\ Pointee(p.type) = v.type
  <2>1. next \in Nat /\ PointerTo(v.type) \in Type
    BY Types DEF IInv
  <2>2. p \in Value /\ p.kind = "inst" /\ p.type = PointerTo(v.type)
    BY <2>1, Values
  <2>3. v.type.depth \in Nat
    BY DEF Type
  <2> QED BY <2>2, <2>3, Types DEF IsPointer
<1>2. IsRun(run) /\ {"alloca", "store"} \subseteq Ops /\ v \in Value
  BY DEF IInv, Ops, Usable
<1> DEFINE c1 == Append(<<>>, Instr("alloca", p, <<>>))
           c2 == Append(c1, Instr("store", NoValue, <<v, p>>))
<1>3. Legal(run, <<>>) /\ End(run, <<>>) = run
  BY <1>2, EndOfNothing
<1>4. <<>> \in Seq(Value) /\ Allowed(run, "alloca", <<>>)
  BY DEF Allowed, Divisions
<1>5. Legal(run, c1) /\ Usable(End(run, c1), p) /\ Extends(run, End(run, c1))
  BY <1>1, <1>2, <1>3, <1>4, LegalAppend
<1>6. <<v, p>> \in Seq(Value) /\ <<v, p>>[2] = p /\ Allowed(End(run, c1), "store", <<v, p>>)
  <2>1. Usable(End(run, c1), v)
    BY <1>5, LaterUse
  <2>2. /\ <<v, p>> \in Seq(Value) /\ DOMAIN <<v, p>> = {1, 2}
        /\ <<v, p>>[1] = v /\ <<v, p>>[2] = p
    BY <1>1, <1>2, Arguments
  <2> HIDE DEF c1
  <2> QED BY <1>1, <1>5, <2>1, <2>2 DEF Allowed, Divisions
<1> HIDE DEF c1
<1>7. /\ Legal(run, c2) /\ p \in End(run, c2).written /\ Extends(End(run, c1), End(run, c2))
  BY <1>2, <1>5, <1>6, LegalAppend, NoValueIsValue
<1>8. Emit(c2)
  <2>1. PICK i, j : i = Instr("alloca", p, <<>>) /\ j = Instr("store", NoValue, <<v, p>>)
    OBVIOUS
  <2>2. <<i, j>> = Append(Append(<<>>, i), j)
    OBVIOUS
  <2>3. c2 = <<i, j>>
    BY <2>1, <2>2 DEF c1
  <2> HIDE DEF c2
  <2> QED BY <2>1, <2>3
<1> HIDE DEF c2
<1>9. Usable(End(run, c2), p)
  BY <1>5, <1>7, LaterUse
<1>10. /\ next' \in Nat /\ IsRun(run') /\ LastKnown' /\ GoodEnv(env, run')
       /\ Usable(run', p) /\ p \in run'.written
  BY <1>7, <1>8, <1>9, EmitStep
<1>11. p.type.depth > 1 => GetAttachedValues(env, Pointee(p.type)) # {}
  <2>1. v.type.depth \in Nat
    BY DEF Type
  <2> QED BY <1>1, <2>1
<1>12. GoodEnv(env', run') /\ p \in DOMAIN env'.ptrMap
  BY <1>1, <1>10, <1>11, AddPointerValue
<1> QED BY <1>10, <1>12 DEF IInv, CurrentKnown

LEMMA AddAllocaStep == ASSUME IInv, AddAlloca PROVE IInv'
<1>1. PICK w \in Widths : \E v \in RandomValueOfType(IntType(w)) :
          LET p == Inst(next, PointerTo(IntType(w)))
          IN  /\ Emit(<<Instr("alloca", p, <<>>), Instr("store", NoValue, <<v, p>>)>>)
              /\ env' = SetValid(AddValue(env, p), p)
              /\ current' = p
  BY DEF AddAlloca
<1>2. PICK v \in RandomValueOfType(IntType(w)) :
          LET p == Inst(next, PointerTo(IntType(w)))
          IN  /\ Emit(<<Instr("alloca", p, <<>>), Instr("store", NoValue, <<v, p>>)>>)
              /\ env' = SetValid(AddValue(env, p), p)
              /\ current' = p
  BY <1>1
<1>3. IntType(w) \in Type /\ IntType(w).depth = 0
  BY Types
<1>4. Usable(run, v) /\ v.type = IntType(w)
  BY <1>3, RandomValue
<1> QED BY <1>2, <1>3, <1>4, AllocationStep

(* The pointer that the loop goes on from is in its pool.                                 *)
LEMMA AddPointerStep == ASSUME IInv, AddPointer PROVE IInv'
<1>1. GoodEnv(env, run) /\ current \in DOMAIN env.ptrMap
  BY DEF IInv, CurrentKnown, AddPointer
<1>2. current \in AllValues(env) /\ Usable(run, current)
  BY <1>1 DEF GoodEnv, Consistent, Pool
<1>3. current.type \in Type
  BY <1>2 DEF Usable, Value
<1>4. GetAttachedValues(env, current.type) # {}
  <2>1. PICK t \in DOMAIN env.typeMap : current \in env.typeMap[t]
    BY <1>2 DEF AllValues
  <2>2. current.type = t
    BY <1>1, <2>1 DEF GoodEnv, Consistent
  <2> QED BY <2>1, <2>2 DEF GetAttachedValues
<1> DEFINE p == Inst(next, PointerTo(current.type))
<1>5. /\ Emit(<<Instr("alloca", p, <<>>), Instr("store", NoValue, <<current, p>>)>>)
      /\ env' = SetValid(AddValue(env, p), p)
      /\ current' = p
  BY DEF AddPointer
<1> QED BY <1>2, <1>3, <1>4, <1>5, AllocationStep

(* A store goes through a pointer of the environment, which was valid before; what it       *)
(* stores is of the pointee's type.                                                       *)
LEMMA AddStoreStep == ASSUME IInv, AddStore PROVE IInv'
<1>1. phase = "body"
  BY DEF AddStore, AtOperation
<1>2. CASE UNCHANGED <<env, next, lastInt, run, current>> /\ phase' = "aborted"
  BY <1>2 DEF IInv, CurrentKnown, LastKnown
<1>3. ASSUME NEW p \in DOMAIN env.ptrMap, NEW o \in RandomOperandOfType(Pointee(p.type)),
             Emit(Append(o.code, Instr("store", NoValue, <<o.val, p>>))),
             env' = SetValid(env, p), UNCHANGED <<phase, current>>
      PROVE  IInv'
  <2>1. IsRun(run) /\ GoodEnv(env, run) /\ "store" \in Ops
    BY DEF IInv, Ops
  <2>2. Usable(run, p) /\ IsPointer(p) /\ p \in Value
    BY <2>1 DEF GoodEnv, Consistent, Pool, Usable
  <2>3. Pointee(p.type) \in Type /\ PointerTo(Pointee(p.type)) = p.type
    <3>1. p.type \in Type /\ p.type.depth > 0
      BY <2>2 DEF Value, IsPointer
    <3> QED BY <3>1, Types
  <2>4. Computed(o, Pointee(p.type))
    BY <2>3, RandomOperand
  <2>5. Legal(run, o.code) /\ Usable(End(run, o.code), o.val) /\ o.val.type = Pointee(p.type)
    BY <2>4 DEF Computed
  <2>6. Usable(End(run, o.code), p)
    BY <2>1, <2>2, <2>5, RunLegal, LaterUse
  <2>7. <<o.val, p>> \in Seq(Value) /\ Allowed(End(run, o.code), "store", <<o.val, p>>)
    <3>1. o.val \in Value
      BY <2>5 DEF Usable
    <3>2. /\ <<o.val, p>> \in Seq(Value) /\ DOMAIN <<o.val, p>> = {1, 2}
          /\ <<o.val, p>>[1] = o.val /\ <<o.val, p>>[2] = p
      BY <2>2, <3>1, Arguments
    <3> QED BY <2>3, <2>5, <2>6, <3>2 DEF Allowed, Divisions
  <2>8. Legal(run, Append(o.code, Instr("store", NoValue, <<o.val, p>>)))
    BY <2>1, <2>5, <2>7, LegalAppend, NoValueIsValue
  <2>9. next' \in Nat /\ IsRun(run') /\ LastKnown' /\ GoodEnv(env, run')
    BY <1>3, <2>8, EmitStep
  <2>10. env' = env
    BY <1>3, <2>1, StillValid
  <2> QED BY <1>1, <1>3, <2>9, <2>10 DEF IInv, CurrentKnown
<1>4. \/ UNCHANGED <<env, next, lastInt, run, current>> /\ phase' = "aborted"
      \/ \E p \in DOMAIN env.ptrMap : \E o \in RandomOperandOfType(Pointee(p.type)) :
            /\ Emit(Append(o.code, Instr("store", NoValue, <<o.val, p>>)))
            /\ env' = SetValid(env, p) /\ UNCHANGED <<phase, current>>
  BY Zenon DEF AddStore, Abort
<1> QED BY <1>2, <1>3, <1>4

----------------------------------------------------------------------------------
LEMMA InitIInv == ASSUME Init PROVE IInv
<1>1. /\ env = EmptyEnvironment /\ next = 1 /\ phase = "allocas" /\ lastInt = {}
      /\ run = [defined |-> {}, written |-> {}, nonzero |-> {}, faults |-> {}]
  BY DEF Init
<1>2. /\ env.typeMap = [t \in {IntType(w) : w \in Widths} |-> {}]
      /\ env.ptrMap = [p \in {} |-> FALSE] /\ env.numValue = 0
      /\ env = [typeMap |-> env.typeMap, ptrMap |-> env.ptrMap, numValue |-> env.numValue]
  BY <1>1 DEF EmptyEnvironment
<1>3. AllValues(env) = {}
  BY <1>2 DEF AllValues
<1>4. /\ IsFiniteSet(AllValues(env)) /\ env.numValue = Cardinality(AllValues(env))
  BY <1>2, <1>3, FS_EmptySet
<1>5. DOMAIN env.ptrMap = {}
  BY <1>2
<1>6. IsEnv(env)
  BY <1>2, <1>4, <1>5 DEF IsEnv
<1>7. Consistent(env)
  BY <1>2, <1>3, <1>4, <1>5 DEF Consistent
<1>8. Pool(env, run)
  BY <1>3, <1>5 DEF Pool
<1>9. IsRun(run)
  BY <1>1 DEF IsRun
<1> QED BY <1>1, <1>6, <1>7, <1>8, <1>9 DEF IInv, GoodEnv, CurrentKnown, LastKnown

LEMMA NextIInv == ASSUME IInv, [Next]_vars PROVE IInv'
<1>1. CASE EndPointers \/ StartBody
  BY <1>1 DEF EndPointers, StartBody, IInv, CurrentKnown, LastKnown
<1>2. CASE UNCHANGED vars
  BY <1>2 DEF vars, IInv, CurrentKnown, LastKnown
<1> QED
  BY <1>1, <1>2, AddAllocaStep, AddPointerStep, AddStoreStep, AddArithmeticStep, AddDivisionStep,
     AddShiftStep, AddSelectStep, AddCmpStep, AddReturnStep DEF Next

LEMMA Invariance == Spec => []IInv
  BY InitIInv, NextIInv, PTL DEF Spec

----------------------------------------------------------------------------------
(* typeMap, ptrMap and numValue of GeneratorEnvironment agree, whatever addValue has been   *)
(* called with.                                                                         *)
THEOREM EnvironmentAgrees == Spec => []EnvironmentConsistent
<1>1. IInv => EnvironmentConsistent
  BY DEF IInv, GoodEnv, EnvironmentConsistent
<1> QED BY Invariance, <1>1, PTL

(* Every pointer that a later instruction may pick has been stored through: recordStore is  *)
(* called for each before another operation is generated.                                *)
THEOREM PointersStoredThrough == Spec => []PointersInitialised
<1>1. IInv => PointersInitialised
  BY DEF IInv, GoodEnv, Pool, PointersInitialised
<1> QED BY Invariance, <1>1, PTL

(* getRandomValueOfType has an answer for the pointee of every pointer: a constant, or,     *)
(* for a pointer to a pointer, what addAllocaInst stored in it.                           *)
THEOREM ValueFound == Spec => []AlwaysAValue
<1>1. ASSUME IInv, NEW p \in DOMAIN env.ptrMap
      PROVE  RandomValueOfType(Pointee(p.type)) # {}
  <2>1. GoodEnv(env, run)
    BY <1>1 DEF IInv
  <2>2. p \in Value /\ p.type \in Type /\ p.type.depth > 0
    BY <2>1 DEF GoodEnv, Consistent, Pool, Usable, Value, IsPointer
  <2>3. CASE GetAttachedValues(env, Pointee(p.type)) # {}
    BY <2>3 DEF RandomValueOfType
  <2>4. CASE GetAttachedValues(env, Pointee(p.type)) = {}
    <3>1. ~(p.type.depth > 1)
      BY <2>1, <2>4 DEF GoodEnv, Pool
    <3>2. p.type.depth = 1
      BY <2>2, <3>1 DEF Type
    <3>3. ~(Pointee(p.type).depth > 0)
      BY <2>2, <3>2 DEF Pointee, Type
    <3>4. ConstantInt(0, Pointee(p.type)) \in ConstantsOf(Pointee(p.type))
      BY <3>3 DEF ConstantsOf, Numbers
    <3> QED BY <2>4, <3>4 DEF RandomValueOfType
  <2> QED BY <2>3, <2>4
<1>2. IInv => AlwaysAValue
  BY <1>1 DEF AlwaysAValue
<1> QED BY Invariance, <1>2, PTL

(* What BlockGenerator writes uses values after their definition, loads what was stored,   *)
(* divides by nothing that may be zero and is well typed, up to its return. *)
THEOREM GeneratesLegitimate == Spec => []OperandsLegitimate
<1>1. IInv => OperandsLegitimate
  BY DEF IInv, IsRun, Tolerated, OperandsLegitimate
<1> QED BY Invariance, <1>1, PTL
================================================================================
