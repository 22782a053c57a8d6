------------------------------- MODULE TypedMemory -------------------------------
(* Typed access to the untyped bytes of a memory section: how DynamicValue trees are *)
(* built from constants (evaluateConstant), laid out in memory (write), read back    *)
(* (loadValue), addressed (getelementptr) and taken apart in registers               *)
(* (extractvalue, insertvalue).                                                      *)
(*                                                                                   *)
(* The state machine keeps one object and one register, with what the language says  *)
(* each of them contains.                                                            *)
EXTENDS Integers, SequencesExt

CONSTANTS
    ByteBits,       \* bits of a byte: 8 in the program
    WordBytes,      \* sizeof(Address): 8
    PointerSize,    \* PointerValue::getPointerSize(), from the DataLayout
    Types,          \* types of the object, from the constructors below
    IntValues,      \* integers that the program stores
    Pointers        \* pointers that the program stores: [space, addr]

(* The object starts at address Base; one byte past it belongs to another object. *)
Base == 2

Radix == 2 ^ ByteBits
TagUnit == 2 ^ (ByteBits * WordBytes - 2)     \* the two msb of an address are its tag
Tags == [global |-> 0, stack |-> 1, heap |-> 2]

ASSUME TypedMemoryAssumption ==
    /\ ByteBits \in Nat \ {0} /\ WordBytes \in Nat \ {0} /\ PointerSize \in 1 .. WordBytes
    /\ \A p \in Pointers : p.space \in DOMAIN Tags /\ p.addr \in 0 .. TagUnit - 1

IntT(w) == [kind |-> "int", width |-> w]
FloatT(double) == [kind |-> "float", isDouble |-> double]
PtrT == [kind |-> "ptr"]
ArrayT(elem, n) == [kind |-> "array", elem |-> elem, n |-> n]
StructT(fields) == [kind |-> "struct", fields |-> fields]

IsAggregate(t) == t.kind \in {"array", "struct"}
Count(t) == IF t.kind = "array" THEN t.n ELSE Len(t.fields)
ElementType(t, i) == IF t.kind = "array" THEN t.elem ELSE t.fields[i]

(* --------------------------- DataLayout, LLVM's, external -------------------------- *)

RoundUp(n, align) == ((n + align - 1) \div align) * align

FloatBytes(isDouble) == IF isDouble THEN 2 ELSE 1

RECURSIVE Align(_)
Align(t) ==
    CASE t.kind = "int" -> Min({a \in {2 ^ k : k \in 0 .. t.width} : a * ByteBits >= t.width})
      [] t.kind = "float" -> FloatBytes(t.isDouble)
      [] t.kind = "ptr" -> PointerSize
      [] t.kind = "array" -> Align(t.elem)
      [] t.kind = "struct" -> Max({1} \cup {Align(t.fields[i]) : i \in DOMAIN t.fields})

RECURSIVE AllocSize(_), ElementOffset(_, _)
AllocSize(t) ==
    CASE t.kind \in {"int", "float", "ptr"} -> Align(t)
      [] t.kind = "array" -> t.n * AllocSize(t.elem)
      [] t.kind = "struct" -> RoundUp(ElementOffset(t, Len(t.fields) + 1), Align(t))

ElementOffset(t, i) ==
    IF t.kind = "array" THEN (i - 1) * AllocSize(t.elem)
    ELSE IF i = 1 THEN 0
    ELSE LET end == ElementOffset(t, i - 1) + AllocSize(t.fields[i - 1])
         IN  IF i > Len(t.fields) THEN end ELSE RoundUp(end, Align(t.fields[i]))

(* ------------------------------ values and constants ------------------------------ *)

Undef == [kind |-> "undef"]
IntV(w, n) == [kind |-> "int", width |-> w, val |-> n % 2 ^ w]
FloatV(double, n) ==
    [kind |-> "float", isDouble |-> double, val |-> n % Radix ^ FloatBytes(double)]
PtrV(space, addr) == [kind |-> "ptr", space |-> space, addr |-> addr]
ArrayV(elems, size) == [kind |-> "array", elems |-> elems, elemSize |-> size]
StructV(fields) == [kind |-> "struct", fields |-> fields]      \* <<[offset, value], ...>>

(* evaluateConstant.  A constant is "undef" or "zero" of a type, a scalar's value, or  *)
(* an aggregate of constants. *)
UndefC(t) == [const |-> "undef", type |-> t]
ZeroC(t) == [const |-> "zero", type |-> t]
ScalarC(v) == [const |-> "scalar", value |-> v]
AggregateC(t, ops) == [const |-> "aggregate", type |-> t, ops |-> ops]

ZeroScalar(t) ==
    CASE t.kind = "int" -> IntV(t.width, 0)
      [] t.kind = "float" -> FloatV(t.isDouble, 0)
      [] t.kind = "ptr" -> PtrV("global", 0)

Assemble(t, values) ==
    IF t.kind = "array" THEN ArrayV(values, AllocSize(t.elem))
    ELSE StructV([i \in DOMAIN values |-> [offset |-> ElementOffset(t, i), value |-> values[i]]])

RECURSIVE EvaluateConstant(_)
EvaluateConstant(c) ==
    IF c.const = "scalar" THEN c.value
    ELSE IF c.const = "aggregate"
    THEN Assemble(c.type, [i \in DOMAIN c.ops |-> EvaluateConstant(c.ops[i])])
    ELSE IF IsAggregate(c.type)
    THEN Assemble(c.type, [i \in 1 .. Count(c.type) |->
                              EvaluateConstant([c EXCEPT !.type = ElementType(c.type, i)])])
    ELSE IF c.const = "zero" THEN ZeroScalar(c.type)
    ELSE Undef

(* ------------------------------ MemorySection::write ------------------------------- *)

ToWord(n, len) == [k \in 1 .. len + 1 |-> (n \div Radix ^ (k - 1)) % Radix]    \* mutant: a byte too many

ToBytes(n, len) == [k \in 1 .. len |-> (n \div Radix ^ (k - 1)) % Radix]
FromBytes(s) == FoldRight(LAMBDA byte, acc : byte + Radix * acc, s, 0)

Bytes(m, a, len) == [k \in 1 .. len |-> m[a + k - 1]]

PutBytes(m, a, s) == [b \in DOMAIN m |-> IF b - a + 1 \in DOMAIN s THEN s[b - a + 1] ELSE m[b]]

UntaggedBytes(p) == SubSeq(ToBytes(p.addr, WordBytes), 1, PointerSize)     \* mutant: no tag

(* A pointer's bytes: those of its tagged address that fit in a pointer. *)
PointerBytes(p) == SubSeq(ToBytes(p.addr + Tags[p.space] * TagUnit, WordBytes), 1, PointerSize)

RECURSIVE WriteValue(_, _, _)
WriteValue(m, a, v) ==
    CASE v.kind = "int" -> PutBytes(m, a, ToBytes(v.val, v.width \div ByteBits))
      [] v.kind = "float" -> PutBytes(m, a, ToBytes(v.val, FloatBytes(v.isDouble)))
      [] v.kind = "ptr" -> PutBytes(m, a, PointerBytes(v))
      [] v.kind = "array" ->
            FoldLeftDomain(LAMBDA acc, i : WriteValue(acc, a + (i - 1) * v.elemSize, v.elems[i]),
                           m, v.elems)
      [] v.kind = "struct" ->
            FoldLeftDomain(LAMBDA acc, i : WriteValue(acc, a + v.fields[i].offset, v.fields[i].value),
                           m, v.fields)
      [] v.kind = "undef" -> m

(* ----------------------------- Interpreter::loadValue ------------------------------ *)

ReadAsPointer(m, a) ==
    LET word == FromBytes(Bytes(m, a, PointerSize))
        spaces == {s \in DOMAIN Tags : Tags[s] = word \div TagUnit}
    IN  IF spaces = {} THEN [kind |-> "threw"]      \* readAsPointer() reads illegal pointer tag
        ELSE PtrV(CHOOSE s \in spaces : TRUE, word % TagUnit)

RECURSIVE LoadValue(_, _, _)
LoadValue(m, a, t) ==
    CASE t.kind = "int" -> IntV(t.width, FromBytes(Bytes(m, a, t.width \div ByteBits)))
      [] t.kind = "float" -> FloatV(t.isDouble, FromBytes(Bytes(m, a, FloatBytes(t.isDouble))))
      [] t.kind = "ptr" -> ReadAsPointer(m, a)
      [] t.kind = "struct" ->
            Assemble(t, [i \in 1 .. Count(t) |-> LoadValue(m, a + ElementOffset(t, i), t.fields[i])])
      [] t.kind = "array" ->
            ArrayV([i \in 1 .. t.n |-> IF IsAggregate(t.elem)
                                       THEN LoadValue(m, a + (i - 1) * AllocSize(t.elem), t.elem)
                                       ELSE Undef],
                   AllocSize(t.elem))

RECURSIVE Throws(_)
Throws(v) ==
    CASE v.kind = "array" -> \E i \in DOMAIN v.elems : Throws(v.elems[i])
      [] v.kind = "struct" -> \E i \in DOMAIN v.fields : Throws(v.fields[i].value)
      [] OTHER -> v.kind = "threw"

(* ------------------- getelementptr, extractvalue and insertvalue ------------------- *)

(* A path is a sequence of indices into a type; the empty path is the object. *)
RECURSIVE TypeAt(_, _), Paths(_), GetElementPtr(_, _, _), ExtractValue(_, _)
TypeAt(t, path) == IF path = <<>> THEN t ELSE TypeAt(ElementType(t, Head(path)), Tail(path))

Paths(t) ==
    {<<>>} \cup
    (IF IsAggregate(t)
     THEN UNION {{<<i>> \o p : p \in Paths(ElementType(t, i))} : i \in 1 .. Count(t)}
     ELSE {})

GetElementPtr(t, a, path) ==
    IF path = <<>> THEN a
    ELSE GetElementPtr(ElementType(t, Head(path)), a + ElementOffset(t, Head(path)), Tail(path))

ExtractOnce(v, path) ==     \* mutant: only the first index is followed
    IF path = <<>> THEN v
    ELSE IF v.kind = "array" THEN v.elems[Head(path)] ELSE v.fields[Head(path)].value

ExtractValue(v, path) ==
    IF path = <<>> THEN v
    ELSE ExtractValue(IF v.kind = "array" THEN v.elems[Head(path)] ELSE v.fields[Head(path)].value,
                      Tail(path))

(* insertvalue: tmpBaseVal refers to baseVal itself, which ends as the inserted value. *)
InsertValue(base, path, v) == v

(* --------------------------------- state machine ---------------------------------- *)

VARIABLES
    type,       \* the type of the object
    mem,        \* the bytes from address 1 to the one past the object
    contents,   \* history: what the object contains, a tree of sequences of scalars
    reg,        \* the last register bound: its type, its value, what it should be
    status      \* "running", or "threw" when a load has thrown

vars == <<type, mem, contents, reg, status>>

(* The tree that a constant stands for. *)
RECURSIVE Meaning(_)
Meaning(c) ==
    IF c.const = "scalar" THEN c.value
    ELSE IF c.const = "aggregate" THEN [i \in DOMAIN c.ops |-> Meaning(c.ops[i])]
    ELSE IF IsAggregate(c.type)
    THEN [i \in 1 .. Count(c.type) |-> Meaning([c EXCEPT !.type = ElementType(c.type, i)])]
    ELSE IF c.const = "zero" THEN ZeroScalar(c.type) ELSE Undef

RECURSIVE At(_, _), Replaced(_, _, _)
At(tree, path) == IF path = <<>> THEN tree ELSE At(tree[Head(path)], Tail(path))

Replaced(tree, path, new) ==
    IF path = <<>> THEN new
    ELSE [tree EXCEPT ![Head(path)] = Replaced(@, Tail(path), new)]

(* The constants of a type that the program uses: every scalar the same integer or     *)
(* the same pointer, or all zero, or all undef. *)
RECURSIVE Fill(_, _, _)
Fill(t, n, p) ==
    CASE t.kind = "int" -> ScalarC(IntV(t.width, n))
      [] t.kind = "float" -> ScalarC(FloatV(t.isDouble, n))
      [] t.kind = "ptr" -> ScalarC(PtrV(p.space, p.addr))
      [] OTHER -> AggregateC(t, [i \in 1 .. Count(t) |-> Fill(ElementType(t, i), n, p)])

Constants(t) == {UndefC(t), ZeroC(t)} \cup {Fill(t, n, p) : n \in IntValues, p \in Pointers}

(* An array of scalars, or an aggregate with one in it. *)
RECURSIVE HasScalarArray(_)
HasScalarArray(t) ==
    /\ IsAggregate(t)
    /\ \/ t.kind = "array" /\ ~IsAggregate(t.elem)
       \/ \E i \in 1 .. Count(t) : HasScalarArray(ElementType(t, i))

NoRegister == [type |-> PtrT, value |-> Undef, meant |-> Undef]

(* An alloca or malloc leaves what bytes there were; a global's initializer is written *)
(* over them (evaluateGlobals). *)
Init ==
    /\ type \in Types
    /\ \E byte \in {0, Radix - 1}, c \in {UndefC(type), ZeroC(type)} :
          /\ mem = WriteValue([a \in 1 .. Base + AllocSize(type) |-> byte], Base, EvaluateConstant(c))
          /\ contents = Meaning(c)
    /\ reg = NoRegister
    /\ status = "running"

(* A store is the last use of the register: the bound of the instance. *)
StoreConstant ==
    /\ status = "running"
    /\ \E path \in Paths(type) : \E c \in Constants(TypeAt(type, path)) :
          /\ mem' = WriteValue(mem, GetElementPtr(type, Base, path), EvaluateConstant(c))
          /\ contents' = Replaced(contents, path, Meaning(c))
    /\ reg' = NoRegister
    /\ UNCHANGED <<type, status>>

StoreRegister ==
    /\ status = "running"
    /\ \E path \in Paths(type) :
          /\ TypeAt(type, path) = reg.type
          /\ mem' = WriteValue(mem, GetElementPtr(type, Base, path), reg.value)
          /\ contents' = Replaced(contents, path, reg.meant)
    /\ reg' = NoRegister
    /\ UNCHANGED <<type, status>>

Load(path) ==
    LET t == TypeAt(type, path)
        v == LoadValue(mem, GetElementPtr(type, Base, path), t)
    IN  /\ status = "running"
        /\ \/ Throws(v) /\ status' = "threw" /\ UNCHANGED reg
           \/ /\ ~Throws(v)
              /\ reg' = [type |-> t, value |-> v, meant |-> At(contents, path)]
              /\ UNCHANGED status
        /\ UNCHANGED <<type, mem, contents>>

Extract ==
    /\ status = "running"
    /\ \E path \in Paths(reg.type) \ {<<>>} :
          reg' = [type |-> TypeAt(reg.type, path), value |-> ExtractValue(reg.value, path),
                  meant |-> At(reg.meant, path)]
    /\ UNCHANGED <<type, mem, contents, status>>

Insert ==
    /\ status = "running"
    /\ \E path \in Paths(reg.type) \ {<<>>} : \E c \in Constants(TypeAt(reg.type, path)) :
          reg' = [type |-> reg.type, value |-> InsertValue(reg.value, path, EvaluateConstant(c)),
                  meant |-> Replaced(reg.meant, path, Meaning(c))]
    /\ UNCHANGED <<type, mem, contents, status>>

(* What works: a program without insertvalue, that reads arrays of scalars element by *)
(* element.                                                                           *)
Next ==
    \/ StoreConstant \/ StoreRegister \/ Extract
    \/ \E path \in Paths(type) : ~HasScalarArray(TypeAt(type, path)) /\ Load(path)

Spec == Init /\ [][Next]_vars

(* Every program. *)
FullNext ==
    \/ StoreConstant \/ StoreRegister \/ Extract \/ Insert
    \/ \E path \in Paths(type) : Load(path)

FullSpec == Init /\ [][FullNext]_vars

(* ---------------------------------- correctness ----------------------------------- *)

(* A value agrees with a tree of its type where the tree is defined. *)
RECURSIVE Agrees(_, _, _)
Agrees(t, v, tree) ==
    CASE t.kind = "array" ->
            /\ v.kind = "array" /\ Len(v.elems) = t.n
            /\ \A i \in 1 .. t.n : Agrees(t.elem, v.elems[i], tree[i])
      [] t.kind = "struct" ->
            /\ v.kind = "struct" /\ Len(v.fields) = Len(t.fields)
            /\ \A i \in DOMAIN t.fields : Agrees(t.fields[i], v.fields[i].value, tree[i])
      [] OTHER -> tree = Undef \/ v = tree

(* What is in memory, wherever and in whatever pieces it was stored, is what a load of *)
(* any part of the object gives: the offsets that write takes from the value, those    *)
(* that loadValue takes from the type and those of getelementptr are the same, and     *)
(* nothing is lost in the bytes. *)
MemoryAgrees ==
    \A path \in Paths(type) :
        LET t == TypeAt(type, path)
        IN  ~HasScalarArray(t) =>
                Agrees(t, LoadValue(mem, GetElementPtr(type, Base, path), t), At(contents, path))

(* A register holds what the instructions that led to it say it does. *)
RegisterAgrees == reg # NoRegister => Agrees(reg.type, reg.value, reg.meant)

(* A byte changes only if it belongs to a scalar of the object that gets another       *)
(* value, or none the language defines: a store leaves the padding, the rest of the    *)
(* object and its neighbours alone.                                                    *)
StoresStayInside ==
    [][\A b \in DOMAIN mem : mem'[b] # mem[b] =>
          \E path \in Paths(type) :
             LET t == TypeAt(type, path)
                 a == GetElementPtr(type, Base, path)
             IN  /\ ~IsAggregate(t)
                 /\ b \in a .. a + AllocSize(t) - 1
                 /\ At(contents', path) # At(contents, path) \/ At(contents', path) = Undef]_vars
================================================================================
