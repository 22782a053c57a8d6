--------------------------- MODULE GeneratorEnvironment --------------------------
(* The fuzzer's GeneratorEnvironment: the values created so far, by type, and what   *)
(* each pointer among them points to.  The choice of an index at random makes the    *)
(* order of its containers immaterial, so a pool is a set.                           *)
EXTENDS Integers, FiniteSets

CONSTANT Widths     \* widths of the integer types: 1, 8, 16, 32 and 64 in the program

(* A type is an integer type, or depth pointers on top of one. *)
IntType(w) == [width |-> w, depth |-> 0]
PointerTo(t) == [t EXCEPT !.depth = @ + 1]
Pointee(t) == [t EXCEPT !.depth = @ - 1]
IsPointer(v) == v.type.depth > 0

(* A value is an instruction, a constant, or undef.  The numbers of a type of one bit *)
(* are 0 and -1; of those of a wider one, 1 stands for all but 0, -1 and the least,     *)
(* which is written -2 whatever the width. *)
Numbers(t) == IF t.width = 1 THEN {0, -1} ELSE {0, 1, -1, -2}
LeastNumber(t) == IF t.width = 1 THEN -1 ELSE -2

Inst(n, t) == [kind |-> "inst", n |-> n, type |-> t]
ConstantInt(n, t) == [kind |-> "const", n |-> n, type |-> t]
UndefValue(t) == [kind |-> "undef", n |-> 0, type |-> t]
IsConstant(v) == v.kind = "const"

EmptyEnvironment ==
    [typeMap |-> [t \in {IntType(w) : w \in Widths} |-> {}],
     ptrMap  |-> [p \in {} |-> FALSE],      \* a pointer's MemoryLoc: is it valid?
     numValue |-> 0]

GetAttachedValues(env, t) == IF t \in DOMAIN env.typeMap THEN env.typeMap[t] ELSE {}

AddToPool(env, v) ==
    LET t == v.type
    IN  [env EXCEPT !.numValue = @ + 1,
           !.typeMap = [u \in DOMAIN @ \cup {t} |->
                          IF u = t THEN GetAttachedValues(env, t) \cup {v} ELSE @[u]]]

InitializePointsTo(env, v) ==
    [env EXCEPT !.ptrMap = [p \in DOMAIN @ \cup {v} |-> p # v /\ env.ptrMap[p]]]

AddValueAgain(env, v) ==    \* mutant: a value that is in the pool is counted again
    IF v.kind = "undef" THEN env
    ELSE IF IsPointer(v) THEN InitializePointsTo(AddToPool(env, v), v) ELSE AddToPool(env, v)

AddValueToOneMap(env, v) ==     \* mutant: a pointer is filed in ptrMap only
    IF v.kind = "undef" \/ v \in GetAttachedValues(env, v.type) THEN env
    ELSE IF IsPointer(v) THEN InitializePointsTo(env, v) ELSE AddToPool(env, v)

AddValue(env, v) ==
    IF v.kind = "undef" \/ v \in GetAttachedValues(env, v.type) THEN env
    ELSE IF IsPointer(v) THEN InitializePointsTo(AddToPool(env, v), v) ELSE AddToPool(env, v)

SetValidNever(env, ptr) == env      \* mutant: recordStore is forgotten

SetValid(env, ptr) == [env EXCEPT !.ptrMap[ptr] = TRUE]

(* recordStore(val, ptr): why the process terminates, or "" when it does not.        *)
RecordStoreAborts(env, val, ptr) ==
    IF ~IsPointer(val) THEN ""
    ELSE IF val \notin DOMAIN env.ptrMap THEN "unknown pointer"      \* ptrMap.at() throws
    ELSE IF ~env.ptrMap[val] THEN "undefined pointer"
    ELSE ""

(* What the three containers say of one another. *)
AllValues(env) == UNION {env.typeMap[t] : t \in DOMAIN env.typeMap}

Consistent(env) ==
    /\ env.numValue = Cardinality(AllValues(env))
    /\ \A t \in DOMAIN env.typeMap : \A v \in env.typeMap[t] : v.type = t /\ v.kind # "undef"
    /\ DOMAIN env.ptrMap = {v \in AllValues(env) : IsPointer(v)}
================================================================================
