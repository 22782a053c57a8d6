------------------------------ MODULE DynamicValue -------------------------------
(* The values of the interpreter as C++ objects (DynamicValue.h, DynamicValue.cpp): a  *)
(* type and a union.  An integer of more than 64 bits, the elements of an array and    *)
(* the fields of a struct are in blocks of the C++ heap, which the object owns.  The   *)
(* special member functions decide who owns a block and when it is freed.             *)
(*                                                                                   *)
(* Variables are the objects that the interpreter's functions have: registers,          *)
(* temporaries, arguments.  Elements and fields are leaves here: what an assignment    *)
(* does to an aggregate inside another one it does to an element that owns a block.    *)
EXTENDS Integers, Sequences, FiniteSetsExt, Functions

CONSTANTS
    Variables,      \* names of C++ objects
    Blocks,         \* the blocks that the C++ heap has (a bound)
    MaxLost,        \* how many of them may be lost before a run ends (a bound)
    Inline,         \* the leaves that fit the union: [type, val]
    WideInts,       \* the integers that do not
    Lengths,        \* array lengths
    Offsets         \* offsets of struct fields

VARIABLES
    object,     \* of each variable: its type and data, or Dead
    heap,       \* of each block: what it holds, or Free
    moved       \* the variables whose value was moved away, and not replaced since

vars == <<object, heap, moved>>

NoBlock == 0
Free == [kind |-> "free"]
Word(v) == [kind |-> "word", value |-> v]
Elems(at) == [kind |-> "elems", at |-> at]      \* of a vector, by index; of a map, by offset

Object(type, val, block) == [type |-> type, val |-> val, block |-> block]
Dead == Object("none", 0, NoBlock)
UndefObjectRaw == Dead                          \* mutant: vector elements not constructed

UndefObject == Object("undef", 0, NoBlock)

ASSUME ValueAssumption ==
    /\ NoBlock \notin Blocks /\ IsFiniteSet(Blocks) /\ MaxLost \in Nat
    /\ [type |-> "undef", val |-> 0] \in Inline
    /\ \A leaf \in Inline : /\ leaf = [type |-> leaf.type, val |-> leaf.val]
                             /\ leaf.type \in {"undef", "int", "float", "ptr"}
    /\ Lengths \subseteq Nat \ {0} /\ Offsets \subseteq Nat

IsAggregate(o) == o.type \in {"array", "struct"}

ElementsOf(o) == IF IsAggregate(o) /\ o.block # NoBlock THEN Range(heap[o.block].at) ELSE {}

(* The blocks that an object owns: its own, and those of its elements.                  *)
Owned(o) == ({o.block} \cup {e.block : e \in ElementsOf(o)}) \ {NoBlock}

OwnedBySomeone == UNION {Owned(object[x]) : x \in Variables}

FreeBlocks == {b \in Blocks : heap[b] = Free}

Live(x) == object[x] # Dead
Readable(x) == Live(x) /\ x \notin moved
IsLeaf(x) == Readable(x) /\ ~IsAggregate(object[x])

Init ==
    /\ object = [x \in Variables |-> Dead]
    /\ heap = [b \in Blocks |-> Free]
    /\ moved = {}

(* --------------------------- copies, moves and destruction --------------------------- *)

CopyMapShallow(o) == [b \in Owned(o) |-> b]         \* mutant: the union is copied as it is

(* Copy constructors allocate: every block of the original has a block of its own in the *)
(* copy.  Which of the free ones makes no difference.                                   *)
CopyMap(o) == CHOOSE f \in Injection(Owned(o), FreeBlocks) : TRUE

MemoryBound(n) == n <= Cardinality(FreeBlocks)

Renamed(o, f) == IF o.block = NoBlock THEN o ELSE [o EXCEPT !.block = f[o.block]]

CopiedContent(content, f) ==
    IF content.kind = "elems" THEN Elems([k \in DOMAIN content.at |-> Renamed(content.at[k], f)])
    ELSE content

WithCopies(f) ==
    [b \in Blocks |-> IF b \in Range(f) THEN CopiedContent(heap[Inverse(f, DOMAIN f, Range(f))[b]], f)
                      ELSE heap[b]]

(* What a moved-from integer, vector or map is: of the same type, and the owner of        *)
(* nothing.                                                                             *)
Emptied(o) == [o EXCEPT !.block = NoBlock]

(* Assignment calls clear() if the type changes; then the new value is constructed over   *)
(* the old one.                                                                         *)
ClearedFor(old, new) == IF old.type # new.type THEN Owned(old) ELSE {}

FreeAll(h, blocks) == [b \in Blocks |-> IF b \in blocks THEN Free ELSE h[b]]

Assign(x, o) == [object EXCEPT ![x] = o]

(* ------------------------------------ operations ------------------------------------- *)

(* getUndefValue, getIntValue, getFloatValue, getPointerValue                             *)
MakeInline(x) ==
    /\ ~Live(x)
    /\ \E leaf \in Inline : object' = Assign(x, Object(leaf.type, leaf.val, NoBlock))
    /\ UNCHANGED <<heap, moved>>

NewBlock == CHOOSE b \in FreeBlocks : TRUE

MakeWithBlock(x, type, content) ==
    /\ ~Live(x) /\ MemoryBound(1)
    /\ object' = Assign(x, Object(type, 0, NewBlock))
    /\ heap' = [heap EXCEPT ![NewBlock] = content]
    /\ UNCHANGED moved

MakeWideInt(x) == \E v \in WideInts : MakeWithBlock(x, "int", Word(v))

MakeArray(x) ==
    \E n \in Lengths : MakeWithBlock(x, "array", Elems([i \in 0 .. n - 1 |-> UndefObject]))

MakeStruct(x) ==
    ~Live(x) /\ object' = Assign(x, Object("struct", 0, NoBlock)) /\ UNCHANGED <<heap, moved>>

(* copyFrom, after what the constructor or the assignment does about the old value         *)
CopyFrom(x, y) ==
    /\ Readable(y)
    /\ MemoryBound(Cardinality(Owned(object[y])))
    /\ LET f == CopyMap(object[y])
       IN  /\ heap' = FreeAll(WithCopies(f), ClearedFor(object[x], object[y]))
           /\ object' = Assign(x, Renamed(object[y], f))
    /\ moved' = moved \ {x}

CopyConstruct(x, y) == ~Live(x) /\ CopyFrom(x, y)
CopyAssign(x, y) == Live(x) /\ CopyFrom(x, y)

MoveFrom(x, y) ==
    /\ Readable(y)
    /\ heap' = FreeAll(heap, ClearedFor(object[x], object[y]))
    /\ object' = [Assign(x, object[y]) EXCEPT ![y] = Emptied(object[y])]
    /\ moved' = (moved \ {x}) \cup {y}

MoveConstruct(x, y) == ~Live(x) /\ MoveFrom(x, y)
MoveAssign(x, y) == Live(x) /\ MoveFrom(x, y)

(* setElementAtIndex: the index is asserted to be in range; the element is move-assigned. *)
SetElement(x, i, y) ==
    /\ Readable(x) /\ object[x].type = "array" /\ i \in DOMAIN heap[object[x].block].at
    /\ IsLeaf(y)
    /\ LET array == object[x].block
       IN  heap' = [FreeAll(heap, ClearedFor(heap[array].at[i], object[y]))
                       EXCEPT ![array].at[i] = object[y]]
    /\ object' = Assign(y, Emptied(object[y]))
    /\ moved' = moved \cup {y}

FieldsOf(o) == IF o.block = NoBlock THEN <<>> ELSE heap[o.block].at

(* addField: there is no field at the offset yet (an assertion).  Fields are added in the *)
(* order of the struct's layout, so offsets grow.                                        *)
AddField(x, offset, y) ==
    /\ Readable(x) /\ object[x].type = "struct" /\ IsLeaf(y)
    /\ \A o \in DOMAIN FieldsOf(object[x]) : o < offset
    /\ object[x].block = NoBlock => MemoryBound(1)
    /\ LET fields == FieldsOf(object[x])
           block == IF object[x].block = NoBlock THEN NewBlock ELSE object[x].block
       IN  /\ heap' = [heap EXCEPT ![block] =
                          Elems([o \in DOMAIN fields \cup {offset} |->
                                    IF o = offset THEN object[y] ELSE fields[o]])]
           /\ object' = [Assign(y, Emptied(object[y])) EXCEPT ![x].block = block]
    /\ moved' = moved \cup {y}

(* getElementAtIndex, getFieldAtNum: a copy of the n-th element in the order of the keys.  *)
KeyAtFromEnd(at, n) ==                                  \* mutant: from the last one down
    CHOOSE k \in DOMAIN at : Cardinality({l \in DOMAIN at : l > k}) = n - 1

KeyAt(at, n) == CHOOSE k \in DOMAIN at : Cardinality({l \in DOMAIN at : l < k}) = n - 1

GetElement(x, y, n) ==
    /\ ~Live(x) /\ Readable(y) /\ IsAggregate(object[y])
    /\ n \in 1 .. Cardinality(DOMAIN FieldsOf(object[y]))
    /\ LET element == FieldsOf(object[y])[KeyAt(FieldsOf(object[y]), n)]
           f == CopyMap(element)
       IN  /\ MemoryBound(Cardinality(Owned(element)))
           /\ heap' = WithCopies(f)
           /\ object' = Assign(x, Renamed(element, f))
    /\ UNCHANGED moved

(* ~DynamicValue(), at the end of a scope or when a frame is popped                        *)
Destroy(x) ==
    /\ Live(x)
    /\ heap' = FreeAll(heap, Owned(object[x]))
    /\ object' = Assign(x, Dead)
    /\ moved' = moved \ {x}

(* Nothing reaches a block without an owner: but for these, what follows a leak is what     *)
(* follows the same state without it.                                                    *)
LeakBound == Cardinality(Blocks \ (FreeBlocks \cup OwnedBySomeone)) <= MaxLost

(* An object is never assigned to itself, and read no more after a move.                  *)
Step ==
    \/ \E x \in Variables :
          MakeInline(x) \/ MakeWideInt(x) \/ MakeArray(x) \/ MakeStruct(x) \/ Destroy(x)
    \/ \E x, y \in Variables : x # y /\
          \/ CopyConstruct(x, y) \/ CopyAssign(x, y) \/ MoveConstruct(x, y) \/ MoveAssign(x, y)
          \/ \E i \in 0 .. Max(Lengths) - 1 : SetElement(x, i, y)
          \/ \E offset \in Offsets : AddField(x, offset, y)
          \/ \E n \in 1 .. Max(Lengths \cup {Cardinality(Offsets)}) : GetElement(x, y, n)

Next == LeakBound /\ Step

Spec == Init /\ [][Next]_vars

(* ---------------------------------- properties -------------------------------------- *)

Types == {"none", "undef", "int", "float", "ptr", "array", "struct"}
Vals == {0} \cup {leaf.val : leaf \in Inline}
ObjectType == [type : Types, val : Vals, block : Blocks \cup {NoBlock}]

(* Objects are a type, a value and at most one block; a block holds one integer or objects *)
(* that are leaves and alive.                                                            *)
TypeOK ==
    /\ object \in [Variables -> ObjectType]
    /\ moved \subseteq {x \in Variables : Live(x)}
    /\ \A b \in Blocks \ FreeBlocks :
          \/ heap[b].kind = "word" /\ heap[b].value \in WideInts
          \/ /\ heap[b].kind = "elems" /\ DOMAIN heap[b].at # {}
             /\ \A e \in Range(heap[b].at) :
                   e \in ObjectType /\ ~IsAggregate(e) /\ e.type # "none"

(* Every object that is alive, in a variable or in a block that a variable owns, with where *)
(* it is.                                                                                *)
Places ==
    {<<x>> : x \in Variables}
    \cup UNION {{<<x, k>> : k \in DOMAIN FieldsOf(object[x])} :
                    x \in {y \in Variables : IsAggregate(object[y]) /\ object[y].block # NoBlock}}

At(place) == IF Len(place) = 1 THEN object[place[1]] ELSE FieldsOf(object[place[1]])[place[2]]

(* A block has one owner, and what is owned is allocated: a destructor never frees a block  *)
(* that another object uses or that is free already, in whatever order values are copied,  *)
(* moved, stored into aggregates and destroyed.                                           *)
OwnedOnce ==
    \A p \in Places :
        At(p).block # NoBlock =>
            /\ heap[At(p).block] # Free
            /\ \A q \in Places : At(q).block = At(p).block => q = p

(* No block is lost: whatever a value owned is given back when the data become a pointer   *)
(* to somewhere else, as the comment on clear() asks (DynamicValue.h:151).  The assignments *)
(* call clear() only if the type changes (DynamicValue.cpp:151, 163), so it does not hold. *)
NothingLost == Blocks = FreeBlocks \cup OwnedBySomeone

(* How far that goes: a step loses a block only if it assigns a value over one of the same  *)
(* type that owned the block.                                                            *)
LostBlocks == OwnedBySomeone \ ({b \in Blocks : heap'[b] = Free} \cup OwnedBySomeone')

LeaksOnlyOverSameType ==
    [][\A b \in LostBlocks :
          \E p \in Places : /\ b \in Owned(At(p)) /\ At(p).block \in LostBlocks
                            /\ p \in Places' /\ At(p)'.type = At(p).type]_vars

(* The variables hold values: what an object does to its blocks is never seen in another.   *)
LeafValue(o) == IF o.block = NoBlock THEN [type |-> o.type, val |-> o.val]
                ELSE [type |-> o.type, val |-> heap[o.block].value]

ValueOf(o) ==
    IF ~IsAggregate(o) THEN LeafValue(o)
    ELSE [type |-> o.type,
          elems |-> [n \in 1 .. Cardinality(DOMAIN FieldsOf(o)) |->
                        LeafValue(FieldsOf(o)[KeyAt(FieldsOf(o), n)])]]

Gone(how) == [type |-> how]

Contents == [x \in Variables |-> IF ~Live(x) THEN Gone("nothing")
                                 ELSE IF x \in moved THEN Gone("unspecified")
                                 ELSE ValueOf(object[x])]

Leaves == Inline \cup {[type |-> "int", val |-> v] : v \in WideInts}

Store == INSTANCE ValueStore WITH
    store <- Contents,
    Undef <- [type |-> "undef", val |-> 0],
    Nothing <- Gone("nothing"),
    Unspecified <- Gone("unspecified")

HoldsValues == Store!Spec
=================================================================================
