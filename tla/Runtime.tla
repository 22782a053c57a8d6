--------------------------------- MODULE Runtime ---------------------------------
(* The memory of a running guest program: the three MemorySections of Interpreter, *)
(* its stack of frames, and every operation through which an executing program      *)
(* allocates, accesses and releases memory (Interpreter.cpp, External.cpp, and the  *)
(* memory instructions of Evaluation.cpp).                                          *)
(*                                                                                  *)
(* The guest is the most general well-behaved program: at each step it may do any   *)
(* operation on any object it still owns, or dereference an address that is not     *)
(* allocated at all (a null or dangling pointer), which the interpreter rejects.    *)
(* "objects" and "frameBase" are history variables: what the program believes it    *)
(* owns.  "op" is the last operation and the bytes that the language says it left   *)
(* (or found) at a place of an object.  The code reads none of the three.           *)
EXTENDS MemorySection, FiniteSets

CONSTANTS
    Id,             \* names of live objects; its size bounds how many there can be
    GlobalSizes,    \* sizes of globals, function slots and argv blocks
    AllocaSizes,    \* getTypeAllocSize() of the types of alloca instructions
    AllocaElems,    \* element counts of allocas, as the "unsigned" that the code keeps them in
    MallocSizes,    \* arguments of malloc (64-bit, before the conversion to unsigned)
    AccessSizes,    \* bytes of a load, store, memcpy or memset
    Externals,      \* the block-copy functions the program calls
    MaxDepth        \* bound on the depth of the call stack

ASSUME RuntimeAssumption ==
    /\ GlobalSizes \subseteq Nat /\ AllocaSizes \subseteq Nat /\ AllocaElems \subseteq Nat
    /\ MallocSizes \subseteq Nat /\ AccessSizes \subseteq Nat \ {0}
    /\ Externals \subseteq {"memcpy", "memmove"}
    /\ MaxDepth \in Nat \ {0}

VARIABLES
    sec,        \* globalMem, stackMem and heapMem
    frames,     \* StackFrames: the allocSize of each frame, the running one last
    status,     \* which phase the process is in, or why it has terminated
    objects,    \* history: the live objects, by name
    frameBase,  \* history: stackMem.usedSize when each frame was created
    op          \* history: the last operation

memory == <<sec, frames, objects, frameBase>>
vars == <<sec, frames, status, objects, frameBase, op>>

Space == {"GLOBAL", "STACK", "HEAP"}

(* "sectionFull" is the failed assertion of allocate(), "outOfRange" the exception   *)
(* of an access to unallocated memory, "badFree" the llvm_unreachable of free.       *)
Aborted == {"sectionFull", "outOfRange", "badFree"}
Status == {"startup", "running", "returned"} \cup Aborted

Object == [space : Space, addr : Nat, size : Nat, depth : Nat]

NoOp == [kind |-> "none"]

depth == Len(frames)

----------------------------------------------------------------------------------
FreshId == CHOOSE id \in Id : id \notin DOMAIN objects

(* The program comes to own size bytes at addr, until the frame at depth d returns.  *)
Own(sp, addr, size, d) ==
    /\ objects' = [id \in DOMAIN objects \cup {FreshId} |->
                     IF id = FreshId
                     THEN [space |-> sp, addr |-> addr, size |-> size, depth |-> d]
                     ELSE objects[id]]
    /\ op' = NoOp

Disown(ids) == objects' = [id \in DOMAIN objects \ ids |-> objects[id]]

CanOwn == Id \ DOMAIN objects # {}

Abort(reason) == status' = reason /\ op' = NoOp /\ UNCHANGED memory

InObject(id, off, n) == id \in DOMAIN objects /\ off + n <= objects[id].size

SectionOf(id) == sec[objects[id].space]

----------------------------------------------------------------------------------
(* Interpreter construction *)
Init ==
    /\ sec = [sp \in Space |-> NewSection]
    /\ frames = <<>>
    /\ status = "startup"
    /\ objects = [id \in {} |-> NoOp]
    /\ frameBase = <<>>
    /\ op = NoOp

(* evaluateGlobals and createArgvArray reserve global memory before main starts.     *)
AllocateGlobal(size) ==
    LET s == sec["GLOBAL"]
        n == ToUnsigned(size)
    IN  /\ status = "startup"
        /\ CanOwn
        /\ \/ /\ CanAllocate(s, n)
              /\ sec' = [sec EXCEPT !["GLOBAL"] = Allocate(s, n)]
              /\ Own("GLOBAL", s.usedSize, size, 0)
              /\ UNCHANGED <<frames, frameBase, status>>
           \/ ~CanAllocate(s, n) /\ Abort("sectionFull")

CreateFrame ==
    /\ frames' = Append(frames, 0)
    /\ frameBase' = Append(frameBase, sec["STACK"].usedSize)
    /\ op' = NoOp

RunMain ==
    /\ status = "startup"
    /\ status' = "running"
    /\ CreateFrame
    /\ UNCHANGED <<sec, objects>>

CallFunction ==
    /\ status = "running"
    /\ depth < MaxDepth
    /\ CreateFrame
    /\ UNCHANGED <<sec, objects, status>>

AllocaUncounted(size, elems) ==      \* mutant: only the first element is counted
    LET s == sec["STACK"]
        n == (IF elems = 0 THEN 1 ELSE elems) * ToUnsigned(size)
    IN  /\ status = "running" /\ CanOwn /\ CanAllocate(s, n)
        /\ sec' = [sec EXCEPT !["STACK"] = Allocate(s, n)]
        /\ frames' = [frames EXCEPT ![depth] = ToUnsigned(@ + size)]
        /\ Own("STACK", s.usedSize, n, depth)
        /\ UNCHANGED <<frameBase, status>>

(* Alloca reserves its elements one after the other, at least one of them, adding    *)
(* each to the frame's allocSize: back to back, they are one block.                  *)
Alloca(size, elems) ==
    LET s == sec["STACK"]
        n == (IF elems = 0 THEN 1 ELSE elems) * ToUnsigned(size)
    IN  /\ status = "running"
        /\ CanOwn
        /\ \/ /\ CanAllocate(s, n)
              /\ sec' = [sec EXCEPT !["STACK"] = Allocate(s, n)]
              /\ frames' = [frames EXCEPT ![depth] = ToUnsigned(@ + n)]
              /\ Own("STACK", s.usedSize, n, depth)
              /\ UNCHANGED <<frameBase, status>>
           \/ ~CanAllocate(s, n) /\ Abort("sectionFull")

Malloc(size) ==
    LET s == sec["HEAP"]
        n == ToUnsigned(size)
    IN  /\ status = "running"
        /\ CanOwn
        /\ \/ /\ CanAllocate(s, n)
              /\ sec' = [sec EXCEPT !["HEAP"] = Allocate(s, n)]
              /\ Own("HEAP", s.usedSize, size, 0)
              /\ UNCHANGED <<frames, frameBase, status>>
           \/ ~CanAllocate(s, n) /\ Abort("sectionFull")

FreeShrinks(id) ==                   \* mutant: free gives the block's bytes back
    /\ status = "running"
    /\ id \in DOMAIN objects
    /\ objects[id].space = "HEAP"
    /\ sec' = [sec EXCEPT !["HEAP"] = Deallocate(@, objects[id].size)]
    /\ Disown({id})
    /\ op' = NoOp
    /\ UNCHANGED <<frames, frameBase, status>>

(* MemorySection::free does nothing, so the block stays reserved; the program may    *)
(* not use it again.                                                                 *)
Free(id) ==
    /\ status = "running"
    /\ id \in DOMAIN objects
    /\ \/ /\ objects[id].space = "HEAP"
          /\ Disown({id})
          /\ op' = NoOp
          /\ UNCHANGED <<sec, frames, frameBase, status>>
       \/ objects[id].space # "HEAP" /\ Abort("badFree")

----------------------------------------------------------------------------------
(* Load: readFromPointer of a value of n bytes, off bytes into an object.            *)
Load(id, off, n) ==
    LET a == objects[id].addr + off
    IN  /\ status = "running"
        /\ InObject(id, off, n)
        /\ \/ /\ IsAddressLegal(SectionOf(id), a)
              /\ op' = [kind |-> "load", obj |-> id, off |-> off,
                        bytes |-> ReadBytes(SectionOf(id), a, n)]
              /\ UNCHANGED <<sec, frames, objects, frameBase, status>>
           \/ ~IsAddressLegal(SectionOf(id), a) /\ Abort("outOfRange")

PutOnStack(id, off, bytes) ==        \* mutant: every pointer is taken for a stack pointer
    [sec EXCEPT !["STACK"] = WriteBytes(@, objects[id].addr + off, bytes)]

PutAtBase(id, off, bytes) ==         \* mutant: the offset of the access is lost
    [sec EXCEPT ![objects[id].space] = WriteBytes(@, objects[id].addr, bytes)]

(* What writing bytes into object id makes of the sections.                          *)
Put(id, off, bytes) ==
    [sec EXCEPT ![objects[id].space] = WriteBytes(@, objects[id].addr + off, bytes)]

(* Store: writeToPointer.  Initialisers of globals are written in the same way.      *)
Store(id, off, bytes) ==
    /\ status \in {"startup", "running"}
    /\ InObject(id, off, Len(bytes))
    /\ \/ /\ IsAddressLegal(SectionOf(id), objects[id].addr + off)
          /\ sec' = Put(id, off, bytes)
          /\ op' = [kind |-> "write", obj |-> id, off |-> off, bytes |-> bytes]
          /\ UNCHANGED <<frames, objects, frameBase, status>>
       \/ ~IsAddressLegal(SectionOf(id), objects[id].addr + off) /\ Abort("outOfRange")

(* memset goes through getRawPointer, which checks nothing.                          *)
Memset(id, off, n, fill) ==
    LET bytes == [i \in 1 .. n |-> fill]
    IN  /\ status = "running"
        /\ InObject(id, off, n)
        /\ sec' = Put(id, off, bytes)
        /\ op' = [kind |-> "write", obj |-> id, off |-> off, bytes |-> bytes]
        /\ UNCHANGED <<frames, objects, frameBase, status>>

Overlap(a, b, n) == a < b + n /\ b < a + n

(* memcpy and memmove both end in std::memcpy on raw pointers.  A program calls      *)
(* memcpy only for ranges that do not overlap; memmove is there for those that do.   *)
MemCopy(name, dst, doff, src, soff, n) ==
    LET a == objects[dst].addr + doff
        b == objects[src].addr + soff
        sp == objects[dst].space
        same == sp = objects[src].space
        bytes == ReadBytes(SectionOf(src), b, n)
    IN  /\ status = "running"
        /\ InObject(dst, doff, n) /\ InObject(src, soff, n)
        /\ name = "memmove" \/ ~same \/ ~Overlap(a, b, n)
        /\ \E result \in IF same THEN CopyResults(sec[sp].mem, a, b, n) ELSE {bytes} :
              sec' = Put(dst, doff, result)
        /\ op' = [kind |-> "copy", obj |-> dst, off |-> doff, bytes |-> bytes]
        /\ UNCHANGED <<frames, objects, frameBase, status>>

(* Load or Store through an address that is not allocated: readAs*() and write()     *)
(* throw, and nothing catches.                                                       *)
AccessUnallocated(sp, a) ==
    /\ status = "running"
    /\ ~IsAddressLegal(sec[sp], a)
    /\ Abort("outOfRange")

ReturnLate ==                        \* mutant: the frame is dropped before its size is read
    /\ status = "running"
    /\ sec' = [sec EXCEPT !["STACK"] =
                 Deallocate(@, IF depth = 1 THEN 0 ELSE frames[depth - 1])]
    /\ frames' = SubSeq(frames, 1, depth - 1)
    /\ status' = IF depth = 1 THEN "returned" ELSE "running"
    /\ frameBase' = SubSeq(frameBase, 1, depth - 1)
    /\ Disown({id \in DOMAIN objects : objects[id].depth = depth})
    /\ op' = NoOp

(* Ret: popStack releases what the frame's allocas took, then drops the frame.       *)
Return ==
    /\ status = "running"
    /\ sec' = [sec EXCEPT !["STACK"] = Deallocate(@, frames[depth])]
    /\ frames' = SubSeq(frames, 1, depth - 1)
    /\ status' = IF depth = 1 THEN "returned" ELSE "running"
    /\ frameBase' = SubSeq(frameBase, 1, depth - 1)
    /\ Disown({id \in DOMAIN objects : objects[id].depth = depth})
    /\ op' = NoOp

----------------------------------------------------------------------------------
Offset(id) == 0 .. objects[id].size - 1

Next ==
    \/ \E size \in GlobalSizes : AllocateGlobal(size)
    \/ RunMain
    \/ CallFunction
    \/ \E size \in AllocaSizes, elems \in AllocaElems : Alloca(size, elems)
    \/ \E size \in MallocSizes : Malloc(size)
    \/ \E id \in DOMAIN objects : Free(id)
    \/ \E id \in DOMAIN objects, n \in AccessSizes : \E off \in Offset(id) :
          \/ Load(id, off, n)
          \/ \E bytes \in [1 .. n -> Byte] : Store(id, off, bytes)
          \/ \E fill \in Byte : Memset(id, off, n, fill)
    \/ \E name \in Externals, dst, src \in DOMAIN objects, n \in AccessSizes :
          \E doff \in Offset(dst), soff \in Offset(src) :
             MemCopy(name, dst, doff, src, soff, n)
    \/ \E sp \in Space, a \in Address : AccessUnallocated(sp, a)
    \/ Return

Spec == Init /\ [][Next]_vars
----------------------------------------------------------------------------------
Cells(id) == objects[id].addr .. objects[id].addr + objects[id].size - 1

BytesOf(id) == ReadBytes(SectionOf(id), objects[id].addr, objects[id].size)

TypeOK ==
    /\ sec \in [Space -> Section]
    /\ frames \in Seq(Nat)
    /\ frameBase \in Seq(Nat)
    /\ status \in Status
    /\ DOMAIN objects \subseteq Id
    /\ objects \in [DOMAIN objects -> Object]

(* What the frames say they allocated is exactly what is in use of stackMem: every   *)
(* frame starts where its caller's allocations ended (allocateStackMem counts each   *)
(* byte in the frame that made it, and popStack gives back no other).                *)
FrameAccounting ==
    /\ Len(frameBase) = Len(frames)
    /\ \A i \in 1 .. depth :
          frameBase[i] = IF i = 1 THEN 1 ELSE frameBase[i-1] + frames[i-1]
    /\ sec["STACK"].usedSize = IF depth = 0 THEN 1 ELSE frameBase[depth] + frames[depth]

(* No two live objects share a byte: not two blocks of the heap, not an alloca of a  *)
(* callee and one of a caller whose frame is still there.                            *)
NoOverlap ==
    \A i, j \in DOMAIN objects :
        i # j /\ objects[i].space = objects[j].space => Cells(i) \cap Cells(j) = {}

(* isAddressLegal, which looks only at usedSize, accepts every byte of every live    *)
(* object: a correct program never meets the out_of_range exception.                 *)
ObjectsLegal ==
    \A id \in DOMAIN objects : \A a \in Cells(id) : IsAddressLegal(SectionOf(id), a)

(* On the stack the converse holds too: the interpreter accepts an address only if   *)
(* it lies in an alloca of a frame that has not returned, so a pointer to a popped   *)
(* frame is rejected until a later alloca takes the place.                           *)
StackTiling ==
    \A a \in Address : IsAddressLegal(sec["STACK"], a) =>
        \E id \in DOMAIN objects : objects[id].space = "STACK" /\ a \in Cells(id)

(* A write, a memset or a block copy leaves at its destination the bytes that the    *)
(* language says, for a copy the ones its source held before it; a load finds them.  *)
ContentsAsWritten ==
    op.kind # "none" =>
        ReadBytes(SectionOf(op.obj), objects[op.obj].addr + op.off, Len(op.bytes)) = op.bytes

(* Only a write to an object changes the bytes of that object: calls, returns,       *)
(* allocations and writes to other objects leave them alone.                         *)
Isolation ==
    [][\A id \in DOMAIN objects \cap DOMAIN objects' :
         BytesOf(id)' # BytesOf(id) => op'.kind # "none" /\ op'.obj = id]_vars

(* A return brings the stack section back to where it was when the frame was made,   *)
(* however many calls and allocas happened in between.                               *)
PopRestores ==
    [][Len(frames') < Len(frames) => sec'["STACK"].usedSize = frameBase[depth]]_vars

(* Memory.h:15 says that a section "can automatically grow when the memory limit is  *)
(* reached": a program that needs more than the default size is not terminated.      *)
GrowsWhenFull == status # "sectionFull"

----------------------------------------------------------------------------------
(* What the sections promise together: a store of objects addressed by name.         *)
AbsObjects == [id \in DOMAIN objects |-> [depth |-> objects[id].depth, data |-> BytesOf(id)]]

Abs == INSTANCE ObjectMemory WITH objects <- AbsObjects

ImplementsStore == Abs!Spec
================================================================================
