------------------------------ MODULE MemorySection ------------------------------
(* One MemorySection of the interpreter (include/LLVMInterpreter/Memory.h): a raw  *)
(* byte array handed out from its low end by a bump allocator.  The interpreter    *)
(* owns three of them: globalMem, stackMem and heapMem.                             *)
(*                                                                                  *)
(* A section is a record; the operators below are its member functions.  Address 0  *)
(* is the null pointer, so a fresh section has one byte in use.                     *)
EXTENDS Integers, Sequences

CONSTANTS
    DEFAULT_SIZE,   \* bytes of a fresh section (0x100000 in the code)
    UINT_MOD,       \* 2^w for the w-bit "unsigned" that carries allocation sizes
    Byte,           \* the values a byte of memory can hold
    Garbage         \* the byte that stands for whatever new uint8_t[] left there

ASSUME SectionAssumption ==
    /\ DEFAULT_SIZE \in Nat \ {0, 1}
    /\ UINT_MOD \in Nat \ {0}
    /\ DEFAULT_SIZE <= UINT_MOD
    /\ Garbage \in Byte

Address == 0 .. DEFAULT_SIZE - 1

Section == [totalSize : {DEFAULT_SIZE}, usedSize : 1 .. DEFAULT_SIZE, mem : [Address -> Byte]]

NewSectionFromZero ==                \* mutant: address 0 is not set aside
    [totalSize |-> DEFAULT_SIZE, usedSize |-> 0, mem |-> [a \in Address |-> Garbage]]

NewSection == [totalSize |-> DEFAULT_SIZE, usedSize |-> 1, mem |-> [a \in Address |-> Garbage]]

(* An implicit conversion to unsigned at a call of allocate() or allocateStackMem(). *)
ToUnsigned(n) == n % UINT_MOD

(* grow() replaces the buffer by one of twice the size; totalSize stays as it was.   *)
Grow(s) ==
    [s EXCEPT !.mem = [a \in 0 .. 2 * s.totalSize - 1 |->
                          IF a < s.totalSize THEN s.mem[a] ELSE Garbage]]

Reserve(s, size) == IF s.usedSize + size >= s.totalSize THEN Grow(s) ELSE s

(* The assertion of allocate(), made after the section has had its chance to grow.   *)
CanAllocate(s, size) ==
    LET r == Reserve(s, size) IN r.usedSize + size < r.totalSize

(* allocate(): the new bytes start at the old usedSize, and are not initialised.     *)
Allocate(s, size) == [Reserve(s, size) EXCEPT !.usedSize = @ + size]

Deallocate(s, size) == [s EXCEPT !.usedSize = @ - size]

IsAddressInBuffer(s, a) == a <= s.usedSize /\ a # 0     \* mutant: one past the end

IsAddressBelowLast(s, a) == a < s.usedSize - 1 /\ a # 0 \* mutant: the last byte is lost

IsAddressLegal(s, a) == a < s.usedSize /\ a # 0

ReadBytes(s, a, n) == [i \in 1 .. n |-> s.mem[a + i - 1]]

WriteBytes(s, a, bytes) ==
    [s EXCEPT !.mem = [x \in DOMAIN s.mem |->
        IF x \in a .. a + Len(bytes) - 1 THEN bytes[x - a + 1] ELSE s.mem[x]]]

(* What std::memcpy(mem + dst, mem + src, n) inside one section may leave at dst. For *)
(* disjoint ranges the C standard allows only the source's bytes.  For overlapping    *)
(* ranges it allows anything; the usual implementations load the whole source first,  *)
(* or walk upwards (and when dst is above src, read bytes they have written: the      *)
(* first dst - src bytes of the source, over and over), or walk downwards.            *)
CopyResults(m, dst, src, n) ==
    {[i \in 1 .. n |-> m[src + i - 1]]}
    \cup (IF src < dst THEN {[i \in 1 .. n |-> m[src + ((i - 1) % (dst - src))]]} ELSE {})
    \cup (IF dst < src THEN {[i \in 1 .. n |-> m[src + n - 1 - ((n - i) % (src - dst))]]} ELSE {})
================================================================================
