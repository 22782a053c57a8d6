----------------------------- MODULE MCTypedMemory ------------------------------
(* Bytes of two bits and addresses of four: the objects are small and padded, the    *)
(* tags are where they are in the program.                                           *)
EXTENDS TypedMemory

Byte1 == IntT(2)
Byte2 == IntT(4)

Padded == StructT(<<Byte1, Byte2>>)                     \* a byte of padding inside
Tailed == StructT(<<PtrT, FloatT(FALSE)>>)              \* and bytes of it at the end
Nested == ArrayT(Padded, 2)
Buffer == StructT(<<FloatT(TRUE), ArrayT(Byte1, 2)>>)   \* read element by element

MCTypes == {Tailed, Nested, Buffer}

MCIntValues == {7}
MCPointers == {[space |-> s, addr |-> 3] : s \in {"global", "stack", "heap"}}
================================================================================
