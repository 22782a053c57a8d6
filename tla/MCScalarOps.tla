------------------------------ MODULE MCScalarOps ------------------------------
(* Numbers on both sides of zero and NaN; pointers of each space, two of which have    *)
(* the same address, and two with which the end of the address space is near.          *)
EXTENDS ScalarOps

MCFloats == {-5, -3, -1, 0, 1, 2, 6, NaN}

MCPointers == {[space |-> "global", addr |-> 0], [space |-> "global", addr |-> 2],
               [space |-> "stack", addr |-> 2], [space |-> "heap", addr |-> 6]}
================================================================================
