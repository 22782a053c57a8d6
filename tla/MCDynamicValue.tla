----------------------------- MODULE MCDynamicValue ------------------------------
(* Three objects, and values of every kind that an assignment treats differently.      *)
EXTENDS DynamicValue, TLC

MCInline == {[type |-> "undef", val |-> 0], [type |-> "int", val |-> 1]}
Symmetry == Permutations(Variables)
=================================================================================
