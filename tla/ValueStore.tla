------------------------------- MODULE ValueStore --------------------------------
(* What DynamicValue promises its users: variables that hold values.  A copy is a     *)
(* value of its own, a moved value goes where it was moved to, an aggregate is a       *)
(* sequence of elements, and no operation changes a variable it does not name.        *)
EXTENDS Integers, Sequences

CONSTANTS
    Variables,      \* the names of the variables
    Leaves,         \* the values that are no aggregates
    Undef,          \* ... one of which is what an array starts with
    Lengths,        \* the numbers of elements that arrays are made with
    Nothing,        \* what a variable holds that does not exist
    Unspecified     \* what one holds whose value was moved away

VARIABLE store

Aggregate(type, elems) == [type |-> type, elems |-> elems]

Readable(x) == store[x] \notin {Nothing, Unspecified}
IsAggregate(x) == Readable(x) /\ store[x] \notin Leaves
ElementsOf(x) == IF IsAggregate(x) THEN store[x].elems ELSE <<>>
IsLeaf(x) == store[x] \in Leaves

Init == store = [x \in Variables |-> Nothing]

Give(x, v) == store' = [store EXCEPT ![x] = v]

Make(x) ==
    /\ store[x] = Nothing
    /\ \/ \E v \in Leaves : Give(x, v)
       \/ \E n \in Lengths : Give(x, Aggregate("array", [i \in 1 .. n |-> Undef]))
       \/ Give(x, Aggregate("struct", <<>>))

Copy(x, y) == Readable(y) /\ Give(x, store[y])

Move(x, y) == Readable(y) /\ store' = [store EXCEPT ![x] = store[y], ![y] = Unspecified]

SetElement(x, i, y) ==
    /\ IsAggregate(x) /\ IsLeaf(y) /\ i \in DOMAIN store[x].elems
    /\ store' = [store EXCEPT ![x].elems[i] = store[y], ![y] = Unspecified]

AddField(x, y) ==
    /\ IsAggregate(x) /\ IsLeaf(y)
    /\ store' = [store EXCEPT ![x].elems = Append(@, store[y]), ![y] = Unspecified]

GetElement(x, y, i) ==
    /\ store[x] = Nothing /\ IsAggregate(y) /\ i \in DOMAIN store[y].elems
    /\ Give(x, store[y].elems[i])

Destroy(x) == store[x] # Nothing /\ Give(x, Nothing)

Next ==
    \/ \E x \in Variables : Make(x) \/ Destroy(x)
    \/ \E x, y \in Variables : x # y /\
          \/ Copy(x, y) \/ Move(x, y) \/ AddField(x, y)
          \/ \E i \in DOMAIN ElementsOf(x) : SetElement(x, i, y)
          \/ \E i \in DOMAIN ElementsOf(y) : GetElement(x, y, i)

Spec == Init /\ [][Next]_store
=================================================================================
