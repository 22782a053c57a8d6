------------------------------ MODULE ObjectMemory -------------------------------
(* The memory that an LLVM program is promised: objects with names instead of        *)
(* addresses.  An object appears with unspecified contents, belongs to a call or to  *)
(* nobody, changes only when it is written, and is gone when its call returns or it  *)
(* is freed.  A block copy behaves as if it read its whole source first.             *)
EXTENDS Integers, Sequences

CONSTANTS Id, Byte

VARIABLES
    objects,    \* by name: the depth of the call that owns it (0: none) and its bytes
    frames,     \* the call stack, of which only the length matters here
    op          \* the last operation on contents

depth == Len(frames)

Init ==
    /\ objects = [id \in {} |-> op]
    /\ depth = 0
    /\ op = [kind |-> "none"]

Others(ids) == [id \in DOMAIN objects \ ids |-> objects[id]]

Kept(ids) == [id \in DOMAIN objects \ ids |-> objects'[id]]

Appears ==
    \E id \in Id \ DOMAIN objects :
        /\ DOMAIN objects' = DOMAIN objects \cup {id}
        /\ Kept({}) = objects
        /\ objects'[id].depth \in {0, depth}
        /\ depth' = depth
        /\ op' = [kind |-> "none"]

Freed ==
    \E id \in DOMAIN objects :
        /\ objects[id].depth = 0
        /\ objects' = Others({id})
        /\ depth' = depth
        /\ op' = [kind |-> "none"]

Splice(data, off, bytes) ==
    [i \in DOMAIN data |-> IF i \in off + 1 .. off + Len(bytes) THEN bytes[i - off] ELSE data[i]]

Holds(id, off, bytes) ==
    /\ off + Len(bytes) <= Len(objects[id].data)
    /\ SubSeq(objects[id].data, off + 1, off + Len(bytes)) = bytes

Loaded ==
    /\ op'.kind = "load"
    /\ op'.obj \in DOMAIN objects
    /\ Holds(op'.obj, op'.off, op'.bytes)
    /\ UNCHANGED <<objects, frames>>

Write ==
    /\ op'.obj \in DOMAIN objects
    /\ objects' = [objects EXCEPT ![op'.obj].data = Splice(@, op'.off, op'.bytes)]
    /\ UNCHANGED frames

Written == op'.kind = "write" /\ Write

Copied ==
    /\ op'.kind = "copy"
    /\ \E src \in DOMAIN objects : \E soff \in 0 .. Len(objects[src].data) :
          Holds(src, soff, op'.bytes)
    /\ Write

Called ==
    /\ depth' = depth + 1
    /\ UNCHANGED objects
    /\ op' = [kind |-> "none"]

Returned ==
    /\ depth > 0
    /\ depth' = depth - 1
    /\ objects' = Others({id \in DOMAIN objects : objects[id].depth = depth})
    /\ op' = [kind |-> "none"]

(* The interpreter gives up; the program does no more. *)
Stopped == op' = [kind |-> "none"] /\ UNCHANGED <<objects, frames>>

Next == Appears \/ Freed \/ Loaded \/ Written \/ Copied \/ Called \/ Returned \/ Stopped

Spec == Init /\ [][Next]_<<objects, frames, op>>
================================================================================
