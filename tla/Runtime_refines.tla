------------------------------ MODULE Runtime_refines ----------------------------
(* The memory of the interpreter implements the memory that a program is promised:    *)
(* what it writes it finds again, and every operation of Runtime is an operation of   *)
(* ObjectMemory on the objects' bytes, or does nothing that the program can see.      *)
EXTENDS Runtime_proofs

USE DEF depth

(* The copies that C defines: std::memcpy of ranges that do not overlap.  memmove is   *)
(* defined where they do, and the interpreter carries it out with memcpy.              *)
DefinedCopies == Externals \subseteq {"memcpy"}

RInv == IInv /\ ContentsAsWritten

----------------------------------------------------------------------------------
(* A live object and its section.                                                      *)
LEMMA ObjectFacts ==
    ASSUME IInv, NEW id \in DOMAIN objects
    PROVE  /\ objects[id].addr \in Nat /\ objects[id].size \in Nat /\ objects[id].space \in Space
           /\ objects[id].addr >= 1 /\ SectionOf(id) \in Section /\ sec \in [Space -> Section]
           /\ objects[id].addr + objects[id].size <= DEFAULT_SIZE
           /\ \A k \in Nat : k < objects[id].size => objects[id].addr + k \in Address
<1>1. /\ objects[id].addr \in Nat /\ objects[id].size \in Nat /\ objects[id].space \in Space
      /\ sec \in [Space -> Section]
  BY DEF IInv, TypeOK, Object
<1>2. SectionOf(id) \in Section /\ objects[id].addr >= 1
  BY <1>1 DEF SectionOf, IInv, Placed
<1>3. objects[id].addr + objects[id].size <= DEFAULT_SIZE
  <2>1. objects[id].addr + objects[id].size <= sec[objects[id].space].usedSize
    BY DEF IInv, Placed
  <2>2. sec[objects[id].space].usedSize \in 1 .. DEFAULT_SIZE
    BY <1>2 DEF Section, SectionOf
  <2> QED BY <1>1, <2>1, <2>2, SectionAssumption DEF SectionAssumption
<1>4. \A k \in Nat : k < objects[id].size => objects[id].addr + k \in Address
  BY <1>1, <1>3, SectionAssumption DEF Address, SectionAssumption
<1> QED BY <1>1, <1>2, <1>3, <1>4

(* Every byte that is written inside an object is found there, and the others are what *)
(* they were.                                                                          *)
LEMMA PutByte ==
    ASSUME IInv, NEW id \in DOMAIN objects, NEW off \in Nat, NEW bytes \in Seq(Byte),
           off + Len(bytes) <= objects[id].size, sec' = Put(id, off, bytes),
           NEW k \in 1 .. objects[id].size
    PROVE  sec'[objects[id].space].mem[objects[id].addr + k - 1]
             = IF k \in off + 1 .. off + Len(bytes) THEN bytes[k - off]
               ELSE SectionOf(id).mem[objects[id].addr + k - 1]
<1> DEFINE a == objects[id].addr
           s == SectionOf(id)
           x == a + k - 1
<1>1. a \in Nat /\ objects[id].size \in Nat /\ x \in Address /\ s \in Section
  <2>1. k - 1 \in Nat /\ k - 1 < objects[id].size /\ a + (k - 1) = x
    BY ObjectFacts
  <2> QED BY <2>1, ObjectFacts
<1>2. sec'[objects[id].space] = WriteBytes(s, a + off, bytes)
  BY ObjectFacts DEF Put, SectionOf
<1>3. WriteBytes(s, a + off, bytes).mem[x]
        = IF x \in a + off .. a + off + Len(bytes) - 1 THEN bytes[x - (a + off) + 1] ELSE s.mem[x]
  <2> HIDE DEF s, x
  <2> QED BY <1>1 DEF WriteBytes, Section
<1>4. /\ x \in a + off .. a + off + Len(bytes) - 1 <=> k \in off + 1 .. off + Len(bytes)
      /\ x - (a + off) + 1 = k - off
  <2>1. Len(bytes) \in Nat
    OBVIOUS
  <2> HIDE DEF a
  <2> QED BY <1>1, <2>1
<1> HIDE DEF a, s, x
<1> QED BY <1>2, <1>3, <1>4 DEF a, s, x

(* A program finds at a place of an object what its abstract contents say.             *)
LEMMA ReadsContents ==
    ASSUME IInv, NEW id \in DOMAIN objects, NEW off \in Nat, NEW n \in Nat,
           off + n <= objects[id].size
    PROVE  /\ ReadBytes(SectionOf(id), objects[id].addr + off, n)
                = [k \in 1 .. n |-> BytesOf(id)[k + off]]
           /\ DOMAIN BytesOf(id) = 1 .. objects[id].size /\ Len(BytesOf(id)) = objects[id].size
<1>1. objects[id].addr \in Nat /\ objects[id].size \in Nat
  BY ObjectFacts
<1>2. DOMAIN BytesOf(id) = 1 .. objects[id].size /\ Len(BytesOf(id)) = objects[id].size
  BY <1>1 DEF BytesOf, ReadBytes
<1>3. ASSUME NEW k \in 1 .. n
      PROVE  BytesOf(id)[k + off] = SectionOf(id).mem[objects[id].addr + off + k - 1]
  <2>1. k + off \in 1 .. objects[id].size
    BY <1>1
  <2>2. objects[id].addr + (k + off) - 1 = objects[id].addr + off + k - 1
    BY <1>1
  <2> QED BY <2>1, <2>2 DEF BytesOf, ReadBytes
<1> QED BY <1>2, <1>3 DEF ReadBytes

LEMMA WriteContents ==
    ASSUME IInv, NEW id \in DOMAIN objects, NEW off \in Nat, NEW bytes \in Seq(Byte),
           off + Len(bytes) <= objects[id].size, sec' = Put(id, off, bytes), objects' = objects
    PROVE  /\ BytesOf(id)' = [k \in 1 .. objects[id].size |->
                                IF k \in off + 1 .. off + Len(bytes) THEN bytes[k - off]
                                ELSE BytesOf(id)[k]]
           /\ ReadBytes(SectionOf(id), objects[id].addr + off, Len(bytes))' = bytes
<1>1. objects[id].addr \in Nat /\ objects[id].size \in Nat
  BY ObjectFacts
<1>2. BytesOf(id)' = [k \in 1 .. objects[id].size |->
                        sec'[objects[id].space].mem[objects[id].addr + k - 1]]
  BY DEF BytesOf, ReadBytes, SectionOf
<1>3. \A k \in 1 .. objects[id].size : BytesOf(id)[k] = SectionOf(id).mem[objects[id].addr + k - 1]
  BY DEF BytesOf, ReadBytes
<1>4. \A k \in 1 .. objects[id].size :
         sec'[objects[id].space].mem[objects[id].addr + k - 1]
             = IF k \in off + 1 .. off + Len(bytes) THEN bytes[k - off] ELSE BytesOf(id)[k]
  BY <1>3, PutByte
<1>5. BytesOf(id)' = [k \in 1 .. objects[id].size |->
                        IF k \in off + 1 .. off + Len(bytes) THEN bytes[k - off]
                        ELSE BytesOf(id)[k]]
  BY <1>2, <1>4
<1>6. ASSUME NEW k \in 1 .. Len(bytes)
      PROVE  sec'[objects[id].space].mem[objects[id].addr + off + k - 1] = bytes[k]
  <2>1. /\ k + off \in 1 .. objects[id].size /\ k + off \in off + 1 .. off + Len(bytes)
        /\ (k + off) - off = k
        /\ objects[id].addr + (k + off) - 1 = objects[id].addr + off + k - 1
    BY <1>1
  <2> QED BY <1>4, <2>1
<1>7. ReadBytes(SectionOf(id), objects[id].addr + off, Len(bytes))'
        = [k \in 1 .. Len(bytes) |-> bytes[k]]
  BY <1>6 DEF ReadBytes, SectionOf
<1>8. [k \in 1 .. Len(bytes) |-> bytes[k]] = bytes
  OBVIOUS
<1> QED BY <1>5, <1>7, <1>8

(* Between ranges that do not overlap, whatever order std::memcpy takes the bytes in    *)
(* leaves the source's.                                                                *)
LEMMA DefinedCopy ==
    ASSUME NEW s, NEW dst \in Nat, NEW src \in Nat, NEW n \in Nat \ {0}, ~Overlap(dst, src, n)
    PROVE  CopyResults(s.mem, dst, src, n) = {ReadBytes(s, src, n)}
<1> DEFINE m == s.mem
<1>0. ASSUME NEW i \in Nat, NEW k \in Nat \ {0}, i < k PROVE i % k = i
  BY <1>0
<1>1. ASSUME src < dst, NEW i \in 1 .. n PROVE src + ((i - 1) % (dst - src)) = src + i - 1
  <2>1. i - 1 \in Nat /\ dst - src \in Nat \ {0} /\ i - 1 < dst - src
    BY <1>1 DEF Overlap
  <2>2. (i - 1) % (dst - src) = i - 1
    BY <2>1, <1>0
  <2> QED BY <2>2
<1>2. ASSUME dst < src, NEW i \in 1 .. n
      PROVE  src + n - 1 - ((n - i) % (src - dst)) = src + i - 1
  <2>1. n - i \in Nat /\ src - dst \in Nat \ {0} /\ n - i < src - dst
    BY <1>2 DEF Overlap
  <2>2. (n - i) % (src - dst) = n - i
    BY <2>1, <1>0
  <2> QED BY <2>2
<1>3. src < dst => [i \in 1 .. n |-> m[src + ((i - 1) % (dst - src))]] = [i \in 1 .. n |-> m[src + i - 1]]
  BY <1>1
<1>4. dst < src => [i \in 1 .. n |-> m[src + n - 1 - ((n - i) % (src - dst))]]
                     = [i \in 1 .. n |-> m[src + i - 1]]
  BY <1>2
<1> QED BY <1>3, <1>4 DEF CopyResults, ReadBytes

(* A copy that C defines writes what its source holds.                                 *)
LEMMA CopyWrites ==
    ASSUME IInv, DefinedCopies, NEW name \in Externals, NEW dst \in DOMAIN objects,
           NEW src \in DOMAIN objects, NEW n \in AccessSizes, NEW doff \in Offset(dst),
           NEW soff \in Offset(src), MemCopy(name, dst, doff, src, soff, n)
    PROVE  LET bytes == ReadBytes(SectionOf(src), objects[src].addr + soff, n)
           IN  /\ bytes \in Seq(Byte) /\ Len(bytes) = n /\ n \in Nat \ {0}
               /\ sec' = Put(dst, doff, bytes) /\ doff \in Nat /\ soff \in Nat
               /\ doff + n <= objects[dst].size /\ soff + n <= objects[src].size
               /\ op' = [kind |-> "copy", obj |-> dst, off |-> doff, bytes |-> bytes]
               /\ UNCHANGED <<frames, objects, frameBase, status>>
<1> DEFINE a == objects[dst].addr + doff
           b == objects[src].addr + soff
           bytes == ReadBytes(SectionOf(src), b, n)
<1>1. /\ n \in Nat \ {0} /\ doff \in Nat /\ soff \in Nat /\ a \in Nat /\ b \in Nat
      /\ doff + n <= objects[dst].size /\ soff + n <= objects[src].size
  <2>1. n \in Nat \ {0}
    BY RuntimeAssumption DEF RuntimeAssumption
  <2>2. doff \in Nat /\ soff \in Nat
    BY ObjectFacts DEF Offset
  <2>3. doff + n <= objects[dst].size /\ soff + n <= objects[src].size
    BY DEF MemCopy, InObject
  <2> QED BY <2>1, <2>2, <2>3, ObjectFacts
<1>2. bytes \in Seq(Byte) /\ Len(bytes) = n
  <2>1. \A k \in 1 .. n : SectionOf(src).mem[b + k - 1] \in Byte
    <3> TAKE k \in 1 .. n
    <3>1. soff + k - 1 \in Nat /\ soff + k - 1 < objects[src].size
      BY <1>1, ObjectFacts
    <3>2. objects[src].addr + (soff + k - 1) \in Address /\ SectionOf(src) \in Section
      BY <3>1, ObjectFacts
    <3>3. objects[src].addr + (soff + k - 1) = b + k - 1
      BY <1>1, ObjectFacts
    <3> QED BY <3>2, <3>3 DEF Section
  <2>2. bytes \in [1 .. n -> Byte]
    BY <2>1 DEF ReadBytes
  <2> HIDE DEF bytes
  <2> QED BY <1>1, <2>2
<1>3. PICK result \in IF objects[dst].space = objects[src].space
                      THEN CopyResults(sec[objects[dst].space].mem, a, b, n) ELSE {bytes} :
         sec' = Put(dst, doff, result)
  BY DEF MemCopy
<1>4. result = bytes
  <2>1. CASE objects[dst].space = objects[src].space
    <3>1. name = "memcpy"
      BY DEF DefinedCopies
    <3>2. ~Overlap(a, b, n)
      BY <2>1, <3>1 DEF MemCopy
    <3>3. result \in CopyResults(SectionOf(src).mem, a, b, n)
      BY <1>3, <2>1 DEF SectionOf
    <3> HIDE DEF a, b
    <3>4. PICK x \in Nat, y \in Nat : x = a /\ y = b
      BY <1>1
    <3>5. PICK s : s = SectionOf(src)
      OBVIOUS
    <3>6. ~Overlap(x, y, n) /\ n \in Nat \ {0} /\ result \in CopyResults(s.mem, x, y, n)
      BY <1>1, <3>2, <3>3, <3>4, <3>5
    <3>7. result = ReadBytes(s, y, n)
      BY <3>6, DefinedCopy
    <3> QED BY <3>4, <3>5, <3>7
  <2>2. CASE objects[dst].space # objects[src].space
    BY <1>3, <2>2
  <2> QED BY <2>1, <2>2
<1>5. /\ op' = [kind |-> "copy", obj |-> dst, off |-> doff, bytes |-> bytes]
      /\ UNCHANGED <<frames, objects, frameBase, status>>
  BY DEF MemCopy
<1> HIDE DEF a
<1> QED BY <1>1, <1>2, <1>3, <1>4, <1>5

----------------------------------------------------------------------------------
LEMMA FoundIt ==
    ASSUME NEW id, NEW off, NEW bytes, op'.obj = id, op'.off = off, op'.bytes = bytes,
           ReadBytes(sec'[objects'[id].space], objects'[id].addr + off, Len(bytes)) = bytes
    PROVE  ContentsAsWritten'
<1>1. ContentsAsWritten' <=>
         (op'.kind # "none" =>
             ReadBytes(sec'[objects'[op'.obj].space], objects'[op'.obj].addr + op'.off, Len(op'.bytes))
                = op'.bytes)
  BY DEF ContentsAsWritten, SectionOf
<1> QED BY <1>1

LEMMA WroteIt ==
    ASSUME IInv, NEW id \in DOMAIN objects, NEW off \in Nat, NEW bytes \in Seq(Byte),
           off + Len(bytes) <= objects[id].size, sec' = Put(id, off, bytes), objects' = objects,
           op'.obj = id, op'.off = off, op'.bytes = bytes
    PROVE  ContentsAsWritten'
<1>1. ReadBytes(SectionOf(id), objects[id].addr + off, Len(bytes))' = bytes
  BY WriteContents
<1>2. ReadBytes(SectionOf(op.obj), objects[op.obj].addr + op.off, Len(op.bytes))' = op'.bytes
  BY <1>1 DEF SectionOf
<1> QED BY <1>2 DEF ContentsAsWritten

LEMMA NextContents ==
    ASSUME IInv, ContentsAsWritten, DefinedCopies, [Next]_vars
    PROVE  ContentsAsWritten'
<1>n. op' = NoOp => ContentsAsWritten'
  BY DEF NoOp, ContentsAsWritten
<1>m. \A reason : Abort(reason) => ContentsAsWritten'
  BY <1>n DEF Abort
<1>1. ASSUME NEW size \in GlobalSizes, AllocateGlobal(size) PROVE ContentsAsWritten'
  BY <1>n, <1>m, <1>1 DEF AllocateGlobal, Own
<1>2. CASE RunMain \/ CallFunction
  BY <1>n, <1>2 DEF RunMain, CallFunction, CreateFrame
<1>3. ASSUME NEW size \in AllocaSizes, NEW elems \in AllocaElems, Alloca(size, elems)
      PROVE  ContentsAsWritten'
  BY <1>n, <1>m, <1>3 DEF Alloca, Own
<1>4. ASSUME NEW size \in MallocSizes, Malloc(size) PROVE ContentsAsWritten'
  BY <1>n, <1>m, <1>4 DEF Malloc, Own
<1>5. ASSUME NEW id \in DOMAIN objects, Free(id) PROVE ContentsAsWritten'
  BY <1>n, <1>m, <1>5 DEF Free
<1>6. ASSUME NEW id \in DOMAIN objects, NEW n \in AccessSizes, NEW off \in Offset(id)
      PROVE  /\ Load(id, off, n) => ContentsAsWritten'
             /\ \A bytes \in [1 .. n -> Byte] : Store(id, off, bytes) => ContentsAsWritten'
             /\ \A fill \in Byte : Memset(id, off, n, fill) => ContentsAsWritten'
  <2>1. n \in Nat /\ off \in Nat
    BY RuntimeAssumption, ObjectFacts DEF RuntimeAssumption, Offset
  <2>2. ASSUME Load(id, off, n) PROVE ContentsAsWritten'
    <3>1. PICK bytes : bytes = ReadBytes(SectionOf(id), objects[id].addr + off, n)
      OBVIOUS
    <3>2. CASE /\ op' = [kind |-> "load", obj |-> id, off |-> off, bytes |-> bytes]
               /\ UNCHANGED <<sec, frames, objects, frameBase, status>>
      <4>1. Len(bytes) = n
        BY <2>1, <3>1 DEF ReadBytes
      <4>2. /\ op'.obj = id /\ op'.off = off /\ op'.bytes = bytes
        BY <3>2
      <4>3. ReadBytes(sec'[objects'[id].space], objects'[id].addr + off, Len(bytes)) = bytes
        BY <3>1, <3>2, <4>1 DEF SectionOf
      <4> QED BY <4>2, <4>3, FoundIt, Zenon
    <3> QED BY <1>m, <2>2, <3>1, <3>2 DEF Load
  <2>3. ASSUME NEW bytes \in [1 .. n -> Byte], Store(id, off, bytes) PROVE ContentsAsWritten'
    <3>1. bytes \in Seq(Byte)
      BY <2>1
    <3>2. off + Len(bytes) <= objects[id].size
      BY <2>3 DEF Store, InObject
    <3>3. CASE /\ sec' = Put(id, off, bytes) /\ objects' = objects
               /\ op' = [kind |-> "write", obj |-> id, off |-> off, bytes |-> bytes]
      BY <2>1, <3>1, <3>2, <3>3, WroteIt
    <3> QED BY <1>m, <2>3, <3>3 DEF Store
  <2>4. ASSUME NEW fill \in Byte, Memset(id, off, n, fill) PROVE ContentsAsWritten'
    <3> DEFINE bytes == [i \in 1 .. n |-> fill]
    <3>1. bytes \in Seq(Byte) /\ Len(bytes) = n
      BY <2>1
    <3>2. /\ off + n <= objects[id].size /\ sec' = Put(id, off, bytes) /\ objects' = objects
          /\ op' = [kind |-> "write", obj |-> id, off |-> off, bytes |-> bytes]
      BY <2>4 DEF Memset, InObject
    <3> HIDE DEF bytes
    <3> QED BY <2>1, <3>1, <3>2, WroteIt
  <2> QED BY <2>2, <2>3, <2>4
<1>7. ASSUME NEW name \in Externals, NEW dst \in DOMAIN objects, NEW src \in DOMAIN objects,
             NEW n \in AccessSizes, NEW doff \in Offset(dst), NEW soff \in Offset(src),
             MemCopy(name, dst, doff, src, soff, n)
      PROVE  ContentsAsWritten'
  <2>1. PICK bytes : bytes = ReadBytes(SectionOf(src), objects[src].addr + soff, n)
    OBVIOUS
  <2>2. /\ bytes \in Seq(Byte) /\ Len(bytes) = n
        /\ sec' = Put(dst, doff, bytes) /\ doff \in Nat
        /\ doff + n <= objects[dst].size /\ objects' = objects
        /\ op' = [kind |-> "copy", obj |-> dst, off |-> doff, bytes |-> bytes]
    BY <1>7, <2>1, CopyWrites
  <2> QED BY <2>2, WroteIt
<1>8. CASE \E sp \in Space, a \in Address : AccessUnallocated(sp, a)
  BY <1>m, <1>8 DEF AccessUnallocated
<1>9. CASE Return
  BY <1>n, <1>9 DEF Return
<1>10. CASE UNCHANGED vars
  BY <1>10 DEF vars, ContentsAsWritten, SectionOf
<1> QED BY <1>1, <1>2, <1>3, <1>4, <1>5, <1>6, <1>7, <1>8, <1>9, <1>10 DEF Next

LEMMA RInvariance == ASSUME SizesFit, DefinedCopies PROVE Spec => []RInv
<1>1. Init => RInv
  BY InitIInv DEF Init, ContentsAsWritten, NoOp, RInv
<1>2. RInv /\ [Next]_vars => RInv'
  BY NextIInv, NextContents DEF RInv
<1> QED BY <1>1, <1>2, PTL DEF Spec

(* What is written is found (MemorySection::write and readAs*, memset, memcpy in       *)
(* External.cpp): right after a write, fill or defined copy its destination holds the  *)
(* bytes that the language says.                                                       *)
THEOREM WritesKept == ASSUME SizesFit, DefinedCopies PROVE Spec => []ContentsAsWritten
<1>1. RInv => ContentsAsWritten
  BY DEF RInv
<1> QED BY <1>1, RInvariance, PTL

----------------------------------------------------------------------------------
(* The abstract objects: what the program knows of an object, without its address.     *)
LEMMA AbsIs ==
    /\ DOMAIN AbsObjects = DOMAIN objects
    /\ \A id \in DOMAIN objects :
          AbsObjects[id].depth = objects[id].depth /\ AbsObjects[id].data = BytesOf(id)
  BY DEF AbsObjects

LEMMA AbsSame ==
    ASSUME DOMAIN objects' \subseteq DOMAIN objects,
           \A i \in DOMAIN objects' : objects'[i] = objects[i] /\ BytesOf(i)' = BytesOf(i)
    PROVE  AbsObjects' = [i \in DOMAIN objects' |-> AbsObjects[i]]
<1>1. AbsObjects' = [i \in DOMAIN objects' |-> [depth |-> objects'[i].depth, data |-> BytesOf(i)']]
  BY DEF AbsObjects
<1>2. \A i \in DOMAIN objects' :
         AbsObjects[i] = [depth |-> objects'[i].depth, data |-> BytesOf(i)']
  BY DEF AbsObjects
<1> QED BY <1>1, <1>2

LEMMA AbsUnchanged ==
    ASSUME UNCHANGED <<sec, objects>>
    PROVE  AbsObjects' = AbsObjects
  BY DEF AbsObjects, BytesOf, SectionOf

LEMMA AbortImplements == ASSUME NEW reason, Abort(reason) PROVE Abs!Next
<1>1. AbsObjects' = AbsObjects /\ frames' = frames /\ op' = [kind |-> "none"]
  BY AbsUnchanged DEF Abort, memory, NoOp
<1> QED BY <1>1 DEF Abs!Next, Abs!Stopped

LEMMA AppearsImplements ==
    ASSUME IInv, NEW sp \in Space, NEW n \in Nat, CanOwn, CanAllocate(sec[sp], n),
           sec' = [sec EXCEPT ![sp] = Allocate(sec[sp], n)],
           NEW addr, NEW size, NEW d \in {0, depth}, Own(sp, addr, size, d), Len(frames') = Len(frames)
    PROVE  Abs!Next
<1> DEFINE new == FreshId
<1>1. /\ new \in Id \ DOMAIN objects /\ DOMAIN objects' = DOMAIN objects \cup {new}
      /\ objects'[new].depth = d /\ op' = [kind |-> "none"]
      /\ \A i \in DOMAIN objects : objects'[i] = objects[i]
  BY FreshIdIsFresh DEF Own, NoOp
<1>2. \A i \in DOMAIN objects : BytesOf(i)' = BytesOf(i)
  BY <1>1, AllocationKeepsBuffers
<1> HIDE DEF new
<1>3. DOMAIN AbsObjects' = DOMAIN AbsObjects \cup {new} /\ new \in Id \ DOMAIN AbsObjects
  BY <1>1 DEF AbsObjects
<1>4. [i \in DOMAIN AbsObjects \ {} |-> AbsObjects'[i]] = AbsObjects
  <2>1. AbsObjects' = [i \in DOMAIN objects' |-> [depth |-> objects'[i].depth, data |-> BytesOf(i)']]
    BY DEF AbsObjects
  <2>2. \A i \in DOMAIN objects : AbsObjects'[i] = [depth |-> objects[i].depth, data |-> BytesOf(i)]
    BY <1>1, <1>2, <2>1
  <2> QED BY <2>2 DEF AbsObjects
<1>5. AbsObjects'[new].depth = d
  BY <1>1 DEF AbsObjects
<1>6. Abs!Appears
  BY <1>1, <1>3, <1>4, <1>5 DEF Abs!Appears, Abs!Kept, Abs!depth
<1> QED BY <1>6 DEF Abs!Next

LEMMA CallImplements == ASSUME CreateFrame, UNCHANGED <<sec, objects>>, IInv PROVE Abs!Next
<1>1. AbsObjects' = AbsObjects /\ op' = [kind |-> "none"] /\ Len(frames') = Len(frames) + 1
  BY AbsUnchanged DEF CreateFrame, NoOp, IInv, TypeOK
<1> QED BY <1>1 DEF Abs!Next, Abs!Called, Abs!depth

(* Sections lose nothing but what they have in use, and objects keep their places.     *)
LEMMA RemovedImplements ==
    ASSUME IInv, NEW ids, Disown(ids), \A sp \in Space : sec'[sp].mem = sec[sp].mem
    PROVE  AbsObjects' = [i \in DOMAIN AbsObjects \ ids |-> AbsObjects[i]]
<1>1. DOMAIN objects' = DOMAIN objects \ ids /\ \A i \in DOMAIN objects' : objects'[i] = objects[i]
  BY DEF Disown
<1>2. \A i \in DOMAIN objects' : BytesOf(i)' = BytesOf(i)
  BY <1>1, SameBuffers
<1> QED BY <1>1, <1>2, AbsSame, AbsIs

LEMMA FreeImplements == ASSUME IInv, NEW id \in DOMAIN objects, Free(id) PROVE Abs!Next
<1>1. CASE objects[id].space = "HEAP" /\ Disown({id}) /\ op' = NoOp /\ UNCHANGED <<sec, frames>>
  <2>1. AbsObjects[id].depth = 0 /\ id \in DOMAIN AbsObjects
    BY <1>1, AbsIs DEF IInv, Placed
  <2>2. AbsObjects' = [i \in DOMAIN AbsObjects \ {id} |-> AbsObjects[i]]
    BY <1>1, RemovedImplements
  <2>3. Abs!Freed
    BY <1>1, <2>1, <2>2 DEF Abs!Freed, Abs!Others, Abs!depth, NoOp
  <2> QED BY <2>3 DEF Abs!Next
<1> QED BY <1>1, AbortImplements DEF Free

LEMMA ReturnImplements == ASSUME IInv, Return PROVE Abs!Next
<1> DEFINE gone == {id \in DOMAIN objects : objects[id].depth = depth}
<1>1. sec["STACK"] \in Section /\ sec \in [Space -> Section] /\ frames \in Seq(Nat) /\ Len(frames) >= 1
  BY DEF IInv, TypeOK, Space, Phase, Return
<1>2. \A sp \in Space : sec'[sp].mem = sec[sp].mem
  <2>1. Deallocate(sec["STACK"], frames[depth]).mem = sec["STACK"].mem
    BY <1>1 DEF Deallocate, Section
  <2> QED BY <1>1, <2>1 DEF Return, Space
<1>3. Len(frames') = Len(frames) - 1 /\ op' = [kind |-> "none"] /\ Disown(gone)
  <2>1. frames' = SubSeq(frames, 1, Len(frames) - 1) /\ op' = [kind |-> "none"]
    BY DEF Return, NoOp
  <2>2. Len(frames') = Len(frames) - 1
    <3>1. PICK n \in Nat : n = Len(frames)
      BY <1>1
    <3>2. n - 1 \in 0 .. Len(frames)
      BY <1>1, <3>1
    <3>3. SubSeq(frames, 1, n - 1) = [i \in 1 .. n - 1 |-> frames[i]]
      BY <1>1, <3>1, <3>2
    <3>4. Len(SubSeq(frames, 1, n - 1)) = n - 1
      BY <3>1, <3>2, <3>3
    <3> QED BY <2>1, <3>1, <3>4
  <2>3. Disown(gone)
    BY Zenon DEF Return
  <2> QED BY <2>1, <2>2, <2>3
<1>4. gone = {id \in DOMAIN AbsObjects : AbsObjects[id].depth = Len(frames)}
  BY AbsIs
<1> HIDE DEF gone
<1>5. AbsObjects' = [i \in DOMAIN AbsObjects \ gone |-> AbsObjects[i]]
  BY <1>2, <1>3, RemovedImplements
<1>6. Abs!Returned
  BY <1>1, <1>3, <1>4, <1>5 DEF Abs!Returned, Abs!Others, Abs!depth
<1> QED BY <1>6 DEF Abs!Next

----------------------------------------------------------------------------------
(* What the program finds somewhere is what ObjectMemory says it holds.                *)
LEMMA HoldsIs ==
    ASSUME IInv, NEW id \in DOMAIN objects, NEW off \in Nat, NEW n \in Nat,
           off + n <= objects[id].size, NEW bytes,
           bytes = ReadBytes(SectionOf(id), objects[id].addr + off, n)
    PROVE  Abs!Holds(id, off, bytes) /\ off \in 0 .. Len(AbsObjects[id].data)
<1>1. /\ bytes = [k \in 1 .. n |-> BytesOf(id)[k + off]]
      /\ Len(BytesOf(id)) = objects[id].size /\ AbsObjects[id].data = BytesOf(id)
  BY ReadsContents, AbsIs
<1>2. Len(bytes) = n /\ objects[id].size \in Nat
  BY <1>1, ObjectFacts
<1> DEFINE data == BytesOf(id)
<1> HIDE DEF data
<1>3. SubSeq(data, off + 1, off + n) = [k \in 1 .. n |-> data[k + off]]
  <2>1. (off + n) - (off + 1) + 1 = n /\ \A k \in 1 .. n : (off + 1) + k - 1 = k + off
    OBVIOUS
  <2> QED BY <2>1
<1> QED BY <1>1, <1>2, <1>3 DEF data, Abs!Holds

LEMMA LoadImplements ==
    ASSUME IInv, NEW id \in DOMAIN objects, NEW n \in AccessSizes, NEW off \in Offset(id),
           Load(id, off, n)
    PROVE  Abs!Next
<1>1. PICK bytes : bytes = ReadBytes(SectionOf(id), objects[id].addr + off, n)
  OBVIOUS
<1>2. CASE /\ op' = [kind |-> "load", obj |-> id, off |-> off, bytes |-> bytes]
           /\ UNCHANGED <<sec, frames, objects>>
  <2>1. n \in Nat /\ off \in Nat /\ off + n <= objects[id].size
    BY RuntimeAssumption, ObjectFacts DEF RuntimeAssumption, Offset, Load, InObject
  <2>2. Abs!Holds(id, off, bytes) /\ id \in DOMAIN AbsObjects
    BY <1>1, <2>1, HoldsIs, AbsIs
  <2>3. op'.kind = "load" /\ op'.obj = id /\ op'.off = off /\ op'.bytes = bytes
    BY <1>2
  <2>4. AbsObjects' = AbsObjects /\ frames' = frames
    BY <1>2, AbsUnchanged
  <2>5. Abs!Loaded
    BY <2>2, <2>3, <2>4 DEF Abs!Loaded
  <2> QED BY <2>5 DEF Abs!Next
<1> QED BY <1>1, <1>2, AbortImplements DEF Load

(* A write puts its bytes over those of its object, and touches no other.              *)
LEMMA WriteImplements ==
    ASSUME IInv, NEW id \in DOMAIN objects, NEW off \in Nat, NEW bytes \in Seq(Byte),
           off + Len(bytes) <= objects[id].size, sec' = Put(id, off, bytes),
           UNCHANGED <<frames, objects>>, op'.obj = id, op'.off = off, op'.bytes = bytes
    PROVE  Abs!Write
<1> DEFINE old == AbsObjects[id]
           data == Abs!Splice(old.data, off, bytes)
<1>1. BytesOf(id)' = data
  <2>1. BytesOf(id)' = [k \in 1 .. objects[id].size |->
                          IF k \in off + 1 .. off + Len(bytes) THEN bytes[k - off]
                          ELSE BytesOf(id)[k]]
    BY WriteContents
  <2>2. old.data = BytesOf(id) /\ DOMAIN BytesOf(id) = 1 .. objects[id].size
    BY AbsIs DEF BytesOf, ReadBytes
  <2> HIDE DEF old
  <2> QED BY <2>1, <2>2 DEF Abs!Splice
<1>2. \A i \in DOMAIN objects : i # id => BytesOf(i)' = BytesOf(i)
  BY PutElsewhere
<1> HIDE DEF data
<1>3. AbsObjects' = [i \in DOMAIN objects |-> [depth |-> objects[i].depth, data |-> BytesOf(i)']]
  BY DEF AbsObjects
<1>4. AbsObjects' = [AbsObjects EXCEPT ![id].data = data]
  <2>1. \A i \in DOMAIN objects : AbsObjects'[i] = [AbsObjects EXCEPT ![id].data = data][i]
    <3> TAKE i \in DOMAIN objects
    <3>1. CASE i # id
      BY <1>2, <1>3, <3>1 DEF AbsObjects
    <3>2. CASE i = id
      BY <1>1, <1>3, <3>2 DEF AbsObjects
    <3> QED BY <3>1, <3>2
  <2>2. DOMAIN AbsObjects = DOMAIN objects
    BY AbsIs
  <2> DEFINE l == AbsObjects'
             r == [AbsObjects EXCEPT ![id].data = data]
  <2>3. l = [i \in DOMAIN objects |-> l[i]] /\ r = [i \in DOMAIN objects |-> r[i]]
    BY <1>3, <2>2
  <2> HIDE DEF l, r
  <2>4. l = r
    BY <2>1, <2>3 DEF l, r
  <2> QED BY <2>4 DEF l, r
<1> QED BY <1>4, AbsIs DEF Abs!Write, data

LEMMA StoreImplements ==
    ASSUME IInv, NEW id \in DOMAIN objects, NEW n \in AccessSizes, NEW off \in Offset(id),
           NEW bytes \in [1 .. n -> Byte], Store(id, off, bytes)
    PROVE  Abs!Next
<1>1. off \in Nat /\ bytes \in Seq(Byte) /\ off + Len(bytes) <= objects[id].size
  <2>1. off \in Nat /\ n \in Nat
    BY RuntimeAssumption, ObjectFacts DEF RuntimeAssumption, Offset
  <2> QED BY <2>1 DEF Store, InObject
<1>2. CASE /\ sec' = Put(id, off, bytes) /\ UNCHANGED <<frames, objects>>
           /\ op' = [kind |-> "write", obj |-> id, off |-> off, bytes |-> bytes]
  <2>1. op'.kind = "write" /\ op'.obj = id /\ op'.off = off /\ op'.bytes = bytes
    BY <1>2
  <2>2. Abs!Write
    BY <1>1, <1>2, <2>1, WriteImplements
  <2> QED BY <2>1, <2>2 DEF Abs!Next, Abs!Written
<1> QED BY <1>2, AbortImplements DEF Store

LEMMA MemsetImplements ==
    ASSUME IInv, NEW id \in DOMAIN objects, NEW n \in AccessSizes, NEW off \in Offset(id),
           NEW fill \in Byte, Memset(id, off, n, fill)
    PROVE  Abs!Next
<1>1. PICK bytes : bytes = [i \in 1 .. n |-> fill]
  OBVIOUS
<1>2. off \in Nat /\ n \in Nat
  BY RuntimeAssumption, ObjectFacts DEF RuntimeAssumption, Offset
<1>3. bytes \in Seq(Byte) /\ Len(bytes) = n
  BY <1>1, <1>2
<1>4. /\ off + Len(bytes) <= objects[id].size /\ sec' = Put(id, off, bytes)
      /\ op' = [kind |-> "write", obj |-> id, off |-> off, bytes |-> bytes]
      /\ UNCHANGED <<frames, objects>>
  BY <1>1, <1>3 DEF Memset, InObject
<1>5. op'.kind = "write" /\ op'.obj = id /\ op'.off = off /\ op'.bytes = bytes
  BY <1>4
<1>6. Abs!Write
  BY <1>2, <1>3, <1>4, <1>5, WriteImplements
<1> QED BY <1>5, <1>6 DEF Abs!Next, Abs!Written

LEMMA MemCopyImplements ==
    ASSUME IInv, DefinedCopies, NEW name \in Externals, NEW dst \in DOMAIN objects,
           NEW src \in DOMAIN objects, NEW n \in AccessSizes, NEW doff \in Offset(dst),
           NEW soff \in Offset(src), MemCopy(name, dst, doff, src, soff, n)
    PROVE  Abs!Next
<1>1. PICK bytes : bytes = ReadBytes(SectionOf(src), objects[src].addr + soff, n)
  OBVIOUS
<1>2. /\ bytes \in Seq(Byte) /\ Len(bytes) = n /\ n \in Nat /\ doff \in Nat /\ soff \in Nat
      /\ sec' = Put(dst, doff, bytes) /\ UNCHANGED <<frames, objects>>
      /\ doff + n <= objects[dst].size /\ soff + n <= objects[src].size
      /\ op' = [kind |-> "copy", obj |-> dst, off |-> doff, bytes |-> bytes]
  BY <1>1, CopyWrites
<1>3. op'.kind = "copy" /\ op'.obj = dst /\ op'.off = doff /\ op'.bytes = bytes
  BY <1>2
<1>4. Abs!Write
  BY <1>2, <1>3, WriteImplements
<1>5. Abs!Holds(src, soff, bytes) /\ soff \in 0 .. Len(AbsObjects[src].data)
  BY <1>1, <1>2, HoldsIs
<1>6. src \in DOMAIN AbsObjects
  BY AbsIs
<1>7. Abs!Copied
  BY <1>3, <1>4, <1>5, <1>6 DEF Abs!Copied
<1> QED BY <1>7 DEF Abs!Next

LEMMA NextImplements ==
    ASSUME IInv, DefinedCopies, [Next]_vars
    PROVE  Abs!Next \/ UNCHANGED <<AbsObjects, frames, op>>
<1>1. ASSUME NEW size \in GlobalSizes, AllocateGlobal(size) PROVE Abs!Next
  <2>1. ToUnsigned(size) \in Nat
    BY RuntimeAssumption, ToUnsignedType DEF RuntimeAssumption
  <2> QED BY <1>1, <2>1, AbortImplements, AppearsImplements DEF AllocateGlobal, Space
<1>2. CASE RunMain \/ CallFunction
  BY <1>2, CallImplements DEF RunMain, CallFunction
<1>3. ASSUME NEW size \in AllocaSizes, NEW elems \in AllocaElems, Alloca(size, elems) PROVE Abs!Next
  <2>1. PICK n : n = (IF elems = 0 THEN 1 ELSE elems) * ToUnsigned(size)
    OBVIOUS
  <2>2. n \in Nat
    <3>1. ToUnsigned(size) \in Nat /\ (IF elems = 0 THEN 1 ELSE elems) \in Nat
      BY RuntimeAssumption, ToUnsignedType DEF RuntimeAssumption
    <3> QED BY <2>1, <3>1
  <2>3. CASE /\ CanOwn /\ CanAllocate(sec["STACK"], n)
             /\ sec' = [sec EXCEPT !["STACK"] = Allocate(sec["STACK"], n)]
             /\ frames' = [frames EXCEPT ![depth] = ToUnsigned(@ + n)]
             /\ Own("STACK", sec["STACK"].usedSize, n, depth)
    <3>1. Len(frames') = Len(frames)
      BY <2>3 DEF IInv, TypeOK
    <3> QED BY <2>2, <2>3, <3>1, AppearsImplements DEF Space
  <2> QED BY <1>3, <2>1, <2>3, AbortImplements DEF Alloca
<1>4. ASSUME NEW size \in MallocSizes, Malloc(size) PROVE Abs!Next
  <2>1. ToUnsigned(size) \in Nat
    BY RuntimeAssumption, ToUnsignedType DEF RuntimeAssumption
  <2> QED BY <1>4, <2>1, AbortImplements, AppearsImplements DEF Malloc, Space
<1>5. ASSUME NEW id \in DOMAIN objects, Free(id) PROVE Abs!Next
  BY <1>5, FreeImplements
<1>6. ASSUME NEW id \in DOMAIN objects, NEW n \in AccessSizes, NEW off \in Offset(id)
      PROVE  /\ Load(id, off, n) => Abs!Next
             /\ \A bytes \in [1 .. n -> Byte] : Store(id, off, bytes) => Abs!Next
             /\ \A fill \in Byte : Memset(id, off, n, fill) => Abs!Next
  BY LoadImplements, StoreImplements, MemsetImplements
<1>7. ASSUME NEW name \in Externals, NEW dst \in DOMAIN objects, NEW src \in DOMAIN objects,
             NEW n \in AccessSizes, NEW doff \in Offset(dst), NEW soff \in Offset(src),
             MemCopy(name, dst, doff, src, soff, n)
      PROVE  Abs!Next
  BY <1>7, MemCopyImplements
<1>8. CASE \E sp \in Space, a \in Address : AccessUnallocated(sp, a)
  BY <1>8, AbortImplements DEF AccessUnallocated
<1>9. CASE Return
  BY <1>9, ReturnImplements
<1>10. CASE UNCHANGED vars
  BY <1>10, AbsUnchanged DEF vars
<1> QED BY <1>1, <1>2, <1>3, <1>4, <1>5, <1>6, <1>7, <1>8, <1>9, <1>10 DEF Next

(* The three sections and the frames (Memory.h, StackFrame.h, allocateStackMem and      *)
(* popStack in Interpreter.cpp, malloc, free, memcpy and memset in External.cpp, the    *)
(* memory instructions of Evaluation.cpp) together are the memory that a program is     *)
(* promised: a store of objects by name, each changed only by writes to it and gone     *)
(* only when it is freed or its call returns.                                          *)
THEOREM MemoryImplements == ASSUME SizesFit, DefinedCopies PROVE Spec => ImplementsStore
<1>1. Init => Abs!Init
  <2> SUFFICES ASSUME Init PROVE Abs!Init
    OBVIOUS
  <2>1. DOMAIN objects = {} /\ frames = <<>> /\ op = [kind |-> "none"]
    BY DEF Init, NoOp
  <2>2. AbsObjects = [id \in {} |-> op]
    BY <2>1 DEF AbsObjects
  <2>3. Len(frames) = 0
    BY <2>1
  <2> QED BY <2>1, <2>2, <2>3 DEF Abs!Init, Abs!depth
<1>2. IInv /\ [Next]_vars => [Abs!Next]_<<AbsObjects, frames, op>>
  BY NextImplements
<1> QED BY <1>1, <1>2, Invariance, PTL DEF Spec, ImplementsStore, Abs!Spec
================================================================================
