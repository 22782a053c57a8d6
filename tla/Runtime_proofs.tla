------------------------------ MODULE Runtime_proofs -----------------------------
(* What holds of the guest's memory for every section size, every set of request     *)
(* sizes, every bound on objects and every depth of the call stack.                  *)
EXTENDS Runtime, SequenceTheorems, TLAPS

USE DEF depth

(* Requests that the unsigned parameter of allocate() can carry.                      *)
SizesFit == GlobalSizes \cup MallocSizes \subseteq 0 .. UINT_MOD - 1

FrameEnd(i) == frameBase[i] + frames[i]

(* The process runs guest code exactly while it has a frame.                          *)
Phase ==
    /\ status = "startup" => depth = 0
    /\ status = "running" => depth >= 1

(* A frame starts no lower than every older frame ends.  FrameAccounting says it only *)
(* of neighbours; the proof needs it of any two frames.                               *)
FramesNested ==
    /\ \A i \in 1 .. depth : frameBase[i] >= 1
    /\ \A i, j \in 1 .. depth : i < j => FrameEnd(i) <= frameBase[j]

(* Every live object lies in the used part of its section, a stack object even in     *)
(* what its own frame allocated.                                                      *)
Placed ==
    \A id \in DOMAIN objects :
        /\ 1 <= objects[id].addr
        /\ objects[id].addr + objects[id].size <= sec[objects[id].space].usedSize
        /\ objects[id].space = "STACK" =>
              /\ objects[id].depth \in 1 .. depth
              /\ frameBase[objects[id].depth] <= objects[id].addr
              /\ objects[id].addr + objects[id].size <= FrameEnd(objects[id].depth)
        /\ objects[id].space # "STACK" => objects[id].depth = 0

Disjoint ==
    \A i, j \in DOMAIN objects :
        i # j /\ objects[i].space = objects[j].space =>
            \/ objects[i].addr + objects[i].size <= objects[j].addr
            \/ objects[j].addr + objects[j].size <= objects[i].addr

IInv ==
    TypeOK /\ Phase /\ FrameAccounting /\ FramesNested /\ Placed /\ Disjoint /\ StackTiling

----------------------------------------------------------------------------------
(* A size below 2^w survives the conversion to a w-bit unsigned.                      *)
LEMMA ToUnsignedFits ==
    ASSUME NEW n \in 0 .. UINT_MOD - 1
    PROVE  ToUnsigned(n) = n
  BY SectionAssumption DEF ToUnsigned, SectionAssumption

LEMMA ToUnsignedType ==
    ASSUME NEW n \in Nat
    PROVE  ToUnsigned(n) \in 0 .. UINT_MOD - 1
  BY SectionAssumption DEF ToUnsigned, SectionAssumption

(* allocate() returns only if the request fitted without growing the section.         *)
LEMMA AllocateFits ==
    ASSUME NEW s \in Section, NEW n \in Nat, CanAllocate(s, n)
    PROVE  /\ s.usedSize + n < DEFAULT_SIZE
           /\ Allocate(s, n) = [s EXCEPT !.usedSize = s.usedSize + n]
           /\ Allocate(s, n) \in Section
<1>1. ~(s.usedSize + n >= s.totalSize)
  <2>1. SUFFICES ASSUME s.usedSize + n >= s.totalSize PROVE FALSE
    OBVIOUS
  <2>2. Reserve(s, n) = Grow(s)
    BY <2>1 DEF Reserve
  <2>3. Grow(s).usedSize = s.usedSize /\ Grow(s).totalSize = s.totalSize
    BY DEF Grow, Section
  <2> QED BY <2>1, <2>2, <2>3, SectionAssumption DEF CanAllocate, Section, SectionAssumption
<1>2. Reserve(s, n) = s
  BY <1>1 DEF Reserve
<1> QED BY <1>1, <1>2, SectionAssumption DEF Allocate, Section, SectionAssumption

LEMMA WriteBytesType ==
    ASSUME NEW s \in Section, NEW a \in Nat, NEW bytes \in Seq(Byte)
    PROVE  /\ WriteBytes(s, a, bytes) \in Section
           /\ WriteBytes(s, a, bytes).usedSize = s.usedSize
<1>1. ASSUME NEW x \in Address, x \in a .. a + Len(bytes) - 1
      PROVE  bytes[x - a + 1] \in Byte
  BY <1>1, SectionAssumption DEF Address, SectionAssumption
<1> QED BY <1>1 DEF WriteBytes, Section

(* Whatever std::memcpy leaves, it takes it from the source range.                    *)
LEMMA CopyResultsType ==
    ASSUME NEW s \in Section, NEW n \in Nat \ {0}, NEW dst \in Nat, NEW src \in Nat,
           src + n <= DEFAULT_SIZE,
           NEW result \in CopyResults(s.mem, dst, src, n)
    PROVE  result \in [1 .. n -> Byte]
<1>0. \A x \in src .. src + n - 1 : s.mem[x] \in Byte
  BY SectionAssumption DEF Section, Address, SectionAssumption
<1>m. ASSUME NEW i \in Nat, NEW k \in Nat \ {0} PROVE i % k \in 0 .. i
  BY <1>m
<1>1. ASSUME NEW i \in 1 .. n, src < dst
      PROVE  src + ((i - 1) % (dst - src)) \in src .. src + n - 1
  <2>1. i - 1 \in Nat /\ dst - src \in Nat \ {0}
    BY <1>1
  <2>2. (i - 1) % (dst - src) \in 0 .. i - 1
    BY <2>1, <1>m
  <2> QED BY <2>2
<1>2. ASSUME NEW i \in 1 .. n, dst < src
      PROVE  src + n - 1 - ((n - i) % (src - dst)) \in src .. src + n - 1
  <2>1. n - i \in Nat /\ src - dst \in Nat \ {0}
    BY <1>2
  <2>2. (n - i) % (src - dst) \in 0 .. n - i
    BY <2>1, <1>m
  <2> QED BY <2>2
<1>3. CASE result = [i \in 1 .. n |-> s.mem[src + i - 1]]
  BY <1>3, <1>0
<1>4. CASE src < dst /\ result = [i \in 1 .. n |-> s.mem[src + ((i - 1) % (dst - src))]]
  BY <1>4, <1>0, <1>1
<1>5. CASE dst < src /\ result = [i \in 1 .. n |-> s.mem[src + n - 1 - ((n - i) % (src - dst))]]
  BY <1>5, <1>0, <1>2
<1> QED BY <1>3, <1>4, <1>5 DEF CopyResults

----------------------------------------------------------------------------------
(* The three allocations share their argument: the block starts where its section     *)
(* ended, so it meets no other object, and on the stack it extends the running frame. *)
Allocates(sp, n, size) ==
    /\ sec' = [sec EXCEPT ![sp] = Allocate(sec[sp], n)]
    /\ Own(sp, sec[sp].usedSize, size, IF sp = "STACK" THEN depth ELSE 0)
    /\ frames' = IF sp = "STACK" THEN [frames EXCEPT ![depth] = frames[depth] + n] ELSE frames
    /\ UNCHANGED <<frameBase, status>>

LEMMA FreshIdIsFresh ==
    ASSUME CanOwn PROVE FreshId \in Id /\ FreshId \notin DOMAIN objects
  BY DEF CanOwn, FreshId

LEMMA AllocationStep ==
    ASSUME IInv, NEW sp \in Space, NEW n \in Nat, CanOwn, CanAllocate(sec[sp], n),
           sp = "STACK" => depth >= 1, Allocates(sp, n, n)
    PROVE  IInv'
<1> DEFINE s == sec[sp]
           new == [space |-> sp, addr |-> s.usedSize, size |-> n,
                   depth |-> IF sp = "STACK" THEN depth ELSE 0]
<1>0. TypeOK /\ s \in Section /\ s.usedSize \in Nat /\ s.usedSize >= 1 /\ depth \in Nat
  BY DEF IInv, TypeOK, Section
<1>1. /\ sec' = [sec EXCEPT ![sp] = [s EXCEPT !.usedSize = s.usedSize + n]]
      /\ sec' \in [Space -> Section]
      /\ sec'[sp].usedSize = s.usedSize + n
      /\ \A x \in Space : x # sp => sec'[x] = sec[x]
      /\ \A x \in Space : sec'[x].usedSize \in Nat /\ sec[x].usedSize \in Nat
  <2>1. Allocate(s, n) = [s EXCEPT !.usedSize = s.usedSize + n] /\ Allocate(s, n) \in Section
    BY <1>0, AllocateFits
  <2>2. [s EXCEPT !.usedSize = s.usedSize + n].usedSize = s.usedSize + n
    BY <1>0 DEF Section
  <2>3. \A x \in Section : x.usedSize \in Nat
    BY DEF Section
  <2> QED BY <1>0, <2>1, <2>2, <2>3 DEF Allocates, TypeOK
<1>f. PICK f \in Id : f = FreshId
  BY FreshIdIsFresh
<1>2. /\ f \in Id /\ f \notin DOMAIN objects
      /\ DOMAIN objects' = DOMAIN objects \cup {f}
      /\ objects'[f] = new
      /\ \A id \in DOMAIN objects : id # f /\ objects'[id] = objects[id]
      /\ new \in Object
      /\ \A id \in DOMAIN objects : objects[id] \in Object
  <2>1. f \in Id /\ f \notin DOMAIN objects
    BY <1>f, FreshIdIsFresh
  <2>2. new \in Object
    BY <1>0 DEF Object
  <2>3. \A id \in DOMAIN objects : objects[id] \in Object
    BY <1>0 DEF TypeOK
  <2> QED BY <1>f, <2>1, <2>2, <2>3 DEF Allocates, Own
<1>3. /\ frames' \in Seq(Nat) /\ Len(frames') = Len(frames)
      /\ \A i \in 1 .. depth : i < depth \/ sp # "STACK" => frames'[i] = frames[i]
      /\ sp = "STACK" => frames'[depth] = frames[depth] + n
      /\ \A i \in 1 .. depth : frames[i] \in Nat /\ frames'[i] \in Nat /\ frames'[i] >= frames[i]
  BY <1>0 DEF Allocates, TypeOK
<1>4. /\ frameBase' = frameBase /\ status' = status
      /\ frameBase \in Seq(Nat) /\ Len(frameBase) = depth
      /\ \A i \in 1 .. depth : frameBase[i] \in Nat
  BY <1>0 DEF Allocates, IInv, FrameAccounting, TypeOK
<1>5. TypeOK'
  <2>1. DOMAIN objects' \subseteq Id
    BY <1>0, <1>2 DEF TypeOK
  <2>2. \A id \in DOMAIN objects' : objects'[id] \in Object
    BY <1>2
  <2>3. objects' = [id \in DOMAIN objects' |-> objects'[id]]
    BY <1>f, <1>2 DEF Allocates, Own
  <2>4. objects' \in [DOMAIN objects' -> Object]
    BY <2>2, <2>3
  <2> QED BY <1>0, <1>1, <1>3, <1>4, <2>1, <2>4 DEF TypeOK
<1>6. Phase'
  BY <1>3, <1>4 DEF IInv, Phase
<1>7. FrameAccounting'
  <2>2. \A i \in 1 .. depth :
           frameBase'[i] = IF i = 1 THEN 1 ELSE frameBase'[i-1] + frames'[i-1]
    <3>1. TAKE i \in 1 .. depth
    <3>2. CASE i = 1
      BY <1>4, <3>2 DEF IInv, FrameAccounting
    <3>3. CASE i # 1
      <4>1. i - 1 \in 1 .. depth /\ i - 1 < depth
        BY <1>0, <3>3
      <4>2. frames'[i-1] = frames[i-1] /\ frameBase' = frameBase
        BY <1>3, <1>4, <4>1
      <4>3. frameBase[i] = frameBase[i-1] + frames[i-1]
        BY <3>3 DEF IInv, FrameAccounting
      <4> QED BY <3>3, <4>2, <4>3
    <3> QED BY <3>2, <3>3
  <2>3. sec'["STACK"].usedSize = IF depth = 0 THEN 1 ELSE frameBase'[depth] + frames'[depth]
    <3>1. sec["STACK"].usedSize = IF depth = 0 THEN 1 ELSE frameBase[depth] + frames[depth]
      BY DEF IInv, FrameAccounting
    <3>2. CASE sp = "STACK"
      <4>1. depth >= 1 /\ depth \in 1 .. depth
        BY <1>0, <3>2
      <4>2. frames[depth] \in Nat /\ frameBase[depth] \in Nat
        BY <1>3, <1>4, <4>1
      <4> QED BY <1>1, <1>3, <1>4, <3>1, <3>2, <4>1, <4>2
    <3>3. CASE sp # "STACK"
      <4>1. sec'["STACK"] = sec["STACK"]
        BY <1>1, <3>3 DEF Space
      <4>2. depth # 0 => depth \in 1 .. depth
        BY <1>0
      <4> QED BY <1>3, <1>4, <3>1, <3>3, <4>1, <4>2
    <3> QED BY <3>2, <3>3
  <2> QED BY <1>3, <1>4, <2>2, <2>3 DEF FrameAccounting
<1>8. FramesNested'
  <2>1. ASSUME NEW i \in 1 .. depth, NEW j \in 1 .. depth, i < j
        PROVE  frameBase'[i] + frames'[i] <= frameBase'[j]
    <3>1. i < depth
      BY <1>0, <2>1
    <3>2. frames'[i] = frames[i]
      BY <1>3, <3>1
    <3>3. FrameEnd(i) <= frameBase[j]
      BY <2>1 DEF IInv, FramesNested
    <3> QED BY <1>4, <3>2, <3>3 DEF FrameEnd
  <2>2. \A i \in 1 .. depth : frameBase'[i] >= 1
    BY <1>4 DEF IInv, FramesNested
  <2>3. depth' = depth
    BY <1>3
  <2> QED BY <2>1, <2>2, <2>3 DEF FramesNested, FrameEnd
<1>9. Placed'
  <2>1. ASSUME NEW id \in DOMAIN objects
        PROVE  /\ 1 <= objects'[id].addr
               /\ objects'[id].addr + objects'[id].size <= sec'[objects'[id].space].usedSize
               /\ objects'[id].space = "STACK" =>
                     /\ objects'[id].depth \in 1 .. Len(frames')
                     /\ frameBase'[objects'[id].depth] <= objects'[id].addr
                     /\ objects'[id].addr + objects'[id].size <= frameBase'[objects'[id].depth] + frames'[objects'[id].depth]
               /\ objects'[id].space # "STACK" => objects'[id].depth = 0
    <3> DEFINE o == objects[id]
    <3>1. objects'[id] = o /\ o \in Object
      BY <1>2
    <3>2. /\ 1 <= o.addr
          /\ o.addr + o.size <= sec[o.space].usedSize
          /\ o.space = "STACK" => /\ o.depth \in 1 .. depth
                                  /\ frameBase[o.depth] <= o.addr
                                  /\ o.addr + o.size <= FrameEnd(o.depth)
          /\ o.space # "STACK" => o.depth = 0
      BY DEF IInv, Placed
    <3>3. o.space \in Space /\ o.addr \in Nat /\ o.size \in Nat
      BY <3>1 DEF Object
    <3>4. sec[o.space].usedSize <= sec'[o.space].usedSize
      BY <1>0, <1>1, <3>3
    <3>5. o.addr + o.size <= sec'[o.space].usedSize
      BY <1>1, <3>2, <3>3, <3>4
    <3>6. o.space = "STACK" => o.addr + o.size <= frameBase'[o.depth] + frames'[o.depth]
      <4>1. SUFFICES ASSUME o.space = "STACK"
                     PROVE  o.addr + o.size <= frameBase'[o.depth] + frames'[o.depth]
        OBVIOUS
      <4>2. o.depth \in 1 .. depth /\ o.addr + o.size <= frameBase[o.depth] + frames[o.depth]
        BY <3>2, <4>1 DEF FrameEnd
      <4>3. /\ frames[o.depth] \in Nat /\ frames'[o.depth] \in Nat
            /\ frames'[o.depth] >= frames[o.depth]
            /\ frameBase[o.depth] \in Nat /\ frameBase'[o.depth] = frameBase[o.depth]
        BY <1>3, <1>4, <4>2
      <4> HIDE DEF o
      <4> QED BY <3>3, <4>2, <4>3
    <3> QED BY <1>3, <1>4, <3>1, <3>2, <3>5, <3>6 DEF FrameEnd
  <2>2. /\ 1 <= new.addr
        /\ new.addr + new.size <= sec'[new.space].usedSize
        /\ new.space = "STACK" =>
              /\ new.depth \in 1 .. Len(frames')
              /\ frameBase'[new.depth] <= new.addr
              /\ new.addr + new.size <= frameBase'[new.depth] + frames'[new.depth]
        /\ new.space # "STACK" => new.depth = 0
    <3>1. sp = "STACK" => s.usedSize = frameBase[depth] + frames[depth]
      BY <1>0 DEF IInv, FrameAccounting
    <3>2. /\ new.addr = s.usedSize /\ new.size = n /\ new.space = sp
          /\ new.depth = IF sp = "STACK" THEN depth ELSE 0
      OBVIOUS
    <3>3. 1 <= new.addr /\ new.addr + new.size <= sec'[new.space].usedSize
      BY <1>0, <1>1, <3>2
    <3>4. ASSUME sp = "STACK"
          PROVE  /\ depth \in 1 .. Len(frames')
                 /\ frameBase'[depth] <= s.usedSize
                 /\ s.usedSize + n <= frameBase'[depth] + frames'[depth]
      <4>1. depth \in 1 .. depth
        BY <1>0, <3>4
      <4>2. frameBase'[depth] = frameBase[depth] /\ frameBase[depth] \in Nat /\ frames[depth] \in Nat
        BY <1>3, <1>4, <4>1
      <4>3. frames'[depth] = frames[depth] + n /\ Len(frames') = depth
        BY <1>3, <3>4
      <4> QED BY <1>0, <3>1, <3>4, <4>1, <4>2, <4>3
    <3> QED BY <3>2, <3>3, <3>4
  <2> QED BY <1>2, <2>1, <2>2 DEF Placed, FrameEnd
<1>10. Disjoint'
  <2>1. \A id \in DOMAIN objects : objects[id].space = sp => objects[id].addr + objects[id].size <= s.usedSize
    BY DEF IInv, Placed
  <2> QED BY <1>2, <2>1 DEF IInv, Disjoint
<1>11. StackTiling'
  <2>1. SUFFICES ASSUME NEW a \in Address, IsAddressLegal(sec'["STACK"], a)
                 PROVE  \E id \in DOMAIN objects' :
                           objects'[id].space = "STACK" /\ a \in Cells(id)'
    BY DEF StackTiling, IsAddressLegal
  <2>2. CASE IsAddressLegal(sec["STACK"], a)
    BY <1>2, <2>2 DEF IInv, StackTiling, Cells
  <2>3. CASE ~IsAddressLegal(sec["STACK"], a)
    <3>1. a \in Nat
      BY SectionAssumption DEF Address, SectionAssumption
    <3>2. sp = "STACK" /\ s.usedSize <= a /\ a < s.usedSize + n
      BY <1>0, <1>1, <2>1, <2>3, <3>1 DEF IsAddressLegal, Space
    <3>3. a \in Cells(f)'
      BY <1>0, <1>2, <3>1, <3>2 DEF Cells
    <3> QED BY <1>2, <3>2, <3>3
  <2> QED BY <2>2, <2>3
<1> QED BY <1>5, <1>6, <1>7, <1>8, <1>9, <1>10, <1>11 DEF IInv

(* A write changes no usedSize, and the rest of the invariant speaks of nothing else. *)
LEMMA WriteStep ==
    ASSUME IInv, NEW id \in DOMAIN objects, NEW off \in Nat, NEW bytes \in Seq(Byte),
           sec' = Put(id, off, bytes), UNCHANGED <<frames, objects, frameBase, status>>
    PROVE  IInv'
<1>1. /\ sec' \in [Space -> Section]
      /\ \A sp \in Space : sec'[sp].usedSize = sec[sp].usedSize
  <2>1. /\ objects[id].space \in Space /\ objects[id].addr + off \in Nat
        /\ sec \in [Space -> Section]
    BY DEF IInv, TypeOK, Object
  <2>2. /\ WriteBytes(SectionOf(id), objects[id].addr + off, bytes) \in Section
        /\ WriteBytes(SectionOf(id), objects[id].addr + off, bytes).usedSize
              = SectionOf(id).usedSize
    BY <2>1, WriteBytesType DEF SectionOf
  <2>3. sec' = [sec EXCEPT ![objects[id].space] =
                    WriteBytes(SectionOf(id), objects[id].addr + off, bytes)]
    BY <2>1 DEF Put, SectionOf
  <2> QED BY <2>1, <2>2, <2>3 DEF SectionOf
<1>2. TypeOK'
  BY <1>1 DEF IInv, TypeOK
<1>3. Phase' /\ FramesNested' /\ Disjoint'
  BY DEF IInv, Phase, FramesNested, FrameEnd, Disjoint
<1>4. FrameAccounting'
  BY <1>1 DEF IInv, FrameAccounting, Space
<1>5. Placed'
  <2>1. \A i \in DOMAIN objects : objects[i].space \in Space
    BY DEF IInv, TypeOK, Object
  <2> QED BY <1>1, <2>1 DEF IInv, Placed, FrameEnd
<1>6. StackTiling'
  BY <1>1 DEF IInv, StackTiling, IsAddressLegal, Space, Cells
<1> QED BY <1>2, <1>3, <1>4, <1>5, <1>6 DEF IInv

(* A new frame is empty and starts where the stack section ends.                      *)
LEMMA CreateFrameStep ==
    ASSUME IInv, CreateFrame, status' = "running", UNCHANGED <<sec, objects>>
    PROVE  IInv'
<1>1. TypeOK /\ depth \in Nat /\ sec["STACK"].usedSize \in Nat /\ sec["STACK"].usedSize >= 1
  BY DEF IInv, TypeOK, Space, Section
<1>2. /\ frames' \in Seq(Nat) /\ frameBase' \in Seq(Nat)
      /\ Len(frames') = depth + 1 /\ Len(frameBase') = depth + 1
      /\ \A i \in 1 .. depth : frames'[i] = frames[i] /\ frameBase'[i] = frameBase[i]
      /\ frames'[depth + 1] = 0 /\ frameBase'[depth + 1] = sec["STACK"].usedSize
      /\ \A i \in 1 .. depth : frames[i] \in Nat /\ frameBase[i] \in Nat
  BY <1>1 DEF CreateFrame, TypeOK, IInv, FrameAccounting
<1>3. TypeOK'
  BY <1>1, <1>2 DEF TypeOK, Status
<1>4. Phase'
  BY <1>1, <1>2 DEF Phase
<1>5. sec["STACK"].usedSize = IF depth = 0 THEN 1 ELSE FrameEnd(depth)
  BY DEF IInv, FrameAccounting, FrameEnd
<1>6. FrameAccounting'
  <2>1. ASSUME NEW i \in 1 .. depth + 1
        PROVE  frameBase'[i] = IF i = 1 THEN 1 ELSE frameBase'[i-1] + frames'[i-1]
    <3>1. CASE i = depth + 1
      <4>1. depth # 0 => depth \in 1 .. depth
        BY <1>1
      <4> QED BY <1>1, <1>2, <1>5, <3>1, <4>1 DEF FrameEnd
    <3>2. CASE i \in 1 .. depth /\ i # 1
      <4>1. i - 1 \in 1 .. depth
        BY <1>1, <3>2
      <4> QED BY <1>2, <3>2, <4>1 DEF IInv, FrameAccounting
    <3>3. CASE i \in 1 .. depth /\ i = 1
      BY <1>2, <3>3 DEF IInv, FrameAccounting
    <3> QED BY <1>1, <3>1, <3>2, <3>3
  <2> QED BY <1>1, <1>2, <2>1 DEF FrameAccounting
<1>7. FramesNested'
  <2>1. ASSUME NEW i \in 1 .. depth PROVE FrameEnd(i) <= sec["STACK"].usedSize
    <3>1. depth \in 1 .. depth /\ sec["STACK"].usedSize = FrameEnd(depth)
      BY <1>1, <1>5
    <3>2. CASE i = depth
      BY <1>2, <3>1, <3>2 DEF FrameEnd
    <3>3. CASE i < depth
      <4>1. FrameEnd(i) <= frameBase[depth]
        BY <3>1, <3>3 DEF IInv, FramesNested
      <4>2. frames[i] \in Nat /\ frameBase[i] \in Nat
        BY <1>2
      <4>3. frames[depth] \in Nat /\ frameBase[depth] \in Nat
        BY <1>2, <3>1
      <4> QED BY <3>1, <4>1, <4>2, <4>3 DEF FrameEnd
    <3> QED BY <1>1, <3>1, <3>2, <3>3
  <2>2. ASSUME NEW i \in 1 .. depth + 1 PROVE frameBase'[i] >= 1
    <3>1. CASE i = depth + 1
      BY <1>1, <1>2, <3>1
    <3>2. CASE i \in 1 .. depth
      <4>1. frameBase[i] >= 1
        BY <3>2 DEF IInv, FramesNested
      <4> QED BY <1>2, <3>2, <4>1
    <3> QED BY <1>1, <3>1, <3>2
  <2>3. ASSUME NEW i \in 1 .. depth + 1, NEW j \in 1 .. depth + 1, i < j
        PROVE  frameBase'[i] + frames'[i] <= frameBase'[j]
    <3>1. i \in 1 .. depth
      BY <1>1, <2>3
    <3>2. CASE j = depth + 1
      BY <1>2, <2>1, <3>1, <3>2 DEF FrameEnd
    <3>3. CASE j \in 1 .. depth
      BY <1>2, <2>3, <3>1, <3>3 DEF IInv, FramesNested, FrameEnd
    <3> QED BY <1>1, <3>2, <3>3
  <2> QED BY <1>2, <2>2, <2>3 DEF FramesNested, FrameEnd
<1>8. Placed'
  <2>1. ASSUME NEW id \in DOMAIN objects, objects[id].space = "STACK"
        PROVE  /\ objects[id].depth \in 1 .. depth'
               /\ frameBase'[objects[id].depth] <= objects[id].addr
               /\ objects[id].addr + objects[id].size <= FrameEnd(objects[id].depth)'
    <3>1. /\ objects[id].depth \in 1 .. depth
          /\ frameBase[objects[id].depth] <= objects[id].addr
          /\ objects[id].addr + objects[id].size <= FrameEnd(objects[id].depth)
      BY <2>1 DEF IInv, Placed
    <3>2. depth' = depth + 1 /\ depth \in Nat
      BY <1>1, <1>2
    <3>3. FrameEnd(objects[id].depth)' = FrameEnd(objects[id].depth)
      BY <1>2, <3>1 DEF FrameEnd
    <3> QED BY <1>2, <3>1, <3>2, <3>3
  <2>2. \A id \in DOMAIN objects :
           /\ 1 <= objects[id].addr
           /\ objects[id].addr + objects[id].size <= sec[objects[id].space].usedSize
           /\ objects[id].space # "STACK" => objects[id].depth = 0
    BY DEF IInv, Placed
  <2> QED BY <2>1, <2>2 DEF Placed
<1>9. Disjoint'
  BY DEF IInv, Disjoint
<1>10. StackTiling'
  BY DEF IInv, StackTiling, Cells
<1> QED BY <1>3, <1>4, <1>6, <1>7, <1>8, <1>9, <1>10 DEF IInv

(* A block given up changes nothing of what is on the stack.                          *)
LEMMA FreeStep ==
    ASSUME IInv, NEW id \in DOMAIN objects, objects[id].space = "HEAP", Disown({id}),
           UNCHANGED <<sec, frames, frameBase, status>>
    PROVE  IInv'
<1>1. /\ DOMAIN objects' = DOMAIN objects \ {id}
      /\ \A i \in DOMAIN objects' : objects'[i] = objects[i]
      /\ objects' \in [DOMAIN objects' -> Object]
  BY DEF Disown, IInv, TypeOK
<1>2. TypeOK' /\ Phase' /\ FrameAccounting' /\ FramesNested'
  BY <1>1 DEF IInv, TypeOK, Phase, FrameAccounting, FramesNested, FrameEnd
<1>3. Placed'
  BY <1>1 DEF IInv, Placed, FrameEnd
<1>4. Disjoint'
  BY <1>1 DEF IInv, Disjoint
<1>5. StackTiling'
  <2>1. ASSUME NEW a \in Address, IsAddressLegal(sec["STACK"], a)
        PROVE  \E i \in DOMAIN objects' : objects'[i].space = "STACK" /\ a \in Cells(i)'
    <3>1. PICK i \in DOMAIN objects : objects[i].space = "STACK" /\ a \in Cells(i)
      BY <2>1 DEF IInv, StackTiling
    <3>2. i \in DOMAIN objects' /\ objects'[i] = objects[i]
      BY <1>1, <3>1
    <3> QED BY <3>1, <3>2 DEF Cells
  <2> QED BY <2>1 DEF StackTiling, Cells
<1> QED BY <1>2, <1>3, <1>4, <1>5 DEF IInv

(* The objects of a returning frame are exactly those at or above its base, so what   *)
(* popStack leaves in use is what the older frames allocated.                         *)
LEMMA ReturnStep ==
    ASSUME IInv, Return
    PROVE  IInv' /\ sec'["STACK"].usedSize = frameBase[depth]
<1>1. TypeOK /\ depth \in Nat /\ depth >= 1 /\ status = "running"
  BY DEF IInv, TypeOK, Phase, Return
<1>2. /\ Len(frameBase) = depth /\ depth \in 1 .. depth
      /\ \A i \in 1 .. depth : frames[i] \in Nat /\ frameBase[i] \in Nat
  BY <1>1 DEF IInv, TypeOK, FrameAccounting
<1>3. sec["STACK"].usedSize = frameBase[depth] + frames[depth] /\ sec["STACK"] \in Section
  BY <1>1 DEF IInv, FrameAccounting, TypeOK, Space
<1>4. /\ sec'["STACK"].usedSize = frameBase[depth]
      /\ sec' \in [Space -> Section]
      /\ \A sp \in Space : sp # "STACK" => sec'[sp] = sec[sp]
      /\ \A sp \in Space : sec[sp].usedSize \in Nat
  <2>1. frameBase[depth] \in 1 .. DEFAULT_SIZE
    BY <1>1, <1>2, <1>3, SectionAssumption
       DEF IInv, FramesNested, Section, SectionAssumption
  <2>2. Deallocate(sec["STACK"], frames[depth]) = [sec["STACK"] EXCEPT !.usedSize = frameBase[depth]]
    BY <1>2, <1>3 DEF Deallocate, Section
  <2>3. [sec["STACK"] EXCEPT !.usedSize = frameBase[depth]] \in Section
    BY <1>3, <2>1 DEF Section
  <2>4. [sec["STACK"] EXCEPT !.usedSize = frameBase[depth]].usedSize = frameBase[depth]
    BY <1>3 DEF Section
  <2>5. sec' = [sec EXCEPT !["STACK"] = [sec["STACK"] EXCEPT !.usedSize = frameBase[depth]]]
    BY <1>1, <2>2 DEF Return, TypeOK
  <2>6. \A x \in Section : x.usedSize \in Nat
    BY DEF Section
  <2> QED BY <1>1, <2>3, <2>4, <2>5, <2>6 DEF TypeOK, Space
<1>5. /\ frames' \in Seq(Nat) /\ frameBase' \in Seq(Nat)
      /\ Len(frames') = depth - 1 /\ Len(frameBase') = depth - 1
      /\ \A i \in 1 .. depth - 1 : frames'[i] = frames[i] /\ frameBase'[i] = frameBase[i]
  <2>1. frames' = SubSeq(frames, 1, depth - 1) /\ frameBase' = SubSeq(frameBase, 1, depth - 1)
    BY DEF Return
  <2>2. frames \in Seq(Nat) /\ frameBase \in Seq(Nat)
    BY <1>1 DEF TypeOK
  <2>3. ASSUME NEW s \in Seq(Nat), Len(s) = depth
        PROVE  /\ SubSeq(s, 1, depth - 1) \in Seq(Nat)
               /\ Len(SubSeq(s, 1, depth - 1)) = depth - 1
               /\ \A i \in 1 .. depth - 1 : SubSeq(s, 1, depth - 1)[i] = s[i]
    BY <1>1, <2>3, SubSeqProperties
  <2> QED BY <1>2, <2>1, <2>2, <2>3
<1>6. /\ DOMAIN objects' = {id \in DOMAIN objects : objects[id].depth # depth}
      /\ \A id \in DOMAIN objects' : objects'[id] = objects[id]
      /\ objects' \in [DOMAIN objects' -> Object]
  BY <1>1 DEF Return, Disown, TypeOK
<1>7. TypeOK'
  <2>1. status' \in Status
    BY DEF Return, Status
  <2>2. DOMAIN objects' \subseteq Id
    BY <1>1, <1>6 DEF TypeOK
  <2> QED BY <1>4, <1>5, <1>6, <2>1, <2>2 DEF TypeOK
<1>8. Phase'
  BY <1>1, <1>5 DEF Return, Phase
<1>9. FrameAccounting'
  <2>1. ASSUME NEW i \in 1 .. depth - 1
        PROVE  frameBase'[i] = IF i = 1 THEN 1 ELSE frameBase'[i-1] + frames'[i-1]
    <3>1. i \in 1 .. depth
      BY <1>1
    <3>2. i # 1 => i - 1 \in 1 .. depth - 1
      BY <1>1
    <3> QED BY <1>5, <3>1, <3>2 DEF IInv, FrameAccounting
  <2>2. frameBase[depth] = IF depth = 1 THEN 1 ELSE frameBase[depth - 1] + frames[depth - 1]
    BY <1>2 DEF IInv, FrameAccounting
  <2>4. sec'["STACK"].usedSize =
          IF depth - 1 = 0 THEN 1 ELSE frameBase'[depth - 1] + frames'[depth - 1]
    <3>1. CASE depth = 1
      BY <1>4, <2>2, <3>1
    <3>2. CASE depth > 1
      <4>1. depth - 1 \in 1 .. depth - 1
        BY <1>1, <3>2
      <4>2. frames'[depth - 1] = frames[depth - 1] /\ frameBase'[depth - 1] = frameBase[depth - 1]
        BY <1>5, <4>1
      <4> QED BY <1>1, <1>4, <2>2, <3>2, <4>2
    <3>3. depth = 1 \/ depth > 1
      <4> DEFINE d == depth
      <4>1. d \in Nat /\ d >= 1
        BY <1>1
      <4> HIDE DEF d
      <4>2. d = 1 \/ d > 1
        BY <4>1
      <4> QED BY <4>2 DEF d
    <3> QED BY <3>1, <3>2, <3>3, Zenon
  <2> QED BY <1>5, <2>1, <2>4 DEF FrameAccounting
<1>10. FramesNested'
  <2>1. \A i \in 1 .. depth - 1 : i \in 1 .. depth
    BY <1>1
  <2> QED BY <1>5, <2>1 DEF IInv, FramesNested, FrameEnd
<1>11. Placed'
  <2>1. ASSUME NEW id \in DOMAIN objects'
        PROVE  /\ 1 <= objects[id].addr
               /\ objects[id].addr + objects[id].size <= sec'[objects[id].space].usedSize
               /\ objects[id].space = "STACK" =>
                     /\ objects[id].depth \in 1 .. depth - 1
                     /\ frameBase'[objects[id].depth] <= objects[id].addr
                     /\ objects[id].addr + objects[id].size
                           <= frameBase'[objects[id].depth] + frames'[objects[id].depth]
               /\ objects[id].space # "STACK" => objects[id].depth = 0
    <3> DEFINE o == objects[id]
    <3>1. id \in DOMAIN objects /\ o \in Object /\ o.depth # depth
      BY <1>1, <1>6 DEF TypeOK
    <3>2. o.space \in Space /\ o.addr \in Nat /\ o.size \in Nat
      BY <3>1 DEF Object
    <3>3. /\ 1 <= o.addr
          /\ o.addr + o.size <= sec[o.space].usedSize
          /\ o.space = "STACK" => /\ o.depth \in 1 .. depth
                                  /\ frameBase[o.depth] <= o.addr
                                  /\ o.addr + o.size <= FrameEnd(o.depth)
          /\ o.space # "STACK" => o.depth = 0
      BY <3>1 DEF IInv, Placed
    <3>4. CASE o.space # "STACK"
      BY <1>4, <3>2, <3>3, <3>4
    <3>5. CASE o.space = "STACK"
      <4>1. o.depth \in 1 .. depth - 1 /\ o.depth \in 1 .. depth /\ o.depth < depth
        BY <1>1, <3>1, <3>3, <3>5
      <4>2. FrameEnd(o.depth) <= frameBase[depth]
        BY <1>2, <4>1 DEF IInv, FramesNested
      <4>3. frameBase'[o.depth] = frameBase[o.depth] /\ frames'[o.depth] = frames[o.depth]
        BY <1>5, <4>1
      <4>4. frameBase[o.depth] \in Nat /\ frames[o.depth] \in Nat
        BY <1>2, <4>1
      <4>5. o.addr + o.size <= frameBase[depth]
        <5>1. o.addr + o.size <= FrameEnd(o.depth)
          BY <3>3, <3>5
        <5>2. FrameEnd(o.depth) \in Nat /\ frameBase[depth] \in Nat
          BY <1>2, <4>4 DEF FrameEnd
        <5> HIDE DEF o
        <5> QED BY <3>2, <4>2, <5>1, <5>2
      <4> QED BY <1>4, <3>3, <3>5, <4>1, <4>3, <4>5 DEF FrameEnd
    <3> QED BY <3>4, <3>5
  <2> QED BY <1>5, <1>6, <2>1 DEF Placed, FrameEnd
<1>12. Disjoint'
  BY <1>6 DEF IInv, Disjoint
<1>13. StackTiling'
  <2>1. ASSUME NEW a \in Address, IsAddressLegal(sec'["STACK"], a)
        PROVE  \E i \in DOMAIN objects' : objects'[i].space = "STACK" /\ a \in Cells(i)'
    <3>1. a \in Nat /\ a < frameBase[depth] /\ a # 0
      BY <1>4, <2>1, SectionAssumption DEF IsAddressLegal, Address, SectionAssumption
    <3>2. IsAddressLegal(sec["STACK"], a)
      BY <1>2, <1>3, <3>1 DEF IsAddressLegal
    <3>3. PICK i \in DOMAIN objects : objects[i].space = "STACK" /\ a \in Cells(i)
      BY <3>2 DEF IInv, StackTiling
    <3>4. objects[i].addr \in Nat /\ objects[i].addr <= a
      BY <1>1, <3>1, <3>3 DEF Cells, TypeOK, Object
    <3>5. objects[i].depth # depth
      BY <1>2, <3>1, <3>3, <3>4 DEF IInv, Placed
    <3>6. i \in DOMAIN objects' /\ objects'[i] = objects[i]
      BY <1>6, <3>5
    <3> QED BY <3>3, <3>6 DEF Cells
  <2> QED BY <2>1 DEF StackTiling, Cells
<1> QED BY <1>4, <1>7, <1>8, <1>9, <1>10, <1>11, <1>12, <1>13 DEF IInv

----------------------------------------------------------------------------------
LEMMA InitIInv == Init => IInv
<1> SUFFICES ASSUME Init PROVE IInv
  OBVIOUS
<1>1. NewSection \in Section /\ NewSection.usedSize = 1
  BY SectionAssumption DEF NewSection, Section, SectionAssumption
<1>2. frames = <<>> /\ frameBase = <<>> /\ Len(frames) = 0 /\ DOMAIN objects = {}
  BY DEF Init
<1>3. TypeOK
  BY <1>1, <1>2 DEF Init, TypeOK, Status
<1>4. Phase /\ FramesNested /\ Placed /\ Disjoint
  BY <1>2 DEF Init, Phase, FramesNested, Placed, Disjoint
<1>5. FrameAccounting
  BY <1>1, <1>2 DEF Init, FrameAccounting, Space
<1>6. StackTiling
  BY <1>1, SectionAssumption
     DEF Init, StackTiling, IsAddressLegal, Address, Space, SectionAssumption
<1> QED BY <1>3, <1>4, <1>5, <1>6 DEF IInv

LEMMA AbortStep ==
    ASSUME IInv, NEW reason \in Aborted, Abort(reason)
    PROVE  IInv'
<1>1. TypeOK' /\ Phase'
  BY DEF IInv, TypeOK, Phase, Abort, memory, Aborted, Status
<1>2. FrameAccounting' /\ FramesNested' /\ Placed' /\ Disjoint'
  BY DEF IInv, Abort, memory, FrameAccounting, FramesNested, FrameEnd, Placed, Disjoint
<1>3. StackTiling'
  BY DEF IInv, Abort, memory, StackTiling, Cells
<1> QED BY <1>1, <1>2, <1>3 DEF IInv

(* A frame's count of its bytes never wraps: all it counts is in use of a section     *)
(* that is smaller than what unsigned can hold.                                       *)
LEMMA AllocaStep ==
    ASSUME IInv, NEW size \in AllocaSizes, NEW elems \in AllocaElems, Alloca(size, elems)
    PROVE  IInv'
<1> DEFINE s == sec["STACK"]
           k == IF elems = 0 THEN 1 ELSE elems
           n == k * ToUnsigned(size)
<1>1. n \in Nat
  <2>1. k \in Nat /\ ToUnsigned(size) \in Nat
    BY RuntimeAssumption, ToUnsignedType DEF RuntimeAssumption
  <2> HIDE DEF k
  <2> QED BY <2>1
<1>2. CASE CanAllocate(s, n) /\ UNCHANGED status
  <2>1. depth \in 1 .. depth /\ depth >= 1 /\ s \in Section
    BY DEF Alloca, IInv, TypeOK, Phase, Space
  <2>2. frames \in Seq(Nat) /\ frameBase[depth] \in Nat /\ frames[depth] \in Nat
    BY <2>1 DEF IInv, TypeOK, FrameAccounting
  <2>3. s.usedSize + n < DEFAULT_SIZE
    BY <1>1, <1>2, <2>1, AllocateFits
  <2>4. s.usedSize = frameBase[depth] + frames[depth]
    BY <2>1 DEF IInv, FrameAccounting
  <2>5. frames[depth] + n \in 0 .. UINT_MOD - 1
    <3> HIDE DEF n, s
    <3> QED BY <1>1, <2>2, <2>3, <2>4, SectionAssumption DEF SectionAssumption
  <2>6. ToUnsigned(frames[depth] + n) = frames[depth] + n
    BY <2>5, ToUnsignedFits
  <2>7. Allocates("STACK", n, n)
    BY <1>2, <2>6 DEF Alloca, Allocates, Abort, memory
  <2>8. CanOwn
    BY DEF Alloca
  <2> HIDE DEF n
  <2> QED BY <1>1, <1>2, <2>1, <2>7, <2>8, AllocationStep DEF Space
<1>3. CASE Abort("sectionFull")
  BY <1>3, AbortStep DEF Aborted
<1> QED BY <1>2, <1>3 DEF Alloca

LEMMA AllocateGlobalStep ==
    ASSUME SizesFit, IInv, NEW size \in GlobalSizes, AllocateGlobal(size)
    PROVE  IInv'
<1>1. size \in Nat /\ ToUnsigned(size) = size
  BY RuntimeAssumption, ToUnsignedFits DEF SizesFit, RuntimeAssumption
<1>2. CASE CanAllocate(sec["GLOBAL"], size) /\ UNCHANGED status
  <2>1. Allocates("GLOBAL", size, size) /\ CanOwn
    BY <1>1, <1>2 DEF AllocateGlobal, Allocates
  <2> QED BY <1>1, <1>2, <2>1, AllocationStep DEF Space
<1>3. CASE Abort("sectionFull")
  BY <1>3, AbortStep DEF Aborted
<1> QED BY <1>1, <1>2, <1>3 DEF AllocateGlobal

LEMMA MallocStep ==
    ASSUME SizesFit, IInv, NEW size \in MallocSizes, Malloc(size)
    PROVE  IInv'
<1>1. size \in Nat /\ ToUnsigned(size) = size
  BY RuntimeAssumption, ToUnsignedFits DEF SizesFit, RuntimeAssumption
<1>2. CASE CanAllocate(sec["HEAP"], size) /\ UNCHANGED status
  <2>1. Allocates("HEAP", size, size) /\ CanOwn
    BY <1>1, <1>2 DEF Malloc, Allocates
  <2> QED BY <1>1, <1>2, <2>1, AllocationStep DEF Space
<1>3. CASE Abort("sectionFull")
  BY <1>3, AbortStep DEF Aborted
<1> QED BY <1>1, <1>2, <1>3 DEF Malloc

(* Every byte that a block copy writes comes from inside a live object.               *)
LEMMA MemCopyStep ==
    ASSUME IInv, NEW name \in Externals, NEW dst \in DOMAIN objects, NEW src \in DOMAIN objects,
           NEW n \in AccessSizes, NEW doff \in Offset(dst), NEW soff \in Offset(src),
           MemCopy(name, dst, doff, src, soff, n)
    PROVE  /\ IInv'
           /\ \E result \in Seq(Byte) : Len(result) = n /\ sec' = Put(dst, doff, result)
<1> DEFINE a == objects[dst].addr + doff
           b == objects[src].addr + soff
<1>1. objects[dst] \in Object /\ objects[src] \in Object /\ n \in Nat \ {0}
  BY RuntimeAssumption DEF IInv, TypeOK, RuntimeAssumption
<1>2. /\ a \in Nat /\ b \in Nat /\ doff \in Nat /\ soff \in Nat
      /\ objects[src].space \in Space /\ objects[dst].space \in Space
  BY <1>1 DEF Offset, Object
<1>3. sec[objects[src].space] \in Section /\ sec[objects[dst].space] \in Section
  BY <1>2 DEF IInv, TypeOK
<1>4. b + n <= DEFAULT_SIZE
  <2>1. soff + n <= objects[src].size
    BY DEF MemCopy, InObject
  <2>2. objects[src].addr + objects[src].size <= sec[objects[src].space].usedSize
    BY DEF IInv, Placed
  <2>3. sec[objects[src].space].usedSize \in 1 .. DEFAULT_SIZE
    BY <1>3 DEF Section
  <2> QED BY <1>1, <1>2, <2>1, <2>2, <2>3, SectionAssumption DEF Object, SectionAssumption
<1>5. ReadBytes(SectionOf(src), b, n) \in [1 .. n -> Byte]
  <2>1. \A i \in 1 .. n : b + i - 1 \in Address
    BY <1>1, <1>2, <1>4, SectionAssumption DEF Address, SectionAssumption
  <2> QED BY <1>3, <2>1 DEF ReadBytes, SectionOf, Section
<1>6. PICK result \in IF objects[dst].space = objects[src].space
                      THEN CopyResults(sec[objects[dst].space].mem, a, b, n)
                      ELSE {ReadBytes(SectionOf(src), b, n)} :
         sec' = Put(dst, doff, result)
  BY DEF MemCopy
<1>7. result \in [1 .. n -> Byte]
  <2>1. CASE objects[dst].space = objects[src].space
    <3> HIDE DEF a, b
    <3> QED BY <1>1, <1>2, <1>3, <1>4, <1>6, <2>1, CopyResultsType
  <2>2. CASE objects[dst].space # objects[src].space
    BY <1>5, <1>6, <2>2
  <2> QED BY <2>1, <2>2
<1>8. result \in Seq(Byte) /\ Len(result) = n
  BY <1>1, <1>7
<1>9. UNCHANGED <<frames, objects, frameBase, status>>
  BY DEF MemCopy
<1> QED BY <1>2, <1>6, <1>8, <1>9, WriteStep

LEMMA NextIInv ==
    ASSUME SizesFit, IInv, [Next]_vars
    PROVE  IInv'
<1>1. CASE \E size \in GlobalSizes : AllocateGlobal(size)
  BY <1>1, AllocateGlobalStep
<1>2. CASE RunMain
  BY <1>2, CreateFrameStep DEF RunMain
<1>3. CASE CallFunction
  BY <1>3, CreateFrameStep DEF CallFunction
<1>4. CASE \E size \in AllocaSizes, elems \in AllocaElems : Alloca(size, elems)
  BY <1>4, AllocaStep
<1>5. CASE \E size \in MallocSizes : Malloc(size)
  BY <1>5, MallocStep
<1>6. ASSUME NEW id \in DOMAIN objects, Free(id) PROVE IInv'
  <2>1. CASE objects[id].space = "HEAP"
    BY <1>6, <2>1, FreeStep DEF Free
  <2>2. CASE objects[id].space # "HEAP"
    BY <1>6, <2>2, AbortStep DEF Free, Aborted
  <2> QED BY <2>1, <2>2
<1>7. ASSUME NEW id \in DOMAIN objects, NEW n \in AccessSizes, NEW off \in Offset(id)
      PROVE  /\ Load(id, off, n) => IInv'
             /\ \A bytes \in [1 .. n -> Byte] : Store(id, off, bytes) => IInv'
             /\ \A fill \in Byte : Memset(id, off, n, fill) => IInv'
  <2>1. n \in Nat /\ off \in Nat
    BY RuntimeAssumption DEF RuntimeAssumption, Offset, IInv, TypeOK, Object
  <2>2. ASSUME Load(id, off, n) PROVE IInv'
    <3>1. CASE UNCHANGED <<sec, frames, objects, frameBase, status>>
      BY <3>1 DEF IInv, TypeOK, Phase, FrameAccounting, FramesNested, FrameEnd, Placed,
                  Disjoint, StackTiling, Cells
    <3>2. CASE Abort("outOfRange")
      BY <3>2, AbortStep DEF Aborted
    <3> QED BY <2>2, <3>1, <3>2 DEF Load
  <2>3. ASSUME NEW bytes \in [1 .. n -> Byte], Store(id, off, bytes) PROVE IInv'
    <3>1. bytes \in Seq(Byte)
      BY <2>1
    <3>2. CASE sec' = Put(id, off, bytes) /\ UNCHANGED <<frames, objects, frameBase, status>>
      BY <2>1, <3>1, <3>2, WriteStep
    <3>3. CASE Abort("outOfRange")
      BY <3>3, AbortStep DEF Aborted
    <3> QED BY <2>3, <3>2, <3>3 DEF Store
  <2>4. ASSUME NEW fill \in Byte, Memset(id, off, n, fill) PROVE IInv'
    <3>1. [i \in 1 .. n |-> fill] \in Seq(Byte)
      BY <2>1
    <3> QED BY <2>1, <2>4, <3>1, WriteStep DEF Memset
  <2> QED BY <2>2, <2>3, <2>4
<1>8. CASE \E name \in Externals, dst, src \in DOMAIN objects, n \in AccessSizes :
              \E doff \in Offset(dst), soff \in Offset(src) :
                 MemCopy(name, dst, doff, src, soff, n)
  BY <1>8, MemCopyStep
<1>9. CASE \E sp \in Space, a \in Address : AccessUnallocated(sp, a)
  BY <1>9, AbortStep DEF AccessUnallocated, Aborted
<1>10. CASE Return
  BY <1>10, ReturnStep
<1>11. CASE UNCHANGED vars
  BY <1>11 DEF vars, IInv, TypeOK, Phase, FrameAccounting, FramesNested, FrameEnd, Placed,
               Disjoint, StackTiling, Cells
<1> QED BY <1>1, <1>2, <1>3, <1>4, <1>5, <1>6, <1>7, <1>8, <1>9, <1>10, <1>11 DEF Next

(* The invariant gives the properties the runs check.                                 *)
LEMMA IInvGivesSafety == IInv => NoOverlap /\ ObjectsLegal
<1> SUFFICES ASSUME IInv PROVE NoOverlap /\ ObjectsLegal
  OBVIOUS
<1>1. \A id \in DOMAIN objects :
         /\ objects[id].addr \in Nat /\ objects[id].size \in Nat /\ objects[id].addr >= 1
         /\ objects[id].space \in Space
         /\ objects[id].addr + objects[id].size <= SectionOf(id).usedSize
  BY DEF IInv, TypeOK, Object, Placed, SectionOf
<1>2. \A id \in DOMAIN objects : SectionOf(id).usedSize \in Nat
  BY <1>1 DEF IInv, TypeOK, Section, SectionOf
<1>3. ObjectsLegal
  BY <1>1, <1>2 DEF ObjectsLegal, Cells, IsAddressLegal
<1>4. NoOverlap
  BY <1>1 DEF IInv, Disjoint, NoOverlap, Cells
<1> QED BY <1>3, <1>4

----------------------------------------------------------------------------------
LEMMA Invariance == ASSUME SizesFit PROVE Spec => []IInv
<1>1. Init => IInv
  BY InitIInv
<1>2. IInv /\ [Next]_vars => IInv'
  BY NextIInv
<1> QED BY <1>1, <1>2, PTL DEF Spec

(* Every section keeps a used part inside its buffer and every frame a count of bytes *)
(* (Memory.h:32, StackFrame.h:19), whatever the program does.                         *)
THEOREM TypeCorrect == ASSUME SizesFit PROVE Spec => []TypeOK
<1>1. IInv => TypeOK
  BY DEF IInv
<1> QED BY <1>1, Invariance, PTL

(* allocateStackMem and popStack (Interpreter.cpp:16-20, 91-98) keep the frames' books *)
(* exactly: what stackMem has in use is the sum of what the frames say they took.      *)
THEOREM StackAccounted == ASSUME SizesFit PROVE Spec => []FrameAccounting
<1>1. IInv => FrameAccounting
  BY DEF IInv
<1> QED BY <1>1, Invariance, PTL

(* Live objects never share a byte, on the stack, on the heap or among the globals.   *)
THEOREM ObjectsSafe == ASSUME SizesFit PROVE Spec => []NoOverlap
<1>1. IInv => NoOverlap
  BY IInvGivesSafety
<1> QED BY <1>1, Invariance, PTL

(* isAddressLegal (Memory.h:44-47) accepts every byte of a live object: no access of  *)
(* a correct program is rejected.                                                     *)
THEOREM ObjectsAccepted == ASSUME SizesFit PROVE Spec => []ObjectsLegal
<1>1. IInv => ObjectsLegal
  BY IInvGivesSafety
<1> QED BY <1>1, Invariance, PTL

(* On the stack isAddressLegal accepts nothing else: an address of a frame that has   *)
(* returned is rejected until another alloca covers it.                               *)
THEOREM StackTiled == ASSUME SizesFit PROVE Spec => []StackTiling
<1>1. IInv => StackTiling
  BY DEF IInv
<1> QED BY <1>1, Invariance, PTL

(* popStack (Interpreter.cpp:91-98) brings the stack section back to where the frame  *)
(* began.                                                                             *)
THEOREM PopRestoresStack == ASSUME SizesFit PROVE Spec => PopRestores
<1>1. ASSUME IInv, [Next]_vars, Len(frames') < Len(frames)
      PROVE  sec'["STACK"].usedSize = frameBase[depth]
  <2>1. CASE Return
    BY <2>1, <1>1, ReturnStep
  <2>2. Len(frames) \in Nat /\ frames \in Seq(Nat)
    BY <1>1 DEF IInv, TypeOK
  <2>3. ASSUME ~Return PROVE Len(frames') >= Len(frames)
    <3>1. CASE UNCHANGED frames
      BY <2>2, <3>1
    <3>2. CASE CreateFrame
      BY <2>2, <3>2 DEF CreateFrame
    <3>3. ASSUME NEW size \in AllocaSizes, NEW elems \in AllocaElems, Alloca(size, elems)
          PROVE  UNCHANGED frames \/ \E x : frames' = [frames EXCEPT ![depth] = x]
      BY <3>3 DEF Alloca, Abort, memory
    <3>4. (\E x : frames' = [frames EXCEPT ![depth] = x]) => Len(frames') = Len(frames)
      BY <2>2
    <3>5. CASE \E size \in AllocaSizes, elems \in AllocaElems : Alloca(size, elems)
      BY <2>2, <3>3, <3>4, <3>5
    <3>6. UNCHANGED frames \/ CreateFrame
              \/ \E size \in AllocaSizes, elems \in AllocaElems : Alloca(size, elems)
      <4>1. \A size \in GlobalSizes : AllocateGlobal(size) => UNCHANGED frames
        BY DEF AllocateGlobal, Abort, memory
      <4>2. RunMain \/ CallFunction => CreateFrame
        BY DEF RunMain, CallFunction
      <4>3. \A size \in MallocSizes : Malloc(size) => UNCHANGED frames
        BY DEF Malloc, Abort, memory
      <4>4. \A id \in DOMAIN objects : Free(id) => UNCHANGED frames
        BY DEF Free, Abort, memory
      <4>5. \A id \in DOMAIN objects, n \in AccessSizes : \A off \in Offset(id) :
               Load(id, off, n) => UNCHANGED frames
        BY DEF Load, Abort, memory
      <4>6. \A id \in DOMAIN objects, n \in AccessSizes : \A off \in Offset(id) :
               \A bytes \in [1 .. n -> Byte] : Store(id, off, bytes) => UNCHANGED frames
        BY DEF Store, Abort, memory
      <4>7. \A id \in DOMAIN objects, n \in AccessSizes : \A off \in Offset(id) :
               \A fill \in Byte : Memset(id, off, n, fill) => UNCHANGED frames
        BY DEF Memset
      <4>8. \A name \in Externals, dst, src \in DOMAIN objects, n \in AccessSizes :
               \A doff \in Offset(dst), soff \in Offset(src) :
                  MemCopy(name, dst, doff, src, soff, n) => UNCHANGED frames
        BY DEF MemCopy
      <4>9. \A sp \in Space, x \in Address : AccessUnallocated(sp, x) => UNCHANGED frames
        BY DEF AccessUnallocated, Abort, memory
      <4>10. UNCHANGED vars => UNCHANGED frames
        BY DEF vars
      <4> QED BY <1>1, <2>3, <4>1, <4>2, <4>3, <4>4, <4>5, <4>6, <4>7, <4>8, <4>9, <4>10 DEF Next
    <3> QED BY <3>1, <3>2, <3>5, <3>6
  <2> QED BY <1>1, <2>1, <2>2, <2>3
<1>2. IInv /\ [Next]_vars => [Len(frames') < Len(frames) => sec'["STACK"].usedSize = frameBase[depth]]_vars
  BY <1>1
<1> QED BY <1>2, Invariance, PTL DEF Spec, PopRestores

----------------------------------------------------------------------------------
(* Isolation.  An object keeps its bytes when its part of its section's buffer does.  *)
LEMMA SameBytes ==
    ASSUME IInv, NEW id \in DOMAIN objects, objects'[id] = objects[id],
           \A x \in Cells(id) : sec'[objects[id].space].mem[x] = sec[objects[id].space].mem[x]
    PROVE  BytesOf(id)' = BytesOf(id)
<1>1. objects[id].addr \in Nat /\ objects[id].size \in Nat
  BY DEF IInv, TypeOK, Object
<1>2. \A k \in 1 .. objects[id].size : objects[id].addr + k - 1 \in Cells(id)
  BY <1>1 DEF Cells
<1>3. \A k \in 1 .. objects[id].size :
         sec'[objects[id].space].mem[objects[id].addr + k - 1]
            = sec[objects[id].space].mem[objects[id].addr + k - 1]
  BY <1>2
<1> QED BY <1>3 DEF BytesOf, ReadBytes, SectionOf

LEMMA SameBuffers ==
    ASSUME IInv, \A sp \in Space : sec'[sp].mem = sec[sp].mem,
           \A id \in DOMAIN objects \cap DOMAIN objects' : objects'[id] = objects[id]
    PROVE  \A id \in DOMAIN objects \cap DOMAIN objects' : BytesOf(id)' = BytesOf(id)
<1>1. TAKE id \in DOMAIN objects \cap DOMAIN objects'
<1>2. objects[id].space \in Space
  BY DEF IInv, TypeOK, Object
<1> QED BY <1>2, SameBytes

(* A write inside one object misses every other, because they share no byte.          *)
LEMMA PutElsewhere ==
    ASSUME IInv, NEW id \in DOMAIN objects, NEW off \in Nat, NEW bytes \in Seq(Byte),
           off + Len(bytes) <= objects[id].size, sec' = Put(id, off, bytes), objects' = objects,
           NEW i \in DOMAIN objects, i # id
    PROVE  BytesOf(i)' = BytesOf(i)
<1>1. /\ objects[id].addr \in Nat /\ objects[id].size \in Nat
      /\ objects[i].addr \in Nat /\ objects[i].size \in Nat
      /\ objects[id].space \in Space /\ objects[i].space \in Space
      /\ sec \in [Space -> Section]
  BY DEF IInv, TypeOK, Object
<1>2. sec' = [sec EXCEPT ![objects[id].space] =
                 WriteBytes(sec[objects[id].space], objects[id].addr + off, bytes)]
  BY <1>1 DEF Put
<1>3. ASSUME NEW x \in Cells(i)
      PROVE  sec'[objects[i].space].mem[x] = sec[objects[i].space].mem[x]
  <2>1. CASE objects[i].space # objects[id].space
    BY <1>1, <1>2, <2>1
  <2>2. CASE objects[i].space = objects[id].space
    <3>1. x \in Nat /\ objects[i].addr <= x /\ x < objects[i].addr + objects[i].size
      BY <1>1 DEF Cells
    <3>2. \/ objects[i].addr + objects[i].size <= objects[id].addr
          \/ objects[id].addr + objects[id].size <= objects[i].addr
      BY <2>2 DEF IInv, Disjoint
    <3>3. x \notin objects[id].addr + off .. objects[id].addr + off + Len(bytes) - 1
      BY <1>1, <3>1, <3>2
    <3>4. x \in Address
      <4>1. objects[i].addr + objects[i].size <= sec[objects[i].space].usedSize
        BY DEF IInv, Placed
      <4>2. sec[objects[i].space].usedSize \in 1 .. DEFAULT_SIZE
        BY <1>1 DEF Section
      <4> QED BY <1>1, <3>1, <4>1, <4>2, SectionAssumption DEF Address, SectionAssumption
    <3>5. sec[objects[i].space] \in Section
      BY <1>1
    <3>6. WriteBytes(sec[objects[i].space], objects[id].addr + off, bytes).mem[x]
             = sec[objects[i].space].mem[x]
      BY <3>3, <3>4, <3>5 DEF WriteBytes, Section
    <3> QED BY <1>1, <1>2, <2>2, <3>6
  <2> QED BY <2>1, <2>2
<1> QED BY <1>3, SameBytes

LEMMA AllocationKeepsBuffers ==
    ASSUME IInv, NEW sp \in Space, NEW n \in Nat, CanOwn, CanAllocate(sec[sp], n),
           sec' = [sec EXCEPT ![sp] = Allocate(sec[sp], n)],
           NEW addr, NEW size, NEW d, Own(sp, addr, size, d)
    PROVE  \A id \in DOMAIN objects \cap DOMAIN objects' : BytesOf(id)' = BytesOf(id)
<1>1. sec \in [Space -> Section]
  BY DEF IInv, TypeOK
<1>2. Allocate(sec[sp], n) = [sec[sp] EXCEPT !.usedSize = sec[sp].usedSize + n]
  BY <1>1, AllocateFits
<1>3. [sec[sp] EXCEPT !.usedSize = sec[sp].usedSize + n].mem = sec[sp].mem
  BY <1>1 DEF Section
<1>4. \A x \in Space : sec'[x].mem = sec[x].mem
  BY <1>1, <1>2, <1>3
<1>5. \A id \in DOMAIN objects : objects'[id] = objects[id]
  BY FreshIdIsFresh DEF Own
<1> QED BY <1>4, <1>5, SameBuffers

Isolated ==
    \A id \in DOMAIN objects \cap DOMAIN objects' :
        BytesOf(id)' # BytesOf(id) => op'.kind # "none" /\ op'.obj = id

LEMMA IsolatedWrite ==
    ASSUME IInv, NEW id \in DOMAIN objects, NEW off \in Nat, NEW bytes \in Seq(Byte),
           off + Len(bytes) <= objects[id].size, sec' = Put(id, off, bytes),
           objects' = objects, op'.kind # "none", op'.obj = id
    PROVE  Isolated
  BY PutElsewhere DEF Isolated

LEMMA NextIsolated ==
    ASSUME IInv, [Next]_vars
    PROVE  Isolated
<1>m. \A reason : Abort(reason) => Isolated
  <2>1. UNCHANGED <<sec, objects>> => Isolated
    BY DEF Isolated, BytesOf, SectionOf
  <2> QED BY <2>1 DEF Abort, memory
<1>s. UNCHANGED <<sec, objects>> => Isolated
  BY DEF Isolated, BytesOf, SectionOf
<1>1. ASSUME NEW size \in GlobalSizes, AllocateGlobal(size) PROVE Isolated
  <2>1. ToUnsigned(size) \in Nat
    BY RuntimeAssumption, ToUnsignedType DEF RuntimeAssumption
  <2> QED BY <1>m, <1>1, <2>1, AllocationKeepsBuffers DEF AllocateGlobal, Isolated, Space
<1>2. CASE RunMain
  BY <1>s, <1>2 DEF RunMain
<1>3. CASE CallFunction
  BY <1>s, <1>3 DEF CallFunction
<1>4. ASSUME NEW size \in AllocaSizes, NEW elems \in AllocaElems, Alloca(size, elems)
      PROVE  Isolated
  <2> DEFINE n == (IF elems = 0 THEN 1 ELSE elems) * ToUnsigned(size)
  <2>1. n \in Nat
    <3>1. ToUnsigned(size) \in Nat /\ (IF elems = 0 THEN 1 ELSE elems) \in Nat
      BY RuntimeAssumption, ToUnsignedType DEF RuntimeAssumption
    <3> QED BY <3>1
  <2>2. Abort("sectionFull") \/
        /\ CanOwn /\ CanAllocate(sec["STACK"], n)
        /\ sec' = [sec EXCEPT !["STACK"] = Allocate(sec["STACK"], n)]
        /\ Own("STACK", sec["STACK"].usedSize, n, depth)
    BY <1>4 DEF Alloca
  <2> HIDE DEF n
  <2> QED BY <1>m, <2>1, <2>2, AllocationKeepsBuffers DEF Isolated, Space
<1>5. ASSUME NEW size \in MallocSizes, Malloc(size) PROVE Isolated
  <2>1. ToUnsigned(size) \in Nat
    BY RuntimeAssumption, ToUnsignedType DEF RuntimeAssumption
  <2> QED BY <1>m, <1>5, <2>1, AllocationKeepsBuffers DEF Malloc, Isolated, Space
<1>6. ASSUME NEW id \in DOMAIN objects, Free(id) PROVE Isolated
  <2>1. CASE Disown({id}) /\ UNCHANGED sec
    BY <2>1, SameBuffers DEF Disown, Isolated
  <2> QED BY <1>m, <1>6, <2>1 DEF Free
<1>7. ASSUME NEW id \in DOMAIN objects, NEW n \in AccessSizes, NEW off \in Offset(id)
      PROVE  /\ Load(id, off, n) => Isolated
             /\ \A bytes \in [1 .. n -> Byte] : Store(id, off, bytes) => Isolated
             /\ \A fill \in Byte : Memset(id, off, n, fill) => Isolated
  <2>1. n \in Nat /\ off \in Nat
    BY RuntimeAssumption DEF RuntimeAssumption, Offset, IInv, TypeOK, Object
  <2>2. Load(id, off, n) => Isolated
    BY <1>m, <1>s DEF Load
  <2>3. ASSUME NEW bytes \in [1 .. n -> Byte], Store(id, off, bytes) PROVE Isolated
    <3>1. bytes \in Seq(Byte)
      BY <2>1
    <3>3. off + Len(bytes) <= objects[id].size
      BY <2>3 DEF Store, InObject
    <3>4. CASE /\ sec' = Put(id, off, bytes)
               /\ op' = [kind |-> "write", obj |-> id, off |-> off, bytes |-> bytes]
               /\ UNCHANGED <<frames, objects, frameBase, status>>
      BY <2>1, <3>1, <3>3, <3>4, IsolatedWrite
    <3> QED BY <1>m, <2>3, <3>4 DEF Store
  <2>4. ASSUME NEW fill \in Byte, Memset(id, off, n, fill) PROVE Isolated
    <3>1. [i \in 1 .. n |-> fill] \in Seq(Byte) /\ Len([i \in 1 .. n |-> fill]) = n
      BY <2>1
    <3> QED BY <2>1, <2>4, <3>1, IsolatedWrite DEF Memset, InObject
  <2> QED BY <2>2, <2>3, <2>4
<1>8. ASSUME NEW name \in Externals, NEW dst \in DOMAIN objects, NEW src \in DOMAIN objects,
             NEW n \in AccessSizes, NEW doff \in Offset(dst), NEW soff \in Offset(src),
             MemCopy(name, dst, doff, src, soff, n)
      PROVE  Isolated
  <2>1. PICK result \in Seq(Byte) : Len(result) = n /\ sec' = Put(dst, doff, result)
    BY <1>8, MemCopyStep
  <2>2. doff \in Nat
    BY DEF Offset, IInv, TypeOK, Object
  <2> QED BY <1>8, <2>1, <2>2, IsolatedWrite DEF MemCopy, InObject
<1>9. CASE \E sp \in Space, a \in Address : AccessUnallocated(sp, a)
  BY <1>m, <1>9 DEF AccessUnallocated
<1>10. CASE Return
  <2>1. sec["STACK"] \in Section /\ sec \in [Space -> Section]
    BY DEF IInv, TypeOK, Space
  <2>2. Deallocate(sec["STACK"], frames[depth]).mem = sec["STACK"].mem
    BY <2>1 DEF Deallocate, Section
  <2>3. \A sp \in Space : sec'[sp].mem = sec[sp].mem
    BY <1>10, <2>1, <2>2 DEF Return, Space
  <2>4. \A id \in DOMAIN objects \cap DOMAIN objects' : objects'[id] = objects[id]
    BY <1>10 DEF Return, Disown
  <2> QED BY <2>3, <2>4, SameBuffers DEF Isolated
<1>11. CASE UNCHANGED vars
  BY <1>s, <1>11 DEF vars
<1> QED BY <1>1, <1>2, <1>3, <1>4, <1>5, <1>6, <1>7, <1>8, <1>9, <1>10, <1>11 DEF Next

(* Only a store, memset or block copy into an object changes that object's bytes: no   *)
(* call, return, alloca, malloc, free or write elsewhere does (MemorySection::allocate, *)
(* deallocate and write together).                                                      *)
THEOREM WritesIsolated == ASSUME SizesFit PROVE Spec => Isolation
<1>1. IInv /\ [Next]_vars => [Isolated]_vars
  BY NextIsolated
<1>2. Spec => [][Isolated]_vars
  BY <1>1, Invariance, PTL DEF Spec
<1> QED BY <1>2 DEF Isolation, Isolated
================================================================================
