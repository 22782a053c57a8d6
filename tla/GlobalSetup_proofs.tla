--------------------------- MODULE GlobalSetup_proofs ----------------------------
(* What holds of the globals, the functions and the arguments for every program and   *)
(* command line, every size of a pointer and of the section.                          *)
EXTENDS GlobalSetup, SequenceTheorems, FiniteSetTheorems, WellFoundedInduction, TLAPS

(* Everything that is allocated has a size that the unsigned parameter of allocate()   *)
(* can carry.                                                                         *)
SizesFit ==
    \A p \in Programs :
        /\ \A i \in DOMAIN p.globals : SizeOf(p.globals[i]) < UINT_MOD
        /\ PtrSize < UINT_MOD /\ Len(p.args) * PtrSize < UINT_MOD
        /\ \A i \in DOMAIN p.args : Len(p.args[i]) + 1 < UINT_MOD

(* The section never grows: allocate() asserts what rules it out.                      *)
IsSection(s) ==
    /\ s = [totalSize |-> DEFAULT_SIZE, usedSize |-> s.usedSize, mem |-> [a \in Address |-> s.mem[a]]]
    /\ s.usedSize \in 1 .. DEFAULT_SIZE

IsByte(byte, limit) ==
    \/ byte = Garbage
    \/ byte.kind = "char"
    \/ byte.kind = "ptr" /\ byte.part \in 1 .. PtrSize /\ byte.addr \in 0 .. limit

Typed(s) == IsSection(s) /\ \A a \in Address : IsByte(s.mem[a], s.usedSize)

MemoryTyped == Typed(globalMem)

(* The objects that have been placed so far, by name, and where.                       *)
SizeIn(p, name) ==
    CASE name.kind = "global" -> SizeOf(p.globals[name.i])
      [] name.kind = "function" -> PtrSize
      [] name.kind = "argv" -> Len(p.args) * PtrSize
      [] name.kind = "arg" -> Len(p.args[name.i]) + 1

Start(env, str, name) ==
    CASE name.kind \in {"global", "function"} -> env[name]
      [] name.kind = "argv" -> str.array
      [] name.kind = "arg" -> str.addrs[name.i]

Names(env, str) ==
    DOMAIN env \cup (IF str.array = 0 THEN {} ELSE {Argv}) \cup {Arg(i) : i \in DOMAIN str.addrs}

Layout(p, env, str) ==
    [name \in Names(env, str) |-> [at |-> Start(env, str, name), size |-> SizeIn(p, name)]]

(* Every object lies in what is allocated, and of two one ends before the other starts. *)
Ordered(where, limit) ==
    /\ \A n \in DOMAIN where :
          /\ where[n].at \in Nat /\ where[n].size \in Nat /\ 1 <= where[n].at
          /\ where[n].at + where[n].size <= limit
    /\ \A m, n \in DOMAIN where :
          m # n => \/ where[m].at + where[m].size <= where[n].at
                   \/ where[n].at + where[n].size <= where[m].at

InOrder == Ordered(Layout(program, globalEnv, strings), globalMem.usedSize)

(* How far the setup is.                                                               *)
Globals == {Global(i) : i \in DOMAIN program.globals}
Functions == {Function(i) : i \in DOMAIN program.functions}

AllInitialised == {"functions", "argv", "strings", "callMain", "main"}
Started == {"start", "allocate", "initialise"}

Progress ==
    /\ stage \in Stages /\ next \in Nat \ {0}
    /\ DOMAIN globalEnv \subseteq Globals \cup Functions
    /\ stage = "start" => DOMAIN globalEnv = {} /\ next = 1
    /\ stage = "allocate" => \A i \in DOMAIN program.globals : Global(i) \in DOMAIN globalEnv <=> i < next
    /\ stage \in {"initialise"} \cup AllInitialised => Globals \subseteq DOMAIN globalEnv
    /\ stage \in Started => DOMAIN globalEnv \cap Functions = {}
    /\ stage = "functions" => \A i \in DOMAIN program.functions : Function(i) \in DOMAIN globalEnv <=> i < next

ArgsProgress ==
    /\ strings = [array |-> strings.array, addrs |-> strings.addrs]
    /\ strings.array \in Nat /\ strings.addrs \in Seq(Nat) /\ Len(strings.addrs) <= Len(program.args)
    /\ strings.array = 0 => strings.addrs = <<>>
    /\ stage \in Started \cup {"functions", "argv"} => strings.array = 0
    /\ stage \in {"strings", "callMain", "main"} => strings.array # 0
    /\ stage = "argv" => next = 1
    /\ stage = "strings" => Len(strings.addrs) = next - 1
    /\ stage \in {"callMain", "main"} => Len(strings.addrs) = Len(program.args)

(* The two tables of functions are inverse to each other.                              *)
TablesInverse ==
    /\ \A a \in DOMAIN funPtrMap :
          funPtrMap[a] \in DOMAIN globalEnv \cap Functions /\ globalEnv[funPtrMap[a]] = a
    /\ \A f \in DOMAIN globalEnv \cap Functions :
          globalEnv[f] \in DOMAIN funPtrMap /\ funPtrMap[globalEnv[f]] = f

(* The program stores pointers into globals, and changes nothing else of what it means. *)
SameShape(init, was, p) ==
    IF was.kind = "refs"
    THEN /\ init = [kind |-> "refs", names |-> init.names] /\ init.names \in Seq(ToSet(init.names))
         /\ Len(init.names) = Len(was.names) /\ \A j \in DOMAIN init.names : IsName(init.names[j], p)
    ELSE init = was

MeantShape ==
    /\ program \in Programs
    /\ DOMAIN meant = DOMAIN program.globals
    /\ \A i \in DOMAIN program.globals : SameShape(meant[i], program.globals[i], program)
    /\ stage \in (Started \cup AllInitialised) \ {"main"} => meant = program.globals

(* The globals whose initialiser is written.                                            *)
Filled(i) ==
    /\ i \in DOMAIN program.globals /\ program.globals[i].kind # "none"
    /\ stage \in AllInitialised \/ (stage = "initialise" /\ i < next)

NamesKnown == \A i \in DOMAIN program.globals :
    Filled(i) /\ IsRefs(meant[i]) => \A j \in DOMAIN meant[i].names : HasAddress(meant[i].names[j])

Finds(mem, a, bytes) == \A j \in 1 .. Len(bytes) : mem[a + j - 1] = bytes[j]

(* What is written in the objects so far, and that memory has it.                       *)
HeldNames ==
    {Global(i) : i \in {j \in DOMAIN program.globals : Filled(j)}}
    \cup (IF strings.array = 0 THEN {} ELSE {Argv}) \cup {Arg(i) : i \in DOMAIN strings.addrs}

Held ==
    [name \in HeldNames |->
        CASE name.kind = "global" -> Declared(meant[name.i])
          [] name.kind = "argv" -> PtrArray(strings.addrs)
          [] name.kind = "arg" -> CharsOf(program.args[name.i])]

Holdings(where, held, mem) ==
    \A name \in DOMAIN held :
        /\ name \in DOMAIN where /\ Len(held[name]) \in Nat /\ Len(held[name]) <= where[name].size
        /\ Finds(mem, where[name].at, held[name])

Contents == Holdings(Layout(program, globalEnv, strings), Held, globalMem.mem)

IInv ==
    /\ MemoryTyped /\ InOrder /\ Progress /\ ArgsProgress /\ TablesInverse
    /\ MeantShape /\ NamesKnown /\ Contents /\ CallsReachNamed
----------------------------------------------------------------------------------
(* Division and remainder find the element and the place in it.                        *)
LEMMA SplitIndex ==
    ASSUME NEW p \in Nat \ {0}, NEW q \in Nat, NEW r \in 0 .. p - 1
    PROVE  (q * p + r) \div p = q /\ (q * p + r) % p = r
<1>1. PICK x \in Nat : x = q * p + r
  OBVIOUS
<1>2. PICK d \in Int : d = x \div p
  OBVIOUS
<1>3. PICK m \in 0 .. p - 1 : m = x % p
  BY <1>1
<1>4. x = p * d + m
  BY <1>1, <1>2, <1>3
<1>5. p * d + m = p * q + r
  BY <1>1, <1>4
<1>6. d = q
  <2>1. CASE d < q
    <3>1. PICK e \in Nat : q = d + 1 + e
      BY <2>1
    <3>2. p * q = p * d + p + p * e
      BY <3>1
    <3>3. p * e \in Nat /\ p * d \in Int
      OBVIOUS
    <3> QED BY <1>3, <1>5, <3>2, <3>3
  <2>2. CASE q < d
    <3>1. PICK e \in Nat : d = q + 1 + e
      BY <2>2
    <3>2. p * d = p * q + p + p * e
      BY <3>1
    <3>3. p * e \in Nat /\ p * q \in Int
      OBVIOUS
    <3> QED BY <1>3, <1>5, <3>2, <3>3
  <2> QED BY <2>1, <2>2
<1> QED BY <1>1, <1>2, <1>3, <1>5, <1>6

(* Element i of an array of n has its place among the first n * p bytes.                *)
LEMMA PlaceOfElement ==
    ASSUME NEW n \in Nat, NEW i \in 1 .. n, NEW p \in Nat \ {0}
    PROVE  (i - 1) * p \in Nat /\ (i - 1) * p + p <= n * p /\ n * p \in Nat
<1>1. PICK k \in Nat : n = (i - 1) + 1 + k
  <2>1. n - i \in Nat /\ n = (i - 1) + 1 + (n - i)
    OBVIOUS
  <2> QED BY <2>1
<1>2. PICK j \in Nat : j = i - 1
  OBVIOUS
<1>3. n * p = j * p + p + k * p /\ k * p \in Nat /\ j * p \in Nat
  BY <1>1, <1>2
<1> QED BY <1>2, <1>3

(* The byte after the first k of an array belongs to one of its elements.               *)
LEMMA ElementAtPlace ==
    ASSUME NEW n \in Nat, NEW p \in Nat \ {0}, NEW k \in 1 .. n * p
    PROVE  ((k - 1) \div p) + 1 \in 1 .. n /\ ((k - 1) % p) + 1 \in 1 .. p
<1>1. PICK x \in Nat : x = k - 1
  OBVIOUS
<1>2. x < n * p
  BY <1>1
<1>3. PICK d \in Int : d = x \div p
  BY <1>1
<1>4. PICK m \in 0 .. p - 1 : m = x % p
  BY <1>1
<1>5. x = p * d + m
  BY <1>3, <1>4
<1>6. d >= 0
  <2>1. SUFFICES ASSUME d < 0 PROVE FALSE
    OBVIOUS
  <2>2. PICK e \in Nat : d = 0 - 1 - e
    BY <2>1
  <2>3. p * d = 0 - p - p * e /\ p * e \in Nat
    BY <2>2
  <2> QED BY <1>4, <1>5, <2>3
<1>7. d < n
  <2>1. SUFFICES ASSUME d >= n PROVE FALSE
    OBVIOUS
  <2>2. PICK e \in Nat : d = n + e
    BY <2>1
  <2>3. p * d = n * p + p * e /\ p * e \in Nat
    BY <2>2
  <2> QED BY <1>2, <1>4, <1>5, <2>3
<1> QED BY <1>1, <1>3, <1>4, <1>6, <1>7

(* An array of pointers, byte by byte.                                                  *)
LEMMA PtrArrayIs ==
    ASSUME NEW S, NEW addrs \in Seq(S)
    PROVE  /\ Len(PtrArray(addrs)) = Len(addrs) * PtrSize /\ Len(addrs) * PtrSize \in Nat
           /\ DOMAIN PtrArray(addrs) = 1 .. Len(addrs) * PtrSize
           /\ \A i \in 1 .. Len(addrs), j \in 1 .. PtrSize :
                 /\ (i - 1) * PtrSize + j \in 1 .. Len(addrs) * PtrSize
                 /\ PtrArray(addrs)[(i - 1) * PtrSize + j] = PtrByte(addrs[i], j)
           /\ \A k \in 1 .. Len(addrs) * PtrSize : \E i \in 1 .. Len(addrs), j \in 1 .. PtrSize :
                 k = (i - 1) * PtrSize + j
<1> DEFINE n == Len(addrs)
<1>0. n \in Nat /\ PtrSize \in Nat \ {0}
  BY SetupAssumption DEF SetupAssumption
<1>1. n * PtrSize \in Nat
  BY <1>0
<1>2. Len(PtrArray(addrs)) = n * PtrSize /\ DOMAIN PtrArray(addrs) = 1 .. n * PtrSize
  BY <1>1 DEF PtrArray
<1>3. ASSUME NEW i \in 1 .. n, NEW j \in 1 .. PtrSize
      PROVE  /\ (i - 1) * PtrSize + j \in 1 .. n * PtrSize
             /\ PtrArray(addrs)[(i - 1) * PtrSize + j] = PtrByte(addrs[i], j)
  <2>1. PICK q \in Nat, r \in 0 .. PtrSize - 1 : i = q + 1 /\ j = r + 1
    <3>1. i - 1 \in Nat /\ j - 1 \in 0 .. PtrSize - 1 /\ i = (i - 1) + 1 /\ j = (j - 1) + 1
      BY <1>0
    <3> QED BY <3>1
  <2>2. (i - 1) * PtrSize \in Nat /\ (i - 1) * PtrSize + PtrSize <= n * PtrSize
    BY <1>0, PlaceOfElement
  <2>3. PICK k \in 1 .. n * PtrSize : k = (i - 1) * PtrSize + j
    BY <1>0, <1>1, <2>2
  <2>4. k - 1 = q * PtrSize + r
    BY <1>0, <2>1, <2>3
  <2>5. (k - 1) \div PtrSize = q /\ (k - 1) % PtrSize = r
    BY <1>0, <2>4, SplitIndex
  <2>6. PtrArray(addrs)[k] = PtrByte(addrs[((k - 1) \div PtrSize) + 1], ((k - 1) % PtrSize) + 1)
    BY DEF PtrArray
  <2> QED BY <2>1, <2>3, <2>5, <2>6
<1>4. ASSUME NEW k \in 1 .. n * PtrSize
      PROVE  \E i \in 1 .. n, j \in 1 .. PtrSize : k = (i - 1) * PtrSize + j
  <2>1. ((k - 1) \div PtrSize) + 1 \in 1 .. n /\ ((k - 1) % PtrSize) + 1 \in 1 .. PtrSize
    BY <1>0, ElementAtPlace
  <2>2. PICK d \in Nat : d = (k - 1) \div PtrSize
    BY <1>0, <2>1
  <2>3. PICK m \in 0 .. PtrSize - 1 : m = (k - 1) % PtrSize
    BY <1>0
  <2>4. k - 1 = PtrSize * d + m
    BY <1>0, <2>2, <2>3
  <2>5. d + 1 \in 1 .. n /\ m + 1 \in 1 .. PtrSize /\ k = ((d + 1) - 1) * PtrSize + (m + 1)
    BY <1>0, <2>1, <2>2, <2>3, <2>4
  <2> QED BY <2>5
<1> QED BY <1>1, <1>2, <1>3, <1>4

----------------------------------------------------------------------------------
(* allocate() returns only if the request fits, and then touches no byte.               *)
LEMMA AllocateFits ==
    ASSUME NEW s, IsSection(s), NEW n \in Nat, n < UINT_MOD, CanAllocate(s, ToUnsigned(n))
    PROVE  /\ IsSection(Allocate(s, ToUnsigned(n)))
           /\ Allocate(s, ToUnsigned(n)).usedSize = s.usedSize + n
           /\ Allocate(s, ToUnsigned(n)).mem = s.mem
           /\ s.usedSize \in Nat /\ s.usedSize >= 1 /\ s.usedSize + n < DEFAULT_SIZE
<1>0. DEFAULT_SIZE \in Nat /\ UINT_MOD \in Nat \ {0}
  BY SectionAssumption DEF SectionAssumption
<1>1. s.usedSize \in Nat /\ s.usedSize >= 1 /\ s.usedSize <= DEFAULT_SIZE
      /\ s.totalSize = DEFAULT_SIZE
  BY <1>0 DEF IsSection
<1>2. ToUnsigned(n) = n
  BY <1>0 DEF ToUnsigned
<1>3. s.usedSize + n < DEFAULT_SIZE
  <2>1. SUFFICES ASSUME s.usedSize + n >= s.totalSize PROVE FALSE
    BY <1>0, <1>1
  <2>2. Reserve(s, n) = Grow(s)
    BY <2>1 DEF Reserve
  <2>3. Grow(s).usedSize = s.usedSize /\ Grow(s).totalSize = s.totalSize
    BY DEF Grow, IsSection
  <2> QED BY <1>1, <1>2, <2>1, <2>2, <2>3, <1>0 DEF CanAllocate
<1>4. Reserve(s, n) = s
  BY <1>0, <1>1, <1>3 DEF Reserve
<1>5. Allocate(s, n) = [s EXCEPT !.usedSize = s.usedSize + n]
  BY <1>4 DEF Allocate
<1>6. [s EXCEPT !.usedSize = s.usedSize + n]
        = [totalSize |-> DEFAULT_SIZE, usedSize |-> s.usedSize + n, mem |-> s.mem]
  BY DEF IsSection
<1>7. s.mem = [a \in Address |-> s.mem[a]]
  BY DEF IsSection
<1>8. s.usedSize + n \in 1 .. DEFAULT_SIZE
  BY <1>0, <1>1, <1>3
<1>9. IsSection([totalSize |-> DEFAULT_SIZE, usedSize |-> s.usedSize + n, mem |-> s.mem])
  BY <1>7, <1>8 DEF IsSection
<1> QED BY <1>1, <1>2, <1>3, <1>5, <1>6, <1>9

Overwritten(old, a, bytes, new) ==
    \A x \in Address : new[x] = IF x \in a .. a + Len(bytes) - 1 THEN bytes[x - a + 1] ELSE old[x]

LEMMA WriteBytesIs ==
    ASSUME NEW s, IsSection(s), NEW a \in Nat, NEW bytes, Len(bytes) \in Nat
    PROVE  /\ IsSection(WriteBytes(s, a, bytes))
           /\ WriteBytes(s, a, bytes).usedSize = s.usedSize
           /\ Overwritten(s.mem, a, bytes, WriteBytes(s, a, bytes).mem)
<1> DEFINE m == [x \in Address |-> IF x \in a .. a + Len(bytes) - 1 THEN bytes[x - a + 1] ELSE s.mem[x]]
<1>1. DOMAIN s.mem = Address /\ s.usedSize \in 1 .. DEFAULT_SIZE
  BY DEF IsSection
<1>2. WriteBytes(s, a, bytes) = [s EXCEPT !.mem = m]
  BY <1>1 DEF WriteBytes
<1>4. m = [x \in Address |-> m[x]]
  OBVIOUS
<1> HIDE DEF m
<1>3. [s EXCEPT !.mem = m] = [totalSize |-> DEFAULT_SIZE, usedSize |-> s.usedSize, mem |-> m]
  BY DEF IsSection
<1>5. IsSection([totalSize |-> DEFAULT_SIZE, usedSize |-> s.usedSize, mem |-> m])
  BY <1>1, <1>4 DEF IsSection
<1>6. Overwritten(s.mem, a, bytes, m)
  BY DEF Overwritten, m
<1>7. WriteBytes(s, a, bytes) = [totalSize |-> DEFAULT_SIZE, usedSize |-> s.usedSize, mem |-> m]
  BY <1>2, <1>3
<1> QED BY <1>5, <1>6, <1>7

(* What is written is found, and what lies apart from it is still there.                *)
LEMMA FindsWritten ==
    ASSUME NEW s, IsSection(s), NEW a \in Nat, NEW bytes, Len(bytes) \in Nat,
           a + Len(bytes) <= DEFAULT_SIZE
    PROVE  Finds(WriteBytes(s, a, bytes).mem, a, bytes)
<1>0. Overwritten(s.mem, a, bytes, WriteBytes(s, a, bytes).mem)
  BY WriteBytesIs
<1>1. ASSUME NEW j \in 1 .. Len(bytes)
      PROVE  WriteBytes(s, a, bytes).mem[a + j - 1] = bytes[j]
  <2>1. a + j - 1 \in Address /\ a + j - 1 \in a .. a + Len(bytes) - 1 /\ (a + j - 1) - a + 1 = j
    BY SectionAssumption DEF Address, SectionAssumption
  <2>2. WriteBytes(s, a, bytes).mem[a + j - 1]
          = IF a + j - 1 \in a .. a + Len(bytes) - 1 THEN bytes[(a + j - 1) - a + 1] ELSE s.mem[a + j - 1]
    BY <1>0, <2>1 DEF Overwritten
  <2> QED BY <2>1, <2>2
<1> QED BY <1>1 DEF Finds

LEMMA FindsApart ==
    ASSUME NEW s, IsSection(s), NEW a \in Nat, NEW bytes, Len(bytes) \in Nat,
           NEW b \in Nat, NEW others, Len(others) \in Nat, b + Len(others) <= DEFAULT_SIZE,
           a + Len(bytes) <= b \/ b + Len(others) <= a,
           Finds(s.mem, b, others)
    PROVE  Finds(WriteBytes(s, a, bytes).mem, b, others)
<1>0. Overwritten(s.mem, a, bytes, WriteBytes(s, a, bytes).mem)
  BY WriteBytesIs
<1>1. ASSUME NEW j \in 1 .. Len(others)
      PROVE  WriteBytes(s, a, bytes).mem[b + j - 1] = others[j]
  <2>1. b + j - 1 \in Address /\ b + j - 1 \notin a .. a + Len(bytes) - 1
    BY SectionAssumption DEF Address, SectionAssumption
  <2>2. s.mem[b + j - 1] = others[j]
    BY DEF Finds
  <2> QED BY <1>0, <2>1, <2>2 DEF Overwritten
<1> QED BY <1>1 DEF Finds

(* A pointer that is written at its slot replaces one element of the array.             *)
LEMMA FindsElement ==
    ASSUME NEW s, IsSection(s), NEW a \in Nat, NEW S, NEW addrs \in Seq(S), NEW T, NEW new \in Seq(T),
           NEW at \in 1 .. Len(new), Len(addrs) <= Len(new),
           \A i \in 1 .. Len(new) : i # at => i <= Len(addrs) /\ new[i] = addrs[i],
           a + Len(new) * PtrSize <= DEFAULT_SIZE,
           Finds(s.mem, a, PtrArray(addrs))
    PROVE  Finds(WriteBytes(s, a + (at - 1) * PtrSize, PtrBytes(new[at])).mem, a, PtrArray(new))
<1> DEFINE slot == a + (at - 1) * PtrSize
           bytes == PtrBytes(new[at])
<1>0. PtrSize \in Nat \ {0} /\ Len(new) \in Nat /\ DEFAULT_SIZE \in Nat
  BY SetupAssumption, SectionAssumption DEF SetupAssumption, SectionAssumption
<1>1. Len(bytes) = PtrSize /\ \A j \in 1 .. PtrSize : bytes[j] = PtrByte(new[at], j)
  BY <1>0 DEF PtrBytes
<1>2. (at - 1) * PtrSize \in Nat
  BY <1>0, PlaceOfElement
<1>3. slot \in Nat
  BY <1>2
<1>h. Len(bytes) \in Nat
  BY <1>0, <1>1
<1> HIDE DEF bytes, slot
<1>w. Overwritten(s.mem, slot, bytes, WriteBytes(s, slot, bytes).mem)
  BY <1>3, <1>h, WriteBytesIs
<1>4. ASSUME NEW k \in 1 .. Len(new) * PtrSize
      PROVE  WriteBytes(s, slot, bytes).mem[a + k - 1] = PtrArray(new)[k]
  <2>1. PICK i \in 1 .. Len(new), j \in 1 .. PtrSize : k = (i - 1) * PtrSize + j
    BY PtrArrayIs
  <2>2. PtrArray(new)[k] = PtrByte(new[i], j)
    BY <2>1, PtrArrayIs
  <2>3. a + k - 1 \in Address
    BY <1>0 DEF Address
  <2>4. WriteBytes(s, slot, bytes).mem[a + k - 1]
          = IF a + k - 1 \in slot .. slot + PtrSize - 1 THEN bytes[(a + k - 1) - slot + 1]
            ELSE s.mem[a + k - 1]
    BY <1>1, <2>3, <1>w DEF Overwritten
  <2>5. CASE i = at
    <3>1. PICK q \in Nat : q = (at - 1) * PtrSize
      BY <1>2
    <3>2. a + k - 1 = slot + j - 1
      BY <2>1, <2>5, <3>1 DEF slot
    <3>3. a + k - 1 \in slot .. slot + PtrSize - 1 /\ (a + k - 1) - slot + 1 = j
      BY <1>0, <1>3, <3>2
    <3> QED BY <1>1, <2>2, <2>4, <2>5, <3>3
  <2>6. CASE i # at
    <3>1. i \in 1 .. Len(addrs) /\ new[i] = addrs[i]
      BY <2>6
    <3>2. k \in 1 .. Len(addrs) * PtrSize /\ PtrArray(addrs)[k] = PtrByte(addrs[i], j)
      BY <2>1, <3>1, PtrArrayIs
    <3>3. s.mem[a + k - 1] = PtrArray(addrs)[k]
      BY <3>2, PtrArrayIs DEF Finds
    <3>4. a + k - 1 \notin slot .. slot + PtrSize - 1
      <4>1. PICK q \in Nat, r \in Nat : q = (at - 1) * PtrSize /\ r = (i - 1) * PtrSize
        BY <1>0, <1>2, PlaceOfElement
      <4>4. slot = a + q /\ k = r + j
        BY <2>1, <4>1 DEF slot
      <4>2. CASE i < at
        <5>1. i \in 1 .. at - 1 /\ at - 1 \in Nat
          BY <4>2
        <5>2. r + PtrSize <= q
          BY <1>0, <4>1, <5>1, PlaceOfElement
        <5> QED BY <1>0, <4>4, <5>2
      <4>3. CASE at < i
        <5>1. at \in 1 .. i - 1 /\ i - 1 \in Nat
          BY <4>3
        <5>2. q + PtrSize <= r
          BY <1>0, <4>1, <5>1, PlaceOfElement
        <5> QED BY <1>0, <4>4, <5>2
      <4> QED BY <2>6, <4>2, <4>3
    <3> QED BY <2>2, <2>4, <3>1, <3>2, <3>3, <3>4
  <2> QED BY <2>5, <2>6
<1> QED BY <1>4, PtrArrayIs DEF Finds, bytes, slot

(* A pointer is loaded from its slot.                                                   *)
LEMMA FindsPointer ==
    ASSUME NEW S, NEW addrs \in Seq(S), NEW a \in Nat, NEW at \in 1 .. Len(addrs),
           Finds(globalMem.mem, a, PtrArray(addrs))
    PROVE  /\ ReadBytes(globalMem, a + (at - 1) * PtrSize, PtrSize) = PtrBytes(addrs[at])
           /\ ReadAsPointer(a + (at - 1) * PtrSize) = addrs[at]
<1>0. PtrSize \in Nat \ {0} /\ (at - 1) * PtrSize \in Nat
  <2>1. PtrSize \in Nat \ {0}
    BY SetupAssumption DEF SetupAssumption
  <2> QED BY <2>1, PlaceOfElement
<1>1. ASSUME NEW j \in 1 .. PtrSize
      PROVE  globalMem.mem[a + (at - 1) * PtrSize + j - 1] = PtrByte(addrs[at], j)
  <2>1. PICK q \in Nat : q = (at - 1) * PtrSize
    BY <1>0
  <2>2. q + j \in 1 .. Len(addrs) * PtrSize /\ PtrArray(addrs)[q + j] = PtrByte(addrs[at], j)
    BY <2>1, PtrArrayIs
  <2>3. globalMem.mem[a + (q + j) - 1] = PtrArray(addrs)[q + j]
    BY <2>2, PtrArrayIs DEF Finds
  <2>4. a + (q + j) - 1 = a + q + j - 1
    BY <2>1
  <2> QED BY <2>1, <2>2, <2>3, <2>4
<1>2. ReadBytes(globalMem, a + (at - 1) * PtrSize, PtrSize) = PtrBytes(addrs[at])
  BY <1>1 DEF ReadBytes, PtrBytes
<1>3. PtrBytes(addrs[at])[1].kind = "ptr" /\ PtrBytes(addrs[at])[1].addr = addrs[at]
  BY <1>0 DEF PtrBytes, PtrByte
<1> QED BY <1>2, <1>3 DEF ReadAsPointer

----------------------------------------------------------------------------------
(* What the bytes in memory are.                                                        *)
LEMMA AllocateTyped ==
    ASSUME NEW s, Typed(s), NEW n \in Nat, n < UINT_MOD, CanAllocate(s, ToUnsigned(n))
    PROVE  Typed(Allocate(s, ToUnsigned(n)))
<1> DEFINE t == Allocate(s, ToUnsigned(n))
<1>1. IsSection(s)
  BY DEF Typed
<1>2. IsSection(t) /\ t.usedSize = s.usedSize + n /\ t.mem = s.mem /\ s.usedSize \in Nat
  BY <1>1, AllocateFits
<1> HIDE DEF t
<1>3. ASSUME NEW a \in Address PROVE IsByte(t.mem[a], t.usedSize)
  <2>1. IsByte(s.mem[a], s.usedSize)
    BY DEF Typed
  <2> QED BY <1>2, <2>1 DEF IsByte
<1> QED BY <1>2, <1>3 DEF Typed, t

LEMMA WriteTyped ==
    ASSUME NEW s, Typed(s), NEW a \in Nat, NEW bytes, Len(bytes) \in Nat,
           \A j \in 1 .. Len(bytes) : IsByte(bytes[j], s.usedSize)
    PROVE  Typed(WriteBytes(s, a, bytes))
<1> DEFINE t == WriteBytes(s, a, bytes)
<1>1. IsSection(s)
  BY DEF Typed
<1>2. IsSection(t) /\ t.usedSize = s.usedSize /\ Overwritten(s.mem, a, bytes, t.mem)
  BY <1>1, WriteBytesIs
<1> HIDE DEF t
<1>3. ASSUME NEW x \in Address PROVE IsByte(t.mem[x], t.usedSize)
  <2>1. CASE x \in a .. a + Len(bytes) - 1
    <3>1. x - a + 1 \in 1 .. Len(bytes) /\ t.mem[x] = bytes[x - a + 1]
      BY <1>2, <2>1 DEF Overwritten
    <3> QED BY <1>2, <3>1
  <2>2. CASE x \notin a .. a + Len(bytes) - 1
    <3>1. t.mem[x] = s.mem[x]
      BY <1>2, <2>2 DEF Overwritten
    <3> QED BY <1>2, <3>1 DEF Typed
  <2> QED BY <2>1, <2>2
<1> QED BY <1>2, <1>3 DEF Typed, t

LEMMA TextIs ==
    ASSUME NEW S, NEW chars \in Seq(S), NEW limit
    PROVE  /\ Len(Text(chars)) = Len(chars) /\ Len(chars) \in Nat
           /\ \A j \in 1 .. Len(chars) : IsByte(Text(chars)[j], limit)
BY DEF Text, Char, IsByte

LEMMA CharsOfIs ==
    ASSUME NEW S, NEW chars \in Seq(S), NEW limit
    PROVE  /\ Len(CharsOf(chars)) = Len(chars) + 1 /\ Len(chars) \in Nat
           /\ \A j \in 1 .. Len(chars) + 1 : IsByte(CharsOf(chars)[j], limit)
<1> DEFINE T == {Char(c) : c \in S} \cup {NUL}
<1>1. \A byte \in T : IsByte(byte, limit)
  BY DEF Char, IsByte, NUL
<1>2. Text(chars) \in Seq(T) /\ <<NUL>> \in Seq(T) /\ Len(Text(chars)) = Len(chars)
  BY DEF Text
<1> HIDE DEF T
<1>3. CharsOf(chars) \in Seq(T) /\ Len(CharsOf(chars)) = Len(chars) + 1
  BY <1>2 DEF CharsOf
<1> QED BY <1>1, <1>3

LEMMA PtrBytesTyped ==
    ASSUME NEW limit, NEW a \in 0 .. limit
    PROVE  /\ Len(PtrBytes(a)) = PtrSize /\ PtrSize \in Nat \ {0}
           /\ \A j \in 1 .. PtrSize : IsByte(PtrBytes(a)[j], limit)
<1>1. PtrSize \in Nat \ {0}
  BY SetupAssumption DEF SetupAssumption
<1>2. Len(PtrBytes(a)) = PtrSize
  BY <1>1 DEF PtrBytes
<1>3. ASSUME NEW j \in 1 .. PtrSize PROVE IsByte(PtrBytes(a)[j], limit)
  <2>1. PtrBytes(a)[j] = PtrByte(a, j)
    BY DEF PtrBytes
  <2>2. IsByte(PtrByte(a, j), limit)
    BY DEF PtrByte, IsByte
  <2> QED BY <2>1, <2>2
<1> QED BY <1>1, <1>2, <1>3

LEMMA PtrArrayTyped ==
    ASSUME NEW limit \in Nat, NEW addrs \in Seq(0 .. limit)
    PROVE  /\ Len(PtrArray(addrs)) \in Nat
           /\ \A k \in 1 .. Len(PtrArray(addrs)) : IsByte(PtrArray(addrs)[k], limit)
<1>1. Len(PtrArray(addrs)) = Len(addrs) * PtrSize /\ Len(addrs) * PtrSize \in Nat
  BY PtrArrayIs
<1>2. ASSUME NEW k \in 1 .. Len(addrs) * PtrSize PROVE IsByte(PtrArray(addrs)[k], limit)
  <2>1. PICK i \in 1 .. Len(addrs), j \in 1 .. PtrSize : k = (i - 1) * PtrSize + j
    BY PtrArrayIs
  <2>2. PtrArray(addrs)[k] = PtrByte(addrs[i], j)
    BY <2>1, PtrArrayIs
  <2>3. addrs[i] \in 0 .. limit
    OBVIOUS
  <2> QED BY <2>2, <2>3 DEF PtrByte, IsByte
<1> QED BY <1>1, <1>2

----------------------------------------------------------------------------------
(* The objects and their places.                                                        *)
Extends(where, new, name, limit, size) ==
    /\ name \notin DOMAIN where /\ DOMAIN new = DOMAIN where \cup {name}
    /\ new[name].at = limit /\ new[name].size = size
    /\ \A l \in DOMAIN where : new[l] = where[l]

LEMMA OrderedGrows ==
    ASSUME NEW where, NEW limit \in Nat, limit >= 1, Ordered(where, limit),
           NEW name, NEW size \in Nat, NEW new, Extends(where, new, name, limit, size)
    PROVE  Ordered(new, limit + size)
<1>1. ASSUME NEW n \in DOMAIN new
      PROVE  /\ new[n].at \in Nat /\ new[n].size \in Nat /\ 1 <= new[n].at
             /\ new[n].at + new[n].size <= limit + size
             /\ n # name => new[n].at + new[n].size <= limit
  <2>1. CASE n = name
    BY <2>1 DEF Extends
  <2>2. CASE n # name
    BY <2>2 DEF Extends, Ordered
  <2> QED BY <2>1, <2>2
<1>2. ASSUME NEW m \in DOMAIN new, NEW n \in DOMAIN new, m # n
      PROVE  \/ new[m].at + new[m].size <= new[n].at
             \/ new[n].at + new[n].size <= new[m].at
  <2>1. CASE m = name
    BY <1>1, <1>2, <2>1 DEF Extends
  <2>2. CASE n = name
    BY <1>1, <1>2, <2>2 DEF Extends
  <2>3. CASE m # name /\ n # name
    BY <1>2, <2>3 DEF Extends, Ordered
  <2> QED BY <2>1, <2>2, <2>3
<1> QED BY <1>1, <1>2 DEF Ordered

(* What LLVM promises of the program, with the sizes that follow.                       *)
LEMMA ProgramFacts ==
    ASSUME NEW p \in Programs
    PROVE  /\ PtrSize \in Nat \ {0}
           /\ Len(p.globals) \in Nat /\ DOMAIN p.globals = 1 .. Len(p.globals)
           /\ \A i \in DOMAIN p.globals : IsInit(p.globals[i], p) /\ SizeOf(p.globals[i]) \in Nat
           /\ Len(p.functions) \in Nat /\ DOMAIN p.functions = 1 .. Len(p.functions)
           /\ Len(p.args) \in Nat /\ DOMAIN p.args = 1 .. Len(p.args)
           /\ Len(p.args) * PtrSize \in Nat
           /\ \A i \in DOMAIN p.args : p.args[i] \in Seq(ToSet(p.args[i])) /\ Len(p.args[i]) \in Nat
<1>0. PtrSize \in Nat \ {0}
  BY SetupAssumption DEF SetupAssumption
<1>1. IsProgram(p)
  BY ProgramAssumption DEF ProgramAssumption
<1>2. /\ Len(p.globals) \in Nat /\ DOMAIN p.globals = 1 .. Len(p.globals)
      /\ Len(p.functions) \in Nat /\ DOMAIN p.functions = 1 .. Len(p.functions)
      /\ Len(p.args) \in Nat /\ DOMAIN p.args = 1 .. Len(p.args)
  BY <1>1 DEF IsProgram, IsSequence
<1>3. ASSUME NEW i \in DOMAIN p.globals
      PROVE  IsInit(p.globals[i], p) /\ SizeOf(p.globals[i]) \in Nat
  <2>1. IsInit(p.globals[i], p)
    BY <1>1 DEF IsProgram
  <2>0. PICK init : init = p.globals[i]
    OBVIOUS
  <2>2. CASE init.kind = "chars"
    <3>1. IsSequence(init.chars)
      BY <2>0, <2>1, <2>2 DEF IsInit
    <3>2. Len(init.chars) \in Nat
      BY <3>1 DEF IsSequence
    <3> QED BY <2>0, <2>1, <2>2, <3>2 DEF SizeOf
  <2>3. CASE init.kind = "refs"
    <3>1. IsSequence(init.names)
      BY <2>0, <2>1, <2>3 DEF IsInit
    <3>2. Len(init.names) \in Nat
      BY <3>1 DEF IsSequence
    <3>3. Len(init.names) * PtrSize \in Nat
      BY <1>0, <3>2
    <3> QED BY <2>0, <2>1, <2>3, <3>3 DEF SizeOf
  <2>4. CASE init.kind = "none"
    <3>1. init.size \in Nat
      BY <2>0, <2>1, <2>4 DEF IsInit
    <3> QED BY <2>0, <2>1, <2>4, <3>1 DEF SizeOf
  <2> QED BY <2>0, <2>1, <2>2, <2>3, <2>4 DEF IsInit
<1>4. ASSUME NEW i \in DOMAIN p.args
      PROVE  p.args[i] \in Seq(ToSet(p.args[i])) /\ Len(p.args[i]) \in Nat
  BY <1>1 DEF IsProgram, IsSequence
<1>5. Len(p.args) * PtrSize \in Nat
  BY <1>0, <1>2
<1> QED BY <1>0, <1>2, <1>3, <1>4, <1>5

(* A new place changes nothing of what the others hold; it holds nothing yet.           *)
SameOrEmpty(where, held, new) ==
    \A name \in DOMAIN new :
        \/ name \in DOMAIN held /\ new[name] = held[name]
        \/ name \in DOMAIN where /\ Len(new[name]) = 0 /\ where[name].size \in Nat

LEMMA HoldingsPlaced ==
    ASSUME NEW where, NEW held, NEW mem, Holdings(where, held, mem),
           NEW where2, \A n \in DOMAIN where : n \in DOMAIN where2 /\ where2[n] = where[n],
           NEW held2, SameOrEmpty(where2, held, held2)
    PROVE  Holdings(where2, held2, mem)
<1>1. SUFFICES ASSUME NEW name \in DOMAIN held2
               PROVE  /\ name \in DOMAIN where2 /\ Len(held2[name]) \in Nat
                      /\ Len(held2[name]) <= where2[name].size
                      /\ Finds(mem, where2[name].at, held2[name])
  BY DEF Holdings
<1>2. CASE name \in DOMAIN held /\ held2[name] = held[name]
  BY <1>2 DEF Holdings
<1>3. CASE name \in DOMAIN where2 /\ Len(held2[name]) = 0 /\ where2[name].size \in Nat
  BY <1>3 DEF Finds
<1> QED BY <1>2, <1>3 DEF SameOrEmpty

(* A write inside one object leaves what the others hold.                               *)
Inside(where, name, a, bytes) ==
    /\ name \in DOMAIN where /\ a \in Nat /\ Len(bytes) \in Nat
    /\ where[name].at <= a /\ a + Len(bytes) <= where[name].at + where[name].size

SameButFor(name, held, new) ==
    \A n \in DOMAIN new : n # name => n \in DOMAIN held /\ new[n] = held[n]

LEMMA HoldingsWritten ==
    ASSUME NEW s, IsSection(s), NEW where, NEW limit \in Nat, Ordered(where, limit),
           limit <= DEFAULT_SIZE, NEW held, Holdings(where, held, s.mem),
           NEW name, NEW a, NEW bytes, Inside(where, name, a, bytes),
           NEW held2, SameButFor(name, held, held2),
           NEW mem2, mem2 = WriteBytes(s, a, bytes).mem,
           name \in DOMAIN held2 =>
              /\ Len(held2[name]) \in Nat /\ Len(held2[name]) <= where[name].size
              /\ Finds(mem2, where[name].at, held2[name])
    PROVE  Holdings(where, held2, mem2)
<1>1. SUFFICES ASSUME NEW n \in DOMAIN held2, n # name
               PROVE  /\ n \in DOMAIN where /\ Len(held2[n]) \in Nat
                      /\ Len(held2[n]) <= where[n].size
                      /\ Finds(mem2, where[n].at, held2[n])
  BY DEF Holdings, Inside
<1>2. PICK others : others = held2[n]
  OBVIOUS
<1>3. /\ n \in DOMAIN where /\ Len(others) \in Nat /\ Len(others) <= where[n].size
      /\ Finds(s.mem, where[n].at, others)
  BY <1>1, <1>2 DEF SameButFor, Holdings
<1>4. PICK b \in Nat, c \in Nat : b = where[n].at /\ c = where[n].size /\ b + c <= limit
  BY <1>3 DEF Ordered
<1>5. PICK x \in Nat, y \in Nat : x = where[name].at /\ y = where[name].size
  BY DEF Ordered, Inside
<1>6. a \in Nat /\ Len(bytes) \in Nat /\ x <= a /\ a + Len(bytes) <= x + y
  BY <1>5 DEF Inside
<1>7. x + y <= b \/ b + c <= x
  BY <1>1, <1>3, <1>4, <1>5 DEF Ordered, Inside
<1>8. a + Len(bytes) <= b \/ b + Len(others) <= a
  BY <1>3, <1>4, <1>6, <1>7
<1>9. b + Len(others) <= DEFAULT_SIZE
  BY <1>3, <1>4, SectionAssumption DEF SectionAssumption
<1>10. Finds(s.mem, b, others)
  BY <1>3, <1>4
<1>11. Finds(WriteBytes(s, a, bytes).mem, b, others)
  BY <1>3, <1>6, <1>8, <1>9, <1>10, FindsApart
<1> QED BY <1>2, <1>3, <1>4, <1>11

----------------------------------------------------------------------------------
(* What the invariant says of the objects in a state.                                   *)
LayoutSays(p, env, str, limit) ==
    LET where == Layout(p, env, str)
    IN  /\ DOMAIN where = Names(env, str) /\ Ordered(where, limit)
        /\ \A name \in DOMAIN env :
              /\ where[name] = [at |-> env[name], size |-> SizeIn(p, name)]
              /\ env[name] \in Nat /\ SizeIn(p, name) \in Nat /\ 1 <= env[name]
              /\ env[name] + SizeIn(p, name) <= limit

LEMMA LayoutFacts ==
    ASSUME NEW p, NEW env, NEW str, NEW limit, Ordered(Layout(p, env, str), limit),
           \A name \in DOMAIN env : name.kind \in {"global", "function"}
    PROVE  /\ LayoutSays(p, env, str, limit)
           /\ str.array # 0 => Layout(p, env, str)[Argv] = [at |-> str.array, size |-> Len(p.args) * PtrSize]
           /\ \A i \in DOMAIN str.addrs :
                 Layout(p, env, str)[Arg(i)] = [at |-> str.addrs[i], size |-> Len(p.args[i]) + 1]
<1> DEFINE where == Layout(p, env, str)
<1>1. DOMAIN where = Names(env, str)
  BY DEF Layout
<1>2. ASSUME NEW name \in DOMAIN env
      PROVE  where[name] = [at |-> env[name], size |-> SizeIn(p, name)]
  <2>1. name \in Names(env, str)
    BY DEF Names
  <2> QED BY <2>1 DEF Layout, Start
<1>3. ASSUME NEW name \in DOMAIN env
      PROVE  /\ env[name] \in Nat /\ SizeIn(p, name) \in Nat /\ 1 <= env[name]
             /\ env[name] + SizeIn(p, name) <= limit
  <2>1. name \in DOMAIN where
    BY <1>1 DEF Names
  <2>2. PICK w : w = where
    OBVIOUS
  <2>3. w[name] = [at |-> env[name], size |-> SizeIn(p, name)] /\ name \in DOMAIN w /\ Ordered(w, limit)
    BY <1>2, <2>1, <2>2
  <2> QED BY <2>3 DEF Ordered
<1>4. str.array # 0 => where[Argv] = [at |-> str.array, size |-> Len(p.args) * PtrSize]
  <2>1. SUFFICES ASSUME str.array # 0
                 PROVE  where[Argv] = [at |-> str.array, size |-> Len(p.args) * PtrSize]
    OBVIOUS
  <2>2. Argv \in Names(env, str)
    BY <2>1 DEF Names
  <2>3. where[Argv] = [at |-> Start(env, str, Argv), size |-> SizeIn(p, Argv)]
    BY <2>2 DEF Layout
  <2>4. Start(env, str, Argv) = str.array /\ SizeIn(p, Argv) = Len(p.args) * PtrSize
    BY DEF Start, SizeIn, Argv
  <2> QED BY <2>3, <2>4
<1>5. ASSUME NEW i \in DOMAIN str.addrs
      PROVE  where[Arg(i)] = [at |-> str.addrs[i], size |-> Len(p.args[i]) + 1]
  <2>2. Arg(i) \in Names(env, str)
    BY DEF Names
  <2>3. where[Arg(i)] = [at |-> Start(env, str, Arg(i)), size |-> SizeIn(p, Arg(i))]
    BY <2>2 DEF Layout
  <2>4. Start(env, str, Arg(i)) = str.addrs[i] /\ SizeIn(p, Arg(i)) = Len(p.args[i]) + 1
    BY DEF Start, SizeIn, Arg
  <2> QED BY <2>3, <2>4
<1> QED BY <1>1, <1>2, <1>3, <1>4, <1>5 DEF LayoutSays

LEMMA Facts ==
    ASSUME IInv
    PROVE  /\ program \in Programs /\ IsSection(globalMem) /\ DEFAULT_SIZE \in Nat
           /\ globalMem.usedSize \in Nat /\ globalMem.usedSize >= 1
           /\ globalMem.usedSize <= DEFAULT_SIZE
           /\ \A name \in DOMAIN globalEnv : name.kind \in {"global", "function"}
           /\ \A name \in DOMAIN globalEnv \cap Functions : name.kind = "function"
           /\ LayoutSays(program, globalEnv, strings, globalMem.usedSize)
           /\ strings.array \in Nat /\ strings.addrs \in Seq(Nat)
<1>1. program \in Programs /\ IsSection(globalMem) /\ DEFAULT_SIZE \in Nat
  BY SectionAssumption DEF IInv, MeantShape, MemoryTyped, Typed, SectionAssumption
<1>2. globalMem.usedSize \in 1 .. DEFAULT_SIZE
  BY <1>1 DEF IsSection
<1>3. /\ \A name \in DOMAIN globalEnv : name.kind \in {"global", "function"}
      /\ \A name \in DOMAIN globalEnv \cap Functions : name.kind = "function"
  BY DEF IInv, Progress, Globals, Functions, Global, Function
<1>4. LayoutSays(program, globalEnv, strings, globalMem.usedSize)
  BY <1>3, LayoutFacts DEF IInv, InOrder
<1>5. strings.array \in Nat /\ strings.addrs \in Seq(Nat)
  BY DEF IInv, ArgsProgress
<1> QED BY <1>1, <1>2, <1>3, <1>4, <1>5

(* A name in the tables, and in an initialiser that has been written, has its address    *)
(* inside what is allocated, or at its end.                                              *)
LEMMA PointsInside ==
    ASSUME IInv, NEW name, IsName(name, program), HasAddress(name)
    PROVE  PointsTo(name) \in 0 .. globalMem.usedSize /\ AddressOf(name) = PointsTo(name)
<1>0. /\ globalMem.usedSize \in Nat /\ LayoutSays(program, globalEnv, strings, globalMem.usedSize)
      /\ program \in Programs
  BY Facts
<1>1. CASE name = Null
  <2>1. PointsTo(name) = 0 /\ AddressOf(name) = 0
    BY <1>1 DEF PointsTo, AddressOf, Null
  <2> QED BY <1>0, <2>1
<1>2. CASE name # Null /\ \E i \in DOMAIN program.globals : name = Global(i)
  <2>1. PICK i \in DOMAIN program.globals : name = Global(i)
    BY <1>2
  <2>2. Object(name) = name /\ name.kind = "global"
    BY <2>1 DEF Object, Global
  <2>3. name \in DOMAIN globalEnv
    BY <1>2, <2>2 DEF HasAddress
  <2>4. PICK a \in Nat, n \in Nat : a = globalEnv[name] /\ n = SizeIn(program, name) /\ a + n <= globalMem.usedSize
    BY <1>0, <2>3 DEF LayoutSays
  <2> QED BY <1>0, <1>2, <2>2, <2>4 DEF PointsTo, AddressOf
<1>3. CASE name # Null /\ \E i \in DOMAIN program.functions : name = Function(i)
  <2>1. PICK i \in DOMAIN program.functions : name = Function(i)
    BY <1>3
  <2>2. Object(name) = name /\ name.kind = "function"
    BY <2>1 DEF Object, Function
  <2>3. name \in DOMAIN globalEnv
    BY <1>3, <2>2 DEF HasAddress
  <2>4. PICK a \in Nat, n \in Nat : a = globalEnv[name] /\ n = SizeIn(program, name) /\ a + n <= globalMem.usedSize
    BY <1>0, <2>3 DEF LayoutSays
  <2> QED BY <1>0, <1>3, <2>2, <2>4 DEF PointsTo, AddressOf
<1>4. CASE \E i \in DOMAIN program.globals : \E offset \in 0 .. SizeOf(program.globals[i]) :
              name = Element(i, offset)
  <2>1. PICK i \in DOMAIN program.globals : \E offset \in 0 .. SizeOf(program.globals[i]) :
              name = Element(i, offset)
    BY <1>4
  <2>2. PICK offset \in 0 .. SizeOf(program.globals[i]) : name = Element(i, offset)
    BY <2>1
  <2>3. Object(name) = Global(i) /\ name.kind = "element" /\ name.offset = offset /\ name # Null
    BY <2>2 DEF Object, Element, Null
  <2>4. Global(i) \in DOMAIN globalEnv
    BY <2>3 DEF HasAddress
  <2>5. SizeIn(program, Global(i)) = SizeOf(program.globals[i])
    BY DEF SizeIn, Global
  <2>6. PICK a \in Nat, n \in Nat :
            a = globalEnv[Global(i)] /\ n = SizeOf(program.globals[i]) /\ a + n <= globalMem.usedSize
    BY <1>0, <2>4, <2>5 DEF LayoutSays
  <2>7. PointsTo(name) = a + offset /\ AddressOf(name) = a + offset
    BY <2>3, <2>6 DEF PointsTo, AddressOf, ConstantElement
  <2> QED BY <1>0, <2>6, <2>7
<1> QED BY <1>1, <1>2, <1>3, <1>4 DEF IsName

LEMMA PlacedNames ==
    ASSUME IInv, NEW name \in DOMAIN globalEnv
    PROVE  IsName(name, program) /\ HasAddress(name) /\ Object(name) = name /\ name # Null
<1>1. name \in Globals \cup Functions
  BY DEF IInv, Progress
<1>2. Object(name) = name /\ name # Null
  BY <1>1 DEF Globals, Functions, Global, Function, Object, Null
<1> QED BY <1>1, <1>2 DEF Globals, Functions, IsName, HasAddress

(* What later steps add to the table changes no address that was there.                 *)
EnvKept == \A name \in DOMAIN globalEnv : name \in DOMAIN globalEnv' /\ globalEnv'[name] = globalEnv[name]

LEMMA PointsToStays ==
    ASSUME EnvKept, NEW name, HasAddress(name)
    PROVE  HasAddress(name)' /\ PointsTo(name)' = PointsTo(name)
BY DEF EnvKept, HasAddress, PointsTo

Known(init) == IsRefs(init) => \A j \in DOMAIN init.names : HasAddress(init.names[j])

LEMMA DeclaredStays ==
    ASSUME EnvKept, NEW init, Known(init)
    PROVE  Known(init)' /\ Declared(init)' = Declared(init)
<1>1. CASE IsRefs(init)
  <2>1. \A j \in DOMAIN init.names :
           HasAddress(init.names[j])' /\ PointsTo(init.names[j])' = PointsTo(init.names[j])
    BY <1>1, PointsToStays DEF Known
  <2>2. [j \in DOMAIN init.names |-> PointsTo(init.names[j])]'
          = [j \in DOMAIN init.names |-> PointsTo(init.names[j])]
    BY <2>1
  <2>3. Declared(init) = PtrArray([j \in DOMAIN init.names |-> PointsTo(init.names[j])])
    BY <1>1 DEF Declared
  <2>4. Declared(init)' = PtrArray([j \in DOMAIN init.names |-> PointsTo(init.names[j])]')
    BY <1>1 DEF Declared, IsRefs
  <2> QED BY <2>1, <2>2, <2>3, <2>4 DEF Known
<1>2. CASE ~IsRefs(init)
  BY <1>2 DEF Declared, Known, IsRefs
<1> QED BY <1>1, <1>2

(* A global's initialiser in bytes: as many as the global has.                           *)
PointsOf(init) == [j \in DOMAIN init.names |-> PointsTo(init.names[j])]

LEMMA PointsOfSeq ==
    ASSUME IInv, NEW init, init.names \in Seq(ToSet(init.names)),
           \A j \in DOMAIN init.names : IsName(init.names[j], program) /\ HasAddress(init.names[j])
    PROVE  /\ PointsOf(init) \in Seq(0 .. globalMem.usedSize) /\ PointsOf(init) \in Seq(Nat)
           /\ Len(PointsOf(init)) = Len(init.names)
<1>1. PICK n \in Nat : n = Len(init.names) /\ DOMAIN init.names = 1 .. n
  OBVIOUS
<1>2. \A j \in 1 .. n : PointsTo(init.names[j]) \in 0 .. globalMem.usedSize
  BY <1>1, PointsInside
<1>3. globalMem.usedSize \in Nat
  BY Facts
<1>4. PointsOf(init) = [j \in 1 .. n |-> PointsTo(init.names[j])]
  BY <1>1 DEF PointsOf
<1> QED BY <1>1, <1>2, <1>3, <1>4

LEMMA DeclaredIs ==
    ASSUME IInv, NEW i \in DOMAIN program.globals, program.globals[i].kind # "none", Known(meant[i])
    PROVE  /\ Len(Declared(meant[i])) = SizeOf(program.globals[i])
           /\ Len(Declared(meant[i])) \in Nat
           /\ \A j \in 1 .. Len(Declared(meant[i])) : IsByte(Declared(meant[i])[j], globalMem.usedSize)
           /\ IsRefs(meant[i]) <=> program.globals[i].kind = "refs"
           /\ IsRefs(meant[i]) =>
                 /\ Declared(meant[i]) = PtrArray(PointsOf(meant[i]))
                 /\ PointsOf(meant[i]) \in Seq(0 .. globalMem.usedSize) /\ PointsOf(meant[i]) \in Seq(Nat)
                 /\ Len(PointsOf(meant[i])) = Len(meant[i].names)
           /\ ~IsRefs(meant[i]) => Declared(meant[i]) = Text(meant[i].chars) /\ meant[i].kind = "chars"
<1>0. /\ program \in Programs /\ SameShape(meant[i], program.globals[i], program)
      /\ IsInit(program.globals[i], program) /\ globalMem.usedSize \in Nat
  BY Facts, ProgramFacts DEF IInv, MeantShape
<1>1. PICK init, was : init = meant[i] /\ was = program.globals[i]
  OBVIOUS
<1>2. CASE was.kind = "refs"
  <2>1. /\ init.kind = "refs" /\ init.names \in Seq(ToSet(init.names))
        /\ Len(init.names) = Len(was.names) /\ \A j \in DOMAIN init.names : IsName(init.names[j], program)
    BY <1>0, <1>1, <1>2 DEF SameShape
  <2>2. \A j \in DOMAIN init.names : HasAddress(init.names[j])
    BY <1>1, <2>1 DEF Known, IsRefs
  <2>3. /\ PointsOf(init) \in Seq(0 .. globalMem.usedSize) /\ PointsOf(init) \in Seq(Nat)
        /\ Len(PointsOf(init)) = Len(init.names)
    BY <2>1, <2>2, PointsOfSeq
  <2>4. Declared(init) = PtrArray(PointsOf(init))
    BY <2>1 DEF Declared, IsRefs, PointsOf
  <2>5. Len(PtrArray(PointsOf(init))) = Len(was.names) * PtrSize
    BY <2>1, <2>3, PtrArrayIs
  <2>6. /\ Len(PtrArray(PointsOf(init))) \in Nat
        /\ \A j \in 1 .. Len(PtrArray(PointsOf(init))) :
              IsByte(PtrArray(PointsOf(init))[j], globalMem.usedSize)
    BY <1>0, <2>3, PtrArrayTyped
  <2>7. SizeOf(was) = Len(was.names) * PtrSize
    BY <1>2 DEF SizeOf
  <2> QED BY <1>1, <1>2, <2>1, <2>3, <2>4, <2>5, <2>6, <2>7 DEF IsRefs
<1>3. CASE was.kind = "chars"
  <2>1. init = was /\ was.chars \in Seq(ToSet(was.chars))
    BY <1>0, <1>1, <1>3 DEF SameShape, IsInit, IsSequence
  <2>2. /\ Len(Text(was.chars)) = Len(was.chars) /\ Len(was.chars) \in Nat
        /\ \A j \in 1 .. Len(was.chars) : IsByte(Text(was.chars)[j], globalMem.usedSize)
    BY <2>1, TextIs
  <2>3. SizeOf(was) = Len(was.chars) /\ Declared(was) = Text(was.chars) /\ ~IsRefs(was)
    BY <1>3 DEF SizeOf, Declared, IsRefs
  <2> QED BY <1>1, <1>3, <2>1, <2>2, <2>3
<1> QED BY <1>0, <1>1, <1>2, <1>3 DEF IsInit

----------------------------------------------------------------------------------
(* What the globals hold stays the same bytes while the tables grow.                    *)
LEMMA HeldStays ==
    ASSUME IInv, EnvKept, UNCHANGED <<program, meant>>, \A i : Filled(i)' => Filled(i)
    PROVE  /\ NamesKnown'
           /\ \A i \in DOMAIN program.globals :
                 Filled(i)' => /\ Global(i) \in DOMAIN Held /\ Global(i) \in DOMAIN Held'
                               /\ Held'[Global(i)] = Held[Global(i)]
<1>1. ASSUME NEW i \in DOMAIN program.globals, Filled(i)'
      PROVE  /\ Known(meant[i])'
             /\ Global(i) \in DOMAIN Held /\ Global(i) \in DOMAIN Held'
             /\ Held'[Global(i)] = Held[Global(i)]
  <2>1. Filled(i)
    BY <1>1
  <2>2. Known(meant[i])
    BY <2>1 DEF IInv, NamesKnown, Known
  <2>3. PICK init : init = meant[i] /\ init = meant'[i]
    OBVIOUS
  <2>4. Known(init)' /\ Declared(init)' = Declared(init)
    BY <2>2, <2>3, DeclaredStays
  <2>5. Known(meant[i])' /\ Declared(meant[i])' = Declared(meant[i])
    BY <2>3, <2>4 DEF Known, Declared
  <2>6. Global(i) \in HeldNames /\ Global(i) \in HeldNames'
    BY <1>1, <2>1 DEF HeldNames
  <2>7. Held[Global(i)] = Declared(meant[i])
    BY <2>6 DEF Held, Global
  <2>8. Held'[Global(i)] = Declared(meant[i])'
    BY <2>6 DEF Held, Global
  <2> QED BY <2>5, <2>6, <2>7, <2>8 DEF Held
<1> QED BY <1>1 DEF NamesKnown, Known

HeldSays ==
    /\ DOMAIN Held = HeldNames
    /\ \A name \in HeldNames :
          \/ \E i \in DOMAIN program.globals : name = Global(i) /\ Filled(i)
          \/ name = Argv /\ strings.array # 0
          \/ \E i \in DOMAIN strings.addrs : name = Arg(i)
    /\ Argv \in HeldNames => strings.array # 0 /\ Held[Argv] = PtrArray(strings.addrs)
    /\ strings.array # 0 => Argv \in HeldNames
    /\ \A i \in DOMAIN strings.addrs :
          Arg(i) \in HeldNames /\ Held[Arg(i)] = CharsOf(program.args[i])
    /\ \A i : Filled(i) => Global(i) \in HeldNames /\ Held[Global(i)] = Declared(meant[i])

LEMMA HeldKinds == HeldSays
<1>1. DOMAIN Held = HeldNames
  BY DEF Held
<1>2. ASSUME NEW name \in HeldNames
      PROVE  \/ \E i \in DOMAIN program.globals : name = Global(i) /\ Filled(i)
             \/ name = Argv /\ strings.array # 0
             \/ \E i \in DOMAIN strings.addrs : name = Arg(i)
  BY DEF HeldNames
<1>3. ASSUME Argv \in HeldNames PROVE strings.array # 0 /\ Held[Argv] = PtrArray(strings.addrs)
  <2>1. strings.array # 0
    BY <1>3, <1>2 DEF Global, Argv, Arg
  <2> QED BY <1>3, <2>1 DEF Held, Argv
<1>4. strings.array # 0 => Argv \in HeldNames
  BY DEF HeldNames
<1>5. ASSUME NEW i \in DOMAIN strings.addrs
      PROVE  Arg(i) \in HeldNames /\ Held[Arg(i)] = CharsOf(program.args[i])
  <2>1. Arg(i) \in HeldNames
    BY DEF HeldNames
  <2> QED BY <2>1 DEF Held, Arg
<1>6. ASSUME NEW i, Filled(i)
      PROVE  Global(i) \in HeldNames /\ Held[Global(i)] = Declared(meant[i])
  <2>1. i \in DOMAIN program.globals
    BY <1>6 DEF Filled
  <2>2. Global(i) \in HeldNames
    BY <1>6, <2>1 DEF HeldNames
  <2> QED BY <2>2 DEF Held, Global
<1> QED BY <1>1, <1>2, <1>3, <1>4, <1>5, <1>6 DEF HeldSays

(* Steps that only go on, or end.                                                       *)
StageKept == stage' \in (Started \cup AllInitialised) \ {"main"} => meant = program.globals

LEMMA ControlStep ==
    ASSUME IInv, UNCHANGED <<program, globalMem, globalEnv, funPtrMap, strings, meant>>,
           \A i : Filled(i)' => Filled(i), StageKept, Progress', ArgsProgress', CallsReachNamed'
    PROVE  IInv'
<1>1. MemoryTyped' /\ InOrder' /\ TablesInverse'
  BY DEF IInv, MemoryTyped, InOrder, TablesInverse, Functions
<1>2. MeantShape'
  BY DEF IInv, MeantShape, StageKept
<1>3. EnvKept
  BY DEF EnvKept
<1>4. /\ NamesKnown'
      /\ \A i \in DOMAIN program.globals :
            Filled(i)' => Global(i) \in DOMAIN Held /\ Held'[Global(i)] = Held[Global(i)]
  BY <1>3, HeldStays
<1>5. HeldSays /\ HeldSays'
  BY HeldKinds, PTL
<1>6. SameOrEmpty(Layout(program, globalEnv, strings), Held, Held')
  <2>1. SUFFICES ASSUME NEW name \in DOMAIN Held'
                 PROVE  name \in DOMAIN Held /\ Held'[name] = Held[name]
    BY DEF SameOrEmpty
  <2>2. \/ \E i \in DOMAIN program.globals : name = Global(i) /\ Filled(i)'
        \/ name = Argv /\ strings.array # 0
        \/ \E i \in DOMAIN strings.addrs : name = Arg(i)
    BY <1>5, <2>1 DEF HeldSays
  <2>3. CASE name = Argv /\ strings.array # 0
    BY <1>5, <2>3 DEF HeldSays
  <2>4. CASE \E i \in DOMAIN strings.addrs : name = Arg(i)
    <3>1. PICK i \in DOMAIN strings.addrs : name = Arg(i)
      BY <2>4
    <3>2. Held[name] = CharsOf(program.args[i]) /\ name \in DOMAIN Held
      BY <1>5, <3>1 DEF HeldSays
    <3>3. Held'[name] = CharsOf(program.args[i])
      BY <1>5, <3>1 DEF HeldSays
    <3> QED BY <3>2, <3>3
  <2> QED BY <1>4, <2>2, <2>3, <2>4
<1>7. Contents'
  BY <1>6, HoldingsPlaced DEF IInv, Contents
<1> QED BY <1>1, <1>2, <1>4, <1>7 DEF IInv

(* Steps that allocate an object, and write nothing.                                    *)
LEMMA PlacementStep ==
    ASSUME IInv, NEW n \in Nat, n < UINT_MOD, Fits(n), globalMem' = NewGlobalMem(n),
           NEW name, Extends(Layout(program, globalEnv, strings),
                             Layout(program, globalEnv', strings'), name, globalMem.usedSize, n),
           EnvKept, UNCHANGED <<program, meant>>,
           strings'.addrs = strings.addrs, strings' = strings \/ strings.array = 0,
           \A i : Filled(i)' => Filled(i), StageKept,
           Progress', ArgsProgress', TablesInverse', CallsReachNamed'
    PROVE  IInv'
<1> DEFINE where == Layout(program, globalEnv, strings)
           where2 == Layout(program, globalEnv', strings')
<1>1. /\ IsSection(globalMem) /\ globalMem.usedSize \in Nat /\ globalMem.usedSize >= 1
      /\ Typed(globalMem) /\ Ordered(where, globalMem.usedSize)
  BY Facts DEF IInv, MemoryTyped, InOrder
<1>2. CanAllocate(globalMem, ToUnsigned(n)) /\ globalMem' = Allocate(globalMem, ToUnsigned(n))
  BY DEF Fits, NewGlobalMem
<1>3. globalMem'.usedSize = globalMem.usedSize + n /\ globalMem'.mem = globalMem.mem
  BY <1>1, <1>2, AllocateFits
<1>4. MemoryTyped'
  BY <1>1, <1>2, AllocateTyped DEF MemoryTyped
<1>5. Ordered(where2, globalMem.usedSize + n)
  BY <1>1, OrderedGrows
<1>6. InOrder'
  BY <1>3, <1>5 DEF InOrder
<1>7. MeantShape'
  BY DEF IInv, MeantShape, StageKept
<1>8. /\ NamesKnown'
      /\ \A i \in DOMAIN program.globals :
            Filled(i)' => Global(i) \in DOMAIN Held /\ Held'[Global(i)] = Held[Global(i)]
  BY HeldStays
<1>9. HeldSays /\ HeldSays'
  BY HeldKinds, PTL
<1>10. SameOrEmpty(where2, Held, Held')
  <2>1. SUFFICES ASSUME NEW h \in DOMAIN Held'
                 PROVE  \/ h \in DOMAIN Held /\ Held'[h] = Held[h]
                        \/ h \in DOMAIN where2 /\ Len(Held'[h]) = 0 /\ where2[h].size \in Nat
    BY DEF SameOrEmpty
  <2>2. \/ \E i \in DOMAIN program.globals : h = Global(i) /\ Filled(i)'
        \/ h = Argv /\ strings'.array # 0
        \/ \E i \in DOMAIN strings.addrs : h = Arg(i)
    BY <1>9, <2>1 DEF HeldSays
  <2>3. CASE h = Argv /\ strings'.array # 0 /\ strings' = strings
    BY <1>9, <2>3 DEF HeldSays
  <2>4. CASE h = Argv /\ strings'.array # 0 /\ strings.array = 0
    <3>1. strings'.addrs = <<>>
      BY <2>4 DEF IInv, ArgsProgress
    <3>2. Held'[h] = PtrArray(<<>>)
      BY <1>9, <2>1, <2>4, <3>1 DEF HeldSays
    <3>3. Len(PtrArray(<<>>)) = 0
      <4>1. <<>> \in Seq(Nat) /\ Len(<<>>) = 0
        OBVIOUS
      <4>2. Len(PtrArray(<<>>)) = 0 * PtrSize
        BY <4>1, PtrArrayIs
      <4> QED BY <4>2, SetupAssumption DEF SetupAssumption
    <3>4. h \in DOMAIN where2
      BY <2>4 DEF Layout, Names
    <3>5. where2[h].size \in Nat
      BY <1>5, <3>4 DEF Ordered
    <3> QED BY <3>2, <3>3, <3>4, <3>5
  <2>5. CASE \E i \in DOMAIN strings.addrs : h = Arg(i)
    <3>1. PICK i \in DOMAIN strings.addrs : h = Arg(i)
      BY <2>5
    <3>2. Held[h] = CharsOf(program.args[i]) /\ h \in DOMAIN Held
      BY <1>9, <3>1 DEF HeldSays
    <3>3. Held'[h] = CharsOf(program.args[i])
      BY <1>9, <3>1 DEF HeldSays
    <3> QED BY <3>2, <3>3
  <2> QED BY <1>8, <2>2, <2>3, <2>4, <2>5
<1>11. \A m \in DOMAIN where : m \in DOMAIN where2 /\ where2[m] = where[m]
  BY DEF Extends
<1>12. Holdings(where, Held, globalMem.mem)
  BY DEF IInv, Contents
<1>13. Holdings(where2, Held', globalMem.mem)
  <2> HIDE DEF where, where2
  <2> QED BY <1>10, <1>11, <1>12, HoldingsPlaced
<1>14. Contents'
  BY <1>3, <1>13 DEF Contents
<1> QED BY <1>4, <1>6, <1>7, <1>8, <1>14 DEF IInv

(* A new global or function in the table is a new object.                               *)
LEMMA TableExtends ==
    ASSUME NEW p, NEW env, NEW str, NEW name, NEW a, name \notin DOMAIN env,
           name.kind \in {"global", "function"},
           NEW env2, env2 = Inserted(env, name, a),
           \A other \in DOMAIN env : other.kind \in {"global", "function"}
    PROVE  /\ Extends(Layout(p, env, str), Layout(p, env2, str), name, a, SizeIn(p, name))
           /\ DOMAIN env2 = DOMAIN env \cup {name} /\ env2[name] = a
           /\ \A other \in DOMAIN env : env2[other] = env[other]
<1>1. /\ DOMAIN env2 = DOMAIN env \cup {name} /\ env2[name] = a
      /\ \A other \in DOMAIN env : env2[other] = env[other]
  BY DEF Inserted
<1>2. name \notin Names(env, str)
  BY DEF Names, Argv, Arg
<1>3. Names(env2, str) = Names(env, str) \cup {name}
  BY <1>1 DEF Names
<1>4. Layout(p, env2, str)[name] = [at |-> a, size |-> SizeIn(p, name)]
  BY <1>1, <1>3 DEF Layout, Start
<1>5. ASSUME NEW other \in Names(env, str)
      PROVE  Layout(p, env2, str)[other] = Layout(p, env, str)[other]
  <2>1. Start(env2, str, other) = Start(env, str, other)
    <3>1. CASE other \in DOMAIN env
      BY <1>1, <3>1 DEF Start
    <3>2. CASE other = Argv
      BY <3>2 DEF Start, Argv
    <3>3. CASE \E i \in DOMAIN str.addrs : other = Arg(i)
      BY <3>3 DEF Start, Arg
    <3> QED BY <3>1, <3>2, <3>3 DEF Names
  <2> QED BY <1>3, <2>1 DEF Layout
<1>6. DOMAIN Layout(p, env, str) = Names(env, str) /\ DOMAIN Layout(p, env2, str) = Names(env2, str)
  BY DEF Layout
<1> QED BY <1>1, <1>2, <1>3, <1>4, <1>5, <1>6 DEF Extends

----------------------------------------------------------------------------------
(* The steps that change nothing but where the setup is.                                *)
Untouched == UNCHANGED <<program, globalMem, globalEnv, funPtrMap, strings, meant>>

Ends == Stages \ (Started \cup AllInitialised)

LEMMA EndStep ==
    ASSUME IInv, Untouched, next' = next, used' = used, stage' \in Ends
    PROVE  IInv'
<1>1. /\ \A i : ~Filled(i)'
      /\ StageKept
  BY DEF Ends, Filled, StageKept, AllInitialised, Started
<1>2. Progress' /\ ArgsProgress'
  BY DEF IInv, Progress, ArgsProgress, Untouched, Ends, Started, AllInitialised, Globals, Functions
<1>3. CallsReachNamed'
  BY DEF IInv, CallsReachNamed
<1> QED BY <1>1, <1>2, <1>3, ControlStep DEF Untouched

LEMMA FindMainStep ==
    ASSUME IInv, FindMain
    PROVE  IInv'
<1>1. Untouched /\ next' = next /\ used' = used /\ stage = "start"
  BY DEF FindMain, Untouched
<1>2. CASE stage' = "noMain"
  BY <1>1, <1>2, EndStep DEF Ends, Stages, Started, AllInitialised
<1>3. CASE stage' = "allocate"
  <2>1. StageKept /\ \A i : ~Filled(i)'
    BY <1>1, <1>3 DEF StageKept, Filled, IInv, MeantShape, Started, AllInitialised
  <2>2. Progress'
    <3>1. program \in Programs /\ DOMAIN program.globals = 1 .. Len(program.globals)
          /\ Len(program.globals) \in Nat
      BY Facts, ProgramFacts
    <3>2. \A i \in DOMAIN program.globals : ~(i < next)
      BY <1>1, <3>1 DEF IInv, Progress
    <3> QED BY <1>1, <1>3, <3>2
            DEF IInv, Progress, Untouched, Stages, Started, AllInitialised, Globals, Functions
  <2>3. ArgsProgress'
    BY <1>1, <1>3 DEF IInv, ArgsProgress, Untouched, Started
  <2>4. CallsReachNamed'
    BY <1>1 DEF IInv, CallsReachNamed
  <2> QED BY <1>1, <2>1, <2>2, <2>3, <2>4, ControlStep DEF Untouched
<1> QED BY <1>2, <1>3 DEF FindMain

(* From one loop of the setup to what comes after it.                                   *)
LoopDone ==
    \/ stage = "allocate" /\ ~(next <= Len(program.globals)) /\ stage' = "initialise"
    \/ stage = "initialise" /\ ~(next <= Len(program.globals)) /\ stage' = "functions"
    \/ stage = "functions" /\ stage' = "argv"
    \/ stage = "strings" /\ ~(next <= Len(program.args)) /\ stage' = "callMain"

LEMMA LoopEnds ==
    ASSUME IInv, Untouched, used' = used, next' = 1, LoopDone
    PROVE  IInv'
<1>0. /\ Len(program.globals) \in Nat /\ DOMAIN program.globals = 1 .. Len(program.globals)
      /\ Len(program.args) \in Nat /\ DOMAIN program.functions = 1 .. Len(program.functions)
      /\ Len(program.functions) \in Nat
  BY Facts, ProgramFacts
<1>n. next \in Nat \ {0}
  BY DEF IInv, Progress
<1>1. StageKept
  BY DEF LoopDone, StageKept, IInv, MeantShape, Started, AllInitialised
<1>2. \A i : Filled(i)' => Filled(i)
  <2>1. SUFFICES ASSUME NEW i, Filled(i)' PROVE Filled(i)
    OBVIOUS
  <2>2. i \in DOMAIN program.globals /\ program.globals[i].kind # "none"
    BY <2>1 DEF Filled, Untouched
  <2>3. CASE stage = "allocate"
    BY <1>0, <2>1, <2>2, <2>3 DEF LoopDone, Filled, AllInitialised
  <2>4. CASE stage = "initialise"
    <3>1. i < next
      BY <1>0, <1>n, <2>2, <2>4 DEF LoopDone
    <3> QED BY <2>2, <2>4, <3>1 DEF Filled
  <2>5. CASE stage \in {"functions", "strings"}
    BY <2>2, <2>5 DEF LoopDone, Filled, AllInitialised
  <2> QED BY <2>3, <2>4, <2>5 DEF LoopDone
<1>3. Progress'
  <2>1. CASE stage = "allocate"
    <3>1. Globals \subseteq DOMAIN globalEnv
      BY <1>0, <1>n, <2>1 DEF LoopDone, IInv, Progress, Globals
    <3> QED BY <2>1, <3>1 DEF LoopDone, IInv, Progress, Untouched, Stages, Started, AllInitialised, Globals, Functions
  <2>2. CASE stage = "initialise"
    <3>1. \A i \in DOMAIN program.functions : Function(i) \notin DOMAIN globalEnv /\ ~(i < 1)
      BY <1>0, <2>2 DEF IInv, Progress, Started, Functions
    <3> QED BY <2>2, <3>1 DEF LoopDone, IInv, Progress, Untouched, Stages, Started, AllInitialised, Globals, Functions
  <2>3. CASE stage \in {"functions", "strings"}
    <3>1. stage' \in {"argv", "callMain"} /\ Globals \subseteq DOMAIN globalEnv
      BY <2>3 DEF LoopDone, IInv, Progress, AllInitialised
    <3>2. /\ stage' \in Stages /\ next' \in Nat \ {0} /\ stage' \notin Started
          /\ stage' # "start" /\ stage' # "allocate" /\ stage' # "functions"
      BY <3>1 DEF Stages, Started
    <3>3. DOMAIN globalEnv \subseteq Globals \cup Functions
      BY DEF IInv, Progress
    <3>4. Globals' = Globals /\ Functions' = Functions /\ globalEnv' = globalEnv
      BY DEF Untouched, Globals, Functions
    <3> QED BY <3>1, <3>2, <3>3, <3>4 DEF Progress
  <2> QED BY <2>1, <2>2, <2>3 DEF LoopDone
<1>4. ArgsProgress'
  <2>1. CASE stage \in {"allocate", "initialise", "functions"}
    BY <2>1 DEF LoopDone, IInv, ArgsProgress, Untouched, Started
  <2>2. CASE stage = "strings"
    <3>1. Len(strings.addrs) = Len(program.args)
      <4>1. Len(strings.addrs) = next - 1 /\ Len(strings.addrs) <= Len(program.args)
        BY <2>2 DEF IInv, ArgsProgress
      <4>2. ~(next <= Len(program.args))
        BY <2>2 DEF LoopDone
      <4>3. PICK k \in Nat, n \in Nat : k = next /\ n = Len(program.args)
        BY <1>0, <1>n
      <4>4. k - 1 <= n /\ ~(k <= n)
        BY <4>1, <4>2, <4>3
      <4>5. k - 1 = n
        BY <4>4
      <4> QED BY <4>1, <4>3, <4>5
    <3> QED BY <2>2, <3>1 DEF LoopDone, IInv, ArgsProgress, Untouched, Started
  <2> QED BY <2>1, <2>2 DEF LoopDone
<1>5. CallsReachNamed'
  BY DEF IInv, CallsReachNamed
<1> QED BY <1>1, <1>2, <1>3, <1>4, <1>5, ControlStep DEF Untouched

LEMMA CallMainStep ==
    ASSUME IInv, CallMain
    PROVE  IInv'
<1>1. Untouched /\ next' = next /\ used' = used /\ stage = "callMain"
  BY DEF CallMain, Untouched
<1>2. CASE stage' = "badMain"
  BY <1>1, <1>2, EndStep DEF Ends, Stages, Started, AllInitialised
<1>3. CASE stage' = "main"
  <2>1. StageKept /\ \A i : Filled(i)' => Filled(i)
    BY <1>1, <1>3 DEF StageKept, Filled, Untouched, AllInitialised
  <2>2. Progress' /\ ArgsProgress'
    BY <1>1, <1>3 DEF IInv, Progress, ArgsProgress, Untouched, Stages, Started, AllInitialised, Globals, Functions
  <2>3. CallsReachNamed'
    BY <1>1 DEF IInv, CallsReachNamed
  <2> QED BY <1>1, <2>1, <2>2, <2>3, ControlStep DEF Untouched
<1> QED BY <1>2, <1>3 DEF CallMain

----------------------------------------------------------------------------------
(* The steps that place an object, each after its own check that it fits.               *)
NameFacts(name) == name \in Globals \cup Functions /\ name.kind \in {"global", "function"}

LEMMA TableStep ==
    ASSUME IInv, NEW name, NameFacts(name), name \notin DOMAIN globalEnv,
           SizeIn(program, name) \in Nat, SizeIn(program, name) < UINT_MOD,
           Fits(SizeIn(program, name)), globalMem' = NewGlobalMem(SizeIn(program, name)),
           globalEnv' = Inserted(globalEnv, name, globalMem.usedSize),
           UNCHANGED <<program, meant, strings, stage, used>>, next' = next + 1,
           \A i : Filled(i)' => Filled(i), Progress', ArgsProgress', TablesInverse'
    PROVE  IInv'
<1>1. Extends(Layout(program, globalEnv, strings), Layout(program, globalEnv', strings),
              name, globalMem.usedSize, SizeIn(program, name))
  BY Facts, TableExtends DEF NameFacts
<1>2. EnvKept
  BY DEF EnvKept, Inserted
<1>3. StageKept /\ CallsReachNamed'
  BY DEF StageKept, IInv, MeantShape, CallsReachNamed
<1>4. Extends(Layout(program, globalEnv, strings), Layout(program, globalEnv', strings'),
              name, globalMem.usedSize, SizeIn(program, name))
  BY <1>1
<1> QED BY <1>2, <1>3, <1>4, PlacementStep

LEMMA AllocateGlobalsStep ==
    ASSUME SizesFit, IInv, AllocateGlobals
    PROVE  IInv'
<1>0. /\ Len(program.globals) \in Nat /\ DOMAIN program.globals = 1 .. Len(program.globals)
      /\ next \in Nat \ {0} /\ program \in Programs
  BY Facts, ProgramFacts DEF IInv, Progress
<1>1. stage = "allocate" /\ UNCHANGED <<program, meant, used>>
  BY DEF AllocateGlobals, Loop
<1>2. CASE ~(next <= Len(program.globals))
  <2>1. Untouched /\ next' = 1 /\ stage' = "initialise"
    BY <1>1, <1>2 DEF AllocateGlobals, Loop, Untouched
  <2>2. LoopDone
    BY <1>1, <1>2, <2>1 DEF LoopDone
  <2> QED BY <1>1, <2>1, <2>2, LoopEnds
<1>3. CASE next <= Len(program.globals) /\ ~Fits(SizeOf(program.globals[next]))
  <2>1. Stop("sectionFull")
    BY <1>1, <1>3 DEF AllocateGlobals, Loop, AllocateOne
  <2>2. Untouched /\ next' = next /\ stage' \in Ends
    BY <1>1, <2>1 DEF Stop, Untouched, Ends, Stages, Started, AllInitialised
  <2> QED BY <1>1, <2>2, EndStep
<1>4. CASE next <= Len(program.globals) /\ Fits(SizeOf(program.globals[next]))
  <2> DEFINE name == Global(next)
             size == SizeOf(program.globals[next])
  <2>1. /\ globalMem' = NewGlobalMem(size)
        /\ globalEnv' = Inserted(globalEnv, name, globalMem.usedSize)
        /\ next' = next + 1 /\ UNCHANGED <<stage, funPtrMap, strings>>
    BY <1>1, <1>4 DEF AllocateGlobals, Loop, AllocateOne, Advance
  <2>2. next \in DOMAIN program.globals
    BY <1>0, <1>4
  <2>3. NameFacts(name) /\ name \notin DOMAIN globalEnv
    BY <1>0, <1>1, <2>2 DEF NameFacts, Globals, Global, IInv, Progress
  <2>4. SizeIn(program, name) = size /\ size \in Nat /\ size < UINT_MOD
    BY <1>0, <2>2, ProgramFacts DEF SizeIn, Global, SizesFit
  <2>5. DOMAIN globalEnv' = DOMAIN globalEnv \cup {name}
        /\ \A n \in DOMAIN globalEnv : globalEnv'[n] = globalEnv[n]
    BY <2>1 DEF Inserted
  <2>6. name \notin Functions
    BY DEF Functions, Function, Global
  <2>7. Globals' = Globals /\ Functions' = Functions
    BY <1>1 DEF Globals, Functions
  <2>8. \A i \in DOMAIN program.globals : Global(i) \in DOMAIN globalEnv' <=> i < next + 1
    <3>1. TAKE i \in DOMAIN program.globals
    <3>2. Global(i) \in DOMAIN globalEnv <=> i < next
      BY <1>1 DEF IInv, Progress
    <3>3. Global(i) = name <=> i = next
      BY DEF Global
    <3>4. i < next + 1 <=> i < next \/ i = next
      BY <1>0
    <3> QED BY <2>5, <3>2, <3>3, <3>4
  <2>9. Progress'
    <3>1. DOMAIN globalEnv' \subseteq Globals \cup Functions
      BY <2>3, <2>5 DEF IInv, Progress, NameFacts
    <3>2. DOMAIN globalEnv' \cap Functions = {}
      BY <1>1, <2>5, <2>6 DEF IInv, Progress, Started
    <3>3. next' \in Nat \ {0} /\ stage' = "allocate"
      BY <1>0, <1>1, <2>1
    <3> QED BY <1>1, <2>1, <2>7, <2>8, <3>1, <3>2, <3>3 DEF Progress, Stages, AllInitialised, Started
  <2>10. ArgsProgress'
    BY <1>1, <2>1 DEF IInv, ArgsProgress, Started
  <2>11. TablesInverse'
    <3>1. DOMAIN globalEnv' \cap Functions = DOMAIN globalEnv \cap Functions
      BY <2>5, <2>6
    <3> QED BY <2>1, <2>5, <2>7, <3>1 DEF IInv, TablesInverse
  <2>12. \A i : Filled(i)' => Filled(i)
    BY <1>1, <2>1 DEF Filled, AllInitialised
  <2> HIDE DEF name, size
  <2> QED BY <1>1, <1>4, <2>1, <2>3, <2>4, <2>9, <2>10, <2>11, <2>12, TableStep DEF size
<1> QED BY <1>2, <1>3, <1>4

LEMMA PlaceFunctionsStep ==
    ASSUME SizesFit, IInv, PlaceFunctions
    PROVE  IInv'
<1>0. /\ Len(program.functions) \in Nat /\ DOMAIN program.functions = 1 .. Len(program.functions)
      /\ next \in Nat \ {0} /\ program \in Programs /\ PtrSize \in Nat
  BY Facts, ProgramFacts DEF IInv, Progress
<1>1. stage = "functions" /\ UNCHANGED <<program, meant, used>>
  BY DEF PlaceFunctions, Loop
<1>2. CASE ~(next <= Len(program.functions))
  <2>1. Untouched /\ next' = 1 /\ stage' = "argv"
    BY <1>1, <1>2 DEF PlaceFunctions, Loop, Untouched
  <2>2. LoopDone
    BY <1>1, <1>2, <2>1 DEF LoopDone
  <2> QED BY <1>1, <2>1, <2>2, LoopEnds
<1>3. CASE next <= Len(program.functions) /\ ~Fits(PtrSize)
  <2>1. Stop("sectionFull")
    BY <1>1, <1>3 DEF PlaceFunctions, Loop, PlaceOne
  <2>2. Untouched /\ next' = next /\ stage' \in Ends
    BY <1>1, <2>1 DEF Stop, Untouched, Ends, Stages, Started, AllInitialised
  <2> QED BY <1>1, <2>2, EndStep
<1>4. CASE next <= Len(program.functions) /\ Fits(PtrSize)
  <2> DEFINE name == Function(next)
             addr == globalMem.usedSize
  <2>1. /\ globalMem' = NewGlobalMem(PtrSize)
        /\ globalEnv' = Inserted(globalEnv, name, addr)
        /\ funPtrMap' = Inserted(funPtrMap, addr, name)
        /\ next' = next + 1 /\ UNCHANGED <<stage, strings>>
    BY <1>1, <1>4 DEF PlaceFunctions, Loop, PlaceOne, Advance, FunctionKey
  <2>2. next \in DOMAIN program.functions
    BY <1>0, <1>4
  <2>3. NameFacts(name) /\ name \notin DOMAIN globalEnv /\ name \in Functions
    BY <1>0, <1>1, <2>2 DEF NameFacts, Functions, Function, IInv, Progress
  <2>4. SizeIn(program, name) = PtrSize /\ PtrSize < UINT_MOD
    BY <1>0, <2>2 DEF SizeIn, Function, SizesFit
  <2>5. /\ DOMAIN globalEnv' = DOMAIN globalEnv \cup {name} /\ globalEnv'[name] = addr
        /\ \A n \in DOMAIN globalEnv : globalEnv'[n] = globalEnv[n]
    BY <2>1, <2>3 DEF Inserted
  <2>6. name \notin Globals
    BY DEF Globals, Function, Global
  <2>7. Globals' = Globals /\ Functions' = Functions
    BY <1>1 DEF Globals, Functions
  <2>8. \A i \in DOMAIN program.functions : Function(i) \in DOMAIN globalEnv' <=> i < next + 1
    <3>1. TAKE i \in DOMAIN program.functions
    <3>2. Function(i) \in DOMAIN globalEnv <=> i < next
      BY <1>1 DEF IInv, Progress
    <3>3. Function(i) = name <=> i = next
      BY DEF Function
    <3>4. i < next + 1 <=> i < next \/ i = next
      BY <1>0
    <3> QED BY <2>5, <3>2, <3>3, <3>4
  <2>9. Progress'
    <3>1. DOMAIN globalEnv' \subseteq Globals \cup Functions
      BY <2>3, <2>5 DEF IInv, Progress, NameFacts
    <3>2. Globals \subseteq DOMAIN globalEnv'
      BY <1>1, <2>5 DEF IInv, Progress, AllInitialised
    <3>3. next' \in Nat \ {0} /\ stage' = "functions"
      BY <1>0, <1>1, <2>1
    <3> QED BY <1>1, <2>1, <2>7, <2>8, <3>1, <3>2, <3>3 DEF Progress, Stages, AllInitialised, Started
  <2>10. ArgsProgress'
    BY <1>1, <2>1 DEF IInv, ArgsProgress, Started
  <2>11. TablesInverse'
    <3>1. DOMAIN globalEnv' \cap Functions = (DOMAIN globalEnv \cap Functions) \cup {name}
      BY <2>3, <2>5
    <3>2. addr \notin DOMAIN funPtrMap
      <4>1. SUFFICES ASSUME addr \in DOMAIN funPtrMap PROVE FALSE
        OBVIOUS
      <4>2. PICK f \in DOMAIN globalEnv \cap Functions : globalEnv[f] = addr
        BY <4>1 DEF IInv, TablesInverse
      <4>3. /\ globalEnv[f] \in Nat /\ SizeIn(program, f) \in Nat
            /\ globalEnv[f] + SizeIn(program, f) <= addr
        BY <4>2, Facts DEF LayoutSays
      <4>4. f.kind = "function"
        BY <4>2, Facts
      <4>5. SizeIn(program, f) = PtrSize /\ PtrSize \in Nat \ {0}
        BY <4>4, SetupAssumption DEF SizeIn, SetupAssumption
      <4> HIDE DEF addr
      <4> QED BY <4>2, <4>3, <4>5
    <3>3. /\ DOMAIN funPtrMap' = DOMAIN funPtrMap \cup {addr} /\ funPtrMap'[addr] = name
          /\ \A a \in DOMAIN funPtrMap : funPtrMap'[a] = funPtrMap[a]
      BY <2>1, <3>2 DEF Inserted
    <3>4. ASSUME NEW a \in DOMAIN funPtrMap'
          PROVE  funPtrMap'[a] \in DOMAIN globalEnv' \cap Functions /\ globalEnv'[funPtrMap'[a]] = a
      <4>1. CASE a = addr
        BY <2>5, <3>1, <3>3, <4>1
      <4>2. CASE a # addr
        <5>1. a \in DOMAIN funPtrMap /\ funPtrMap'[a] = funPtrMap[a]
          BY <3>3, <4>2
        <5>2. funPtrMap[a] \in DOMAIN globalEnv \cap Functions /\ globalEnv[funPtrMap[a]] = a
          BY <5>1 DEF IInv, TablesInverse
        <5> QED BY <2>5, <5>1, <5>2
      <4> QED BY <4>1, <4>2
    <3>5. ASSUME NEW f \in DOMAIN globalEnv' \cap Functions
          PROVE  globalEnv'[f] \in DOMAIN funPtrMap' /\ funPtrMap'[globalEnv'[f]] = f
      <4>1. CASE f = name
        BY <2>5, <3>3, <4>1
      <4>2. CASE f # name
        <5>1. f \in DOMAIN globalEnv \cap Functions
          BY <3>1, <4>2
        <5>2. globalEnv[f] \in DOMAIN funPtrMap /\ funPtrMap[globalEnv[f]] = f
          BY <5>1 DEF IInv, TablesInverse
        <5> QED BY <2>5, <3>3, <5>1, <5>2
      <4> QED BY <4>1, <4>2
    <3> QED BY <2>7, <3>4, <3>5 DEF TablesInverse
  <2>12. \A i : Filled(i)' => Filled(i)
    BY <1>1, <2>1 DEF Filled, AllInitialised
  <2> HIDE DEF name
  <2> QED BY <1>0, <1>1, <1>4, <2>1, <2>3, <2>4, <2>9, <2>10, <2>11, <2>12, TableStep
<1> QED BY <1>2, <1>3, <1>4

LEMMA AllocateArgvStep ==
    ASSUME SizesFit, IInv, AllocateArgv
    PROVE  IInv'
<1>0. program \in Programs /\ Len(program.args) * PtrSize \in Nat /\ next \in Nat \ {0}
  BY Facts, ProgramFacts DEF IInv, Progress
<1>1. stage = "argv" /\ UNCHANGED <<program, meant, used>>
  BY DEF AllocateArgv
<1>2. CASE ~Fits(ArgvSize)
  <2>1. Untouched /\ next' = next /\ stage' \in Ends
    BY <1>1, <1>2 DEF AllocateArgv, Stop, Untouched, Ends, Stages, Started, AllInitialised
  <2> QED BY <1>1, <2>1, EndStep
<1>3. CASE Fits(ArgvSize)
  <2> DEFINE n == Len(program.args) * PtrSize
             addr == globalMem.usedSize
             where == Layout(program, globalEnv, strings)
             where2 == Layout(program, globalEnv, strings')
  <2>1. /\ globalMem' = NewGlobalMem(n) /\ Fits(n)
        /\ strings' = [strings EXCEPT !.array = addr]
        /\ stage' = "strings" /\ UNCHANGED <<globalEnv, funPtrMap, next>>
    BY <1>1, <1>3 DEF AllocateArgv, ArgvSize
  <2>2. n < UINT_MOD
    BY <1>0 DEF SizesFit
  <2>3. /\ strings = [array |-> 0, addrs |-> <<>>] /\ next = 1
        /\ strings' = [array |-> addr, addrs |-> <<>>] /\ addr \in Nat /\ addr # 0
    <3>1. strings.array = 0 /\ strings.addrs = <<>> /\ next = 1
      BY <1>1 DEF IInv, ArgsProgress
    <3>2. strings = [array |-> strings.array, addrs |-> strings.addrs]
      BY DEF IInv, ArgsProgress
    <3>3. addr \in Nat /\ addr >= 1
      BY Facts
    <3> HIDE DEF addr
    <3>4. strings' = [array |-> addr, addrs |-> <<>>]
      BY <2>1, <3>1, <3>2
    <3> QED BY <3>1, <3>2, <3>3, <3>4
  <2>4. Extends(where, where2, Argv, addr, n)
    <3>1. Names(globalEnv, strings) = DOMAIN globalEnv
      <4>1. strings.array = 0 /\ DOMAIN strings.addrs = {}
        BY <2>3
      <4> QED BY <4>1 DEF Names
    <3>2. Names(globalEnv, strings') = DOMAIN globalEnv \cup {Argv}
      <4> HIDE DEF addr
      <4> QED BY <2>3 DEF Names
    <3>3. Argv \notin DOMAIN globalEnv
      BY Facts DEF Argv
    <3>4. \A name \in DOMAIN globalEnv : name.kind \in {"global", "function"}
      BY Facts
    <3>5. DOMAIN where = DOMAIN globalEnv /\ DOMAIN where2 = DOMAIN globalEnv \cup {Argv}
      BY <3>1, <3>2 DEF Layout
    <3>6. where2[Argv] = [at |-> addr, size |-> n]
      <4> HIDE DEF addr
      <4>1. Start(globalEnv, strings', Argv) = addr
        BY <2>3 DEF Start, Argv
      <4>2. SizeIn(program, Argv) = n
        BY DEF SizeIn, Argv
      <4> QED BY <3>2, <4>1, <4>2 DEF Layout
    <3>7. ASSUME NEW name \in DOMAIN globalEnv PROVE where2[name] = where[name]
      <4>1. Start(globalEnv, strings', name) = Start(globalEnv, strings, name)
        BY <3>4 DEF Start
      <4> QED BY <3>1, <3>2, <4>1 DEF Layout
    <3> HIDE DEF where, where2, addr, n
    <3> QED BY <3>3, <3>5, <3>6, <3>7 DEF Extends
  <2>5. EnvKept /\ StageKept /\ CallsReachNamed'
    BY <1>1, <2>1 DEF EnvKept, StageKept, IInv, MeantShape, AllInitialised, CallsReachNamed
  <2>6. \A i : Filled(i)' => Filled(i)
    BY <1>1, <2>1 DEF Filled, AllInitialised
  <2>7. Progress' /\ TablesInverse'
    BY <1>1, <2>1 DEF IInv, Progress, TablesInverse, Globals, Functions, Stages, Started, AllInitialised
  <2>8. ArgsProgress'
    <3>1. Len(program.args) \in Nat
      BY <1>0, ProgramFacts
    <3>2. strings'.array = addr /\ strings'.addrs = <<>> /\ strings' = [array |-> strings'.array, addrs |-> strings'.addrs]
      BY <2>3
    <3>3. <<>> \in Seq(Nat) /\ Len(<<>>) = 0 /\ addr \in Nat /\ addr # 0
      BY <2>3
    <3>4. next' = 1 /\ stage' = "strings" /\ program' = program
      BY <1>1, <2>1, <2>3
    <3> HIDE DEF addr
    <3> QED BY <3>1, <3>2, <3>3, <3>4 DEF ArgsProgress, Started
  <2>9. strings'.addrs = strings.addrs /\ strings.array = 0
    BY <2>3
  <2>10. Extends(where, Layout(program, globalEnv', strings'), Argv, addr, n)
    BY <2>1, <2>4
  <2> QED BY <1>0, <1>1, <2>1, <2>2, <2>5, <2>6, <2>7, <2>8, <2>9, <2>10, PlacementStep
<1> QED BY <1>2, <1>3

----------------------------------------------------------------------------------
(* The steps that write, each inside one object.                                        *)
WritesGlobal(g, a, bytes, init) ==
    /\ globalMem' = WriteBytes(globalMem, a, bytes)
    /\ UNCHANGED <<program, globalEnv, funPtrMap, strings, used>>
    /\ DOMAIN meant' = DOMAIN meant /\ meant'[g] = init
    /\ \A i \in DOMAIN program.globals : i # g => meant'[i] = meant[i] /\ (Filled(i)' => Filled(i))

LEMMA WriteGlobalStep ==
    ASSUME IInv, NEW g \in DOMAIN program.globals, Global(g) \in DOMAIN globalEnv,
           NEW a, NEW bytes, NEW init, WritesGlobal(g, a, bytes, init),
           Inside(Layout(program, globalEnv, strings), Global(g), a, bytes),
           \A j \in 1 .. Len(bytes) : IsByte(bytes[j], globalMem.usedSize),
           Known(init), SameShape(init, program.globals[g], program),
           Len(Declared(init)) \in Nat, Len(Declared(init)) <= SizeOf(program.globals[g]),
           Finds(globalMem'.mem, globalEnv[Global(g)], Declared(init)),
           StageKept, meant' = meant \/ stage' = "main", Progress', ArgsProgress'
    PROVE  IInv'
<1> DEFINE where == Layout(program, globalEnv, strings)
<1>0. /\ program' = program /\ globalEnv' = globalEnv /\ strings' = strings
      /\ globalMem' = WriteBytes(globalMem, a, bytes)
  BY DEF WritesGlobal
<1>1. a \in Nat /\ Len(bytes) \in Nat
  BY DEF Inside
<1>2. /\ IsSection(globalMem) /\ Typed(globalMem) /\ globalMem.usedSize \in Nat
      /\ globalMem.usedSize <= DEFAULT_SIZE /\ Ordered(where, globalMem.usedSize)
  BY Facts DEF IInv, MemoryTyped, InOrder
<1>3. MemoryTyped' /\ globalMem'.usedSize = globalMem.usedSize
  BY <1>0, <1>1, <1>2, WriteTyped, WriteBytesIs DEF MemoryTyped
<1>4. InOrder'
  BY <1>0, <1>3 DEF IInv, InOrder
<1>5. TablesInverse'
  BY DEF IInv, TablesInverse, Functions, WritesGlobal
<1>6. MeantShape'
  BY <1>0 DEF IInv, MeantShape, StageKept, WritesGlobal
<1>7. \A other : (Known(other)' <=> Known(other)) /\ Declared(other)' = Declared(other)
  BY <1>0 DEF Known, Declared, HasAddress, PointsTo
<1>8. NamesKnown'
  <2>1. SUFFICES ASSUME NEW i \in DOMAIN program.globals, Filled(i)' PROVE Known(meant'[i])
    BY <1>0, <1>7 DEF NamesKnown, Known, HasAddress
  <2>2. CASE i = g
    BY <2>2 DEF WritesGlobal
  <2>3. CASE i # g
    BY <2>1, <2>3 DEF WritesGlobal, IInv, NamesKnown, Known
  <2> QED BY <2>2, <2>3
<1>9. HeldSays /\ HeldSays'
  BY HeldKinds, PTL
<1>10. SameButFor(Global(g), Held, Held')
  <2>1. SUFFICES ASSUME NEW h \in DOMAIN Held', h # Global(g)
                 PROVE  h \in DOMAIN Held /\ Held'[h] = Held[h]
    BY DEF SameButFor
  <2>2. \/ \E i \in DOMAIN program.globals : h = Global(i) /\ Filled(i)'
        \/ h = Argv /\ strings.array # 0
        \/ \E i \in DOMAIN strings.addrs : h = Arg(i)
    BY <1>0, <1>9, <2>1 DEF HeldSays
  <2>3. CASE \E i \in DOMAIN program.globals : h = Global(i) /\ Filled(i)'
    <3>1. PICK i \in DOMAIN program.globals : h = Global(i) /\ Filled(i)'
      BY <2>3
    <3>2. i # g
      BY <2>1, <3>1
    <3>3. Filled(i) /\ meant'[i] = meant[i]
      BY <3>1, <3>2 DEF WritesGlobal
    <3>4. h \in DOMAIN Held /\ Held[h] = Declared(meant[i])
      BY <1>9, <3>1, <3>3 DEF HeldSays
    <3>5. Held'[h] = Declared(meant[i])'
      BY <1>9, <3>1 DEF HeldSays
    <3>6. Declared(meant[i])' = Declared(meant[i])
      <4>1. PICK other : other = meant[i] /\ other = meant'[i]
        BY <3>3
      <4>2. Declared(other)' = Declared(other)
        BY <1>7
      <4> QED BY <4>1, <4>2 DEF Declared
    <3> QED BY <3>4, <3>5, <3>6
  <2>4. CASE h = Argv /\ strings.array # 0
    BY <1>0, <1>9, <2>4 DEF HeldSays
  <2>5. CASE \E i \in DOMAIN strings.addrs : h = Arg(i)
    <3>1. PICK i \in DOMAIN strings.addrs : h = Arg(i)
      BY <2>5
    <3>2. Held[h] = CharsOf(program.args[i]) /\ h \in DOMAIN Held
      BY <1>9, <3>1 DEF HeldSays
    <3>3. Held'[h] = CharsOf(program.args[i])
      BY <1>0, <1>9, <3>1 DEF HeldSays
    <3> QED BY <3>2, <3>3
  <2> QED BY <2>2, <2>3, <2>4, <2>5
<1>11. /\ where[Global(g)].at = globalEnv[Global(g)]
       /\ where[Global(g)].size = SizeOf(program.globals[g])
  <2>1. where[Global(g)] = [at |-> globalEnv[Global(g)], size |-> SizeIn(program, Global(g))]
    BY Facts DEF LayoutSays
  <2>2. SizeIn(program, Global(g)) = SizeOf(program.globals[g])
    BY DEF SizeIn, Global
  <2> QED BY <2>1, <2>2
<1>12. ASSUME Global(g) \in DOMAIN Held'
       PROVE  /\ Len(Held'[Global(g)]) \in Nat
              /\ Len(Held'[Global(g)]) <= where[Global(g)].size
              /\ Finds(globalMem'.mem, where[Global(g)].at, Held'[Global(g)])
  <2>1. \E i \in DOMAIN program.globals : Global(g) = Global(i) /\ Filled(i)'
    BY <1>0, <1>9, <1>12 DEF HeldSays, Global, Argv, Arg
  <2>2. Filled(g)'
    BY <2>1 DEF Global
  <2>3. Held'[Global(g)] = Declared(meant[g])'
    BY <1>9, <2>2 DEF HeldSays
  <2>4. Declared(meant[g])' = Declared(init)'
    BY DEF WritesGlobal, Declared
  <2>5. Held'[Global(g)] = Declared(init)
    BY <1>7, <2>3, <2>4
  <2> QED BY <1>11, <2>5
<1>13. Holdings(where, Held, globalMem.mem)
  BY DEF IInv, Contents
<1>14. Holdings(where, Held', globalMem'.mem)
  <2> HIDE DEF where
  <2>1. Inside(where, Global(g), a, bytes)
    BY DEF where
  <2> QED BY <1>0, <1>2, <1>10, <1>12, <1>13, <2>1, HoldingsWritten
<1>15. Contents'
  BY <1>0, <1>14 DEF Contents
<1>16. CallsReachNamed'
  BY DEF WritesGlobal, IInv, CallsReachNamed
<1> QED BY <1>3, <1>4, <1>5, <1>6, <1>8, <1>15, <1>16 DEF IInv

LEMMA EvaluatesToDeclared ==
    ASSUME IInv, NEW g \in DOMAIN program.globals, program.globals[g].kind # "none",
           meant = program.globals, Known(program.globals[g])
    PROVE  EvaluateInitializer(program.globals[g]) = Declared(program.globals[g])
<1> DEFINE init == program.globals[g]
<1>1. CASE IsRefs(init)
  <2>1. \A j \in DOMAIN init.names : IsName(init.names[j], program)
    BY <1>1, Facts, ProgramFacts DEF IsInit, IsRefs
  <2>2. \A j \in DOMAIN init.names : AddressOf(init.names[j]) = PointsTo(init.names[j])
    BY <1>1, <2>1, PointsInside DEF Known
  <2> QED BY <1>1, <2>2 DEF EvaluateInitializer, Declared
<1>2. CASE ~IsRefs(init)
  BY <1>2 DEF EvaluateInitializer, Declared
<1> QED BY <1>1, <1>2

LEMMA InitialiseGlobalsStep ==
    ASSUME IInv, InitialiseGlobals
    PROVE  IInv'
<1>0. /\ Len(program.globals) \in Nat /\ DOMAIN program.globals = 1 .. Len(program.globals)
      /\ next \in Nat \ {0} /\ program \in Programs
  BY Facts, ProgramFacts DEF IInv, Progress
<1>1. stage = "initialise" /\ UNCHANGED <<program, meant, used>> /\ meant = program.globals
  BY DEF InitialiseGlobals, Loop, IInv, MeantShape, Started
<1>2. CASE ~(next <= Len(program.globals))
  <2>1. Untouched /\ next' = 1 /\ stage' = "functions"
    BY <1>1, <1>2 DEF InitialiseGlobals, Loop, Untouched
  <2>2. LoopDone
    BY <1>1, <1>2, <2>1 DEF LoopDone
  <2> QED BY <1>1, <2>1, <2>2, LoopEnds
<1>3. CASE next <= Len(program.globals)
  <2> DEFINE init == program.globals[next]
             a == globalEnv[Global(next)]
             bytes == EvaluateInitializer(init)
             where == Layout(program, globalEnv, strings)
  <2>1. next \in DOMAIN program.globals /\ InitialiseOne
    BY <1>0, <1>1, <1>3 DEF InitialiseGlobals, Loop
  <2>2. IsInit(init, program)
    BY <1>0, <2>1, ProgramFacts
  <2>g. Global(next) \in DOMAIN globalEnv
    BY <1>1, <2>1 DEF IInv, Progress, Globals
  <2>3. ASSUME stage' = stage, next' = next + 1, UNCHANGED <<globalEnv, funPtrMap, strings>>
        PROVE  Progress' /\ ArgsProgress' /\ StageKept
    <3>1. ArgsProgress'
      BY <1>1, <2>3 DEF IInv, ArgsProgress, Started
    <3>2. StageKept
      BY <1>1 DEF StageKept
    <3>3. next' \in Nat \ {0}
      BY <1>0, <2>3
    <3>4. Globals' = Globals /\ Functions' = Functions
      BY <1>1 DEF Globals, Functions
    <3> QED BY <1>1, <2>3, <3>1, <3>2, <3>3, <3>4 DEF IInv, Progress, Started, AllInitialised
  <2>4. CASE init.kind = "none"
    <3>1. Advance /\ UNCHANGED <<globalMem, globalEnv, funPtrMap, strings>>
      BY <2>1, <2>4 DEF InitialiseOne, IsRefs
    <3>2. \A i : Filled(i)' => Filled(i)
      <4>1. SUFFICES ASSUME NEW i, Filled(i)' PROVE Filled(i)
        OBVIOUS
      <4>2. i \in DOMAIN program.globals /\ program.globals[i].kind # "none" /\ i < next + 1
        BY <1>1, <3>1, <4>1 DEF Filled, Advance, AllInitialised
      <4>3. i # next
        BY <2>4, <4>2
      <4>4. i < next
        BY <1>0, <4>2, <4>3
      <4> QED BY <1>1, <4>2, <4>4 DEF Filled
    <3>3. CallsReachNamed'
      BY <1>1 DEF IInv, CallsReachNamed
    <3> QED BY <1>1, <2>3, <3>1, <3>2, <3>3, ControlStep DEF Advance
  <2>5. CASE init.kind # "none" /\ ~Known(init)
    <3>1. Stop("noAddress")
      BY <2>1, <2>5 DEF InitialiseOne, Known
    <3>2. Untouched /\ next' = next /\ stage' \in Ends
      BY <1>1, <3>1 DEF Stop, Untouched, Ends, Stages, Started, AllInitialised
    <3> QED BY <1>1, <3>2, EndStep
  <2>6. CASE init.kind # "none" /\ Known(init) /\ ~Writable(globalMem, a, bytes)
    <3>1. Stop("illegalWrite")
      BY <2>1, <2>6 DEF InitialiseOne, Known
    <3>2. Untouched /\ next' = next /\ stage' \in Ends
      BY <1>1, <3>1 DEF Stop, Untouched, Ends, Stages, Started, AllInitialised
    <3> QED BY <1>1, <3>2, EndStep
  <2>7. CASE init.kind # "none" /\ Known(init) /\ Writable(globalMem, a, bytes)
    <3>1. /\ globalMem' = WriteBytes(globalMem, a, bytes) /\ Advance
          /\ UNCHANGED <<globalEnv, funPtrMap, strings>>
      BY <2>1, <2>7 DEF InitialiseOne, Known
    <3>2. bytes = Declared(init)
      BY <1>1, <2>1, <2>7, EvaluatesToDeclared
    <3>3. /\ Len(Declared(init)) = SizeOf(init) /\ Len(Declared(init)) \in Nat
          /\ \A j \in 1 .. Len(Declared(init)) : IsByte(Declared(init)[j], globalMem.usedSize)
      BY <1>1, <2>1, <2>7, DeclaredIs
    <3>4. /\ a \in Nat /\ where[Global(next)] = [at |-> a, size |-> SizeOf(init)]
          /\ Global(next) \in DOMAIN where /\ a + SizeOf(init) <= globalMem.usedSize
          /\ SizeOf(init) \in Nat
      <4>1. SizeIn(program, Global(next)) = SizeOf(init)
        BY DEF SizeIn, Global
      <4>2. LayoutSays(program, globalEnv, strings, globalMem.usedSize)
        BY Facts
      <4> HIDE DEF init
      <4> QED BY <2>g, <4>1, <4>2 DEF LayoutSays, Names
    <3>5. Inside(where, Global(next), a, bytes)
      <4>1. where[Global(next)].at = a /\ where[Global(next)].size = SizeOf(init)
        BY <3>4
      <4>2. Len(bytes) = SizeOf(init)
        BY <3>2, <3>3
      <4> HIDE DEF where, a, bytes, init
      <4> QED BY <3>4, <4>1, <4>2 DEF Inside
    <3>6. Finds(globalMem'.mem, a, Declared(init))
      <4>1. a + Len(bytes) <= DEFAULT_SIZE /\ Len(bytes) \in Nat
        <5>1. globalMem.usedSize \in Nat /\ globalMem.usedSize <= DEFAULT_SIZE /\ DEFAULT_SIZE \in Nat
          BY Facts
        <5>2. Len(bytes) = SizeOf(init)
          BY <3>2, <3>3
        <5> HIDE DEF a, bytes, init
        <5> QED BY <3>4, <5>1, <5>2
      <4>2. IsSection(globalMem)
        BY Facts
      <4>3. Finds(WriteBytes(globalMem, a, bytes).mem, a, bytes)
        BY <3>4, <4>1, <4>2, FindsWritten
      <4> QED BY <3>1, <3>2, <4>3
    <3>7. SameShape(init, init, program)
      <4>1. meant = program.globals
        BY <1>1
      <4> QED BY <2>1, <4>1 DEF IInv, MeantShape
    <3>8. WritesGlobal(next, a, bytes, init)
      <4>1. ASSUME NEW i \in DOMAIN program.globals, i # next, Filled(i)' PROVE Filled(i)
        <5>1. program.globals[i].kind # "none" /\ i < next + 1
          BY <1>1, <3>1, <4>1 DEF Filled, Advance, AllInitialised
        <5>2. i < next
          BY <1>0, <4>1, <5>1
        <5> QED BY <1>1, <5>1, <5>2 DEF Filled
      <4> QED BY <1>1, <2>1, <3>1, <4>1 DEF WritesGlobal
    <3>9. /\ \A j \in 1 .. Len(bytes) : IsByte(bytes[j], globalMem.usedSize)
          /\ Len(Declared(init)) <= SizeOf(init)
      <4>1. Len(Declared(init)) <= SizeOf(init)
        BY <3>3, <3>4
      <4> QED BY <3>2, <3>3, <4>1
    <3>10. Progress' /\ ArgsProgress' /\ StageKept
      BY <2>3, <3>1 DEF Advance
    <3> HIDE DEF a, bytes
    <3> QED BY <1>1, <2>1, <2>g, <2>7, <3>3, <3>5, <3>6, <3>7, <3>8, <3>9, <3>10, WriteGlobalStep DEF a
  <2> QED BY <2>4, <2>5, <2>6, <2>7
<1> QED BY <1>2, <1>3

LEMMA StorePointerStep ==
    ASSUME IInv, NEW slot \in Slots, NEW name \in DOMAIN globalEnv, StorePointer(slot, name)
    PROVE  IInv'
<1>1. PICK g \in DOMAIN program.globals :
          /\ IsRefs(program.globals[g]) /\ slot.name = Global(g)
          /\ slot.at \in DOMAIN program.globals[g].names
  BY DEF Slots
<1>2. /\ stage = "main" /\ UNCHANGED <<program, globalEnv, funPtrMap, strings, stage, next, used>>
      /\ globalMem' = WriteBytes(globalMem, Slot(slot.name, slot.at), PtrBytes(AddressOf(name)))
      /\ meant' = [meant EXCEPT ![slot.name.i].names[slot.at] = name]
  BY DEF StorePointer
<1>3. PICK at, init : at = slot.at /\ init = [meant[g] EXCEPT !.names[at] = name]
  OBVIOUS
<1>4. /\ SameShape(meant[g], program.globals[g], program) /\ DOMAIN meant = DOMAIN program.globals
      /\ program.globals[g].kind = "refs"
  BY <1>1 DEF IInv, MeantShape, IsRefs
<1>5. /\ meant[g] = [kind |-> "refs", names |-> meant[g].names]
      /\ meant[g].names \in Seq(ToSet(meant[g].names))
      /\ Len(meant[g].names) = Len(program.globals[g].names)
      /\ \A j \in DOMAIN meant[g].names : IsName(meant[g].names[j], program)
  BY <1>4 DEF SameShape
<1>6. PICK n \in Nat : /\ n = Len(meant[g].names) /\ DOMAIN meant[g].names = 1 .. n
                       /\ DOMAIN program.globals[g].names = 1 .. n
  <2>1. IsInit(program.globals[g], program)
    BY Facts, ProgramFacts
  <2>2. IsSequence(program.globals[g].names)
    BY <1>4, <2>1 DEF IsInit
  <2>3. PICK n \in Nat : n = Len(meant[g].names) /\ DOMAIN meant[g].names = 1 .. n
    BY <1>5
  <2>4. PICK names : names = program.globals[g].names /\ names \in Seq(ToSet(names)) /\ Len(names) = n
    BY <1>5, <2>2, <2>3 DEF IsSequence
  <2>5. DOMAIN names = 1 .. n
    BY <2>4
  <2> QED BY <2>3, <2>4, <2>5
<1>7. at \in 1 .. n
  BY <1>1, <1>3, <1>6
<1>8. /\ init = [kind |-> "refs", names |-> init.names]
      /\ init.names = [meant[g].names EXCEPT ![at] = name]
      /\ DOMAIN init.names = 1 .. n /\ init.names[at] = name
      /\ \A j \in 1 .. n : j # at => init.names[j] = meant[g].names[j]
  <2>1. init = [kind |-> "refs", names |-> [meant[g].names EXCEPT ![at] = name]]
    BY <1>3, <1>5
  <2> QED BY <1>6, <1>7, <2>1
<1>9. meant' = [meant EXCEPT ![g] = init]
  <2>1. slot.name.i = g
    BY <1>1 DEF Global
  <2> QED BY <1>2, <1>3, <2>1
<1>10. IsName(name, program) /\ HasAddress(name) /\ AddressOf(name) = PointsTo(name)
       /\ PointsTo(name) \in 0 .. globalMem.usedSize
  BY PlacedNames, PointsInside
<1>11. \A j \in DOMAIN init.names : IsName(init.names[j], program)
  BY <1>5, <1>6, <1>8, <1>10
<1>12. init.names \in Seq(ToSet(init.names)) /\ Len(init.names) = n
  <2>1. \A j \in 1 .. n : init.names[j] \in ToSet(init.names)
    BY <1>8 DEF ToSet
  <2>2. PICK names, S : names = init.names /\ S = ToSet(init.names)
    OBVIOUS
  <2>3. names = [j \in 1 .. n |-> names[j]]
    BY <1>6, <1>8, <2>2
  <2> QED BY <2>1, <2>2, <2>3
<1>13. SameShape(init, program.globals[g], program)
  BY <1>4, <1>5, <1>6, <1>8, <1>11, <1>12 DEF SameShape
<1>14. Known(meant[g]) /\ Known(init)
  <2>1. Filled(g)
    BY <1>2, <1>4 DEF Filled, AllInitialised
  <2>2. Known(meant[g])
    BY <2>1 DEF IInv, NamesKnown, Known
  <2>3. \A j \in 1 .. n : HasAddress(meant[g].names[j])
    BY <1>5, <1>6, <2>2 DEF Known, IsRefs
  <2>4. \A j \in DOMAIN init.names : HasAddress(init.names[j])
    BY <1>8, <1>10, <2>3
  <2> QED BY <2>2, <2>4 DEF Known
<1>15. /\ PointsOf(meant[g]) \in Seq(Nat) /\ Len(PointsOf(meant[g])) = n
       /\ Declared(meant[g]) = PtrArray(PointsOf(meant[g]))
       /\ PointsOf(init) \in Seq(Nat) /\ Len(PointsOf(init)) = n
       /\ Declared(init) = PtrArray(PointsOf(init))
  <2>1. IsRefs(meant[g]) /\ IsRefs(init)
    BY <1>5, <1>8 DEF IsRefs
  <2>2. \A j \in DOMAIN init.names : HasAddress(init.names[j])
    BY <1>14, <2>1 DEF Known
  <2>3. \A j \in DOMAIN meant[g].names : HasAddress(meant[g].names[j])
    BY <1>14, <2>1 DEF Known
  <2>4. PointsOf(init) \in Seq(Nat) /\ Len(PointsOf(init)) = Len(init.names)
    BY <1>11, <1>12, <2>2, PointsOfSeq
  <2>5. PointsOf(meant[g]) \in Seq(Nat) /\ Len(PointsOf(meant[g])) = Len(meant[g].names)
    BY <1>5, <2>3, PointsOfSeq
  <2> QED BY <1>6, <1>12, <2>1, <2>4, <2>5 DEF Declared, PointsOf
<1>16. /\ \A j \in 1 .. n : j # at => PointsOf(init)[j] = PointsOf(meant[g])[j]
       /\ PointsOf(init)[at] = PointsTo(name)
  BY <1>6, <1>7, <1>8 DEF PointsOf
<1>17. SizeOf(program.globals[g]) = n * PtrSize /\ n * PtrSize \in Nat /\ PtrSize \in Nat \ {0}
  <2>1. PtrSize \in Nat \ {0}
    BY SetupAssumption DEF SetupAssumption
  <2> QED BY <1>4, <1>5, <1>6, <2>1 DEF SizeOf
<1>18. Global(g) \in DOMAIN globalEnv
  BY <1>2 DEF IInv, Progress, AllInitialised, Globals
<1>19. PICK a \in Nat : /\ a = globalEnv[Global(g)] /\ a + n * PtrSize <= globalMem.usedSize
                        /\ Layout(program, globalEnv, strings)[Global(g)] = [at |-> a, size |-> n * PtrSize]
  <2>1. SizeIn(program, Global(g)) = n * PtrSize
    BY <1>17 DEF SizeIn, Global
  <2>2. LayoutSays(program, globalEnv, strings, globalMem.usedSize)
    BY Facts
  <2> QED BY <1>18, <2>1, <2>2 DEF LayoutSays
<1>20. Slot(slot.name, slot.at) = a + (at - 1) * PtrSize
  BY <1>1, <1>3, <1>19 DEF Slot, Base, Global, Argv
<1>21. (at - 1) * PtrSize \in Nat /\ (at - 1) * PtrSize + PtrSize <= n * PtrSize
  BY <1>7, <1>17, PlaceOfElement
<1>22. globalMem' = WriteBytes(globalMem, a + (at - 1) * PtrSize, PtrBytes(PointsTo(name)))
  BY <1>2, <1>10, <1>20
<1>23. /\ Len(PtrBytes(PointsTo(name))) = PtrSize
       /\ \A j \in 1 .. Len(PtrBytes(PointsTo(name))) : IsByte(PtrBytes(PointsTo(name))[j], globalMem.usedSize)
  BY <1>10, PtrBytesTyped
<1>24. Inside(Layout(program, globalEnv, strings), Global(g), a + (at - 1) * PtrSize, PtrBytes(PointsTo(name)))
  <2>1. PICK q \in Nat, m \in Nat : q = (at - 1) * PtrSize /\ m = n * PtrSize
    BY <1>17, <1>21
  <2>2. a <= a + q /\ a + q + PtrSize <= a + m /\ a + q \in Nat
    BY <1>17, <1>21, <2>1
  <2>3. Global(g) \in DOMAIN Layout(program, globalEnv, strings)
    BY <1>18 DEF Layout, Names
  <2>4. /\ Layout(program, globalEnv, strings)[Global(g)].at = a
        /\ Layout(program, globalEnv, strings)[Global(g)].size = m
    BY <1>19, <2>1
  <2> QED BY <1>17, <1>23, <2>1, <2>2, <2>3, <2>4 DEF Inside
<1>25. Finds(globalMem'.mem, a, Declared(init))
  <2>1. Finds(globalMem.mem, a, PtrArray(PointsOf(meant[g])))
    <3>1. Filled(g)
      BY <1>2, <1>4 DEF Filled, AllInitialised
    <3>2. Global(g) \in DOMAIN Held /\ Held[Global(g)] = Declared(meant[g])
      BY <3>1, HeldKinds DEF HeldSays
    <3>3. Layout(program, globalEnv, strings)[Global(g)].at = a
      BY <1>19
    <3> QED BY <1>15, <3>2, <3>3 DEF IInv, Contents, Holdings
  <2>2. IsSection(globalMem) /\ globalMem.usedSize <= DEFAULT_SIZE /\ DEFAULT_SIZE \in Nat
        /\ globalMem.usedSize \in Nat
    BY Facts
  <2>3. PICK new \in Seq(Nat), addrs \in Seq(Nat) :
            /\ new = PointsOf(init) /\ addrs = PointsOf(meant[g]) /\ Len(new) = n /\ Len(addrs) = n
    BY <1>15
  <2>4. a + Len(new) * PtrSize <= DEFAULT_SIZE
    BY <1>17, <1>19, <2>2, <2>3
  <2>5. \A i \in 1 .. Len(new) : i # at => i <= Len(addrs) /\ new[i] = addrs[i]
    BY <1>16, <2>3
  <2>6. at \in 1 .. Len(new) /\ Len(addrs) <= Len(new) /\ Finds(globalMem.mem, a, PtrArray(addrs))
    BY <1>7, <2>1, <2>3
  <2>7. Finds(WriteBytes(globalMem, a + (at - 1) * PtrSize, PtrBytes(new[at])).mem, a, PtrArray(new))
    BY <2>2, <2>4, <2>5, <2>6, FindsElement
  <2> QED BY <1>15, <1>16, <1>22, <2>3, <2>7
<1>26. Len(Declared(init)) \in Nat /\ Len(Declared(init)) <= SizeOf(program.globals[g])
  <2>1. Len(PtrArray(PointsOf(init))) = n * PtrSize
    BY <1>15, PtrArrayIs
  <2>2. PICK m \in Nat : m = n * PtrSize
    BY <1>17
  <2> QED BY <1>15, <1>17, <2>1, <2>2
<1>27. WritesGlobal(g, a + (at - 1) * PtrSize, PtrBytes(PointsTo(name)), init)
  <2>1. \A i : Filled(i)' => Filled(i)
    BY <1>2 DEF Filled
  <2> QED BY <1>2, <1>4, <1>9, <1>22, <2>1 DEF WritesGlobal
<1>28. Progress' /\ ArgsProgress' /\ StageKept /\ stage' = "main"
  BY <1>2 DEF IInv, Progress, ArgsProgress, StageKept, Globals, Functions
<1> QED BY <1>13, <1>14, <1>18, <1>19, <1>23, <1>24, <1>25, <1>26, <1>27, <1>28, WriteGlobalStep

(* The next argument in the list of strings is a new object.                            *)
LEMMA ArgExtends ==
    ASSUME NEW p, NEW env, NEW array \in Nat, array # 0, NEW addrs \in Seq(Nat), NEW a \in Nat,
           \A other \in DOMAIN env : other.kind \in {"global", "function"},
           NEW str, str.array = array, str.addrs = addrs,
           NEW str2, str2.array = array, str2.addrs = Append(addrs, a)
    PROVE  Extends(Layout(p, env, str), Layout(p, env, str2), Arg(Len(addrs) + 1), a,
                   Len(p.args[Len(addrs) + 1]) + 1)
<1>0. PICK k \in Nat : k = Len(addrs) + 1 /\ DOMAIN addrs = 1 .. k - 1 /\ k >= 1
  OBVIOUS
<1>1. PICK addrs2 \in Seq(Nat) : addrs2 = Append(addrs, a)
  BY AppendProperties
<1>2. /\ DOMAIN addrs2 = 1 .. k /\ addrs2[k] = a /\ \A i \in 1 .. k - 1 : addrs2[i] = addrs[i]
      /\ DOMAIN addrs2 = DOMAIN addrs \cup {k} /\ k \notin DOMAIN addrs
  BY <1>0, <1>1
<1> DEFINE name == Arg(k)
<1>3. name \notin Names(env, str)
  BY <1>2 DEF Names, Argv, Arg
<1>4. Names(env, str2) = Names(env, str) \cup {name}
  BY <1>1, <1>2 DEF Names
<1>5. Layout(p, env, str2)[name] = [at |-> a, size |-> Len(p.args[k]) + 1]
  <2>1. Start(env, str2, name) = a /\ SizeIn(p, name) = Len(p.args[k]) + 1
    BY <1>1, <1>2 DEF Start, SizeIn, Arg
  <2> QED BY <1>4, <2>1 DEF Layout
<1>6. ASSUME NEW other \in Names(env, str)
      PROVE  Layout(p, env, str2)[other] = Layout(p, env, str)[other]
  <2>1. Start(env, str2, other) = Start(env, str, other)
    <3>1. CASE other \in DOMAIN env
      BY <3>1 DEF Start
    <3>2. CASE other = Argv
      BY <3>2 DEF Start, Argv
    <3>3. CASE \E i \in DOMAIN str.addrs : other = Arg(i)
      <4>1. PICK i \in 1 .. k - 1 : other = Arg(i)
        BY <1>0, <3>3
      <4> QED BY <1>1, <1>2, <4>1 DEF Start, Arg
    <3> QED BY <3>1, <3>2, <3>3 DEF Names
  <2> QED BY <1>4, <2>1 DEF Layout
<1>7. DOMAIN Layout(p, env, str) = Names(env, str) /\ DOMAIN Layout(p, env, str2) = Names(env, str2)
  BY DEF Layout
<1>8. /\ Layout(p, env, str2)[name].at = a
      /\ Layout(p, env, str2)[name].size = Len(p.args[k]) + 1
  BY <1>5
<1> HIDE DEF name
<1>9. Extends(Layout(p, env, str), Layout(p, env, str2), name, a, Len(p.args[k]) + 1)
  BY <1>3, <1>4, <1>6, <1>7, <1>8 DEF Extends
<1> QED BY <1>0, <1>9 DEF name

(* What one round of createArgvArray's loop does, when it neither throws nor asserts.   *)
Copies(arg, addr, s1, s2) ==
    /\ stage = "strings" /\ next <= Len(program.args) /\ arg = program.args[next]
    /\ addr = globalMem.usedSize
    /\ Fits(Len(arg) + 1) /\ s1 = NewGlobalMem(Len(arg) + 1)
    /\ s2 = WriteBytes(s1, ArgvSlot(next), PtrBytes(addr))
    /\ globalMem' = WriteBytes(s2, addr, CharsOf(arg))
    /\ strings' = [strings EXCEPT !.addrs = Append(strings.addrs, addr)]
    /\ next' = next + 1 /\ UNCHANGED <<program, meant, used, stage, globalEnv, funPtrMap>>

(* The new string, and the array with its address, are where they should be.             *)
LEMMA CopyStep ==
    ASSUME SizesFit, IInv, NEW arg, NEW addr, NEW s1, NEW s2, Copies(arg, addr, s1, s2)
    PROVE  IInv'
<1> DEFINE where == Layout(program, globalEnv, strings)
           where2 == Layout(program, globalEnv, strings')
<1>0. /\ program \in Programs /\ PtrSize \in Nat \ {0} /\ next \in Nat \ {0}
      /\ Len(program.args) \in Nat /\ DOMAIN program.args = 1 .. Len(program.args)
      /\ Len(program.args) * PtrSize \in Nat
      /\ stage = "strings" /\ next <= Len(program.args) /\ arg = program.args[next]
      /\ UNCHANGED <<program, meant, used, stage, globalEnv, funPtrMap>> /\ next' = next + 1
  BY Facts, ProgramFacts DEF Copies, IInv, Progress
<1>1. next \in DOMAIN program.args
  BY <1>0
<1>2. PICK n \in Nat : /\ n = Len(arg) + 1 /\ n < UINT_MOD /\ n >= 1 /\ Len(CharsOf(arg)) = n
                       /\ \A limit : \A j \in 1 .. n : IsByte(CharsOf(arg)[j], limit)
  <2>1. arg \in Seq(ToSet(arg)) /\ Len(arg) \in Nat
    BY <1>0, <1>1, ProgramFacts
  <2>2. Len(arg) + 1 < UINT_MOD
    BY <1>0, <1>1 DEF SizesFit
  <2>3. Len(CharsOf(arg)) = Len(arg) + 1
        /\ \A limit : \A j \in 1 .. Len(arg) + 1 : IsByte(CharsOf(arg)[j], limit)
    BY <2>1, CharsOfIs
  <2> QED BY <2>1, <2>2, <2>3
<1>3. /\ IsSection(globalMem) /\ Typed(globalMem) /\ addr = globalMem.usedSize
      /\ addr \in Nat /\ addr >= 1 /\ DEFAULT_SIZE \in Nat
      /\ Ordered(where, addr) /\ Holdings(where, Held, globalMem.mem)
      /\ \A name \in DOMAIN globalEnv : name.kind \in {"global", "function"}
  BY Facts DEF Copies, IInv, MemoryTyped, InOrder, Contents
<1>4. PICK array \in Nat, addrs \in Seq(Nat) :
          /\ array # 0 /\ array = strings.array /\ addrs = strings.addrs /\ Len(addrs) = next - 1
          /\ strings = [array |-> array, addrs |-> addrs]
          /\ strings' = [array |-> array, addrs |-> Append(addrs, addr)]
  <2>1. /\ strings = [array |-> strings.array, addrs |-> strings.addrs]
        /\ strings.array \in Nat /\ strings.addrs \in Seq(Nat) /\ strings.array # 0
        /\ Len(strings.addrs) = next - 1
    BY <1>0 DEF IInv, ArgsProgress
  <2>2. strings' = [strings EXCEPT !.addrs = Append(strings.addrs, addr)]
    BY DEF Copies
  <2> QED BY <2>1, <2>2
<1>5. PICK addrs2 \in Seq(Nat) :
          /\ addrs2 = Append(addrs, addr) /\ Len(addrs2) = next /\ addrs2[next] = addr
          /\ \A i \in 1 .. next : i # next => i <= Len(addrs) /\ addrs2[i] = addrs[i]
          /\ DOMAIN addrs = 1 .. next - 1 /\ DOMAIN addrs2 = 1 .. next
  <2>1. PICK addrs2 \in Seq(Nat) :
            /\ addrs2 = Append(addrs, addr) /\ Len(addrs2) = Len(addrs) + 1
            /\ addrs2[Len(addrs) + 1] = addr /\ \A i \in 1 .. Len(addrs) : addrs2[i] = addrs[i]
    <3>1. /\ Append(addrs, addr) \in Seq(Nat) /\ Len(Append(addrs, addr)) = Len(addrs) + 1
          /\ Append(addrs, addr)[Len(addrs) + 1] = addr
          /\ \A i \in 1 .. Len(addrs) : Append(addrs, addr)[i] = addrs[i]
      BY <1>3, AppendProperties
    <3>2. PICK new : new = Append(addrs, addr)
      OBVIOUS
    <3> QED BY <3>1, <3>2
  <2>2. Len(addrs) + 1 = next /\ DOMAIN addrs = 1 .. next - 1 /\ DOMAIN addrs2 = 1 .. next
    BY <1>0, <1>4, <2>1
  <2>3. \A i \in 1 .. next : i # next => i <= Len(addrs) /\ i \in 1 .. Len(addrs)
    BY <1>0, <1>4
  <2> QED BY <2>1, <2>2, <2>3
<1>6. Extends(where, where2, Arg(next), addr, n)
  <2>1. strings'.array = array /\ strings'.addrs = Append(addrs, addr) /\ strings.array = array /\ strings.addrs = addrs
    BY <1>4
  <2>2. PICK str, str2 : str = strings /\ str2 = strings'
    OBVIOUS
  <2>3. Extends(Layout(program, globalEnv, str), Layout(program, globalEnv, str2), Arg(Len(addrs) + 1), addr,
                Len(program.args[Len(addrs) + 1]) + 1)
    BY <1>3, <1>4, <2>1, <2>2, ArgExtends
  <2>4. Len(addrs) + 1 = next
    BY <1>0, <1>4
  <2> QED BY <1>0, <1>2, <2>2, <2>3, <2>4
<1>7. /\ IsSection(s1) /\ Typed(s1) /\ s1.usedSize = addr + n /\ s1.mem = globalMem.mem
      /\ addr + n < DEFAULT_SIZE
  <2>1. CanAllocate(globalMem, ToUnsigned(n)) /\ s1 = Allocate(globalMem, ToUnsigned(n))
    BY <1>2 DEF Copies, Fits, NewGlobalMem
  <2> QED BY <1>2, <1>3, <2>1, AllocateFits, AllocateTyped
<1>8. PICK slot \in Nat : /\ slot = array + (next - 1) * PtrSize /\ slot = ArgvSlot(next)
                          /\ array <= slot /\ slot + PtrSize <= array + next * PtrSize
                          /\ array + next * PtrSize <= array + Len(program.args) * PtrSize
                          /\ next * PtrSize \in Nat
  <2>1. next \in 1 .. Len(program.args) /\ next \in 1 .. next
    BY <1>0
  <2>2. (next - 1) * PtrSize \in Nat /\ (next - 1) * PtrSize + PtrSize <= next * PtrSize /\ next * PtrSize \in Nat
    BY <1>0, <2>1, PlaceOfElement
  <2>3. next * PtrSize <= Len(program.args) * PtrSize
    <3>1. PICK k \in Nat : Len(program.args) = next + k
      <4>1. Len(program.args) - next \in Nat /\ Len(program.args) = next + (Len(program.args) - next)
        BY <1>0
      <4> QED BY <4>1
    <3>2. Len(program.args) * PtrSize = next * PtrSize + k * PtrSize /\ k * PtrSize \in Nat
      BY <1>0, <3>1
    <3> QED BY <2>2, <3>2
  <2>4. PICK q \in Nat, m \in Nat, l \in Nat :
            q = (next - 1) * PtrSize /\ m = next * PtrSize /\ l = Len(program.args) * PtrSize
    BY <1>0, <2>2
  <2>5. array + q \in Nat /\ array <= array + q /\ array + q + PtrSize <= array + m /\ array + m <= array + l
    <3>1. q + PtrSize <= m /\ m <= l
      BY <2>2, <2>3, <2>4
    <3>2. PICK k \in Nat : k = PtrSize
      BY <1>0
    <3> QED BY <3>1, <3>2
  <2>6. array + (next - 1) * PtrSize = ArgvSlot(next)
    BY <1>4 DEF ArgvSlot
  <2> QED BY <2>4, <2>5, <2>6
<1>9. /\ Len(PtrBytes(addr)) = PtrSize
      /\ \A j \in 1 .. PtrSize : IsByte(PtrBytes(addr)[j], addr + n)
  <2>1. addr \in 0 .. addr + n
    BY <1>3
  <2> QED BY <2>1, PtrBytesTyped
<1>10. s2 = WriteBytes(s1, slot, PtrBytes(addr)) /\ globalMem' = WriteBytes(s2, addr, CharsOf(arg))
  BY <1>8 DEF Copies
<1>11. IsSection(s2) /\ Typed(s2) /\ s2.usedSize = addr + n
  BY <1>0, <1>7, <1>9, <1>10, WriteBytesIs, WriteTyped
<1>12. MemoryTyped' /\ globalMem'.usedSize = addr + n
  <2>1. PICK bytes : bytes = CharsOf(arg)
    OBVIOUS
  <2>2. Len(bytes) \in Nat /\ \A j \in 1 .. Len(bytes) : IsByte(bytes[j], s2.usedSize)
    BY <1>2, <2>1
  <2>3. Typed(WriteBytes(s2, addr, bytes))
    BY <1>3, <1>11, <2>2, WriteTyped
  <2>4. WriteBytes(s2, addr, bytes).usedSize = s2.usedSize
    BY <1>3, <1>11, <2>2, WriteBytesIs
  <2> QED BY <1>10, <1>11, <2>1, <2>3, <2>4 DEF MemoryTyped
<1>13. Ordered(where2, addr + n)
  <2> HIDE DEF where, where2
  <2> QED BY <1>2, <1>3, <1>6, OrderedGrows
<1>14. InOrder'
  BY <1>0, <1>12, <1>13 DEF InOrder
<1>15. EnvKept /\ \A i : Filled(i)' => Filled(i)
  BY <1>0 DEF EnvKept, Filled, AllInitialised
<1>16. /\ NamesKnown'
       /\ \A i \in DOMAIN program.globals :
             Filled(i)' => Global(i) \in DOMAIN Held /\ Held'[Global(i)] = Held[Global(i)]
  BY <1>0, <1>15, HeldStays
<1>17. HeldSays /\ HeldSays'
  BY HeldKinds, PTL
<1> DEFINE held == [Held EXCEPT ![Argv] = PtrArray(addrs2)]
<1>18. /\ DOMAIN held = DOMAIN Held /\ Argv \in DOMAIN Held /\ held[Argv] = PtrArray(addrs2)
       /\ \A name \in DOMAIN Held : name # Argv => held[name] = Held[name]
       /\ Held[Argv] = PtrArray(addrs)
  <2>1. DOMAIN Held = HeldNames /\ Argv \in HeldNames /\ Held[Argv] = PtrArray(addrs)
    BY <1>4, <1>17 DEF HeldSays
  <2> QED BY <2>1
<1>19. Holdings(where2, Held, s1.mem)
  <2>1. \A name \in DOMAIN where : name \in DOMAIN where2 /\ where2[name] = where[name]
    BY <1>6 DEF Extends
  <2>2. SameOrEmpty(where2, Held, Held)
    BY DEF SameOrEmpty
  <2> HIDE DEF where, where2
  <2> QED BY <1>3, <1>7, <2>1, <2>2, HoldingsPlaced
<1>20. /\ Argv \in DOMAIN where2 /\ where2[Argv].at = array
       /\ where2[Argv].size = Len(program.args) * PtrSize
  <2>1. strings.array # 0
    BY <1>4
  <2>2. Argv \in DOMAIN where
    BY <2>1 DEF Layout, Names
  <2>3. where[Argv] = [at |-> strings.array, size |-> Len(program.args) * PtrSize]
    BY <1>3, <2>1, LayoutFacts
  <2>4. where[Argv].at = strings.array /\ where[Argv].size = Len(program.args) * PtrSize
    BY <2>3
  <2> HIDE DEF where, where2
  <2> QED BY <1>4, <1>6, <2>2, <2>4 DEF Extends
<1>21. /\ Arg(next) \in DOMAIN where2 /\ where2[Arg(next)].at = addr /\ where2[Arg(next)].size = n
  BY <1>6 DEF Extends
<1>22. array + Len(program.args) * PtrSize <= DEFAULT_SIZE
  <2>1. where2[Argv].at + where2[Argv].size <= addr + n
    BY <1>13, <1>20 DEF Ordered
  <2> HIDE DEF where, where2
  <2> QED BY <1>0, <1>3, <1>7, <1>20, <2>1
<1>23. Finds(s2.mem, array, PtrArray(addrs2)) /\ Len(PtrArray(addrs2)) \in Nat
       /\ Len(PtrArray(addrs2)) <= Len(program.args) * PtrSize
  <2>1. Finds(s1.mem, array, PtrArray(addrs))
    BY <1>18, <1>19, <1>20 DEF Holdings
  <2>2. array + Len(addrs2) * PtrSize <= DEFAULT_SIZE
    <3>1. PICK m \in Nat, l \in Nat : m = next * PtrSize /\ l = Len(program.args) * PtrSize
      BY <1>0, <1>8
    <3>2. array + m <= array + l /\ array + l <= DEFAULT_SIZE
      BY <1>8, <1>22, <3>1
    <3> QED BY <1>3, <1>5, <3>1, <3>2
  <2>3. next \in 1 .. Len(addrs2) /\ Len(addrs) <= Len(addrs2)
    BY <1>0, <1>4, <1>5
  <2>4. \A i \in 1 .. Len(addrs2) : i # next => i <= Len(addrs) /\ addrs2[i] = addrs[i]
    BY <1>5
  <2>5. Finds(WriteBytes(s1, array + (next - 1) * PtrSize, PtrBytes(addrs2[next])).mem, array, PtrArray(addrs2))
    BY <1>7, <2>1, <2>2, <2>3, <2>4, FindsElement
  <2>6. Len(PtrArray(addrs2)) = next * PtrSize
    BY <1>5, PtrArrayIs
  <2>7. next * PtrSize <= Len(program.args) * PtrSize
    <3>1. PICK m \in Nat, l \in Nat : m = next * PtrSize /\ l = Len(program.args) * PtrSize
      BY <1>0, <1>8
    <3>2. array + m <= array + l
      BY <1>8, <3>1
    <3> QED BY <3>1, <3>2
  <2> QED BY <1>5, <1>8, <1>10, <2>5, <2>6, <2>7
<1>24. Inside(where2, Argv, slot, PtrBytes(addr))
  <2>1. PICK m \in Nat, l \in Nat : m = next * PtrSize /\ l = Len(program.args) * PtrSize
    BY <1>0, <1>8
  <2>2. slot + PtrSize <= array + m /\ array + m <= array + l /\ array <= slot
    BY <1>8, <2>1
  <2>3. slot + PtrSize <= array + l
    BY <1>0, <2>2
  <2> HIDE DEF where2
  <2> QED BY <1>0, <1>9, <1>20, <2>1, <2>2, <2>3 DEF Inside
<1>25. Holdings(where2, held, s2.mem)
  <2>1. SameButFor(Argv, Held, held)
    BY <1>18 DEF SameButFor
  <2>2. Len(held[Argv]) \in Nat /\ Len(held[Argv]) <= where2[Argv].size
        /\ Finds(s2.mem, where2[Argv].at, held[Argv])
    BY <1>18, <1>20, <1>23
  <2>3. addr + n \in Nat /\ addr + n <= DEFAULT_SIZE
    BY <1>3, <1>7
  <2> HIDE DEF where, where2, held
  <2> QED BY <1>7, <1>10, <1>13, <1>19, <1>24, <2>1, <2>2, <2>3, HoldingsWritten
<1>26. SameButFor(Arg(next), held, Held')
  <2>1. SUFFICES ASSUME NEW h \in DOMAIN Held', h # Arg(next)
                 PROVE  h \in DOMAIN held /\ Held'[h] = held[h]
    BY DEF SameButFor
  <2>2. strings'.addrs = addrs2 /\ strings.addrs = addrs
    BY <1>4, <1>5
  <2>3. \/ \E i \in DOMAIN program.globals : h = Global(i) /\ Filled(i)'
        \/ h = Argv
        \/ \E i \in DOMAIN addrs2 : h = Arg(i)
    BY <1>0, <1>17, <2>1, <2>2 DEF HeldSays
  <2>4. CASE \E i \in DOMAIN program.globals : h = Global(i) /\ Filled(i)'
    <3>1. PICK i \in DOMAIN program.globals : h = Global(i) /\ Filled(i)'
      BY <2>4
    <3>2. h \in DOMAIN Held /\ Held'[h] = Held[h] /\ h # Argv
      BY <1>16, <3>1 DEF Global, Argv
    <3> HIDE DEF held
    <3> QED BY <1>18, <3>2
  <2>5. CASE h = Argv
    <3>1. Held'[Argv] = PtrArray(addrs2)
      BY <1>17, <2>1, <2>2, <2>5 DEF HeldSays
    <3> HIDE DEF held
    <3> QED BY <1>18, <2>5, <3>1
  <2>6. CASE \E i \in DOMAIN addrs2 : h = Arg(i)
    <3>1. PICK i \in 1 .. next : h = Arg(i)
      BY <1>5, <2>6
    <3>2. i \in DOMAIN addrs /\ i \in DOMAIN addrs2
      <4>1. i # next
        BY <2>1, <3>1
      <4> QED BY <1>0, <1>5, <3>1, <4>1
    <3>3. h \in DOMAIN Held /\ Held[h] = CharsOf(program.args[i])
      BY <1>17, <2>2, <3>1, <3>2 DEF HeldSays
    <3>4. Held'[h] = CharsOf(program.args[i])
      BY <1>0, <1>17, <2>2, <3>1, <3>2 DEF HeldSays
    <3>5. h # Argv
      BY <3>1 DEF Arg, Argv
    <3> HIDE DEF held
    <3> QED BY <1>18, <3>3, <3>4, <3>5
  <2> QED BY <2>3, <2>4, <2>5, <2>6
<1>27. Held'[Arg(next)] = CharsOf(arg)
  <2>1. strings'.addrs = addrs2
    BY <1>4, <1>5
  <2>2. next \in DOMAIN strings'.addrs
    BY <1>0, <1>5, <2>1
  <2> QED BY <1>0, <1>17, <2>2 DEF HeldSays
<1>28. Inside(where2, Arg(next), addr, CharsOf(arg))
  <2> HIDE DEF where2
  <2> QED BY <1>2, <1>3, <1>21 DEF Inside
<1>29. Finds(globalMem'.mem, addr, CharsOf(arg))
  <2>1. addr + Len(CharsOf(arg)) <= DEFAULT_SIZE
    BY <1>2, <1>3, <1>7
  <2> QED BY <1>2, <1>3, <1>10, <1>11, <2>1, FindsWritten
<1>30. Holdings(where2, Held', globalMem'.mem)
  <2>1. /\ Len(Held'[Arg(next)]) \in Nat /\ Len(Held'[Arg(next)]) <= where2[Arg(next)].size
        /\ Finds(globalMem'.mem, where2[Arg(next)].at, Held'[Arg(next)])
    <3> HIDE DEF where2
    <3> QED BY <1>2, <1>21, <1>27, <1>29
  <2>2. addr + n \in Nat /\ addr + n <= DEFAULT_SIZE
    BY <1>3, <1>7
  <2> HIDE DEF where, where2, held
  <2> QED BY <1>10, <1>11, <1>13, <1>25, <1>26, <1>28, <2>1, <2>2, HoldingsWritten
<1>31. Contents'
  BY <1>0, <1>30 DEF Contents
<1>32. MeantShape' /\ TablesInverse' /\ CallsReachNamed'
  BY <1>0 DEF IInv, MeantShape, TablesInverse, CallsReachNamed, Functions, Started, AllInitialised
<1>33. Progress'
  <2>1. next' \in Nat \ {0}
    BY <1>0
  <2>2. Globals' = Globals /\ Functions' = Functions
    BY <1>0 DEF Globals, Functions
  <2> QED BY <1>0, <2>1, <2>2 DEF IInv, Progress, Started, AllInitialised
<1>34. ArgsProgress'
  <2>1. strings'.array = array /\ strings'.addrs = addrs2
        /\ strings' = [array |-> strings'.array, addrs |-> strings'.addrs]
    BY <1>4, <1>5
  <2>2. Len(addrs2) = next' - 1 /\ Len(addrs2) <= Len(program.args) /\ program' = program
        /\ stage' = "strings"
    BY <1>0, <1>5
  <2> QED BY <1>4, <2>1, <2>2 DEF ArgsProgress, Started
<1> QED BY <1>12, <1>14, <1>16, <1>31, <1>32, <1>33, <1>34 DEF IInv

LEMMA CopyArgumentsStep ==
    ASSUME SizesFit, IInv, CopyArguments
    PROVE  IInv'
<1>1. stage = "strings" /\ UNCHANGED <<program, meant, used>>
  BY DEF CopyArguments, Loop
<1> DEFINE arg == program.args[next]
           addr == globalMem.usedSize
           s1 == NewGlobalMem(Len(arg) + 1)
           s2 == WriteBytes(s1, ArgvSlot(next), PtrBytes(addr))
<1>2. CASE ~(next <= Len(program.args))
  <2>1. Untouched /\ next' = 1 /\ stage' = "callMain"
    BY <1>1, <1>2 DEF CopyArguments, Loop, Untouched
  <2>2. LoopDone
    BY <1>1, <1>2, <2>1 DEF LoopDone
  <2> QED BY <1>1, <2>1, <2>2, LoopEnds
<1>3. CASE next <= Len(program.args)
  <2>1. CopyOne
    BY <1>1, <1>3 DEF CopyArguments, Loop
  <2>2. CASE Stop("sectionFull") \/ Stop("illegalWrite")
    <3>1. Untouched /\ next' = next /\ stage' \in Ends
      BY <1>1, <2>2 DEF Stop, Untouched, Ends, Stages, Started, AllInitialised
    <3> QED BY <1>1, <3>1, EndStep
  <2>3. CASE /\ Fits(Len(arg) + 1) /\ globalMem' = WriteBytes(s2, addr, CharsOf(arg))
             /\ strings' = [strings EXCEPT !.addrs = Append(@, addr)]
             /\ Advance /\ UNCHANGED <<globalEnv, funPtrMap>>
    <3>1. Copies(arg, addr, s1, s2)
      BY <1>1, <1>3, <2>3 DEF Copies, Advance
    <3> QED BY <3>1, CopyStep
  <2> QED BY <2>1, <2>2, <2>3 DEF CopyOne
<1> QED BY <1>2, <1>3

----------------------------------------------------------------------------------
(* What the program does with what was set up.                                          *)
LEMMA UsesStep ==
    ASSUME IInv, Untouched, next' = next, stage = "main", stage' \in {"main"} \cup Ends,
           CallsReachNamed'
    PROVE  IInv'
<1>1. CASE stage' = "main"
  <2>1. StageKept /\ \A i : Filled(i)' => Filled(i)
    BY <1>1 DEF StageKept, Filled, Untouched, AllInitialised
  <2>2. Progress' /\ ArgsProgress'
    BY <1>1 DEF IInv, Progress, ArgsProgress, Untouched, Globals, Functions
  <2> QED BY <2>1, <2>2, ControlStep DEF Untouched
<1>2. CASE stage' \in Ends
  <2>1. StageKept /\ \A i : ~Filled(i)'
    BY <1>2 DEF Ends, Filled, StageKept, AllInitialised, Started
  <2>2. Progress' /\ ArgsProgress'
    BY <1>2 DEF IInv, Progress, ArgsProgress, Untouched, Ends, Started, AllInitialised, Globals, Functions
  <2> QED BY <2>1, <2>2, ControlStep DEF Untouched
<1> QED BY <1>1, <1>2

(* A pointer in a global's initialiser, or stored there, is loaded as it was meant.      *)
LEMMA LoadedFromGlobal ==
    ASSUME IInv, stage = "main", NEW g \in DOMAIN program.globals, IsRefs(program.globals[g]),
           NEW at \in DOMAIN program.globals[g].names, NEW op,
           op = [via |-> "load", name |-> Global(g), at |-> at]
    PROVE  /\ Value(op) = PointsTo(meant[g].names[at]) /\ Meant(op) = meant[g].names[at]
           /\ IsName(Meant(op), program) /\ HasAddress(Meant(op))
<1>1. PICK init : init = meant[g]
  OBVIOUS
<1>2. /\ SameShape(init, program.globals[g], program) /\ program.globals[g].kind = "refs"
      /\ IsInit(program.globals[g], program)
  BY <1>1, Facts, ProgramFacts DEF IInv, MeantShape, IsRefs
<1>3. /\ IsRefs(init) /\ init.names \in Seq(ToSet(init.names))
      /\ Len(init.names) = Len(program.globals[g].names)
      /\ \A j \in DOMAIN init.names : IsName(init.names[j], program)
  BY <1>2 DEF SameShape, IsRefs
<1>4. PICK n \in Nat : /\ n = Len(init.names) /\ DOMAIN init.names = 1 .. n /\ at \in 1 .. n
  <2>1. IsSequence(program.globals[g].names)
    BY <1>2 DEF IsInit
  <2>2. PICK names : names = program.globals[g].names /\ names \in Seq(ToSet(names)) /\ at \in DOMAIN names
    BY <2>1 DEF IsSequence
  <2>3. at \in 1 .. Len(names) /\ Len(names) = Len(init.names)
    BY <1>3, <2>2
  <2>4. Len(init.names) \in Nat /\ DOMAIN init.names = 1 .. Len(init.names)
    BY <1>3
  <2> QED BY <2>3, <2>4
<1>5. Filled(g) /\ Known(init)
  <2>1. Filled(g)
    BY <1>2 DEF Filled, AllInitialised
  <2> QED BY <1>1, <2>1 DEF IInv, NamesKnown, Known
<1>6. \A j \in 1 .. n : HasAddress(init.names[j]) /\ IsName(init.names[j], program)
  BY <1>3, <1>4, <1>5 DEF Known
<1>7. PICK addrs \in Seq(Nat) : /\ addrs = PointsOf(init) /\ Len(addrs) = n
                                /\ Declared(init) = PtrArray(addrs) /\ addrs[at] = PointsTo(init.names[at])
  <2>1. PointsOf(init) \in Seq(Nat) /\ Len(PointsOf(init)) = n
    BY <1>3, <1>4, <1>6, PointsOfSeq
  <2>2. Declared(init) = PtrArray(PointsOf(init)) /\ PointsOf(init)[at] = PointsTo(init.names[at])
    BY <1>3, <1>4 DEF Declared, PointsOf
  <2> QED BY <2>1, <2>2
<1>8. Meant(op) = init.names[at]
  BY <1>1 DEF Meant, Global, Argv
<1>9. Global(g) \in DOMAIN globalEnv /\ Base(Global(g)) = globalEnv[Global(g)]
  BY DEF IInv, Progress, AllInitialised, Globals, Base, Global, Argv
<1>10. PICK a \in Nat : /\ a = globalEnv[Global(g)] /\ a >= 1
                        /\ Layout(program, globalEnv, strings)[Global(g)].at = a
                        /\ a + n * PtrSize <= globalMem.usedSize
  <2>1. SizeIn(program, Global(g)) = n * PtrSize
    BY <1>2, <1>3, <1>4 DEF SizeIn, Global, SizeOf
  <2>2. LayoutSays(program, globalEnv, strings, globalMem.usedSize)
    BY Facts
  <2>3. PICK a \in Nat, size \in Nat :
            /\ a = globalEnv[Global(g)] /\ size = SizeIn(program, Global(g)) /\ 1 <= a
            /\ Layout(program, globalEnv, strings)[Global(g)] = [at |-> a, size |-> size]
            /\ a + size <= globalMem.usedSize
    BY <1>9, <2>2 DEF LayoutSays
  <2>4. Layout(program, globalEnv, strings)[Global(g)].at = a
    BY <2>3
  <2> QED BY <2>1, <2>3, <2>4
<1>11. Finds(globalMem.mem, a, PtrArray(addrs))
  <2>1. Global(g) \in DOMAIN Held /\ Held[Global(g)] = Declared(init)
    BY <1>1, <1>5, HeldKinds DEF HeldSays
  <2> QED BY <1>7, <1>10, <2>1 DEF IInv, Contents, Holdings
<1>12. ReadAsPointer(a + (at - 1) * PtrSize) = addrs[at]
  BY <1>4, <1>7, <1>11, FindsPointer
<1>13. IsAddressLegal(globalMem, a + (at - 1) * PtrSize)
  <2>1. PtrSize \in Nat \ {0} /\ globalMem.usedSize \in Nat
    BY SetupAssumption, Facts DEF SetupAssumption
  <2>2. (at - 1) * PtrSize \in Nat /\ (at - 1) * PtrSize + PtrSize <= n * PtrSize /\ n * PtrSize \in Nat
    BY <1>4, <2>1, PlaceOfElement
  <2>3. PICK q \in Nat, m \in Nat : q = (at - 1) * PtrSize /\ m = n * PtrSize
    BY <2>2
  <2>4. a + q < globalMem.usedSize /\ a + q # 0
    BY <1>10, <2>1, <2>2, <2>3
  <2> QED BY <2>3, <2>4 DEF IsAddressLegal
<1>14. Value(op) = addrs[at]
  BY <1>9, <1>10, <1>12, <1>13 DEF Value, Slot
<1> QED BY <1>1, <1>4, <1>6, <1>7, <1>8, <1>14

(* A pointer to a function, or null, has the address of what it was made from.          *)
LEMMA ValueAsMeant ==
    ASSUME IInv, stage = "main", NEW op \in Operands, Meant(op).kind \in {"function", "null"}
    PROVE  Value(op) = PointsTo(Meant(op)) /\ IsName(Meant(op), program) /\ HasAddress(Meant(op))
<1>1. CASE op \in AddressOperands
  <2>1. op.via = "address" /\ op.name \in DOMAIN globalEnv \cup {Null}
    BY <1>1 DEF AddressOperands
  <2>2. Meant(op) = op.name /\ Value(op) = AddressOf(op.name)
    <3>1. Meant(op) = op.name
      <4>1. op.name # Argv
        BY <2>1, Facts DEF Argv, Null
      <4> QED BY <2>1, <4>1 DEF Meant
    <3>2. Value(op) = AddressOf(op.name)
      BY <2>1 DEF Value
    <3> QED BY <3>1, <3>2
  <2>3. IsName(op.name, program) /\ HasAddress(op.name)
    BY <2>1, PlacedNames DEF IsName, HasAddress
  <2> QED BY <2>2, <2>3, PointsInside
<1>2. CASE \E slot \in Slots : op = [via |-> "load", name |-> slot.name, at |-> slot.at]
  <2>1. PICK slot \in Slots : op = [via |-> "load", name |-> slot.name, at |-> slot.at]
    BY <1>2
  <2>2. PICK g \in DOMAIN program.globals :
            /\ IsRefs(program.globals[g]) /\ slot.name = Global(g)
            /\ slot.at \in DOMAIN program.globals[g].names
    BY DEF Slots
  <2> QED BY <2>1, <2>2, LoadedFromGlobal
<1>3. CASE op \in [via : {"load"}, name : {Argv}, at : DOMAIN program.args]
  <2>1. Meant(op) = Arg(op.at)
    BY <1>3 DEF Meant
  <2> QED BY <2>1 DEF Arg
<1> QED BY <1>1, <1>2, <1>3 DEF Operands, LoadOperands

LEMMA CallThroughStep ==
    ASSUME IInv, NEW op \in Operands, CallThrough(op)
    PROVE  IInv'
<1>1. PICK addr, callee :
          /\ addr = Value(op) /\ callee = IF addr \in DOMAIN funPtrMap THEN funPtrMap[addr] ELSE Null
          /\ stage' = CASE callee = Null -> "noSuchFunction"
                        [] program.functions[callee.i] = "unknown" -> "unknownExternal"
                        [] OTHER -> "main"
          /\ used' = [kind |-> "call", meant |-> Meant(op), got |-> callee]
  BY DEF CallThrough
<1>2. stage = "main" /\ Untouched /\ next' = next /\ Meant(op).kind \in {"function", "null"}
  BY DEF CallThrough, Uses, Untouched
<1>3. PICK name : /\ name = Meant(op) /\ IsName(name, program) /\ HasAddress(name)
                  /\ addr = PointsTo(name)
  BY <1>1, <1>2, ValueAsMeant
<1>4. callee = name
  <2>1. CASE name.kind = "function"
    <3>1. name \in Functions /\ name # Null /\ Object(name) = name
      BY <1>3, <2>1 DEF IsName, Functions, Function, Global, Element, Null, Object
    <3>2. name \in DOMAIN globalEnv /\ addr = globalEnv[name]
      <4>1. name \in DOMAIN globalEnv
        BY <1>3, <3>1 DEF HasAddress
      <4>2. addr = globalEnv[name] + 0
        BY <1>3, <2>1, <3>1 DEF PointsTo
      <4>3. globalEnv[name] \in Nat
        BY <4>1, Facts DEF LayoutSays
      <4> QED BY <4>1, <4>2, <4>3
    <3>3. globalEnv[name] \in DOMAIN funPtrMap /\ funPtrMap[globalEnv[name]] = name
      BY <3>1, <3>2 DEF IInv, TablesInverse
    <3> QED BY <1>1, <3>2, <3>3
  <2>2. CASE name.kind = "null"
    <3>1. name = Null
      BY <1>3, <2>2 DEF IsName, Function, Global, Element, Null
    <3>2. addr = 0
      BY <1>3, <3>1 DEF PointsTo
    <3>3. 0 \notin DOMAIN funPtrMap
      <4>1. SUFFICES ASSUME 0 \in DOMAIN funPtrMap PROVE FALSE
        OBVIOUS
      <4>2. PICK f \in DOMAIN globalEnv : globalEnv[f] = 0
        BY <4>1 DEF IInv, TablesInverse
      <4>3. 1 <= globalEnv[f]
        BY Facts DEF LayoutSays
      <4> QED BY <4>2, <4>3
    <3> QED BY <1>1, <3>1, <3>2, <3>3
  <2> QED BY <1>2, <1>3, <2>1, <2>2
<1>5. CallsReachNamed'
  BY <1>1, <1>3, <1>4 DEF CallsReachNamed
<1>6. stage' \in {"main"} \cup Ends
  <2>1. stage' \in {"main", "noSuchFunction", "unknownExternal"}
    BY <1>1
  <2> QED BY <2>1 DEF Ends, Stages, Started, AllInitialised
<1> QED BY <1>2, <1>5, <1>6, UsesStep

LEMMA PrintfStep ==
    ASSUME IInv, NEW fmt, NEW args, Printf(fmt, args)
    PROVE  IInv'
<1>1. stage = "main" /\ Untouched /\ next' = next
  BY DEF Printf, Uses, Untouched
<1>2. stage' \in {"main"} \cup Ends
  BY DEF Printf, Ends, Stages, Started, AllInitialised
<1>3. used'.kind = "printf"
  BY DEF Printf
<1>4. CallsReachNamed'
  BY <1>3 DEF CallsReachNamed
<1> QED BY <1>1, <1>2, <1>4, UsesStep

LEMMA StutterStep ==
    ASSUME IInv, UNCHANGED vars
    PROVE  IInv'
<1>1. Untouched /\ next' = next /\ stage' = stage /\ used' = used
  BY DEF vars, setupVars, Untouched
<1>2. StageKept /\ (\A i : Filled(i)' => Filled(i)) /\ CallsReachNamed'
  BY <1>1 DEF StageKept, IInv, MeantShape, Filled, Untouched, CallsReachNamed
<1>3. Progress' /\ ArgsProgress'
  BY <1>1 DEF IInv, Progress, ArgsProgress, Untouched, Globals, Functions
<1> QED BY <1>1, <1>2, <1>3, ControlStep DEF Untouched

----------------------------------------------------------------------------------
LEMMA InitIInv ==
    ASSUME Init
    PROVE  IInv
<1>1. /\ program \in Programs /\ globalEnv = <<>> /\ funPtrMap = <<>> /\ stage = "start" /\ next = 1
      /\ strings = [array |-> 0, addrs |-> <<>>] /\ meant = program.globals
      /\ used = [kind |-> "none"] /\ globalMem = NewSection
  BY DEF Init
<1>2. DOMAIN globalEnv = {} /\ DOMAIN funPtrMap = {} /\ DOMAIN strings.addrs = {}
  BY <1>1
<1>3. MemoryTyped
  <2>1. IsSection(NewSection)
    BY SectionAssumption DEF NewSection, IsSection, SectionAssumption
  <2>2. \A a \in Address : IsByte(NewSection.mem[a], NewSection.usedSize)
    BY DEF NewSection, IsByte
  <2> QED BY <1>1, <2>1, <2>2 DEF MemoryTyped, Typed
<1>4. Names(globalEnv, strings) = {}
  BY <1>1, <1>2 DEF Names
<1>5. DOMAIN Layout(program, globalEnv, strings) = {}
  BY <1>4 DEF Layout
<1>6. InOrder
  BY <1>5 DEF InOrder, Ordered
<1>7. Progress
  <2>1. DOMAIN program.globals = 1 .. Len(program.globals)
    BY <1>1, ProgramFacts
  <2> QED BY <1>1, <1>2, <2>1 DEF Progress, Stages, Started, AllInitialised
<1>8. ArgsProgress
  <2>1. Len(program.args) \in Nat
    BY <1>1, ProgramFacts
  <2>2. <<>> \in Seq(Nat) /\ Len(<<>>) = 0
    OBVIOUS
  <2>3. strings.array = 0 /\ strings.addrs = <<>>
    BY <1>1
  <2>4. strings = [array |-> strings.array, addrs |-> strings.addrs]
    BY <1>1
  <2> QED BY <1>1, <2>1, <2>2, <2>3, <2>4 DEF ArgsProgress, Started
<1>9. TablesInverse
  BY <1>2 DEF TablesInverse
<1>10. MeantShape
  <2>1. ASSUME NEW i \in DOMAIN program.globals
        PROVE  SameShape(program.globals[i], program.globals[i], program)
    <3>1. PICK init : init = program.globals[i] /\ IsInit(init, program)
      BY <1>1, ProgramFacts
    <3>2. CASE init.kind = "refs"
      <4>1. /\ init = [kind |-> "refs", names |-> init.names] /\ IsSequence(init.names)
            /\ \A j \in DOMAIN init.names : IsName(init.names[j], program)
        BY <3>1, <3>2 DEF IsInit
      <4> QED BY <3>1, <3>2, <4>1 DEF SameShape, IsSequence
    <3> QED BY <3>1, <3>2 DEF SameShape
  <2> QED BY <1>1, <2>1 DEF MeantShape
<1>11. \A i : ~Filled(i)
  BY <1>1 DEF Filled, AllInitialised
<1>12. NamesKnown
  BY <1>11 DEF NamesKnown
<1>13. Contents
  <2>1. HeldNames = {}
    BY <1>1, <1>2, <1>11 DEF HeldNames
  <2>2. DOMAIN Held = {}
    BY <2>1 DEF Held
  <2> QED BY <2>2 DEF Contents, Holdings
<1>14. CallsReachNamed
  BY <1>1 DEF CallsReachNamed
<1> QED BY <1>3, <1>6, <1>7, <1>8, <1>9, <1>10, <1>12, <1>13, <1>14 DEF IInv

LEMMA NextIInv ==
    ASSUME SizesFit, IInv, [Next]_vars
    PROVE  IInv'
<1>1. CASE FindMain
  BY <1>1, FindMainStep
<1>2. CASE AllocateGlobals
  BY <1>2, AllocateGlobalsStep
<1>3. CASE InitialiseGlobals
  BY <1>3, InitialiseGlobalsStep
<1>4. CASE PlaceFunctions
  BY <1>4, PlaceFunctionsStep
<1>5. CASE AllocateArgv
  BY <1>5, AllocateArgvStep
<1>6. CASE CopyArguments
  BY <1>6, CopyArgumentsStep
<1>7. CASE CallMain
  BY <1>7, CallMainStep
<1>8. ASSUME NEW slot \in Slots, NEW name \in DOMAIN globalEnv, StorePointer(slot, name)
      PROVE  IInv'
  BY <1>8, StorePointerStep
<1>9. ASSUME NEW op \in Operands, CallThrough(op)
      PROVE  IInv'
  BY <1>9, CallThroughStep
<1>10. ASSUME NEW fmt \in StringOperands, NEW args, Printf(fmt, args)
       PROVE  IInv'
  BY <1>10, PrintfStep
<1>11. CASE UNCHANGED vars
  BY <1>11, StutterStep
<1> QED BY <1>1, <1>2, <1>3, <1>4, <1>5, <1>6, <1>7, <1>8, <1>9, <1>10, <1>11 DEF Next, Setup

LEMMA Invariance == ASSUME SizesFit PROVE Spec => []IInv
BY InitIInv, NextIInv, PTL DEF Spec

(* Global memory, the tables and the stages are what their types say, and the two tables *)
(* of functions (globalEnv and funPtrMap, Interpreter.h) are inverse to each other.      *)
THEOREM TypeCorrect == ASSUME SizesFit PROVE Spec => []TypeOK
<1>1. ASSUME IInv PROVE TypeOK
  <2>1. /\ program \in Programs /\ globalMem.usedSize \in 1 .. DEFAULT_SIZE
        /\ globalMem.totalSize = DEFAULT_SIZE /\ DOMAIN globalMem.mem = Address
        /\ \A a \in Address : IsByte(globalMem.mem[a], globalMem.usedSize)
    BY <1>1 DEF IInv, MeantShape, MemoryTyped, Typed, IsSection
  <2>2. DOMAIN globalEnv \subseteq
           {Global(i) : i \in DOMAIN program.globals} \cup {Function(i) : i \in DOMAIN program.functions}
    BY <1>1 DEF IInv, Progress, Globals, Functions
  <2>3. \A a \in DOMAIN funPtrMap : globalEnv[funPtrMap[a]] = a
    BY <1>1 DEF IInv, TablesInverse
  <2>4. stage \in Stages
    BY <1>1 DEF IInv, Progress
  <2> QED BY <2>1, <2>2, <2>3, <2>4 DEF TypeOK, IsByte
<1> QED BY <1>1, Invariance, PTL

(* What TLC's Placed lists are the objects by name.                                      *)
LEMMA PlacedHasName ==
    ASSUME IInv, NEW x \in Placed
    PROVE  \E name \in DOMAIN Layout(program, globalEnv, strings) :
               x = Layout(program, globalEnv, strings)[name]
<1> DEFINE where == Layout(program, globalEnv, strings)
<1>0. /\ DOMAIN where = Names(globalEnv, strings)
      /\ \A name \in DOMAIN globalEnv :
            /\ name.kind \in {"global", "function"}
            /\ where[name] = [at |-> globalEnv[name], size |-> SizeIn(program, name)]
      /\ strings.array # 0 => where[Argv] = [at |-> strings.array, size |-> Len(program.args) * PtrSize]
      /\ \A i \in DOMAIN strings.addrs :
            where[Arg(i)] = [at |-> strings.addrs[i], size |-> Len(program.args[i]) + 1]
  BY Facts, LayoutFacts DEF LayoutSays, IInv, InOrder
<1> HIDE DEF where
<1>1. CASE \E name \in DOMAIN globalEnv :
              x = [at |-> globalEnv[name], size |-> IF name.kind = "function" THEN PtrSize
                                                    ELSE SizeOf(program.globals[name.i])]
  <2>1. PICK name \in DOMAIN globalEnv :
              x = [at |-> globalEnv[name], size |-> IF name.kind = "function" THEN PtrSize
                                                    ELSE SizeOf(program.globals[name.i])]
    BY <1>1
  <2>2. x = [at |-> globalEnv[name], size |-> SizeIn(program, name)]
    BY <1>0, <2>1 DEF SizeIn
  <2>3. name \in DOMAIN where
    BY <1>0 DEF Names
  <2> QED BY <1>0, <2>2, <2>3 DEF where
<1>2. CASE strings.array # 0 /\ x = [at |-> strings.array, size |-> Len(program.args) * PtrSize]
  <2>1. Argv \in DOMAIN where
    BY <1>0, <1>2 DEF Names
  <2> QED BY <1>0, <1>2, <2>1 DEF where
<1>3. CASE \E i \in DOMAIN strings.addrs : x = [at |-> strings.addrs[i], size |-> Len(program.args[i]) + 1]
  <2>1. PICK i \in DOMAIN strings.addrs : x = [at |-> strings.addrs[i], size |-> Len(program.args[i]) + 1]
    BY <1>3
  <2>2. Arg(i) \in DOMAIN where
    BY <1>0 DEF Names
  <2> QED BY <1>0, <2>1, <2>2 DEF where
<1> QED BY <1>1, <1>2, <1>3 DEF Placed

(* evaluateGlobals and createArgvArray (Interpreter.cpp) give every global, function and *)
(* argument bytes of its own in allocated memory, and every function a key of its own in *)
(* funPtrMap, whatever the program and however far the setup has come.                   *)
THEOREM ObjectsAreApart == ASSUME SizesFit PROVE Spec => []ObjectsApart
<1>1. ASSUME IInv PROVE ObjectsApart
  <2>0. PICK limit \in Nat : limit = globalMem.usedSize
    BY <1>1, Facts
  <2>1. PICK where : where = Layout(program, globalEnv, strings) /\ Ordered(where, limit)
    BY <1>1, <2>0 DEF IInv, InOrder
  <2>2. \A x \in Placed : \E name \in DOMAIN where : x = where[name]
    BY <1>1, <2>1, PlacedHasName
  <2>3. ASSUME NEW x \in Placed PROVE Extent(x) \subseteq 1 .. limit - 1
    <3>1. PICK name \in DOMAIN where : x = where[name]
      BY <2>2
    <3>2. x.at \in Nat /\ x.size \in Nat /\ 1 <= x.at /\ x.at + x.size <= limit
      BY <2>1, <3>1 DEF Ordered
    <3> QED BY <3>2 DEF Extent
  <2>4. ASSUME NEW x \in Placed, NEW y \in Placed, x # y PROVE Extent(x) \cap Extent(y) = {}
    <3>1. PICK m \in DOMAIN where, n \in DOMAIN where : x = where[m] /\ y = where[n]
      BY <2>2
    <3>2. /\ x.at \in Nat /\ x.size \in Nat /\ y.at \in Nat /\ y.size \in Nat
          /\ x.at + x.size <= y.at \/ y.at + y.size <= x.at
      BY <2>1, <2>4, <3>1 DEF Ordered
    <3> QED BY <3>2 DEF Extent
  <2>5. ASSUME NEW f \in DOMAIN globalEnv, NEW g \in DOMAIN globalEnv, f # g,
               f.kind = "function", g.kind = "function"
        PROVE  globalEnv[f] # globalEnv[g]
    <3>1. f \in Functions /\ g \in Functions
      BY <1>1, <2>5 DEF IInv, Progress, Globals, Global
    <3>2. funPtrMap[globalEnv[f]] = f /\ funPtrMap[globalEnv[g]] = g
      BY <1>1, <3>1 DEF IInv, TablesInverse
    <3> QED BY <2>5, <3>2
  <2> QED BY <2>0, <2>3, <2>4, <2>5 DEF ObjectsApart
<1> QED BY <1>1, Invariance, PTL

LEMMA HoldsIfFinds ==
    ASSUME NEW a \in Nat, NEW n \in Nat, NEW bytes, DOMAIN bytes = 1 .. n, Len(bytes) = n,
           bytes = [i \in 1 .. n |-> bytes[i]], Finds(globalMem.mem, a, bytes)
    PROVE  Holds(a, bytes)
BY DEF Holds, ReadBytes, Finds

(* While main runs, memory holds every initialiser, the array argv and its strings, as   *)
(* initializeGlobal and createArgvArray (Interpreter.cpp) wrote them and the program's   *)
(* own stores changed them: no later step of the setup touches what an earlier one wrote. *)
THEOREM ContentsHeld == ASSUME SizesFit PROVE Spec => []ContentsAsDeclared
<1>1. ASSUME IInv PROVE ContentsAsDeclared
  <2>1. SUFFICES ASSUME stage = "main" PROVE ContentsAsDeclared
    BY DEF ContentsAsDeclared
  <2>0. /\ program \in Programs /\ strings.array \in Nat /\ strings.addrs \in Seq(Nat)
        /\ strings.array # 0 /\ Len(strings.addrs) = Len(program.args)
        /\ DOMAIN program.args = 1 .. Len(program.args)
        /\ \A i \in DOMAIN program.args : program.args[i] \in Seq(ToSet(program.args[i]))
        /\ LayoutSays(program, globalEnv, strings, globalMem.usedSize)
        /\ PtrSize \in Nat \ {0}
    BY <1>1, <2>1, Facts, ProgramFacts DEF IInv, ArgsProgress
  <2>2. HeldSays
    BY HeldKinds
  <2>3. ASSUME NEW i \in DOMAIN program.globals, meant[i].kind # "none"
        PROVE  Holds(globalEnv[Global(i)], Declared(meant[i]))
    <3>1. program.globals[i].kind # "none"
      BY <1>1, <2>3 DEF IInv, MeantShape, SameShape
    <3>2. Filled(i)
      BY <2>1, <3>1 DEF Filled, AllInitialised
    <3>3. Known(meant[i])
      BY <1>1, <3>2 DEF IInv, NamesKnown, Known
    <3>4. Global(i) \in DOMAIN Held /\ Held[Global(i)] = Declared(meant[i])
      BY <2>2, <3>2 DEF HeldSays
    <3>5. Global(i) \in DOMAIN globalEnv
      BY <1>1, <2>1 DEF IInv, Progress, AllInitialised, Globals
    <3>6. /\ globalEnv[Global(i)] \in Nat
          /\ Layout(program, globalEnv, strings)[Global(i)].at = globalEnv[Global(i)]
      <4>1. /\ globalEnv[Global(i)] \in Nat
            /\ Layout(program, globalEnv, strings)[Global(i)]
                  = [at |-> globalEnv[Global(i)], size |-> SizeIn(program, Global(i))]
        BY <2>0, <3>5 DEF LayoutSays
      <4> QED BY <4>1
    <3>7. Finds(globalMem.mem, globalEnv[Global(i)], Declared(meant[i]))
      BY <1>1, <3>4, <3>6 DEF IInv, Contents, Holdings
    <3>b. PICK bytes : bytes = Declared(meant[i])
      OBVIOUS
    <3>8. PICK n \in Nat : bytes = Declared(meant[i]) /\ n = Len(bytes)
      BY <1>1, <3>1, <3>3, <3>b, DeclaredIs
    <3>9. DOMAIN bytes = 1 .. n /\ bytes = [k \in 1 .. n |-> bytes[k]]
      <4>1. CASE IsRefs(meant[i])
        <5>1. PICK addrs \in Seq(Nat) : bytes = PtrArray(addrs)
          BY <1>1, <3>1, <3>3, <3>8, <4>1, DeclaredIs
        <5>2. DOMAIN bytes = 1 .. Len(addrs) * PtrSize /\ n = Len(addrs) * PtrSize
          BY <3>8, <5>1, PtrArrayIs
        <5>3. bytes = [k \in DOMAIN bytes |-> bytes[k]]
          BY <5>1 DEF PtrArray
        <5> QED BY <5>2, <5>3
      <4>2. CASE ~IsRefs(meant[i])
        <5>1. bytes = Text(meant[i].chars) /\ meant[i].kind = "chars"
          BY <1>1, <3>1, <3>3, <3>8, <4>2, DeclaredIs
        <5>2. meant[i] = program.globals[i] /\ IsInit(program.globals[i], program)
          <6>1. SameShape(meant[i], program.globals[i], program)
            BY <1>1 DEF IInv, MeantShape
          <6>2. meant[i] = program.globals[i]
            <7>1. PICK init : init = meant[i] /\ init.kind = "chars"
              BY <5>1
            <7>2. CASE program.globals[i].kind = "refs"
              <8>1. init = [kind |-> "refs", names |-> init.names]
                BY <6>1, <7>1, <7>2 DEF SameShape
              <8>2. init.kind = "refs"
                BY <8>1
              <8> QED BY <7>1, <8>2
            <7> QED BY <6>1, <7>2 DEF SameShape
          <6> QED BY <2>0, <6>2, ProgramFacts
        <5>3. PICK chars : chars = meant[i].chars /\ chars \in Seq(ToSet(chars))
          BY <5>1, <5>2 DEF IsInit, IsSequence
        <5> QED BY <3>8, <5>1, <5>3 DEF Text
      <4> QED BY <4>1, <4>2
    <3> QED BY <3>6, <3>7, <3>8, <3>9, HoldsIfFinds
  <2>4. ASSUME NEW i \in DOMAIN program.args
        PROVE  /\ Holds(strings.array + (i - 1) * PtrSize, PtrBytes(strings.addrs[i]))
               /\ Holds(strings.addrs[i], Text(program.args[i]) \o <<NUL>>)
    <3>1. PICK array \in Nat, addrs \in Seq(Nat) :
              /\ array = strings.array /\ addrs = strings.addrs /\ i \in 1 .. Len(addrs)
              /\ i \in DOMAIN addrs
      BY <2>0
    <3>2. /\ Layout(program, globalEnv, strings)[Argv].at = array
          /\ Layout(program, globalEnv, strings)[Arg(i)].at = addrs[i]
      <4>1. \A name \in DOMAIN globalEnv : name.kind \in {"global", "function"}
        BY <1>1, Facts
      <4>2. Ordered(Layout(program, globalEnv, strings), globalMem.usedSize)
        BY <1>1 DEF IInv, InOrder
      <4>3. /\ Layout(program, globalEnv, strings)[Argv]
                  = [at |-> strings.array, size |-> Len(program.args) * PtrSize]
            /\ Layout(program, globalEnv, strings)[Arg(i)]
                  = [at |-> strings.addrs[i], size |-> Len(program.args[i]) + 1]
        <5>1. strings.array # 0
          BY <2>0
        <5>2. i \in DOMAIN strings.addrs
          BY <3>1
        <5>3. /\ strings.array # 0 => Layout(program, globalEnv, strings)[Argv]
                                        = [at |-> strings.array, size |-> Len(program.args) * PtrSize]
              /\ \A k \in DOMAIN strings.addrs :
                    Layout(program, globalEnv, strings)[Arg(k)]
                      = [at |-> strings.addrs[k], size |-> Len(program.args[k]) + 1]
          BY <4>1, <4>2, LayoutFacts
        <5> QED BY <5>1, <5>2, <5>3
      <4> QED BY <3>1, <4>3
    <3>3. Finds(globalMem.mem, array, PtrArray(addrs))
      <4>1. Argv \in DOMAIN Held /\ Held[Argv] = PtrArray(addrs)
        BY <2>0, <2>2, <3>1 DEF HeldSays
      <4> QED BY <1>1, <3>2, <4>1 DEF IInv, Contents, Holdings
    <3>4. ReadBytes(globalMem, array + (i - 1) * PtrSize, PtrSize) = PtrBytes(addrs[i])
      BY <3>1, <3>3, FindsPointer
    <3>5. Len(PtrBytes(addrs[i])) = PtrSize
      BY <2>0 DEF PtrBytes
    <3>6. Finds(globalMem.mem, addrs[i], CharsOf(program.args[i]))
      <4>1. Arg(i) \in DOMAIN Held /\ Held[Arg(i)] = CharsOf(program.args[i])
        BY <2>2, <3>1 DEF HeldSays
      <4> QED BY <1>1, <3>2, <4>1 DEF IInv, Contents, Holdings
    <3>7. PICK S : CharsOf(program.args[i]) \in Seq(S)
      <4>1. PICK chars : chars = program.args[i] /\ chars \in Seq(ToSet(chars))
        BY <2>0
      <4>2. PICK T : T = {Char(c) : c \in ToSet(chars)} \cup {NUL}
        OBVIOUS
      <4>3. Text(chars) \in Seq(T) /\ <<NUL>> \in Seq(T)
        <5>1. PICK n \in Nat : DOMAIN chars = 1 .. n
          BY <4>1
        <5>2. \A k \in 1 .. n : Char(chars[k]) \in T
          BY <4>1, <4>2, <5>1
        <5>3. Text(chars) = [k \in 1 .. n |-> Char(chars[k])]
          BY <5>1 DEF Text
        <5>4. NUL \in T
          BY <4>2
        <5> QED BY <5>2, <5>3, <5>4
      <4> QED BY <4>1, <4>3 DEF CharsOf
    <3>8. PICK bytes \in Seq(S) : bytes = CharsOf(program.args[i])
      BY <3>7
    <3>9. Holds(addrs[i], bytes)
      <4>1. /\ DOMAIN bytes = 1 .. Len(bytes) /\ Len(bytes) \in Nat
            /\ bytes = [k \in 1 .. Len(bytes) |-> bytes[k]]
        BY <3>8
      <4>2. addrs[i] \in Nat
        BY <3>1
      <4> QED BY <3>6, <3>8, <4>1, <4>2, HoldsIfFinds
    <3> QED BY <3>1, <3>4, <3>5, <3>8, <3>9 DEF Holds, CharsOf
  <2> QED BY <2>3, <2>4 DEF ContentsAsDeclared
<1> QED BY <1>1, Invariance, PTL

(* A call through a pointer (callFunction's funPtrMap.at(), Evaluation.cpp) reaches the   *)
(* function that the pointer was made from, through any chain of initialisers and stores, *)
(* and a null pointer reaches none.                                                      *)
THEOREM CallsReachTheNamed == ASSUME SizesFit PROVE Spec => []CallsReachNamed
<1>1. IInv => CallsReachNamed
  BY DEF IInv
<1> QED BY <1>1, Invariance, PTL

----------------------------------------------------------------------------------
(* Strings: what C code reads from an address up to the terminator.                     *)
LEMMA LeastNatural ==
    ASSUME NEW S, S \subseteq Nat, S # {}
    PROVE  \E least \in S : \A n \in S : ~(n < least)
<1>1. \E least \in S : \A n \in S : ~(<<n, least>> \in OpToRel(<, Nat))
  BY WFMin, NatLessThanWellFounded, Zenon
<1> QED BY <1>1 DEF OpToRel

LEMMA MinIs ==
    ASSUME NEW S, S \subseteq Nat, S # {}
    PROVE  Min(S) \in S /\ \A n \in S : Min(S) <= n
<1>1. PICK least \in S : \A n \in S : ~(n < least)
  BY LeastNatural
<1>2. \A n \in S : least <= n
  BY <1>1
<1> QED BY <1>2 DEF Min

LEMMA MinUnique ==
    ASSUME NEW S, S \subseteq Nat, NEW least \in S, \A n \in S : least <= n
    PROVE  Min(S) = least
<1>1. Min(S) \in S /\ \A n \in S : Min(S) <= n
  BY MinIs
<1>2. Min(S) <= least /\ least <= Min(S)
  BY <1>1
<1>3. Min(S) \in Nat /\ least \in Nat
  BY <1>1
<1> QED BY <1>2, <1>3

LEMMA CharIsNul == \A c : Char(c) = NUL <=> c = "NUL"
<1> SUFFICES ASSUME NEW c PROVE Char(c) = NUL <=> c = "NUL"
  OBVIOUS
<1>1. Char(c).char = c /\ NUL.char = "NUL"
  BY DEF Char, NUL
<1> QED BY <1>1 DEF NUL

(* Characters in memory, the first terminator among them at place m.                     *)
StringAt(a, n, chars, m) ==
    /\ a + n <= DEFAULT_SIZE /\ \A j \in 1 .. n : globalMem.mem[a + j - 1] = Char(chars[j])
    /\ m \in 1 .. n /\ chars[m] = "NUL" /\ \A j \in 1 .. m - 1 : chars[j] # "NUL"

LEMMA CStringIs ==
    ASSUME IsSection(globalMem), NEW a \in Nat, NEW n \in Nat, NEW chars, NEW m,
           StringAt(a, n, chars, m)
    PROVE  CString(a) = [j \in 1 .. m - 1 |-> Char(chars[j])]
<1> USE DEF StringAt
<1>0. DEFAULT_SIZE \in Nat /\ globalMem.totalSize = DEFAULT_SIZE
  BY SectionAssumption DEF SectionAssumption, IsSection
<1>1. PICK end \in Nat : end = a + m - 1 /\ end \in a .. DEFAULT_SIZE - 1
  BY <1>0
<1>2. PICK ends : ends = {e \in a .. globalMem.totalSize - 1 : globalMem.mem[e] = NUL}
  OBVIOUS
<1>3. end \in ends
  BY <1>0, <1>1, <1>2, CharIsNul
<1>4. ASSUME NEW e \in ends PROVE end <= e
  <2>1. e \in Nat /\ a <= e /\ globalMem.mem[e] = NUL
    BY <1>0, <1>2
  <2>2. SUFFICES ASSUME e < end PROVE FALSE
    BY <1>1, <2>1
  <2>3. PICK j \in 1 .. m - 1 : e = a + j - 1
    <3>1. e - a + 1 \in 1 .. m - 1 /\ e = a + (e - a + 1) - 1
      BY <1>1, <2>1, <2>2
    <3> QED BY <3>1
  <2>4. globalMem.mem[a + j - 1] = Char(chars[j])
    OBVIOUS
  <2> QED BY <2>1, <2>3, <2>4, CharIsNul
<1>5. Min(ends) = end
  <2>1. ends \subseteq Nat
    BY <1>0, <1>2
  <2> QED BY <1>3, <1>4, <2>1, MinUnique
<1>6. CString(a) = ReadBytes(globalMem, a, end - a)
  BY <1>2, <1>3, <1>5 DEF CString
<1>7. end - a = m - 1
  BY <1>1
<1> QED BY <1>6, <1>7 DEF ReadBytes

(* An argument is read up to the terminator that createArgvArray put after it.           *)
LEMMA ReadsArgument ==
    ASSUME IInv, stage = "main", NEW i \in DOMAIN program.args
    PROVE  CString(strings.addrs[i]) = Text(program.args[i]) /\ Len(Text(program.args[i])) \in Nat
<1>1. PICK chars : chars = program.args[i] /\ chars \in Seq(ToSet(chars)) /\ "NUL" \notin ToSet(chars)
  <2>1. program \in Programs
    BY Facts
  <2> QED BY <2>1, ProgramAssumption DEF ProgramAssumption, IsProgram, IsSequence
<1>2. PICK n \in Nat : n = Len(chars) /\ DOMAIN chars = 1 .. n
  BY <1>1
<1>3. \A j \in 1 .. n : chars[j] # "NUL"
  BY <1>1, <1>2 DEF ToSet
<1>4. i \in DOMAIN strings.addrs /\ strings.addrs[i] \in Nat
  <2>1. DOMAIN program.args = 1 .. Len(program.args)
    BY Facts, ProgramFacts
  <2> QED BY <2>1, Facts DEF IInv, ArgsProgress
<1>5. PICK a \in Nat : /\ a = strings.addrs[i]
                       /\ Layout(program, globalEnv, strings)[Arg(i)] = [at |-> a, size |-> n + 1]
  <2>1. \A name \in DOMAIN globalEnv : name.kind \in {"global", "function"}
    BY Facts
  <2>2. Ordered(Layout(program, globalEnv, strings), globalMem.usedSize)
    BY DEF IInv, InOrder
  <2>3. /\ strings.array # 0 => Layout(program, globalEnv, strings)[Argv]
                                  = [at |-> strings.array, size |-> Len(program.args) * PtrSize]
        /\ \A k \in DOMAIN strings.addrs :
              Layout(program, globalEnv, strings)[Arg(k)]
                = [at |-> strings.addrs[k], size |-> Len(program.args[k]) + 1]
    BY <2>1, <2>2, LayoutFacts
  <2> QED BY <1>1, <1>2, <1>4, <2>3
<1>6. a + (n + 1) <= globalMem.usedSize
  <2>1. Arg(i) \in DOMAIN Layout(program, globalEnv, strings)
    BY <1>4 DEF Layout, Names
  <2>2. PICK where : where = Layout(program, globalEnv, strings)
    OBVIOUS
  <2>3. where[Arg(i)].at = a /\ where[Arg(i)].size = n + 1
    BY <1>5, <2>2
  <2> QED BY <2>1, <2>2, <2>3 DEF IInv, InOrder, Ordered
<1>7. Finds(globalMem.mem, a, CharsOf(chars))
  <2>1. Arg(i) \in DOMAIN Held /\ Held[Arg(i)] = CharsOf(chars)
    BY <1>1, <1>4, HeldKinds DEF HeldSays
  <2>2. Layout(program, globalEnv, strings)[Arg(i)].at = a
    BY <1>5
  <2> QED BY <2>1, <2>2 DEF IInv, Contents, Holdings
<1>8. PICK all : all = [j \in 1 .. n + 1 |-> IF j = n + 1 THEN "NUL" ELSE chars[j]]
  OBVIOUS
<1>9. \A j \in 1 .. n + 1 : globalMem.mem[a + j - 1] = Char(all[j])
  <2>1. PICK bytes : bytes = CharsOf(chars)
    OBVIOUS
  <2>2. Len(bytes) = n + 1 /\ \A j \in 1 .. n + 1 : bytes[j] = Char(all[j])
    <3>1. PICK text : text = Text(chars)
      OBVIOUS
    <3>2. text = [j \in 1 .. n |-> Char(chars[j])]
      BY <1>2, <3>1 DEF Text
    <3>3. text \in Seq({Char(chars[j]) : j \in 1 .. n} \cup {NUL}) /\ Len(text) = n
      BY <3>2
    <3>4. bytes = text \o <<NUL>>
      BY <2>1, <3>1 DEF CharsOf
    <3>5. Len(bytes) = n + 1 /\ \A j \in 1 .. n + 1 : bytes[j] = IF j = n + 1 THEN NUL ELSE text[j]
      BY <3>3, <3>4
    <3>6. \A j \in 1 .. n + 1 : Char(all[j]) = IF j = n + 1 THEN NUL ELSE text[j]
      BY <1>8, <3>2 DEF NUL
    <3> QED BY <3>5, <3>6
  <2> QED BY <1>7, <2>1, <2>2 DEF Finds
<1>10. CString(a) = [j \in 1 .. n |-> Char(all[j])]
  <2>1. IsSection(globalMem) /\ a + (n + 1) <= DEFAULT_SIZE
    BY <1>6, Facts
  <2>2. all[n + 1] = "NUL" /\ \A j \in 1 .. (n + 1) - 1 : all[j] # "NUL"
    BY <1>3, <1>8
  <2>3. PICK m \in Nat : m = n + 1 /\ m \in 1 .. m /\ m - 1 = n
    OBVIOUS
  <2>4. /\ a + m <= DEFAULT_SIZE /\ all[m] = "NUL" /\ \A j \in 1 .. m - 1 : all[j] # "NUL"
        /\ \A j \in 1 .. m : globalMem.mem[a + j - 1] = Char(all[j])
    BY <1>9, <2>1, <2>2, <2>3
  <2>5. StringAt(a, m, all, m)
    BY <2>3, <2>4 DEF StringAt
  <2>6. CString(a) = [j \in 1 .. m - 1 |-> Char(all[j])]
    BY <2>1, <2>5, CStringIs
  <2> QED BY <2>3, <2>6
<1>11. Text(chars) = [j \in 1 .. n |-> Char(all[j])]
  BY <1>2, <1>8 DEF Text
<1>12. PICK text : text = Text(chars) /\ text = [j \in 1 .. n |-> Char(all[j])]
  BY <1>11
<1>13. Len(text) \in Nat
  BY <1>12
<1> QED BY <1>1, <1>5, <1>10, <1>12, <1>13

(* A global's characters are in memory; a pointer to one of them is read up to the first  *)
(* terminator from there.                                                               *)
LEMMA CharactersHeld ==
    ASSUME IInv, stage = "main", NEW g \in DOMAIN program.globals,
           program.globals[g].kind = "chars"
    PROVE  LET chars == program.globals[g].chars
           IN  /\ chars \in Seq(ToSet(chars)) /\ globalEnv[Global(g)] \in Nat
               /\ globalEnv[Global(g)] + Len(chars) <= DEFAULT_SIZE
               /\ \A j \in 1 .. Len(chars) :
                     globalMem.mem[globalEnv[Global(g)] + j - 1] = Char(chars[j])
<1>1. PICK init, chars : init = program.globals[g] /\ chars = init.chars
  OBVIOUS
<1>2. IsInit(init, program)
  BY <1>1, Facts, ProgramFacts
<1>3. chars \in Seq(ToSet(chars))
  BY <1>1, <1>2 DEF IsInit, IsSequence
<1>4. PICK n \in Nat : n = Len(chars) /\ DOMAIN chars = 1 .. n
  BY <1>3
<1>5. meant[g] = init /\ ~IsRefs(init) /\ Filled(g)
  <2>1. meant[g] = init
    BY <1>1 DEF IInv, MeantShape, SameShape
  <2> QED BY <1>1, <2>1 DEF IsRefs, Filled, AllInitialised
<1>6. Global(g) \in DOMAIN Held /\ Held[Global(g)] = Text(chars)
  <2>1. Global(g) \in DOMAIN Held /\ Held[Global(g)] = Declared(init)
    BY <1>5, HeldKinds DEF HeldSays
  <2> QED BY <1>1, <1>5, <2>1 DEF Declared
<1>7. Global(g) \in DOMAIN globalEnv
  BY DEF IInv, Progress, AllInitialised, Globals
<1>8. PICK a \in Nat : /\ a = globalEnv[Global(g)] /\ a + n <= DEFAULT_SIZE
                       /\ Layout(program, globalEnv, strings)[Global(g)] = [at |-> a, size |-> n]
  <2>1. SizeIn(program, Global(g)) = n
    BY <1>1, <1>4 DEF SizeIn, Global, SizeOf
  <2>2. LayoutSays(program, globalEnv, strings, globalMem.usedSize)
    BY Facts
  <2>3. globalMem.usedSize \in Nat /\ DEFAULT_SIZE \in Nat /\ globalMem.usedSize <= DEFAULT_SIZE
    BY Facts
  <2>4. PICK a \in Nat, size \in Nat :
            /\ a = globalEnv[Global(g)] /\ size = SizeIn(program, Global(g))
            /\ Layout(program, globalEnv, strings)[Global(g)] = [at |-> a, size |-> size]
            /\ a + size <= globalMem.usedSize
    BY <1>7, <2>2 DEF LayoutSays
  <2> QED BY <2>1, <2>3, <2>4
<1>9. Finds(globalMem.mem, a, Text(chars))
  <2>1. Layout(program, globalEnv, strings)[Global(g)].at = a
    BY <1>8
  <2> QED BY <1>6, <2>1 DEF IInv, Contents, Holdings
<1>10. \A j \in 1 .. n : globalMem.mem[a + j - 1] = Char(chars[j])
  <2>1. PICK text : text = Text(chars)
    OBVIOUS
  <2>2. text = [j \in 1 .. n |-> Char(chars[j])]
    BY <1>4, <2>1 DEF Text
  <2>3. Len(text) = n /\ \A j \in 1 .. n : text[j] = Char(chars[j])
    BY <2>2
  <2> QED BY <1>9, <2>1, <2>3 DEF Finds
<1> QED BY <1>1, <1>3, <1>4, <1>8, <1>10

(* The first terminator, and the characters before it.                                  *)
LEMMA TextBefore ==
    ASSUME NEW S, NEW chars \in Seq(S), "NUL" \in ToSet(chars)
    PROVE  \E m \in 1 .. Len(chars) :
              /\ chars[m] = "NUL" /\ \A j \in 1 .. m - 1 : chars[j] # "NUL"
              /\ SubSeq(Text(chars), 1, Min({i \in DOMAIN chars : chars[i] = "NUL"}) - 1)
                   = [j \in 1 .. m - 1 |-> Char(chars[j])]
<1>1. PICK n \in Nat : n = Len(chars) /\ DOMAIN chars = 1 .. n
  OBVIOUS
<1>2. PICK nuls : nuls = {i \in DOMAIN chars : chars[i] = "NUL"}
  OBVIOUS
<1>3. nuls \subseteq Nat /\ nuls # {}
  BY <1>1, <1>2 DEF ToSet
<1>4. PICK m \in nuls : m = Min(nuls) /\ \A i \in nuls : m <= i
  BY <1>3, MinIs
<1>5. m \in 1 .. n /\ chars[m] = "NUL"
  BY <1>1, <1>2
<1>6. ASSUME NEW j \in 1 .. m - 1 PROVE chars[j] # "NUL"
  <2>1. SUFFICES ASSUME chars[j] = "NUL" PROVE FALSE
    OBVIOUS
  <2>2. j \in nuls
    BY <1>1, <1>2, <1>5, <2>1
  <2> QED BY <1>4, <1>5, <2>2
<1>7. PICK text : text = Text(chars)
  OBVIOUS
<1>8. text = [j \in 1 .. n |-> Char(chars[j])]
  BY <1>1, <1>7 DEF Text
<1>9. text \in Seq({Char(chars[j]) : j \in 1 .. n}) /\ Len(text) = n
  BY <1>8
<1>10. SubSeq(text, 1, m - 1) = [j \in 1 .. m - 1 |-> Char(chars[j])]
  <2>1. SubSeq(text, 1, m - 1) = [j \in 1 .. m - 1 |-> text[j]]
    BY <1>5, <1>9
  <2>2. \A j \in 1 .. m - 1 : text[j] = Char(chars[j])
    BY <1>5, <1>8
  <2> QED BY <2>1, <2>2
<1> QED BY <1>1, <1>2, <1>4, <1>5, <1>6, <1>7, <1>10

LEMMA ReadsCharacters ==
    ASSUME IInv, stage = "main", NEW name, IsName(name, program),
           name.kind \in {"global", "element"}, program.globals[name.i].kind = "chars",
           "NUL" \in ToSet(CharsFrom(name))
    PROVE  CString(PointsTo(name)) = TextOf(name) /\ Len(TextOf(name)) \in Nat
<1>1. PICK g \in DOMAIN program.globals : /\ name.i = g /\ Object(name) = Global(g) /\ name # Null
                                          /\ \/ name = Global(g)
                                             \/ \E offset \in 0 .. SizeOf(program.globals[g]) :
                                                   name = Element(g, offset)
  BY DEF IsName, Global, Element, Function, Null, Object
<1>2. PICK all, a : all = program.globals[g].chars /\ a = globalEnv[Global(g)]
  OBVIOUS
<1>3. /\ all \in Seq(ToSet(all)) /\ a \in Nat /\ a + Len(all) <= DEFAULT_SIZE
      /\ \A j \in 1 .. Len(all) : globalMem.mem[a + j - 1] = Char(all[j])
  BY <1>1, <1>2, CharactersHeld
<1>4. PICK n \in Nat : n = Len(all) /\ DOMAIN all = 1 .. n
  BY <1>3
<1>5. PICK o \in 0 .. n : /\ PointsTo(name) = a + o
                          /\ CharsFrom(name) = IF o = 0 THEN all ELSE SubSeq(all, o + 1, n)
  <2>1. CASE name = Global(g)
    <3>1. name.kind = "global"
      BY <2>1 DEF Global
    <3>2. PointsTo(name) = a + 0 /\ CharsFrom(name) = all
      BY <1>1, <1>2, <3>1 DEF PointsTo, CharsFrom
    <3> QED BY <3>2
  <2>2. CASE \E offset \in 0 .. SizeOf(program.globals[g]) : name = Element(g, offset)
    <3>1. PICK o \in 0 .. SizeOf(program.globals[g]) : name = Element(g, o)
      BY <2>2
    <3>2. SizeOf(program.globals[g]) = n
      BY <1>1, <1>2, <1>4 DEF SizeOf
    <3>3. name.kind = "element" /\ name.offset = o
      BY <3>1 DEF Element
    <3>4. PointsTo(name) = a + o /\ CharsFrom(name) = SubSeq(all, o + 1, n)
      BY <1>1, <1>2, <1>4, <3>3 DEF PointsTo, CharsFrom
    <3>5. SubSeq(all, 0 + 1, n) = all
      BY <1>3, <1>4
    <3> QED BY <3>2, <3>4, <3>5
  <2> QED BY <1>1, <2>1, <2>2
<1>6. PICK chars : chars = CharsFrom(name) /\ chars = [j \in 1 .. n - o |-> all[o + j]]
  <2>1. CASE o = 0
    <3>1. all = [j \in 1 .. n - 0 |-> all[0 + j]]
      BY <1>3, <1>4
    <3> QED BY <1>5, <2>1, <3>1
  <2>2. CASE o # 0
    <3>1. SubSeq(all, o + 1, n) = [j \in 1 .. n - o |-> all[(o + 1) + j - 1]]
      BY <1>3, <1>4
    <3>2. \A j \in 1 .. n - o : (o + 1) + j - 1 = o + j
      OBVIOUS
    <3> QED BY <1>5, <2>2, <3>1, <3>2
  <2> QED BY <2>1, <2>2
<1>7. PICK k \in Nat, b \in Nat : k = n - o /\ b = a + o
  BY <1>3
<1>8. chars \in Seq({all[j] : j \in 1 .. n}) /\ Len(chars) = k
  BY <1>4, <1>6, <1>7
<1>9. PICK m \in 1 .. k : /\ chars[m] = "NUL" /\ \A j \in 1 .. m - 1 : chars[j] # "NUL"
                          /\ SubSeq(Text(chars), 1, Min({i \in DOMAIN chars : chars[i] = "NUL"}) - 1)
                               = [j \in 1 .. m - 1 |-> Char(chars[j])]
  BY <1>6, <1>8, TextBefore
<1>10. \A j \in 1 .. k : globalMem.mem[b + j - 1] = Char(chars[j])
  <2>1. SUFFICES ASSUME NEW j \in 1 .. k PROVE globalMem.mem[b + j - 1] = Char(chars[j])
    OBVIOUS
  <2>2. chars[j] = all[o + j]
    BY <1>6, <1>7
  <2>3. o + j \in 1 .. n /\ a + (o + j) - 1 = b + j - 1
    BY <1>3, <1>7
  <2> QED BY <1>3, <1>4, <2>2, <2>3
<1>11. CString(b) = [j \in 1 .. m - 1 |-> Char(chars[j])]
  <2>1. IsSection(globalMem) /\ b + k <= DEFAULT_SIZE
    BY <1>3, <1>4, <1>7, Facts
  <2>2. StringAt(b, k, chars, m)
    BY <1>9, <1>10, <2>1 DEF StringAt
  <2> QED BY <2>1, <2>2, CStringIs
<1>12. TextOf(name) = SubSeq(Text(chars), 1, Min({i \in DOMAIN chars : chars[i] = "NUL"}) - 1)
  BY <1>6 DEF TextOf
<1>13. PICK text : text = TextOf(name) /\ text = [j \in 1 .. m - 1 |-> Char(chars[j])]
  BY <1>9, <1>12
<1>14. Len(text) \in Nat
  BY <1>13
<1> QED BY <1>5, <1>7, <1>11, <1>13, <1>14

(* argv holds the addresses of the arguments.                                           *)
LEMMA LoadedFromArgv ==
    ASSUME IInv, stage = "main", NEW at \in DOMAIN program.args, NEW op,
           op = [via |-> "load", name |-> Argv, at |-> at]
    PROVE  Value(op) = strings.addrs[at] /\ Meant(op) = Arg(at)
<1>1. /\ strings.array # 0 /\ Len(strings.addrs) = Len(program.args)
      /\ DOMAIN program.args = 1 .. Len(program.args)
  BY Facts, ProgramFacts DEF IInv, ArgsProgress
<1>2. PICK addrs \in Seq(Nat) : addrs = strings.addrs /\ at \in 1 .. Len(addrs)
  BY <1>1, Facts
<1>3. PICK n \in Nat : n = Len(addrs) /\ n = Len(program.args)
  BY <1>1, <1>2
<1>4. PICK a \in Nat : /\ a = strings.array /\ a # 0
                       /\ Layout(program, globalEnv, strings)[Argv] = [at |-> a, size |-> n * PtrSize]
  <2>1. \A name \in DOMAIN globalEnv : name.kind \in {"global", "function"}
    BY Facts
  <2>2. Ordered(Layout(program, globalEnv, strings), globalMem.usedSize)
    BY DEF IInv, InOrder
  <2>3. strings.array # 0 => Layout(program, globalEnv, strings)[Argv]
                               = [at |-> strings.array, size |-> Len(program.args) * PtrSize]
    BY <2>1, <2>2, LayoutFacts
  <2> QED BY <1>1, <1>3, <2>3, Facts
<1>5. a + n * PtrSize <= globalMem.usedSize
  <2>1. Argv \in DOMAIN Layout(program, globalEnv, strings)
    BY <1>1 DEF Layout, Names
  <2>2. PICK where : where = Layout(program, globalEnv, strings)
    OBVIOUS
  <2>3. where[Argv].at = a /\ where[Argv].size = n * PtrSize
    BY <1>4, <2>2
  <2> QED BY <2>1, <2>2, <2>3 DEF IInv, InOrder, Ordered
<1>6. Finds(globalMem.mem, a, PtrArray(addrs))
  <2>1. Argv \in DOMAIN Held /\ Held[Argv] = PtrArray(addrs)
    BY <1>1, <1>2, HeldKinds DEF HeldSays
  <2>2. Layout(program, globalEnv, strings)[Argv].at = a
    BY <1>4
  <2> QED BY <2>1, <2>2 DEF IInv, Contents, Holdings
<1>7. ReadAsPointer(a + (at - 1) * PtrSize) = addrs[at]
  BY <1>2, <1>6, FindsPointer
<1>8. IsAddressLegal(globalMem, a + (at - 1) * PtrSize)
  <2>1. PtrSize \in Nat \ {0} /\ globalMem.usedSize \in Nat
    BY SetupAssumption, Facts DEF SetupAssumption
  <2>2. (at - 1) * PtrSize \in Nat /\ (at - 1) * PtrSize + PtrSize <= n * PtrSize /\ n * PtrSize \in Nat
    BY <1>2, <1>3, <2>1, PlaceOfElement
  <2>3. PICK q \in Nat, m \in Nat : q = (at - 1) * PtrSize /\ m = n * PtrSize
    BY <2>2
  <2>4. a + q < globalMem.usedSize /\ a + q # 0
    BY <1>4, <1>5, <2>1, <2>2, <2>3
  <2> QED BY <2>3, <2>4 DEF IsAddressLegal
<1>9. Base(op.name) = a /\ op.via = "load" /\ op.at = at /\ op.name = Argv
  BY <1>4 DEF Base
<1>10. Slot(op.name, op.at) = a + (at - 1) * PtrSize
  BY <1>9 DEF Slot
<1>11. Value(op) = addrs[at]
  BY <1>7, <1>8, <1>9, <1>10 DEF Value
<1>12. Meant(op) = Arg(at)
  BY <1>9 DEF Meant
<1> QED BY <1>2, <1>11, <1>12

(* printf gets the string that the program means, wherever its pointer comes from.       *)
LEMMA StringAsMeant ==
    ASSUME IInv, stage = "main", NEW op \in StringOperands
    PROVE  CString(Value(op)) = TextOf(Meant(op)) /\ Len(TextOf(Meant(op))) \in Nat
<1>0. op \in Operands /\ IsString(Meant(op))
  BY DEF StringOperands
<1>1. CASE op \in [via : {"load"}, name : {Argv}, at : DOMAIN program.args]
  <2>1. PICK at \in DOMAIN program.args : op = [via |-> "load", name |-> Argv, at |-> at]
    BY <1>1
  <2>2. Value(op) = strings.addrs[at] /\ Meant(op) = Arg(at)
    BY <2>1, LoadedFromArgv
  <2>3. TextOf(Arg(at)) = Text(program.args[at])
    BY DEF TextOf, Arg
  <2> QED BY <2>1, <2>2, <2>3, ReadsArgument
<1>2. CASE op \notin [via : {"load"}, name : {Argv}, at : DOMAIN program.args]
  <2>1. Value(op) = PointsTo(Meant(op)) /\ IsName(Meant(op), program)
    <3>1. CASE op \in AddressOperands
      <4>1. op.via = "address" /\ op.name \in DOMAIN globalEnv \cup {Null}
        BY <3>1 DEF AddressOperands
      <4>2. Meant(op) = op.name
        <5>1. op.name # Argv
          BY <4>1, Facts DEF Argv, Null
        <5> QED BY <4>1, <5>1 DEF Meant
      <4>3. Value(op) = AddressOf(op.name)
        BY <4>1 DEF Value
      <4>4. IsName(op.name, program) /\ HasAddress(op.name)
        BY <4>1, PlacedNames DEF IsName, HasAddress
      <4> QED BY <4>2, <4>3, <4>4, PointsInside
    <3>2. CASE \E slot \in Slots : op = [via |-> "load", name |-> slot.name, at |-> slot.at]
      <4>1. PICK slot \in Slots : op = [via |-> "load", name |-> slot.name, at |-> slot.at]
        BY <3>2
      <4>2. PICK g \in DOMAIN program.globals :
                /\ IsRefs(program.globals[g]) /\ slot.name = Global(g)
                /\ slot.at \in DOMAIN program.globals[g].names
        BY DEF Slots
      <4> QED BY <4>1, <4>2, LoadedFromGlobal
    <3> QED BY <1>0, <1>2, <3>1, <3>2 DEF Operands, LoadOperands
  <2>2. PICK name : name = Meant(op) /\ IsName(name, program) /\ IsString(name)
    BY <1>0, <2>1
  <2>3. name.kind # "arg"
    BY <2>2 DEF IsName, Null, Global, Element, Function
  <2>4. /\ name.kind \in {"global", "element"} /\ program.globals[name.i].kind = "chars"
        /\ "NUL" \in ToSet(CharsFrom(name))
    BY <2>2, <2>3 DEF IsString
  <2> QED BY <2>1, <2>2, <2>4, ReadsCharacters
<1> QED BY <1>1, <1>2

(* The directives are a sequence, whatever the text.                                    *)
LEMMA DirectivesAre ==
    ASSUME NEW n \in Nat, NEW text, Len(text) = n
    PROVE  Len(DirectivesIn(text)) \in Nat /\ DOMAIN DirectivesIn(text) = 1 .. Len(DirectivesIn(text))
<1>1. PICK places : places = {i \in 1 .. n : text[i] \in Directives}
  OBVIOUS
<1>2. Cardinality(places) \in Nat
  <2>1. IsFiniteSet(1 .. n) /\ places \subseteq 1 .. n
    BY <1>1, FS_Interval
  <2> QED BY <2>1, FS_Subset, FS_CardinalityType
<1>3. PICK k \in Nat : k = DirectivesUpTo(text, Len(text))
  BY <1>1, <1>2 DEF DirectivesUpTo
<1>4. PICK s : s = DirectivesIn(text)
  OBVIOUS
<1>5. s = [j \in 1 .. k |->
              text[CHOOSE i \in DOMAIN text : text[i] \in Directives /\ DirectivesUpTo(text, i) = j]]
  BY <1>3, <1>4 DEF DirectivesIn
<1>6. Len(s) = k /\ DOMAIN s = 1 .. k
  BY <1>5
<1> QED BY <1>4, <1>6

(* What the two machines print for an argument is the same, unless it is a negative       *)
(* integer under %d.                                                                    *)
Recorded(arg) == IF arg.kind = "int" THEN arg ELSE [kind |-> "ptr", to |-> Meant(arg.op)]

IsNegative(directive, arg) == directive = Signed /\ 2 * arg.value >= IntMod

LEMMA PieceAsC ==
    ASSUME IInv, stage = "main", NEW directive, NEW arg \in ArgsFor(directive),
           ~IsNegative(directive, Recorded(arg))
    PROVE  Piece(arg) = CPiece(directive, Recorded(arg))
<1>1. Signed # Char("%s")
  <2>1. Signed.char = "%d" /\ Char("%s").char = "%s"
    BY DEF Signed, Char
  <2> QED BY <2>1
<1>2. CASE directive = Char("%s")
  <2>1. PICK op \in StringOperands : arg = [kind |-> "ptr", op |-> op]
    BY <1>2 DEF ArgsFor, StringArgs
  <2>2. arg.kind # "int" /\ arg.op = op
    BY <2>1
  <2>3. Piece(arg) = CString(Value(op))
    BY <2>2 DEF Piece
  <2>4. Recorded(arg).to = Meant(op)
    BY <2>2 DEF Recorded
  <2>5. CPiece(directive, Recorded(arg)) = TextOf(Meant(op))
    BY <1>1, <1>2, <2>4 DEF CPiece
  <2> QED BY <2>3, <2>5, StringAsMeant
<1>3. CASE directive # Char("%s")
  <2>1. PICK n \in Ints : arg = [kind |-> "int", value |-> n]
    BY <1>3 DEF ArgsFor, IntArgs
  <2>2. arg.kind = "int" /\ arg.value = n /\ Recorded(arg) = arg
    BY <2>1 DEF Recorded
  <2>3. n \in Nat /\ IntMod \in Nat
    BY SetupAssumption DEF SetupAssumption
  <2>4. directive = Signed => 2 * n < IntMod
    BY <2>2, <2>3 DEF IsNegative
  <2>5. Piece(arg) = <<Number(n)>>
    BY <2>2 DEF Piece
  <2>6. CPiece(directive, arg) = <<Number(n)>>
    BY <1>3, <2>2, <2>4 DEF CPiece
  <2> QED BY <2>2, <2>5, <2>6
<1> QED BY <1>2, <1>3

(* PrintsAsC with the variables as parameters.                                          *)
TextIn(p, name) ==
    IF name.kind = "arg" THEN Text(p.args[name.i])
    ELSE LET chars == IF name.kind = "element"
                      THEN SubSeq(p.globals[name.i].chars, name.offset + 1, Len(p.globals[name.i].chars))
                      ELSE p.globals[name.i].chars
         IN  SubSeq(Text(chars), 1, Min({i \in DOMAIN chars : chars[i] = "NUL"}) - 1)

PieceIn(p, directive, arg) ==
    CASE directive = Char("%s") -> TextIn(p, arg.to)
      [] directive = Signed ->
            <<Number(IF 2 * arg.value < IntMod THEN arg.value ELSE arg.value - IntMod)>>
      [] OTHER -> <<Number(arg.value)>>

PrintsIn(p, use, where) ==
    use.kind = "printf" =>
        LET text == TextIn(p, use.fmt)
            directives == DirectivesIn(text)
            pieces == [i \in DOMAIN directives |-> PieceIn(p, directives[i], use.args[i])]
            negative == \E i \in DOMAIN directives :
                            directives[i] = Signed /\ 2 * use.args[i].value >= IntMod
        IN  IF Len(use.args) > Len(directives) THEN where = "badFormat"
            ELSE ~negative => where # "badFormat" /\ use.out = Format(text, pieces)

LEMMA Parameters ==
    /\ \A name : TextOf(name) = TextIn(program, name)
    /\ \A directive, arg : CPiece(directive, arg) = PieceIn(program, directive, arg)
    /\ PrintsAsC <=> PrintsIn(program, used, stage)
<1>1. ASSUME NEW name PROVE TextOf(name) = TextIn(program, name)
  BY DEF TextOf, CharsFrom, TextIn
<1>2. ASSUME NEW directive, NEW arg PROVE CPiece(directive, arg) = PieceIn(program, directive, arg)
  <2>1. TextOf(arg.to) = TextIn(program, arg.to)
    BY <1>1
  <2> QED BY <2>1 DEF CPiece, PieceIn
<1>3. PrintsAsC <=> PrintsIn(program, used, stage)
  <2>1. PICK text : text = TextIn(program, used.fmt)
    OBVIOUS
  <2>2. text = TextOf(used.fmt)
    BY <1>1, <2>1
  <2>3. PICK directives : directives = DirectivesIn(text)
    OBVIOUS
  <2>4. [i \in DOMAIN directives |-> CPiece(directives[i], used.args[i])]
          = [i \in DOMAIN directives |-> PieceIn(program, directives[i], used.args[i])]
    BY <1>2
  <2> QED BY <2>1, <2>2, <2>3, <2>4 DEF PrintsAsC, PrintsIn
<1> QED BY <1>1, <1>2, <1>3

PrintsHere == PrintsIn(program, used, stage)

LEMMA PrintsEither == PrintsAsC <=> PrintsHere
BY Parameters DEF PrintsHere

LEMMA PrintfPrints ==
    ASSUME IInv, stage = "main", NEW fmt \in StringOperands,
           NEW args \in WellFormed(DirectivesIn(TextOf(Meant(fmt)))), Printf(fmt, args)
    PROVE  PrintsAsC'
<1>1. PICK name, text, directives :
          name = Meant(fmt) /\ text = TextOf(name) /\ directives = DirectivesIn(text)
  OBVIOUS
<1>2. CString(Value(fmt)) = text
  BY <1>1, StringAsMeant
<1>3. PICK n \in Nat : n = Len(directives) /\ DOMAIN directives = 1 .. n
  <2>1. Len(text) \in Nat
    BY <1>1, StringAsMeant
  <2> QED BY <1>1, <2>1, DirectivesAre
<1>4. /\ program' = program
      /\ stage' = IF Accepts(text, args) THEN "main" ELSE "badFormat"
      /\ used' = [kind |-> "printf", fmt |-> name, args |-> [i \in DOMAIN args |-> Recorded(args[i])],
                  out |-> IF Accepts(text, args)
                          THEN Format(text, [i \in DOMAIN args |-> Piece(args[i])]) ELSE <<>>]
  BY <1>1, <1>2 DEF Printf, Uses, Recorded
<1>5. PICK recorded : recorded = [i \in DOMAIN args |-> Recorded(args[i])]
  OBVIOUS
<1>6. used'.fmt = name /\ used'.args = recorded
  BY <1>4, <1>5
<1>7. TextIn(program, name) = text
  BY <1>1, Parameters
<1>10. PrintsAsC' <=> PrintsIn(program, used', stage')
  <2>1. PrintsAsC' <=> PrintsHere'
    BY PrintsEither, PTL
  <2>2. PrintsHere' <=> PrintsIn(program', used', stage')
    BY DEF PrintsHere
  <2> QED BY <1>4, <2>1, <2>2
<1>8. CASE args \in Matching(directives)
  <2>1. /\ DOMAIN args = 1 .. n /\ args = [i \in 1 .. n |-> args[i]]
        /\ \A i \in 1 .. n : args[i] \in ArgsFor(directives[i])
    BY <1>3, <1>8 DEF Matching
  <2>2. Len(args) = n /\ Len(recorded) = n
    BY <1>5, <2>1
  <2>3. Accepts(text, args)
    BY <1>1, <1>3, <2>2 DEF Accepts
  <2>4. ASSUME ~\E i \in 1 .. n : IsNegative(directives[i], recorded[i])
        PROVE  [i \in DOMAIN args |-> Piece(args[i])]
                 = [i \in DOMAIN directives |-> PieceIn(program, directives[i], recorded[i])]
    <3>1. ASSUME NEW i \in 1 .. n PROVE Piece(args[i]) = PieceIn(program, directives[i], recorded[i])
      <4>1. recorded[i] = Recorded(args[i])
        BY <1>5, <2>1
      <4>2. Piece(args[i]) = CPiece(directives[i], recorded[i])
        BY <2>1, <2>4, <4>1, PieceAsC
      <4> QED BY <4>2, Parameters
    <3> QED BY <1>3, <2>1, <3>1
  <2>5. stage' = "main" /\ used'.out = Format(text, [i \in DOMAIN args |-> Piece(args[i])])
    BY <1>4, <2>3
  <2>6. PrintsIn(program, used', stage')
    BY <1>1, <1>3, <1>6, <1>7, <2>2, <2>4, <2>5 DEF PrintsIn, IsNegative
  <2> QED BY <1>10, <2>6
<1>9. CASE \E shorter \in Matching(directives), extra \in IntArgs : args = Append(shorter, extra)
  <2>1. PICK shorter \in Matching(directives), extra \in IntArgs : args = Append(shorter, extra)
    BY <1>9
  <2>2. DOMAIN shorter = 1 .. n /\ shorter = [i \in 1 .. n |-> shorter[i]]
    BY <1>3 DEF Matching
  <2>3. shorter \in Seq(StringArgs \cup IntArgs) /\ Len(shorter) = n
    BY <1>3, <2>2 DEF Matching
  <2>4. Len(args) = n + 1 /\ DOMAIN args = 1 .. n + 1
    BY <2>1, <2>3
  <2>5. Len(recorded) = n + 1
    BY <1>5, <2>4
  <2>6. ~Accepts(text, args)
    BY <1>1, <1>3, <2>4 DEF Accepts
  <2>7. stage' = "badFormat"
    BY <1>4, <2>6
  <2>8. PrintsIn(program, used', stage')
    BY <1>1, <1>3, <1>6, <1>7, <2>5, <2>7 DEF PrintsIn
  <2> QED BY <1>10, <2>8
<1> QED BY <1>1, <1>8, <1>9 DEF WellFormed

(* Before main runs nothing has been printed.                                           *)
Unused == stage \in (Started \cup AllInitialised) \ {"main"} => used.kind = "none"

SameUse == program' = program /\ used' = used

LEMMA SetupUnused ==
    ASSUME Unused, stage \in (Started \cup AllInitialised) \ {"main"}, SameUse
    PROVE  Unused' /\ PrintsAsC'
<1>1. used' = used /\ used.kind = "none"
  BY DEF Unused, SameUse
<1> QED BY <1>1 DEF Unused, PrintsAsC

LEMMA PrintsStays ==
    ASSUME PrintsAsC, Unused, SameUse, stage' = stage
    PROVE  PrintsAsC' /\ Unused'
<1>1. PrintsIn(program, used, stage)
  BY Parameters
<1>2. PrintsIn(program', used', stage')
  BY <1>1 DEF SameUse
<1>3. PrintsHere'
  BY <1>2 DEF PrintsHere
<1>4. PrintsAsC'
  BY <1>3, PrintsEither, PTL
<1> QED BY <1>4 DEF Unused, SameUse

(* What printf prints, through boost::format (callExternalFunction, External.cpp), is what *)
(* C prints: for every program, command line and layout of the globals, and wherever the   *)
(* pointers to the format and to the strings come from, as long as %d gets no negative      *)
(* integer; an argument too many ends the process.                                         *)
THEOREM PrintfPrintsAsC == ASSUME SizesFit PROVE Spec => []PrintsAsC
<1>1. ASSUME Init PROVE PrintsAsC /\ Unused
  <2>1. used.kind = "none"
    BY <1>1 DEF Init
  <2> QED BY <2>1 DEF PrintsAsC, Unused
<1>2. ASSUME IInv, PrintsAsC, Unused, [Next]_vars PROVE PrintsAsC' /\ Unused'
  <2>1. CASE Setup
    <3>1. stage \in (Started \cup AllInitialised) \ {"main"} /\ SameUse
      BY <2>1 DEF Setup, FindMain, AllocateGlobals, InitialiseGlobals, PlaceFunctions, AllocateArgv,
                  CopyArguments, CallMain, Loop, Started, AllInitialised, SameUse
    <3> QED BY <1>2, <3>1, SetupUnused
  <2>2. ASSUME NEW slot \in Slots, NEW name \in DOMAIN globalEnv, StorePointer(slot, name)
        PROVE  PrintsAsC' /\ Unused'
    <3>1. SameUse /\ stage' = stage
      BY <2>2 DEF StorePointer, SameUse
    <3> QED BY <1>2, <3>1, PrintsStays
  <2>3. ASSUME NEW op \in Operands, CallThrough(op) PROVE PrintsAsC' /\ Unused'
    <3>1. used'.kind = "call"
      BY <2>3 DEF CallThrough
    <3>2. stage' \in {"noSuchFunction", "unknownExternal", "main"}
      BY <2>3 DEF CallThrough
    <3> QED BY <3>1, <3>2 DEF PrintsAsC, Unused, Started, AllInitialised
  <2>4. ASSUME stage = "main", NEW fmt \in StringOperands,
               NEW args \in WellFormed(DirectivesIn(TextOf(Meant(fmt)))), Printf(fmt, args)
        PROVE  PrintsAsC' /\ Unused'
    <3>1. stage' \in {"main", "badFormat"}
      BY <2>4 DEF Printf
    <3>2. Unused'
      BY <3>1 DEF Unused, Started, AllInitialised
    <3> QED BY <1>2, <2>4, <3>2, PrintfPrints
  <2>5. CASE UNCHANGED vars
    <3>1. SameUse /\ stage' = stage
      BY <2>5 DEF vars, setupVars, SameUse
    <3> QED BY <1>2, <3>1, PrintsStays
  <2> QED BY <1>2, <2>1, <2>2, <2>3, <2>4, <2>5 DEF Next
<1> QED BY <1>1, <1>2, Invariance, PTL DEF Spec
==================================================================================
