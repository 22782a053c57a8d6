---------------------------- MODULE DynamicValue_proofs ---------------------------
(* Who owns the storage behind the interpreter's values, for any number of objects,    *)
(* any finite heap, and aggregates of any length; and that the variables hold values,  *)
(* whoever owns the storage behind them.                                             *)
EXTENDS DynamicValue, FunctionTheorems, FiniteSetTheorems, TLAPS

(* The operators below take the heap as an argument, so that what an object is before a *)
(* step and after it are two values of one operator.                                  *)
Keys(h, o) == IF IsAggregate(o) /\ o.block # NoBlock THEN DOMAIN h[o.block].at ELSE {}

Element(h, o, k) == h[o.block].at[k]

BlocksOf(h, o) ==
    {b \in Blocks : b = o.block \/ \E k \in Keys(h, o) : b = Element(h, o, k).block}

FreeOf(h) == {b \in Blocks : h[b] = Free}

IsLeafObject(o) == o \in ObjectType /\ o.type \notin {"none", "array", "struct"}

(* What a block in use holds: an integer, or leaves by their index or offset.            *)
IsContent(c) ==
    \/ \E v \in WideInts : c = Word(v)
    \/ /\ c = Elems(c.at)
       /\ IsFiniteSet(DOMAIN c.at) /\ DOMAIN c.at \subseteq Int /\ DOMAIN c.at # {}
       /\ \A k \in DOMAIN c.at : IsLeafObject(c.at[k])

IsHeap(h) == DOMAIN h = Blocks /\ \A b \in Blocks : h[b] = Free \/ IsContent(h[b])

(* The union of an object is what the type says, all the way down: an aggregate points to *)
(* a block of elements, a leaf to a block that holds an integer, and no two elements to   *)
(* the same one.                                                                        *)
Sound(h, o) ==
    /\ o \in ObjectType
    /\ o.type = "none" => o = Dead
    /\ o.block # NoBlock => h[o.block].kind = (IF IsAggregate(o) THEN "elems" ELSE "word")
    /\ \A k \in Keys(h, o) :
          Element(h, o, k).block # NoBlock =>
              /\ h[Element(h, o, k).block].kind = "word"
              /\ \A l \in Keys(h, o) : Element(h, o, l).block = Element(h, o, k).block => l = k

(* Different variables own different blocks.                                            *)
Apart(h, obj) ==
    \A x, y \in Variables : x # y => BlocksOf(h, obj[x]) \cap BlocksOf(h, obj[y]) = {}

Owners(h, obj) ==
    /\ IsHeap(h)
    /\ obj \in [Variables -> ObjectType]
    /\ \A x \in Variables : Sound(h, obj[x])
    /\ Apart(h, obj)

(* Only objects that are alive are moved from; an array has its elements until they are    *)
(* moved away.  (A struct has none before its first field.)                               *)
Movable(obj, mv) ==
    /\ mv \subseteq {x \in Variables : obj[x] # Dead}
    /\ \A x \in Variables : obj[x].type = "array" /\ obj[x].block = NoBlock => x \in mv

IInv == Owners(heap, object) /\ Movable(object, moved)

----------------------------------------------------------------------------------
LEMMA ContentKinds ==
    ASSUME NEW c, IsContent(c)
    PROVE  /\ c.kind = "word" => \E v \in WideInts : c = Word(v)
           /\ c.kind = "elems" =>
                /\ c = Elems(c.at)
                /\ IsFiniteSet(DOMAIN c.at) /\ DOMAIN c.at \subseteq Int /\ DOMAIN c.at # {}
                /\ \A k \in DOMAIN c.at : IsLeafObject(c.at[k])
<1>1. \A v : Word(v).kind = "word"
  BY DEF Word
<1>2. \A at : Elems(at).kind = "elems"
  BY DEF Elems
<1> QED BY <1>1, <1>2, Zenon DEF IsContent

(* A block that a sound object owns is in use, and its elements are leaves.               *)
LEMMA SoundInUse ==
    ASSUME NEW h, IsHeap(h), NEW o, Sound(h, o)
    PROVE  /\ BlocksOf(h, o) \cap FreeOf(h) = {}
           /\ o.block \in Blocks => o.block \in BlocksOf(h, o) /\ IsContent(h[o.block])
           /\ \A k \in Keys(h, o) : IsLeafObject(Element(h, o, k))
<1>1. o.block \in Blocks \cup {NoBlock} /\ NoBlock \notin Blocks
  BY ValueAssumption DEF Sound, ObjectType, ValueAssumption
<1>2. \A b \in Blocks : h[b].kind \in {"word", "elems"} => h[b] # Free
  BY DEF Free
<1>3. o.block \in Blocks => h[o.block] # Free
  BY <1>1, <1>2 DEF Sound
<1>4. ASSUME NEW k \in Keys(h, o) PROVE IsLeafObject(Element(h, o, k))
  <2>1. IsAggregate(o) /\ o.block \in Blocks /\ k \in DOMAIN h[o.block].at
    BY <1>1, <1>4 DEF Keys
  <2>2. h[o.block].kind = "elems" /\ IsContent(h[o.block])
    BY <1>1, <1>3, <2>1 DEF Sound, IsHeap
  <2> QED BY <2>1, <2>2, ContentKinds DEF Element
<1>5. ASSUME NEW k \in Keys(h, o), Element(h, o, k).block \in Blocks
      PROVE  h[Element(h, o, k).block] # Free
  BY <1>1, <1>2, <1>5 DEF Sound
<1> QED BY <1>1, <1>3, <1>4, <1>5 DEF BlocksOf, FreeOf, IsHeap

(* An object is as it was while the blocks that it owns are.                             *)
LEMMA Undisturbed ==
    ASSUME NEW h, NEW g, IsHeap(h), NEW o, Sound(h, o), \A b \in BlocksOf(h, o) : g[b] = h[b]
    PROVE  Sound(g, o) /\ BlocksOf(g, o) = BlocksOf(h, o)
<1>1. o.block \in Blocks \cup {NoBlock} /\ NoBlock \notin Blocks
  BY ValueAssumption DEF Sound, ObjectType, ValueAssumption
<1>2. o.block \in Blocks => g[o.block] = h[o.block]
  BY SoundInUse
<1>3. Keys(g, o) = Keys(h, o)
  BY <1>1, <1>2 DEF Keys
<1>4. \A k \in Keys(h, o) : Element(g, o, k) = Element(h, o, k)
  BY <1>1, <1>2 DEF Keys, Element
<1>5. BlocksOf(g, o) = BlocksOf(h, o)
  BY <1>3, <1>4 DEF BlocksOf
<1>6. ASSUME NEW k \in Keys(h, o), Element(h, o, k).block # NoBlock
      PROVE  g[Element(h, o, k).block] = h[Element(h, o, k).block]
  <2>1. IsLeafObject(Element(h, o, k))
    BY SoundInUse
  <2>2. Element(h, o, k).block \in Blocks
    BY <1>6, <2>1 DEF IsLeafObject, ObjectType
  <2> QED BY <2>2 DEF BlocksOf
<1>7. Sound(g, o)
  BY <1>1, <1>2, <1>3, <1>4, <1>6 DEF Sound
<1> QED BY <1>5, <1>7

(* Two leaves are the same value if the blocks that they have hold the same integer; two    *)
(* objects are, if the elements that they have are.                                     *)
SameLeaf(h, o, g, r) ==
    /\ r.type = o.type /\ r.val = o.val
    /\ r.block = NoBlock <=> o.block = NoBlock
    /\ o.block # NoBlock => g[r.block] = h[o.block]

SameValue(h, o, g, r) ==
    /\ r.type = o.type
    /\ IF IsAggregate(o)
       THEN /\ r.block = NoBlock <=> o.block = NoBlock
            /\ Keys(g, r) = Keys(h, o)
            /\ \A k \in Keys(h, o) : SameLeaf(h, Element(h, o, k), g, Element(g, r, k))
       ELSE SameLeaf(h, o, g, r)

(* The heart of the argument.  A step gives new values to the objects in S, and changes    *)
(* no block that another object owns; if the new values are sound, own only blocks that     *)
(* no other object owned, and share none, everything is again owned once.                  *)
LocalStep(h, obj, g, new, S, touched) ==
    /\ IsHeap(g) /\ new \in [Variables -> ObjectType] /\ S \subseteq Variables
    /\ \A x \in Variables \ S : new[x] = obj[x] /\ BlocksOf(h, obj[x]) \cap touched = {}
    /\ \A b \in Blocks \ touched : g[b] = h[b]
    /\ \A s \in S : Sound(g, new[s]) /\ BlocksOf(g, new[s]) \subseteq touched
    /\ \A s, t \in S : s # t => BlocksOf(g, new[s]) \cap BlocksOf(g, new[t]) = {}

LEMMA OwnershipIsLocal ==
    ASSUME NEW h, NEW obj, Owners(h, obj),
           NEW g, NEW new, NEW S, NEW touched, LocalStep(h, obj, g, new, S, touched)
    PROVE  /\ Owners(g, new)
           /\ \A x \in Variables \ S : BlocksOf(g, new[x]) = BlocksOf(h, obj[x])
<1> USE DEF LocalStep
<1>1. ASSUME NEW x \in Variables \ S
      PROVE  /\ Sound(h, obj[x]) /\ BlocksOf(h, obj[x]) \cap touched = {}
             /\ BlocksOf(h, obj[x]) \subseteq Blocks
  BY DEF Owners, BlocksOf
<1>2. ASSUME NEW x \in Variables \ S
      PROVE  Sound(g, new[x]) /\ BlocksOf(g, new[x]) = BlocksOf(h, obj[x])
  <2>1. \A b \in BlocksOf(h, obj[x]) : g[b] = h[b]
    BY <1>1
  <2> QED BY <1>1, <2>1, Undisturbed DEF Owners
<1>3. \A x \in Variables : Sound(g, new[x])
  BY <1>2
<1>4. ASSUME NEW x \in Variables, NEW y \in Variables, x # y
      PROVE  BlocksOf(g, new[x]) \cap BlocksOf(g, new[y]) = {}
  <2>1. CASE x \in S /\ y \in S
    BY <1>4, <2>1
  <2>2. CASE x \notin S /\ y \notin S
    BY <1>2, <1>4, <2>2 DEF Owners, Apart
  <2>3. CASE x \in S /\ y \notin S
    BY <1>1, <1>2, <2>3
  <2>4. CASE x \notin S /\ y \in S
    BY <1>1, <1>2, <2>4
  <2> QED BY <2>1, <2>2, <2>3, <2>4
<1> QED BY <1>2, <1>3, <1>4 DEF Owners, Apart

----------------------------------------------------------------------------------
(* The model's own names for what the operators above say.                              *)
LEMMA OwnedIs ==
    ASSUME IsHeap(heap), NEW o, Sound(heap, o)
    PROVE  Owned(o) = BlocksOf(heap, o) /\ FreeBlocks = FreeOf(heap)
<1>1. o.block \in Blocks \cup {NoBlock} /\ NoBlock \notin Blocks
  BY ValueAssumption DEF Sound, ObjectType, ValueAssumption
<1>2. \A k \in Keys(heap, o) : Element(heap, o, k).block \in Blocks \cup {NoBlock}
  BY SoundInUse DEF IsLeafObject, ObjectType
<1>3. ElementsOf(o) = {Element(heap, o, k) : k \in Keys(heap, o)}
  BY DEF ElementsOf, Keys, Element, Range
<1>4. Owned(o) = BlocksOf(heap, o)
  BY <1>1, <1>2, <1>3 DEF Owned, BlocksOf
<1> QED BY <1>4 DEF FreeBlocks, FreeOf

LEMMA RenamedIs ==
    ASSUME NEW o \in ObjectType, NEW f, o.block # NoBlock => f[o.block] \in Blocks
    PROVE  /\ Renamed(o, f) \in ObjectType
           /\ Renamed(o, f).type = o.type /\ Renamed(o, f).val = o.val
           /\ Renamed(o, f).block = IF o.block = NoBlock THEN NoBlock ELSE f[o.block]
           /\ o.block = NoBlock => Renamed(o, f) = o
  BY DEF Renamed, ObjectType

(* copyFrom() of a sound object is a sound object, and what it owns was free before.      *)
LEMMA CopyIsSound ==
    ASSUME IsHeap(heap), NEW o, Sound(heap, o), NEW f \in Injection(Owned(o), FreeBlocks)
    PROVE  /\ IsHeap(WithCopies(f))
           /\ \A b \in Blocks \ FreeOf(heap) : WithCopies(f)[b] = heap[b]
           /\ Sound(WithCopies(f), Renamed(o, f))
           /\ BlocksOf(WithCopies(f), Renamed(o, f)) \subseteq FreeOf(heap)
           /\ SameValue(heap, o, WithCopies(f), Renamed(o, f))
<1> DEFINE D == BlocksOf(heap, o)
           g == WithCopies(f)
           r == Renamed(o, f)
<1>1. /\ f \in [D -> FreeOf(heap)] /\ DOMAIN f = D
      /\ \A a, b \in D : f[a] = f[b] => a = b
      /\ Range(f) \subseteq FreeOf(heap) /\ FreeOf(heap) \subseteq Blocks
  BY OwnedIs DEF Injection, IsInjective, Range, FreeOf
<1>2. ASSUME NEW a \in D PROVE f[a] \in Range(f) /\ g[f[a]] = CopiedContent(heap[a], f)
  <2>1. f[a] \in Range(f) /\ f[a] \in Blocks
    BY <1>1 DEF Range
  <2>2. Inverse(f, DOMAIN f, Range(f))[f[a]] = a
    BY <1>1, <2>1 DEF Inverse
  <2> QED BY <2>1, <2>2 DEF WithCopies
<1>3. \A b \in Blocks \ Range(f) : g[b] = heap[b]
  BY DEF WithCopies
<1>4. o.block \in Blocks \cup {NoBlock} /\ NoBlock \notin Blocks /\ o \in ObjectType
  BY ValueAssumption DEF Sound, ObjectType, ValueAssumption
<1>5. o.block # NoBlock => o.block \in D
  BY <1>4 DEF BlocksOf
<1>6. ASSUME NEW k \in Keys(heap, o)
      PROVE  /\ IsLeafObject(Element(heap, o, k))
             /\ Element(heap, o, k).block \in D \cup {NoBlock}
  BY SoundInUse DEF IsLeafObject, ObjectType, BlocksOf
<1>7. /\ r \in ObjectType /\ r.type = o.type /\ r.val = o.val
      /\ r.block = (IF o.block = NoBlock THEN NoBlock ELSE f[o.block])
      /\ o.block = NoBlock => r = o
  BY <1>1, <1>4, <1>5, RenamedIs
<1>8. ASSUME NEW e, IsLeafObject(e), e.block \in D \cup {NoBlock}
      PROVE  /\ IsLeafObject(Renamed(e, f))
             /\ Renamed(e, f).type = e.type /\ Renamed(e, f).val = e.val
             /\ Renamed(e, f).block = IF e.block = NoBlock THEN NoBlock ELSE f[e.block]
  BY <1>1, <1>8, RenamedIs DEF IsLeafObject
<1>9. ASSUME NEW a \in D, heap[a].kind = "word" PROVE g[f[a]] = heap[a]
  BY <1>2, <1>9 DEF CopiedContent
<1> HIDE DEF D, g, r
<1>10. ASSUME IsAggregate(o), o.block # NoBlock
       PROVE  /\ g[f[o.block]] = Elems([k \in Keys(heap, o) |-> Renamed(Element(heap, o, k), f)])
              /\ IsContent(g[f[o.block]])
  <2>1. heap[o.block].kind = "elems" /\ IsContent(heap[o.block])
    BY <1>4, <1>10, SoundInUse DEF Sound
  <2>2. PICK at : at = [k \in Keys(heap, o) |-> Renamed(Element(heap, o, k), f)]
    OBVIOUS
  <2>3. Keys(heap, o) = DOMAIN heap[o.block].at
    BY <1>10 DEF Keys
  <2>4. g[f[o.block]] = Elems(at)
    BY <1>2, <1>5, <1>10, <2>1, <2>2, <2>3 DEF CopiedContent, Element
  <2>5. IsFiniteSet(DOMAIN at) /\ DOMAIN at \subseteq Int /\ DOMAIN at # {}
    BY <2>1, <2>2, <2>3, ContentKinds
  <2>6. \A k \in DOMAIN at : IsLeafObject(at[k])
    BY <1>6, <1>8, <2>2
  <2>7. Elems(at).at = at
    BY DEF Elems
  <2>8. IsContent(Elems(at))
    BY <2>5, <2>6, <2>7 DEF IsContent
  <2> QED BY <2>2, <2>4, <2>8
<1>11. IsAggregate(r) = IsAggregate(o) /\ (r.block = NoBlock <=> o.block = NoBlock)
  BY <1>1, <1>4, <1>5, <1>7 DEF IsAggregate, FreeOf
<1>12. Keys(g, r) = Keys(heap, o)
  <2>1. CASE IsAggregate(o) /\ o.block # NoBlock
    BY <1>7, <1>10, <1>11, <2>1 DEF Keys, Elems
  <2>2. CASE ~(IsAggregate(o) /\ o.block # NoBlock)
    BY <1>11, <2>2 DEF Keys
  <2> QED BY <2>1, <2>2
<1>13. ASSUME NEW k \in Keys(heap, o)
       PROVE  Element(g, r, k) = Renamed(Element(heap, o, k), f)
  <2>1. IsAggregate(o) /\ o.block # NoBlock
    BY <1>13 DEF Keys
  <2>2. PICK at : at = [l \in Keys(heap, o) |-> Renamed(Element(heap, o, l), f)]
    OBVIOUS
  <2>3. g[f[o.block]].at = at
    BY <1>10, <2>1, <2>2 DEF Elems
  <2> QED BY <1>7, <2>1, <2>2, <2>3 DEF Element
<1>14. ASSUME NEW k \in Keys(heap, o)
       PROVE  Element(g, r, k).block = IF Element(heap, o, k).block = NoBlock THEN NoBlock
                                       ELSE f[Element(heap, o, k).block]
  BY <1>6, <1>8, <1>13
<1>15. ASSUME NEW k \in Keys(heap, o), Element(heap, o, k).block # NoBlock
       PROVE  /\ Element(heap, o, k).block \in D /\ heap[Element(heap, o, k).block].kind = "word"
              /\ \A l \in Keys(heap, o) :
                    Element(heap, o, l).block = Element(heap, o, k).block => l = k
  BY <1>6, <1>15 DEF Sound
<1>16. Sound(g, r)
  <2>1. r.type = "none" => r = Dead
    BY <1>7 DEF Sound, Dead, Object
  <2>2. r.block # NoBlock => g[r.block].kind = (IF IsAggregate(r) THEN "elems" ELSE "word")
    <3>1. CASE IsAggregate(o)
      BY <1>7, <1>10, <1>11, <3>1 DEF Elems
    <3>2. CASE ~IsAggregate(o)
      BY <1>5, <1>7, <1>9, <1>11, <3>2 DEF Sound
    <3> QED BY <3>1, <3>2
  <2>3. ASSUME NEW k \in Keys(g, r), Element(g, r, k).block # NoBlock
        PROVE  /\ g[Element(g, r, k).block].kind = "word"
               /\ \A l \in Keys(g, r) : Element(g, r, l).block = Element(g, r, k).block => l = k
    <3>1. /\ k \in Keys(heap, o) /\ Element(heap, o, k).block # NoBlock
          /\ Element(g, r, k).block = f[Element(heap, o, k).block]
      BY <1>12, <1>14, <2>3
    <3>2. g[Element(g, r, k).block].kind = "word"
      BY <1>9, <1>15, <3>1
    <3>3. ASSUME NEW l \in Keys(g, r), Element(g, r, l).block = Element(g, r, k).block
          PROVE  l = k
      <4>1. l \in Keys(heap, o) /\ Element(heap, o, l).block # NoBlock
        BY <1>12, <1>14, <2>3, <3>3
      <4>2. f[Element(heap, o, l).block] = f[Element(heap, o, k).block]
        BY <1>14, <3>1, <3>3, <4>1
      <4> QED BY <1>1, <1>15, <3>1, <4>1, <4>2
    <3> QED BY <3>2, <3>3
  <2> QED BY <1>7, <2>1, <2>2, <2>3 DEF Sound
<1>17. BlocksOf(g, r) \subseteq FreeOf(heap)
  <2>1. \A k \in Keys(g, r) : Element(g, r, k).block \in FreeOf(heap) \cup {NoBlock}
    BY <1>1, <1>12, <1>14, <1>15
  <2> QED BY <1>1, <1>4, <1>5, <1>7, <2>1 DEF BlocksOf
<1>18. IsHeap(g)
  <2>1. DOMAIN g = Blocks
    BY DEF g, WithCopies
  <2>2. ASSUME NEW a \in D PROVE IsContent(g[f[a]])
    <3>1. CASE heap[a].kind = "word"
      <4>1. heap[a] # Free /\ a \in Blocks
        BY <3>1 DEF Free, BlocksOf, D
      <4> QED BY <1>9, <3>1, <4>1 DEF IsHeap
    <3>2. CASE heap[a].kind # "word"
      <4>1. a = o.block /\ a # NoBlock
        BY <1>4, <1>15, <3>2 DEF D, BlocksOf
      <4>2. IsAggregate(o)
        BY <3>2, <4>1 DEF Sound
      <4> QED BY <1>10, <4>1, <4>2
    <3> QED BY <3>1, <3>2
  <2>3. ASSUME NEW b \in Blocks PROVE g[b] = Free \/ IsContent(g[b])
    <3>1. CASE b \in Range(f)
      BY <1>1, <2>2, <3>1 DEF Range
    <3>2. CASE b \notin Range(f)
      BY <1>3, <3>2 DEF IsHeap
    <3> QED BY <3>1, <3>2
  <2> QED BY <2>1, <2>3 DEF IsHeap
<1>19. \A b \in Blocks \ FreeOf(heap) : g[b] = heap[b]
  BY <1>1, <1>3
<1>20. ASSUME NEW e, NEW d, e.block \in D \cup {NoBlock}, e.block # NoBlock => heap[e.block].kind = "word",
              d.type = e.type, d.val = e.val,
              d.block = (IF e.block = NoBlock THEN NoBlock ELSE f[e.block])
       PROVE  SameLeaf(heap, e, g, d)
  <2>1. e.block # NoBlock => f[e.block] # NoBlock
    BY <1>1, <1>4, <1>20 DEF FreeOf
  <2> QED BY <1>9, <1>20, <2>1 DEF SameLeaf
<1>21. SameValue(heap, o, g, r)
  <2>1. CASE IsAggregate(o)
    <3>1. ASSUME NEW k \in Keys(heap, o)
          PROVE  SameLeaf(heap, Element(heap, o, k), g, Element(g, r, k))
      <4>1. /\ Element(g, r, k).type = Element(heap, o, k).type
            /\ Element(g, r, k).val = Element(heap, o, k).val
        BY <1>6, <1>8, <1>13
      <4> QED BY <1>6, <1>14, <1>15, <1>20, <4>1
    <3> QED BY <1>7, <1>11, <1>12, <2>1, <3>1 DEF SameValue
  <2>2. CASE ~IsAggregate(o)
    <3>1. o.block # NoBlock => heap[o.block].kind = "word"
      BY <2>2 DEF Sound
    <3>2. SameLeaf(heap, o, g, r)
      BY <1>4, <1>5, <1>7, <1>20, <3>1
    <3> QED BY <1>7, <2>2, <3>2 DEF SameValue
  <2> QED BY <2>1, <2>2
<1> QED BY <1>16, <1>17, <1>18, <1>19, <1>21 DEF g, r

(* The heap is finite, so that its bound leaves a block for everything that is copied.    *)
LEMMA CopyFits ==
    ASSUME IsHeap(heap), NEW o, Sound(heap, o), MemoryBound(Cardinality(Owned(o)))
    PROVE  CopyMap(o) \in Injection(Owned(o), FreeBlocks)
<1>1. IsFiniteSet(Owned(o)) /\ IsFiniteSet(FreeBlocks)
  <2>1. Owned(o) \in SUBSET Blocks /\ FreeBlocks \in SUBSET Blocks
    BY OwnedIs DEF BlocksOf, FreeBlocks
  <2> QED BY <2>1, FS_Subset, ValueAssumption DEF ValueAssumption
<1>2. PICK n \in Nat, m \in Nat :
         n = Cardinality(Owned(o)) /\ m = Cardinality(FreeBlocks)
  BY <1>1, FS_CardinalityType
<1>3. ExistsBijection(1 .. n, Owned(o)) /\ ExistsBijection(1 .. m, FreeBlocks)
  BY <1>1, <1>2, FS_CardinalityType
<1>4. ExistsInjection(Owned(o), 1 .. n) /\ ExistsInjection(1 .. m, FreeBlocks)
  BY <1>3, Fun_ExistsBijEquiv
<1>5. ExistsInjection(1 .. n, 1 .. m)
  BY <1>2, Fun_NatInjLeq DEF MemoryBound
<1>6. ExistsInjection(Owned(o), FreeBlocks)
  BY <1>4, <1>5, Fun_ExistsInjTransitive
<1> QED BY <1>6 DEF ExistsInjection, CopyMap

LEMMA NewBlockIsFree ==
    ASSUME MemoryBound(1)
    PROVE  NewBlock \in FreeBlocks
<1>1. IsFiniteSet(FreeBlocks)
  BY FS_Subset, ValueAssumption DEF ValueAssumption, FreeBlocks
<1>2. FreeBlocks # {}
  BY <1>1, FS_EmptySet DEF MemoryBound
<1> QED BY <1>2 DEF NewBlock

LEMMA FreeAllIs ==
    ASSUME NEW h, IsHeap(h), NEW gone
    PROVE  /\ IsHeap(FreeAll(h, gone))
           /\ \A b \in Blocks \ gone : FreeAll(h, gone)[b] = h[b]
           /\ \A b \in Blocks \cap gone : FreeAll(h, gone)[b] = Free
  BY DEF FreeAll, IsHeap

(* A block that comes to hold something else.                                           *)
LEMMA HeapUpdate ==
    ASSUME IsHeap(heap), NEW b \in Blocks, NEW c, IsContent(c), heap' = [heap EXCEPT ![b] = c]
    PROVE  IsHeap(heap') /\ heap'[b] = c /\ \A a \in Blocks \ {b} : heap'[a] = heap[a]
  BY DEF IsHeap

(* An object without a block is sound in any heap.                                       *)
LEMMA NothingOwned ==
    ASSUME NEW h, NEW o \in ObjectType, o.block = NoBlock, o.type = "none" => o = Dead
    PROVE  Sound(h, o) /\ BlocksOf(h, o) = {}
  BY ValueAssumption DEF Sound, BlocksOf, Keys, ValueAssumption

LEMMA EmptiedIs ==
    ASSUME NEW h, NEW g, NEW o, Sound(h, o), o.type # "none"
    PROVE  /\ Emptied(o) \in ObjectType /\ Sound(g, Emptied(o)) /\ BlocksOf(g, Emptied(o)) = {}
           /\ Emptied(o).type = o.type
<1>1. /\ Emptied(o) \in ObjectType /\ Emptied(o).block = NoBlock
      /\ Emptied(o).type = o.type
  BY DEF Emptied, ObjectType, Sound
<1> QED BY <1>1, NothingOwned

(* What a leaf owns, and that it is sound alone if it is sound as an element.              *)
LEMMA LeafOwns ==
    ASSUME IsHeap(heap), NEW e, IsLeafObject(e),
           e.block # NoBlock => heap[e.block].kind = "word"
    PROVE  /\ Sound(heap, e)
           /\ \A g : Keys(g, e) = {} /\ BlocksOf(g, e) = {e.block} \ {NoBlock}
           /\ Owned(e) = {e.block} \ {NoBlock}
<1>1. ~IsAggregate(e) /\ e \in ObjectType /\ e.type # "none"
  BY DEF IsLeafObject, IsAggregate
<1>2. \A g : Keys(g, e) = {}
  BY <1>1 DEF Keys
<1>3. e.block \in Blocks \cup {NoBlock} /\ NoBlock \notin Blocks
  BY <1>1, ValueAssumption DEF ObjectType, ValueAssumption
<1>4. Sound(heap, e)
  BY <1>1, <1>2 DEF Sound
<1>5. \A g : BlocksOf(g, e) = {e.block} \ {NoBlock}
  BY <1>2, <1>3 DEF BlocksOf
<1> QED BY <1>2, <1>4, <1>5, OwnedIs

LEMMA Untouched ==
    ASSUME Owners(heap, object), NEW x \in Variables, NEW z \in Variables, z # x
    PROVE  BlocksOf(heap, object[z]) \cap (FreeOf(heap) \cup BlocksOf(heap, object[x])) = {}
<1>1. BlocksOf(heap, object[z]) \cap FreeOf(heap) = {}
  BY SoundInUse DEF Owners
<1>2. BlocksOf(heap, object[z]) \cap BlocksOf(heap, object[x]) = {}
  BY DEF Owners, Apart
<1> QED BY <1>1, <1>2

(* The variables outside S are what they were and own what they owned; a block is dropped   *)
(* if nobody owns it now, and it was not freed.                                          *)
OthersKeep(S) ==
    \A z \in Variables \ S :
       /\ object'[z] = object[z]
       /\ BlocksOf(heap', object'[z]) = BlocksOf(heap, object[z])
       /\ \A b \in BlocksOf(heap, object[z]) : heap'[b] = heap[b]

Dropped(b) == heap'[b] # Free /\ \A z \in Variables : b \notin BlocksOf(heap', object'[z])

(* One variable gets a new value, or two do, of which the second keeps no block.           *)
Within(x) == FreeOf(heap) \cup BlocksOf(heap, object[x])

LEMMA OneChanges ==
    ASSUME Owners(heap, object), NEW x \in Variables, NEW new \in ObjectType,
           IsHeap(heap'), object' = Assign(x, new), Sound(heap', new),
           BlocksOf(heap', new) \subseteq Within(x),
           \A b \in Blocks \ Within(x) : heap'[b] = heap[b]
    PROVE  Owners(heap', object') /\ OthersKeep({x})
<1>1. /\ object' \in [Variables -> ObjectType] /\ object'[x] = new
      /\ \A z \in Variables \ {x} : object'[z] = object[z]
  BY DEF Assign, Owners
<1>2. \A z \in Variables \ {x} : BlocksOf(heap, object[z]) \cap Within(x) = {}
  BY Untouched DEF Within
<1>3. LocalStep(heap, object, heap', object', {x}, Within(x))
  BY <1>1, <1>2 DEF LocalStep
<1>4. \A z \in Variables \ {x} : \A b \in BlocksOf(heap, object[z]) : heap'[b] = heap[b]
  BY <1>2 DEF BlocksOf
<1> QED BY <1>1, <1>3, <1>4, OwnershipIsLocal DEF OthersKeep

LEMMA TwoChange ==
    ASSUME Owners(heap, object), NEW x \in Variables, NEW y \in Variables, x # y,
           IsHeap(heap'), object' \in [Variables -> ObjectType],
           \A z \in Variables \ {x, y} : object'[z] = object[z],
           Sound(heap', object'[x]), Sound(heap', object'[y]), BlocksOf(heap', object'[y]) = {},
           BlocksOf(heap', object'[x]) \subseteq Within(x) \cup Within(y),
           \A b \in Blocks \ (Within(x) \cup Within(y)) : heap'[b] = heap[b]
    PROVE  Owners(heap', object') /\ OthersKeep({x, y})
<1> DEFINE touched == Within(x) \cup Within(y)
<1>1. \A z \in Variables \ {x, y} : BlocksOf(heap, object[z]) \cap touched = {}
  BY Untouched DEF Within
<1> HIDE DEF touched
<1>2. \A s \in {x, y} : Sound(heap', object'[s]) /\ BlocksOf(heap', object'[s]) \subseteq touched
  BY DEF touched
<1>3. \A s, t \in {x, y} : s # t => BlocksOf(heap', object'[s]) \cap BlocksOf(heap', object'[t]) = {}
  OBVIOUS
<1>4. LocalStep(heap, object, heap', object', {x, y}, touched)
  BY <1>1, <1>2, <1>3 DEF LocalStep, touched
<1>5. \A z \in Variables \ {x, y} : \A b \in BlocksOf(heap, object[z]) : heap'[b] = heap[b]
  BY <1>1 DEF BlocksOf, touched
<1> QED BY <1>4, <1>5, OwnershipIsLocal DEF OthersKeep

LEMMA MovedOne ==
    ASSUME IInv, NEW x \in Variables, NEW new, object' = Assign(x, new),
           moved' \ {x} = moved \ {x}, new = Dead => x \notin moved',
           new.type = "array" /\ new.block = NoBlock => x \in moved'
    PROVE  Movable(object', moved')
<1>1. /\ object'[x] = new
      /\ \A z \in Variables \ {x} : object'[z] = object[z]
  BY DEF Assign, IInv, Owners
<1>2. moved' \subseteq Variables
  BY DEF IInv, Movable
<1> QED BY <1>1, <1>2 DEF IInv, Movable

HandedOver(x, y, obj, new, mv) ==
    /\ \A z \in Variables \ {x, y} : new[z] = obj[z]
    /\ new[x].type # "none" /\ new[y].type # "none"
    /\ mv \in {(moved \ {x}) \cup {y}, moved \cup {y}}
    /\ ~(new[x].type = "array" /\ new[x].block = NoBlock)

LEMMA MovedTwo ==
    ASSUME IInv, NEW x \in Variables, NEW y \in Variables, HandedOver(x, y, object, object', moved')
    PROVE  Movable(object', moved')
<1> USE DEF HandedOver
<1>1. Dead.type = "none"
  BY DEF Dead, Object
<1>2. moved' \subseteq {z \in Variables : object'[z] # Dead}
  BY <1>1 DEF IInv, Movable
<1>3. \A z \in Variables \ {x} :
         object'[z].type = "array" /\ object'[z].block = NoBlock => z \in moved'
  BY DEF IInv, Movable
<1> QED BY <1>2, <1>3 DEF Movable

LEMMA LiveIs ==
    ASSUME IInv, NEW x \in Variables
    PROVE  /\ Sound(heap, object[x]) /\ object[x] \in ObjectType
           /\ Live(x) <=> object[x].type # "none"
           /\ Owned(object[x]) = BlocksOf(heap, object[x]) /\ FreeBlocks = FreeOf(heap)
<1>1. Sound(heap, object[x]) /\ object[x] \in ObjectType /\ IsHeap(heap)
  BY DEF IInv, Owners
<1>2. Dead.type = "none"
  BY DEF Dead, Object
<1> QED BY <1>1, <1>2, OwnedIs DEF Live, Sound

(* Every block that a step drops was owned by the object at some place whose own block is   *)
(* dropped too, and which holds a value of the same type afterwards.                      *)
DropsExplained ==
    \A x \in Variables : \A b \in BlocksOf(heap, object[x]) :
        Dropped(b) =>
            \E p \in Places : /\ b \in Owned(At(p)) /\ p \in Places' /\ At(p)'.type = At(p).type
                              /\ Dropped(At(p).block)
                              /\ At(p).block \in BlocksOf(heap, object[x])

LEMMA NothingDropped ==
    ASSUME NEW S, OthersKeep(S),
           \A s \in S : \A b \in BlocksOf(heap, object[s]) : ~Dropped(b)
    PROVE  DropsExplained
<1>1. ASSUME NEW x \in Variables, NEW b \in BlocksOf(heap, object[x]) PROVE ~Dropped(b)
  BY DEF OthersKeep, Dropped
<1> QED BY <1>1 DEF DropsExplained

(* An assignment drops all that its destination owned, or nothing.                         *)
LEMMA Overwritten ==
    ASSUME IInv, NEW x \in Variables, NEW y \in Variables, x # y, OthersKeep({x, y}),
           \A b \in BlocksOf(heap, object[y]) : ~Dropped(b),
           \A b \in BlocksOf(heap, object[x]) : Dropped(b) <=> object'[x].type = object[x].type
    PROVE  DropsExplained
<1>1. ASSUME NEW b \in BlocksOf(heap, object[x]), Dropped(b)
      PROVE  \E p \in Places : /\ b \in Owned(At(p)) /\ p \in Places' /\ At(p)'.type = At(p).type
                               /\ Dropped(At(p).block)
                               /\ At(p).block \in BlocksOf(heap, object[x])
  <2>1. <<x>> \in Places /\ <<x>> \in Places'
    BY DEF Places
  <2>2. At(<<x>>) = object[x] /\ At(<<x>>)' = object'[x]
    BY DEF At
  <2>3. Owned(object[x]) = BlocksOf(heap, object[x]) /\ object[x] \in ObjectType
    BY LiveIs
  <2>4. object[x].block \in BlocksOf(heap, object[x])
    BY <1>1, <2>3 DEF BlocksOf, Keys, ObjectType
  <2> QED BY <1>1, <2>1, <2>2, <2>3, <2>4
<1>2. ASSUME NEW z \in Variables \ {x}, NEW b \in BlocksOf(heap, object[z]) PROVE ~Dropped(b)
  BY <1>2 DEF OthersKeep, Dropped
<1> QED BY <1>1, <1>2 DEF DropsExplained

LEMMA DeadOwnsNothing ==
    ASSUME NEW x \in Variables, ~Live(x)
    PROVE  \A b \in BlocksOf(heap, object[x]) : ~Dropped(b)
<1>1. Dead.block = NoBlock /\ ~IsAggregate(Dead)
  BY DEF Dead, Object, IsAggregate
<1> QED BY <1>1, ValueAssumption DEF Live, BlocksOf, Keys, ValueAssumption

----------------------------------------------------------------------------------
LEMMA MakeInlineStep ==
    ASSUME IInv, NEW x \in Variables, MakeInline(x)
    PROVE  IInv' /\ DropsExplained /\ OthersKeep({x})
<1>1. PICK leaf \in Inline : object' = Assign(x, Object(leaf.type, leaf.val, NoBlock))
  BY DEF MakeInline
<1>2. PICK new : new = Object(leaf.type, leaf.val, NoBlock)
  OBVIOUS
<1>3. /\ new \in ObjectType /\ new.block = NoBlock /\ new.type \notin {"none", "array"}
      /\ new # Dead
  BY <1>2, ValueAssumption DEF Object, ObjectType, Types, Vals, Dead, ValueAssumption
<1>4. heap' = heap /\ moved' = moved
  BY DEF MakeInline
<1>5. Sound(heap, new) /\ BlocksOf(heap, new) = {}
  BY <1>3, NothingOwned
<1>6. Owners(heap', object') /\ OthersKeep({x})
  BY <1>1, <1>2, <1>3, <1>4, <1>5, OneChanges DEF IInv, Owners
<1>7. Movable(object', moved')
  BY <1>1, <1>2, <1>3, <1>4, MovedOne
<1>8. DropsExplained
  BY <1>6, DeadOwnsNothing, NothingDropped DEF MakeInline
<1> QED BY <1>6, <1>7, <1>8 DEF IInv

LEMMA MakeStructStep ==
    ASSUME IInv, NEW x \in Variables, MakeStruct(x)
    PROVE  IInv' /\ DropsExplained /\ OthersKeep({x})
<1>1. PICK new : new = Object("struct", 0, NoBlock)
  OBVIOUS
<1>2. /\ new \in ObjectType /\ new.block = NoBlock /\ new.type \notin {"none", "array"}
      /\ new # Dead
  BY <1>1 DEF Object, ObjectType, Types, Vals, Dead
<1>3. heap' = heap /\ moved' = moved /\ object' = Assign(x, new)
  BY <1>1 DEF MakeStruct
<1>4. Sound(heap, new) /\ BlocksOf(heap, new) = {}
  BY <1>2, NothingOwned
<1>5. Owners(heap', object') /\ OthersKeep({x})
  BY <1>2, <1>3, <1>4, OneChanges DEF IInv, Owners
<1>6. Movable(object', moved')
  BY <1>2, <1>3, MovedOne
<1>7. DropsExplained
  BY <1>5, DeadOwnsNothing, NothingDropped DEF MakeStruct
<1> QED BY <1>5, <1>6, <1>7 DEF IInv

(* A new block holds an integer, or elements that own nothing.                           *)
LEMMA MakeWithBlockStep ==
    ASSUME IInv, NEW x \in Variables, NEW type \in {"int", "array"}, NEW content,
           IsContent(content), MakeWithBlock(x, type, content),
           content.kind = (IF type = "array" THEN "elems" ELSE "word"),
           type = "array" => \A k \in DOMAIN content.at : content.at[k].block = NoBlock
    PROVE  IInv' /\ DropsExplained /\ OthersKeep({x})
<1>1. PICK b : b = NewBlock
  OBVIOUS
<1>2. b \in Blocks /\ b \in FreeOf(heap) /\ b # NoBlock
  BY <1>1, NewBlockIsFree, ValueAssumption DEF MakeWithBlock, FreeBlocks, FreeOf, ValueAssumption
<1>3. PICK new : new = Object(type, 0, b)
  OBVIOUS
<1>4. /\ object' = Assign(x, new) /\ heap' = [heap EXCEPT ![b] = content] /\ moved' = moved
      /\ IsHeap(heap)
  BY <1>1, <1>3 DEF MakeWithBlock, IInv, Owners
<1>5. IsHeap(heap') /\ heap'[b] = content /\ \A a \in Blocks \ {b} : heap'[a] = heap[a]
  BY <1>2, <1>4, HeapUpdate
<1>6. /\ new \in ObjectType /\ new.type = type /\ new.block = b /\ new # Dead
  BY <1>2, <1>3 DEF Object, ObjectType, Types, Vals, Dead
<1>7. \A k \in Keys(heap', new) : Element(heap', new, k).block = NoBlock
  BY <1>5, <1>6 DEF Keys, Element, IsAggregate
<1>8. Sound(heap', new)
  BY <1>2, <1>5, <1>6, <1>7 DEF Sound, IsAggregate
<1>9. BlocksOf(heap', new) \subseteq {b}
  BY <1>6, <1>7, ValueAssumption DEF BlocksOf, ValueAssumption
<1>10. Owners(heap', object') /\ OthersKeep({x})
  BY <1>2, <1>4, <1>5, <1>6, <1>8, <1>9, OneChanges DEF IInv, Within
<1>11. Movable(object', moved')
  BY <1>2, <1>4, <1>6, MovedOne
<1>12. DropsExplained
  BY <1>10, DeadOwnsNothing, NothingDropped DEF MakeWithBlock
<1> QED BY <1>10, <1>11, <1>12 DEF IInv

LEMMA MakeWideIntStep ==
    ASSUME IInv, NEW x \in Variables, MakeWideInt(x)
    PROVE  IInv' /\ DropsExplained /\ OthersKeep({x})
<1>1. PICK v \in WideInts : MakeWithBlock(x, "int", Word(v))
  BY DEF MakeWideInt
<1>2. IsContent(Word(v)) /\ Word(v).kind = "word"
  BY DEF IsContent, Word
<1> QED BY <1>1, <1>2, MakeWithBlockStep

LEMMA MakeArrayStep ==
    ASSUME IInv, NEW x \in Variables, MakeArray(x)
    PROVE  IInv' /\ DropsExplained /\ OthersKeep({x})
<1>1. PICK n \in Lengths : MakeWithBlock(x, "array", Elems([i \in 0 .. n - 1 |-> UndefObject]))
  BY DEF MakeArray
<1>2. n \in Nat \ {0}
  BY ValueAssumption DEF ValueAssumption
<1>3. PICK at : at = [i \in 0 .. n - 1 |-> UndefObject]
  OBVIOUS
<1>4. IsLeafObject(UndefObject) /\ UndefObject.block = NoBlock
  BY DEF UndefObject, IsLeafObject, Object, ObjectType, Types, Vals
<1>5. DOMAIN at = 0 .. n - 1 /\ IsFiniteSet(DOMAIN at) /\ DOMAIN at \subseteq Int /\ DOMAIN at # {}
  <2>1. n - 1 \in Int /\ IsFiniteSet(0 .. n - 1)
    BY <1>2, FS_Interval
  <2>2. 0 .. n - 1 \subseteq Int /\ 0 \in 0 .. n - 1
    BY <1>2
  <2> QED BY <1>3, <2>1, <2>2
<1>6. Elems(at).at = at /\ Elems(at).kind = "elems"
  BY DEF Elems
<1>7. \A k \in DOMAIN at : at[k] = UndefObject
  BY <1>3
<1>8. IsContent(Elems(at))
  BY <1>4, <1>5, <1>6, <1>7 DEF IsContent
<1> QED BY <1>1, <1>3, <1>4, <1>6, <1>7, <1>8, MakeWithBlockStep

LEMMA DestroyStep ==
    ASSUME IInv, NEW x \in Variables, Destroy(x)
    PROVE  IInv' /\ DropsExplained /\ OthersKeep({x})
<1>1. /\ IsHeap(heap) /\ heap' = FreeAll(heap, BlocksOf(heap, object[x]))
      /\ object' = Assign(x, Dead) /\ moved' = moved \ {x}
  BY LiveIs DEF IInv, Owners, Destroy
<1>2. Dead \in ObjectType /\ Dead.block = NoBlock /\ Dead.type = "none"
  BY DEF Dead, Object, ObjectType, Types, Vals
<1>3. Sound(heap', Dead) /\ BlocksOf(heap', Dead) = {}
  BY <1>2, NothingOwned
<1>4. IsHeap(heap') /\ \A b \in Blocks \ BlocksOf(heap, object[x]) : heap'[b] = heap[b]
  BY <1>1, FreeAllIs
<1>5. Owners(heap', object') /\ OthersKeep({x})
  BY <1>1, <1>2, <1>3, <1>4, OneChanges DEF IInv, Within
<1>6. Movable(object', moved')
  BY <1>1, <1>2, MovedOne
<1>7. \A b \in BlocksOf(heap, object[x]) : heap'[b] = Free
  BY <1>1, FreeAllIs DEF BlocksOf
<1>8. DropsExplained
  BY <1>5, <1>7, NothingDropped DEF Dropped
<1> QED BY <1>5, <1>6, <1>8 DEF IInv

LEMMA ClearedIs ==
    ASSUME IInv, NEW x \in Variables, NEW o
    PROVE  /\ ClearedFor(object[x], o) \subseteq BlocksOf(heap, object[x])
           /\ object[x].type # o.type => ClearedFor(object[x], o) = BlocksOf(heap, object[x])
  BY LiveIs DEF ClearedFor

(* An object that is the same value as another was before the step.                        *)
Copied(o, r) ==
    \E copy : /\ IsHeap(copy) /\ Sound(copy, r) /\ SameValue(heap, o, copy, r)
              /\ \A b \in BlocksOf(copy, r) : heap'[b] = copy[b]

(* The copy is made of free blocks; what the destination owned is freed, or lost.           *)
LEMMA CopyFromStep ==
    ASSUME IInv, NEW x \in Variables, NEW y \in Variables, x # y, CopyFrom(x, y)
    PROVE  IInv' /\ DropsExplained /\ OthersKeep({x}) /\ Copied(object[y], object'[x])
<1>1. PICK f : f = CopyMap(object[y])
  OBVIOUS
<1>2. PICK copy : copy = WithCopies(f)
  OBVIOUS
<1>3. PICK new : new = Renamed(object[y], f)
  OBVIOUS
<1>4. PICK cleared : cleared = ClearedFor(object[x], object[y])
  OBVIOUS
<1>5. /\ heap' = FreeAll(copy, cleared) /\ object' = Assign(x, new) /\ moved' = moved \ {x}
      /\ MemoryBound(Cardinality(Owned(object[y]))) /\ y \notin moved /\ Live(y)
  BY <1>1, <1>2, <1>3, <1>4 DEF CopyFrom, Readable
<1>6. IsHeap(heap) /\ Sound(heap, object[y]) /\ object[y] \in ObjectType /\ Sound(heap, object[x])
  BY DEF IInv, Owners
<1>7. f \in Injection(Owned(object[y]), FreeBlocks)
  BY <1>1, <1>5, <1>6, CopyFits
<1>8. /\ IsHeap(copy) /\ \A b \in Blocks \ FreeOf(heap) : copy[b] = heap[b]
      /\ Sound(copy, new) /\ BlocksOf(copy, new) \subseteq FreeOf(heap)
      /\ SameValue(heap, object[y], copy, new)
  BY <1>2, <1>3, <1>6, <1>7, CopyIsSound
<1>9. cleared \subseteq BlocksOf(heap, object[x]) /\ BlocksOf(heap, object[x]) \cap FreeOf(heap) = {}
  BY <1>4, <1>6, ClearedIs, SoundInUse
<1>10. IsHeap(heap') /\ \A b \in Blocks \ cleared : heap'[b] = copy[b]
  BY <1>5, <1>8, FreeAllIs
<1>11. \A b \in BlocksOf(copy, new) : heap'[b] = copy[b]
  BY <1>8, <1>9, <1>10 DEF FreeOf
<1>12. Sound(heap', new) /\ BlocksOf(heap', new) \subseteq FreeOf(heap)
  BY <1>8, <1>11, Undisturbed
<1>13. new \in ObjectType
  BY <1>12 DEF Sound
<1>14. Owners(heap', object') /\ OthersKeep({x})
  BY <1>5, <1>8, <1>9, <1>10, <1>12, <1>13, OneChanges DEF IInv, Within
<1>15. new.type = object[y].type /\ new.type # "none" /\ (new.block = NoBlock => object[y].block = NoBlock)
  <2>1. object[y].type # "none"
    BY <1>5, LiveIs
  <2>2. ASSUME object[y].block # NoBlock
        PROVE  f[object[y].block] \in Blocks /\ f[object[y].block] # NoBlock
    <3>1. object[y].block \in Owned(object[y])
      BY <1>6, <2>2, LiveIs DEF ObjectType, BlocksOf
    <3>2. f[object[y].block] \in FreeBlocks
      BY <1>7, <3>1 DEF Injection
    <3> QED BY <3>2, ValueAssumption DEF FreeBlocks, ValueAssumption
  <2> QED BY <1>3, <1>6, <2>1, <2>2, RenamedIs
<1>16. new # Dead
  BY <1>15 DEF Dead, Object
<1>17. ~(new.type = "array" /\ new.block = NoBlock)
  BY <1>5, <1>15 DEF IInv, Movable
<1>18. Movable(object', moved')
  BY <1>5, <1>16, <1>17, MovedOne
<1>19. object'[x] = new /\ object'[x].type = object[y].type
  BY <1>5, <1>15 DEF Assign, IInv, Owners
<1>20. ASSUME NEW b \in BlocksOf(heap, object[x])
       PROVE  Dropped(b) <=> object'[x].type = object[x].type
  <2>1. b \in Blocks /\ b \notin FreeOf(heap) /\ heap[b] # Free /\ copy[b] = heap[b]
    BY <1>8, <1>9 DEF BlocksOf, FreeOf
  <2>2. ASSUME NEW z \in Variables PROVE b \notin BlocksOf(heap', object'[z])
    <3>1. CASE z = x
      BY <1>12, <1>19, <2>1, <3>1
    <3>2. CASE z # x
      BY <1>14, <3>2, Untouched DEF IInv, OthersKeep
    <3> QED BY <3>1, <3>2
  <2>3. CASE object[x].type = object[y].type
    <3>1. heap'[b] = heap[b]
      BY <1>4, <1>10, <2>1, <2>3 DEF ClearedFor
    <3> QED BY <1>19, <2>1, <2>2, <2>3, <3>1 DEF Dropped
  <2>4. CASE object[x].type # object[y].type
    <3>1. b \in cleared
      BY <1>4, <2>4, ClearedIs
    <3>2. heap'[b] = Free
      BY <1>5, <1>8, <2>1, <3>1, FreeAllIs
    <3> QED BY <1>19, <2>4, <3>2 DEF Dropped
  <2> QED BY <2>3, <2>4
<1>21. DropsExplained
  <2>1. OthersKeep({x, y}) /\ \A b \in BlocksOf(heap, object[y]) : ~Dropped(b)
    BY <1>14 DEF OthersKeep, Dropped
  <2> QED BY <1>20, <2>1, Overwritten
<1>22. Copied(object[y], object'[x])
  BY <1>8, <1>11, <1>19 DEF Copied
<1> QED BY <1>14, <1>18, <1>21, <1>22 DEF IInv

(* The blocks go from one owner to another.                                             *)
LEMMA MoveFromStep ==
    ASSUME IInv, NEW x \in Variables, NEW y \in Variables, x # y, MoveFrom(x, y)
    PROVE  /\ IInv' /\ DropsExplained /\ OthersKeep({x, y})
           /\ object'[x] = object[y] /\ object'[y].type = object[y].type
           /\ \A b \in BlocksOf(heap, object[y]) : heap'[b] = heap[b]
<1>1. PICK cleared : cleared = ClearedFor(object[x], object[y])
  OBVIOUS
<1>2. /\ heap' = FreeAll(heap, cleared) /\ moved' = (moved \ {x}) \cup {y}
      /\ object' = [Assign(x, object[y]) EXCEPT ![y] = Emptied(object[y])]
      /\ y \notin moved /\ Live(y)
  BY <1>1 DEF MoveFrom, Readable
<1>3. /\ IsHeap(heap) /\ Sound(heap, object[y]) /\ object[y] \in ObjectType
      /\ object \in [Variables -> ObjectType] /\ object[y].type # "none"
  BY <1>2, LiveIs DEF IInv, Owners
<1>4. cleared \subseteq BlocksOf(heap, object[x])
  BY <1>1, ClearedIs
<1>5. IsHeap(heap') /\ \A b \in Blocks \ cleared : heap'[b] = heap[b]
  BY <1>2, <1>3, FreeAllIs
<1>6. BlocksOf(heap, object[y]) \cap BlocksOf(heap, object[x]) = {}
  BY Untouched DEF IInv
<1>7. \A b \in BlocksOf(heap, object[y]) : heap'[b] = heap[b]
  BY <1>4, <1>5, <1>6 DEF BlocksOf
<1>8. Sound(heap', object[y]) /\ BlocksOf(heap', object[y]) = BlocksOf(heap, object[y])
  BY <1>3, <1>7, Undisturbed
<1>9. /\ Emptied(object[y]) \in ObjectType /\ Sound(heap', Emptied(object[y]))
      /\ BlocksOf(heap', Emptied(object[y])) = {} /\ Emptied(object[y]).type = object[y].type
  BY <1>3, EmptiedIs
<1>10. /\ object' \in [Variables -> ObjectType]
       /\ object'[x] = object[y] /\ object'[y] = Emptied(object[y])
       /\ \A z \in Variables \ {x, y} : object'[z] = object[z]
  BY <1>2, <1>3, <1>9 DEF Assign
<1>11. Owners(heap', object') /\ OthersKeep({x, y})
  BY <1>4, <1>5, <1>8, <1>9, <1>10, TwoChange DEF IInv, Within
<1>12. Movable(object', moved')
  <2>1. ~(object[y].type = "array" /\ object[y].block = NoBlock)
    BY <1>2 DEF IInv, Movable
  <2>2. HandedOver(x, y, object, object', moved')
    BY <1>2, <1>3, <1>9, <1>10, <2>1 DEF HandedOver
  <2> QED BY <2>2, MovedTwo
<1>13. ASSUME NEW b \in BlocksOf(heap, object[x])
       PROVE  Dropped(b) <=> object'[x].type = object[x].type
  <2>1. b \in Blocks /\ heap[b] # Free
    BY SoundInUse DEF IInv, Owners, BlocksOf, FreeOf
  <2>2. ASSUME NEW z \in Variables PROVE b \notin BlocksOf(heap', object'[z])
    <3>1. CASE z \in {x, y}
      BY <1>6, <1>8, <1>9, <1>10, <3>1
    <3>2. CASE z \notin {x, y}
      BY <1>11, <3>2, Untouched DEF IInv, OthersKeep
    <3> QED BY <3>1, <3>2
  <2>3. CASE object[x].type = object[y].type
    <3>1. heap'[b] = heap[b]
      BY <1>1, <1>5, <2>1, <2>3 DEF ClearedFor
    <3> QED BY <1>10, <2>1, <2>2, <2>3, <3>1 DEF Dropped
  <2>4. CASE object[x].type # object[y].type
    <3>1. b \in cleared
      BY <1>1, <2>4, ClearedIs
    <3>2. heap'[b] = Free
      BY <1>2, <1>3, <2>1, <3>1, FreeAllIs
    <3> QED BY <1>10, <2>4, <3>2 DEF Dropped
  <2> QED BY <2>3, <2>4
<1>14. DropsExplained
  <2>1. \A b \in BlocksOf(heap, object[y]) : ~Dropped(b)
    BY <1>8, <1>10 DEF Dropped
  <2> QED BY <1>11, <1>13, <2>1, Overwritten
<1> QED BY <1>7, <1>9, <1>10, <1>11, <1>12, <1>14 DEF IInv

(* The leaf's block goes to the array; its old element's is freed, or lost.                 *)
LEMMA SetElementStep ==
    ASSUME IInv, NEW x \in Variables, NEW y \in Variables, x # y, NEW i, SetElement(x, i, y)
    PROVE  /\ IInv' /\ DropsExplained /\ OthersKeep({x, y})
           /\ object'[x] = object[x] /\ object'[y].type = object[y].type
           /\ i \in Keys(heap, object[x]) /\ Keys(heap', object[x]) = Keys(heap, object[x])
           /\ SameLeaf(heap, object[y], heap', Element(heap', object[x], i))
           /\ \A k \in Keys(heap, object[x]) \ {i} :
                 SameLeaf(heap, Element(heap, object[x], k), heap', Element(heap', object[x], k))
<1>1. PICK o : o = object[x]
  OBVIOUS
<1>2. PICK leaf : leaf = object[y]
  OBVIOUS
<1>3. PICK old : old = Element(heap, o, i)
  OBVIOUS
<1>4. PICK cleared : cleared = ClearedFor(old, leaf)
  OBVIOUS
<1>5. /\ heap' = [FreeAll(heap, cleared) EXCEPT ![o.block].at[i] = leaf]
      /\ object' = Assign(y, Emptied(leaf)) /\ moved' = moved \cup {y}
      /\ y \notin moved /\ Live(y) /\ ~IsAggregate(leaf)
      /\ x \notin moved /\ o.type = "array" /\ i \in DOMAIN heap[o.block].at
  BY <1>1, <1>2, <1>3, <1>4, Zenon DEF SetElement, Readable, IsLeaf, Element
<1>6. /\ IsHeap(heap) /\ Sound(heap, o) /\ Sound(heap, leaf) /\ o \in ObjectType /\ leaf \in ObjectType
      /\ object \in [Variables -> ObjectType] /\ leaf.type # "none"
  BY <1>1, <1>2, <1>5, LiveIs DEF IInv, Owners
<1>7. o.block \in Blocks /\ o.block # NoBlock /\ IsAggregate(o)
  BY <1>1, <1>5, <1>6, ValueAssumption DEF IInv, Movable, ObjectType, IsAggregate, ValueAssumption
<1>8. /\ Keys(heap, o) = DOMAIN heap[o.block].at /\ i \in Keys(heap, o)
      /\ heap[o.block].kind = "elems" /\ IsContent(heap[o.block])
      /\ o.block \in BlocksOf(heap, o)
  BY <1>5, <1>6, <1>7, SoundInUse DEF Keys, Sound
<1>9. PICK at : at = heap[o.block].at
  OBVIOUS
<1>10. /\ heap[o.block] = Elems(at) /\ IsFiniteSet(DOMAIN at) /\ DOMAIN at \subseteq Int
       /\ DOMAIN at # {} /\ \A k \in DOMAIN at : IsLeafObject(at[k])
  BY <1>8, <1>9, ContentKinds
<1>11. IsLeafObject(old) /\ (old.block # NoBlock => heap[old.block].kind = "word")
  BY <1>3, <1>6, <1>8, SoundInUse DEF Sound
<1>12. IsLeafObject(leaf) /\ (leaf.block # NoBlock => heap[leaf.block].kind = "word")
  BY <1>5, <1>6 DEF IsLeafObject, IsAggregate, Sound
<1>13. cleared \subseteq {old.block} \ {NoBlock}
  BY <1>4, <1>6, <1>11, LeafOwns DEF ClearedFor
<1>14. cleared \subseteq BlocksOf(heap, o) /\ o.block \notin cleared
  <2>1. old.block # NoBlock => old.block \in Blocks
    BY <1>11 DEF IsLeafObject, ObjectType
  <2> QED BY <1>3, <1>8, <1>11, <1>13, <2>1 DEF BlocksOf
<1>15. PICK new : new = [at EXCEPT ![i] = leaf]
  OBVIOUS
<1>16. DOMAIN new = DOMAIN at /\ new[i] = leaf /\ \A k \in DOMAIN at \ {i} : new[k] = at[k]
  BY <1>5, <1>9, <1>15
<1>17. IsContent(Elems(new)) /\ Elems(new).at = new /\ Elems(new).kind = "elems"
  <2>1. Elems(new).at = new /\ Elems(new).kind = "elems"
    BY DEF Elems
  <2> QED BY <1>10, <1>12, <1>16, <2>1 DEF IsContent
<1>18. PICK freed : freed = FreeAll(heap, cleared)
  OBVIOUS
<1>19. IsHeap(freed) /\ \A b \in Blocks \ cleared : freed[b] = heap[b]
  BY <1>6, <1>18, FreeAllIs
<1>20. heap' = [freed EXCEPT ![o.block] = Elems(new)]
  <2>1. freed[o.block] = Elems(at) /\ freed[o.block].at = at
    BY <1>7, <1>9, <1>10, <1>14, <1>19
  <2>2. [freed[o.block] EXCEPT !.at = new] = Elems(new)
    BY <2>1 DEF Elems
  <2>3. heap' = [freed EXCEPT ![o.block] = [freed[o.block] EXCEPT !.at = [freed[o.block].at EXCEPT ![i] = leaf]]]
    BY <1>5, <1>18
  <2> QED BY <1>15, <2>1, <2>2, <2>3
<1>21. IsHeap(heap') /\ heap'[o.block] = Elems(new) /\ \A b \in Blocks \ (cleared \cup {o.block}) : heap'[b] = heap[b]
  BY <1>7, <1>17, <1>19, <1>20 DEF IsHeap
<1>22. BlocksOf(heap, leaf) \cap BlocksOf(heap, o) = {} /\ BlocksOf(heap, leaf) = {leaf.block} \ {NoBlock}
  BY <1>1, <1>2, <1>6, <1>12, Untouched, LeafOwns DEF IInv
<1>23. Keys(heap', o) = Keys(heap, o)
  BY <1>7, <1>8, <1>9, <1>16, <1>17, <1>21 DEF Keys
<1>24. /\ Element(heap', o, i) = leaf
       /\ \A k \in Keys(heap, o) \ {i} : Element(heap', o, k) = Element(heap, o, k)
  BY <1>8, <1>9, <1>16, <1>17, <1>21 DEF Element
<1>25. ASSUME NEW k \in Keys(heap, o) \ {i}, Element(heap, o, k).block # NoBlock
       PROVE  /\ heap'[Element(heap, o, k).block].kind = "word"
              /\ heap'[Element(heap, o, k).block] = heap[Element(heap, o, k).block]
              /\ Element(heap, o, k).block \in BlocksOf(heap, o)
              /\ Element(heap, o, k).block # leaf.block
  <2>1. Element(heap, o, k).block \in Blocks
    BY <1>6, <1>25, SoundInUse DEF IsLeafObject, ObjectType
  <2>2. Element(heap, o, k).block # old.block /\ heap[Element(heap, o, k).block].kind = "word"
    BY <1>3, <1>6, <1>8, <1>25 DEF Sound
  <2>3. Element(heap, o, k).block \in BlocksOf(heap, o)
    BY <1>25, <2>1 DEF BlocksOf
  <2>4. Element(heap, o, k).block \notin cleared \cup {o.block}
    BY <1>8, <1>13, <2>2
  <2> QED BY <1>21, <1>22, <1>25, <2>1, <2>2, <2>3, <2>4
<1>26. leaf.block # NoBlock => /\ heap'[leaf.block].kind = "word" /\ leaf.block \in Blocks
                              /\ heap'[leaf.block] = heap[leaf.block]
  BY <1>8, <1>12, <1>14, <1>21, <1>22 DEF BlocksOf
<1>27. Sound(heap', o)
  <2>1. heap'[o.block].kind = "elems"
    BY <1>17, <1>21
  <2>2. ASSUME NEW k \in Keys(heap', o), Element(heap', o, k).block # NoBlock
        PROVE  /\ heap'[Element(heap', o, k).block].kind = "word"
               /\ \A l \in Keys(heap', o) : Element(heap', o, l).block = Element(heap', o, k).block => l = k
    <3>1. CASE k = i
      BY <1>23, <1>24, <1>25, <1>26, <2>2, <3>1
    <3>2. CASE k # i
      <4>1. heap'[Element(heap', o, k).block].kind = "word"
        BY <1>23, <1>24, <1>25, <2>2, <3>2
      <4>2. ASSUME NEW l \in Keys(heap', o), Element(heap', o, l).block = Element(heap', o, k).block
            PROVE  l = k
        <5>1. l # i
          BY <1>23, <1>24, <1>25, <2>2, <3>2, <4>2
        <5> QED BY <1>6, <1>23, <1>24, <2>2, <3>2, <4>2, <5>1 DEF Sound
      <4> QED BY <4>1, <4>2
    <3> QED BY <3>1, <3>2
  <2> QED BY <1>6, <1>7, <2>1, <2>2 DEF Sound
<1>28. BlocksOf(heap', o) \subseteq BlocksOf(heap, o) \cup BlocksOf(heap, leaf)
  BY <1>8, <1>22, <1>23, <1>24 DEF BlocksOf
<1>29. /\ Emptied(leaf) \in ObjectType /\ Sound(heap', Emptied(leaf))
       /\ BlocksOf(heap', Emptied(leaf)) = {} /\ Emptied(leaf).type = leaf.type
  BY <1>6, EmptiedIs
<1>30. /\ object' \in [Variables -> ObjectType]
       /\ object'[x] = o /\ object'[y] = Emptied(leaf)
       /\ \A z \in Variables \ {x, y} : object'[z] = object[z]
  BY <1>1, <1>5, <1>6, <1>29 DEF Assign
<1>31. Owners(heap', object') /\ OthersKeep({x, y})
  BY <1>1, <1>2, <1>8, <1>14, <1>21, <1>27, <1>28, <1>29, <1>30, TwoChange DEF IInv, Within
<1>32. Movable(object', moved')
  <2>1. HandedOver(x, y, object, object', moved')
    BY <1>5, <1>6, <1>7, <1>29, <1>30 DEF HandedOver
  <2> QED BY <2>1, MovedTwo
<1>33. <<x, i>> \in Places /\ <<x, i>> \in Places' /\ At(<<x, i>>) = old /\ At(<<x, i>>)' = leaf
  <2>1. /\ FieldsOf(o) = heap[o.block].at /\ DOMAIN FieldsOf(o) = Keys(heap, o)
        /\ FieldsOf(o)' = heap'[o.block].at /\ DOMAIN FieldsOf(o)' = Keys(heap, o)
    BY <1>7, <1>8, <1>9, <1>16, <1>17, <1>21 DEF FieldsOf
  <2>2. <<x, i>> \in Places /\ <<x, i>> \in Places'
    BY <1>1, <1>7, <1>8, <1>30, <2>1 DEF Places
  <2>3. Len(<<x, i>>) # 1 /\ <<x, i>>[1] = x /\ <<x, i>>[2] = i
    OBVIOUS
  <2>4. At(<<x, i>>) = FieldsOf(o)[i] /\ At(<<x, i>>)' = FieldsOf(o)'[i]
    BY <1>1, <1>30, <2>3 DEF At
  <2> QED BY <1>3, <1>24, <2>1, <2>2, <2>4 DEF Element
<1>34. ASSUME NEW b \in BlocksOf(heap, o), Dropped(b)
       PROVE  b = old.block /\ old.type = leaf.type /\ b # NoBlock
  <2>1. b \notin BlocksOf(heap', o) /\ b \in Blocks
    BY <1>30, <1>34 DEF Dropped, BlocksOf
  <2>2. b = o.block \/ \E k \in Keys(heap, o) : b = Element(heap, o, k).block
    BY <1>34 DEF BlocksOf
  <2>3. b = old.block
    BY <1>3, <1>23, <1>24, <2>1, <2>2 DEF BlocksOf
  <2>4. b \notin cleared
    <3>1. ASSUME b \in cleared PROVE heap'[b] = Free
      <4>1. freed[b] = Free
        BY <1>6, <1>18, <2>1, <3>1, FreeAllIs
      <4> QED BY <1>14, <1>19, <1>20, <2>1, <3>1, <4>1 DEF IsHeap
    <3> QED BY <1>34, <3>1 DEF Dropped
  <2>5. b # NoBlock
    BY <2>1, ValueAssumption DEF ValueAssumption
  <2> QED BY <1>4, <1>6, <1>11, <2>3, <2>4, <2>5, LeafOwns DEF ClearedFor
<1>35. ASSUME NEW b \in BlocksOf(heap, o), Dropped(b)
       PROVE  \E p \in Places : /\ b \in Owned(At(p)) /\ p \in Places' /\ At(p)'.type = At(p).type
                                /\ Dropped(At(p).block)
                                /\ At(p).block \in BlocksOf(heap, o)
  <2>1. b = old.block /\ old.type = leaf.type /\ b # NoBlock
    BY <1>34, <1>35
  <2>2. b \in Owned(old)
    BY <1>6, <1>11, <2>1, LeafOwns
  <2> QED BY <1>33, <1>35, <2>1, <2>2
<1>36. DropsExplained
  <2>1. BlocksOf(heap, leaf) \subseteq BlocksOf(heap', object'[x])
    BY <1>8, <1>22, <1>23, <1>24, <1>30 DEF BlocksOf
  <2>2. \A z \in Variables \ {x} : \A b \in BlocksOf(heap, object[z]) : ~Dropped(b)
    BY <1>2, <1>31, <2>1 DEF OthersKeep, Dropped
  <2> QED BY <1>1, <1>35, <2>2 DEF DropsExplained
<1>37. /\ SameLeaf(heap, leaf, heap', Element(heap', o, i))
       /\ \A k \in Keys(heap, o) \ {i} : SameLeaf(heap, Element(heap, o, k), heap', Element(heap', o, k))
  BY <1>24, <1>25, <1>26 DEF SameLeaf
<1> QED BY <1>1, <1>2, <1>8, <1>23, <1>29, <1>30, <1>31, <1>32, <1>36, <1>37 DEF IInv

(* The leaf's block goes to the struct, which gets a block of its own with the first field. *)
LEMMA AddFieldStep ==
    ASSUME IInv, NEW x \in Variables, NEW y \in Variables, x # y, NEW offset \in Offsets,
           AddField(x, offset, y)
    PROVE  /\ IInv' /\ DropsExplained /\ OthersKeep({x, y})
           /\ object'[x].type = "struct" /\ object'[y].type = object[y].type
           /\ object'[x] # Dead
           /\ \A k \in Keys(heap, object[x]) : k < offset
           /\ Keys(heap', object'[x]) = Keys(heap, object[x]) \cup {offset}
           /\ SameLeaf(heap, object[y], heap', Element(heap', object'[x], offset))
           /\ \A k \in Keys(heap, object[x]) :
                 SameLeaf(heap, Element(heap, object[x], k), heap', Element(heap', object'[x], k))
<1>1. PICK o : o = object[x]
  OBVIOUS
<1>2. PICK leaf : leaf = object[y]
  OBVIOUS
<1>3. PICK fields : fields = FieldsOf(o)
  OBVIOUS
<1>4. PICK block : block = IF o.block = NoBlock THEN NewBlock ELSE o.block
  OBVIOUS
<1>5. PICK new : new = [k \in DOMAIN fields \cup {offset} |-> IF k = offset THEN leaf ELSE fields[k]]
  OBVIOUS
<1>6. PICK r : r = [o EXCEPT !.block = block]
  OBVIOUS
<1>7. /\ heap' = [heap EXCEPT ![block] = Elems(new)]
      /\ object' = [Assign(y, Emptied(leaf)) EXCEPT ![x].block = block]
      /\ moved' = moved \cup {y} /\ y \notin moved /\ Live(y) /\ ~IsAggregate(leaf)
      /\ o.type = "struct" /\ \A k \in DOMAIN fields : k < offset
      /\ o.block = NoBlock => MemoryBound(1)
  BY <1>1, <1>2, <1>3, <1>4, <1>5 DEF AddField, Readable, IsLeaf
<1>8. /\ IsHeap(heap) /\ Sound(heap, o) /\ Sound(heap, leaf) /\ o \in ObjectType /\ leaf \in ObjectType
      /\ object \in [Variables -> ObjectType] /\ leaf.type # "none"
  BY <1>1, <1>2, <1>7, LiveIs DEF IInv, Owners
<1>9. offset \in Int /\ offset \notin DOMAIN fields
  BY <1>7, ValueAssumption DEF ValueAssumption
<1>10. IsAggregate(o) /\ o.block \in Blocks \cup {NoBlock} /\ NoBlock \notin Blocks
  BY <1>7, <1>8, ValueAssumption DEF IsAggregate, ObjectType, ValueAssumption
<1>11. /\ DOMAIN fields = Keys(heap, o) /\ IsFiniteSet(DOMAIN fields) /\ DOMAIN fields \subseteq Int
       /\ \A k \in Keys(heap, o) : fields[k] = Element(heap, o, k)
  <2>1. CASE o.block = NoBlock
    <3>1. fields = <<>> /\ Keys(heap, o) = {}
      BY <1>3, <2>1 DEF FieldsOf, Keys
    <3>2. DOMAIN fields = {}
      BY <3>1
    <3> QED BY <3>1, <3>2, FS_EmptySet
  <2>2. CASE o.block # NoBlock
    <3>1. fields = heap[o.block].at /\ Keys(heap, o) = DOMAIN fields
      BY <1>3, <1>10, <2>2 DEF FieldsOf, Keys
    <3>2. heap[o.block].kind = "elems" /\ IsContent(heap[o.block])
      BY <1>8, <1>10, <2>2, SoundInUse DEF Sound
    <3> QED BY <3>1, <3>2, ContentKinds DEF Element
  <2> QED BY <2>1, <2>2
<1>12. block \in Blocks /\ block # NoBlock /\ block \in Within(x) /\ heap[block].kind # "word"
  <2>1. CASE o.block = NoBlock
    <3>1. block \in FreeBlocks
      BY <1>4, <1>7, <2>1, NewBlockIsFree
    <3> QED BY <1>10, <3>1 DEF Within, FreeBlocks, FreeOf, Free
  <2>2. CASE o.block # NoBlock
    BY <1>1, <1>4, <1>8, <1>10, <2>2, SoundInUse DEF Within, Sound
  <2> QED BY <2>1, <2>2
<1>13. IsLeafObject(leaf) /\ (leaf.block # NoBlock => heap[leaf.block].kind = "word")
  BY <1>7, <1>8 DEF IsLeafObject, IsAggregate, Sound
<1>14. \A k \in Keys(heap, o) : IsLeafObject(Element(heap, o, k))
  BY <1>8, SoundInUse
<1>15. /\ DOMAIN new = Keys(heap, o) \cup {offset} /\ new[offset] = leaf
       /\ \A k \in Keys(heap, o) : new[k] = Element(heap, o, k)
  BY <1>5, <1>9, <1>11
<1>16. IsContent(Elems(new)) /\ Elems(new).at = new /\ Elems(new).kind = "elems"
  <2>1. Elems(new).at = new /\ Elems(new).kind = "elems"
    BY DEF Elems
  <2>2. IsFiniteSet(DOMAIN new) /\ DOMAIN new \subseteq Int
    BY <1>9, <1>11, <1>15, FS_AddElement
  <2> QED BY <1>13, <1>14, <1>15, <2>1, <2>2 DEF IsContent
<1>17. IsHeap(heap') /\ heap'[block] = Elems(new) /\ \A b \in Blocks \ {block} : heap'[b] = heap[b]
  BY <1>7, <1>8, <1>12, <1>16, HeapUpdate
<1>18. r \in ObjectType /\ r.type = "struct" /\ r.block = block /\ IsAggregate(r)
  BY <1>6, <1>7, <1>8, <1>12 DEF ObjectType, IsAggregate
<1>19. Keys(heap', r) = DOMAIN new /\ \A k \in DOMAIN new : Element(heap', r, k) = new[k]
  BY <1>12, <1>16, <1>17, <1>18 DEF Keys, Element
<1>20. BlocksOf(heap, leaf) \cap BlocksOf(heap, o) = {} /\ BlocksOf(heap, leaf) = {leaf.block} \ {NoBlock}
  BY <1>1, <1>2, <1>8, <1>13, Untouched, LeafOwns DEF IInv
<1>21. ASSUME NEW k \in Keys(heap, o), Element(heap, o, k).block # NoBlock
       PROVE  /\ heap'[Element(heap, o, k).block].kind = "word"
              /\ heap'[Element(heap, o, k).block] = heap[Element(heap, o, k).block]
              /\ Element(heap, o, k).block \in BlocksOf(heap, o)
              /\ Element(heap, o, k).block # leaf.block
  <2>1. Element(heap, o, k).block \in Blocks
    BY <1>8, <1>21, SoundInUse DEF IsLeafObject, ObjectType
  <2>2. heap[Element(heap, o, k).block].kind = "word"
    BY <1>8, <1>21 DEF Sound
  <2>3. Element(heap, o, k).block \in BlocksOf(heap, o)
    BY <2>1 DEF BlocksOf
  <2> QED BY <1>12, <1>17, <1>20, <1>21, <2>1, <2>2, <2>3
<1>22. leaf.block # NoBlock => heap'[leaf.block].kind = "word" /\ heap'[leaf.block] = heap[leaf.block]
  BY <1>12, <1>13, <1>17 DEF IsLeafObject, ObjectType
<1>23. Sound(heap', r)
  <2>1. heap'[r.block].kind = "elems"
    BY <1>16, <1>17, <1>18
  <2>2. ASSUME NEW k \in Keys(heap', r), Element(heap', r, k).block # NoBlock
        PROVE  /\ heap'[Element(heap', r, k).block].kind = "word"
               /\ \A l \in Keys(heap', r) : Element(heap', r, l).block = Element(heap', r, k).block => l = k
    <3>1. CASE k = offset
      BY <1>15, <1>19, <1>21, <1>22, <2>2, <3>1
    <3>2. CASE k # offset
      <4>1. k \in Keys(heap, o) /\ Element(heap', r, k) = Element(heap, o, k)
        BY <1>15, <1>19, <2>2, <3>2
      <4>2. heap'[Element(heap', r, k).block].kind = "word"
        BY <1>21, <2>2, <4>1
      <4>3. ASSUME NEW l \in Keys(heap', r), Element(heap', r, l).block = Element(heap', r, k).block
            PROVE  l = k
        <5>1. l \in Keys(heap, o) /\ Element(heap', r, l) = Element(heap, o, l)
          BY <1>15, <1>19, <1>21, <2>2, <4>1, <4>3
        <5> QED BY <1>8, <2>2, <4>1, <4>3, <5>1 DEF Sound
      <4> QED BY <4>2, <4>3
    <3> QED BY <3>1, <3>2
  <2> QED BY <1>18, <2>1, <2>2 DEF Sound
<1>24. BlocksOf(heap', r) \subseteq Within(x) \cup Within(y)
  <2>1. ASSUME NEW b \in BlocksOf(heap', r)
        PROVE  b = block \/ b = leaf.block \/ b \in BlocksOf(heap, o)
    BY <1>15, <1>18, <1>19, <2>1 DEF BlocksOf
  <2>2. BlocksOf(heap', r) \subseteq Blocks
    BY DEF BlocksOf
  <2> QED BY <1>1, <1>2, <1>10, <1>12, <1>20, <2>1, <2>2 DEF Within
<1>25. /\ Emptied(leaf) \in ObjectType /\ Sound(heap', Emptied(leaf))
       /\ BlocksOf(heap', Emptied(leaf)) = {} /\ Emptied(leaf).type = leaf.type
  BY <1>8, EmptiedIs
<1>26. /\ object' \in [Variables -> ObjectType]
       /\ object'[x] = r /\ object'[y] = Emptied(leaf)
       /\ \A z \in Variables \ {x, y} : object'[z] = object[z]
  <2>1. PICK emptied : emptied = Assign(y, Emptied(leaf))
    OBVIOUS
  <2>2. /\ emptied \in [Variables -> ObjectType] /\ emptied[y] = Emptied(leaf) /\ emptied[x] = o
        /\ \A z \in Variables \ {y} : emptied[z] = object[z]
    BY <1>1, <1>8, <1>25, <2>1 DEF Assign
  <2>3. object' = [emptied EXCEPT ![x] = r]
    BY <1>6, <1>7, <2>1, <2>2
  <2> QED BY <1>18, <2>2, <2>3
<1>27. Owners(heap', object') /\ OthersKeep({x, y})
  BY <1>12, <1>17, <1>23, <1>24, <1>25, <1>26, TwoChange DEF IInv
<1>28. Movable(object', moved')
  <2>1. HandedOver(x, y, object, object', moved')
    BY <1>7, <1>8, <1>12, <1>18, <1>25, <1>26 DEF HandedOver
  <2> QED BY <2>1, MovedTwo
<1>29. DropsExplained
  <2>1. BlocksOf(heap', r) = BlocksOf(heap', object'[x])
    BY <1>26
  <2>2. BlocksOf(heap, leaf) \subseteq BlocksOf(heap', r)
    BY <1>15, <1>19, <1>20 DEF BlocksOf
  <2>3. BlocksOf(heap, o) \subseteq BlocksOf(heap', r)
    <3>1. ASSUME NEW b \in Blocks, b = o.block PROVE b = r.block
      BY <1>4, <1>10, <1>18, <3>1
    <3>2. \A k \in Keys(heap, o) : k \in Keys(heap', r) /\ Element(heap', r, k) = Element(heap, o, k)
      BY <1>15, <1>19
    <3> QED BY <3>1, <3>2 DEF BlocksOf
  <2> QED BY <1>1, <1>2, <1>27, <2>1, <2>2, <2>3, NothingDropped DEF Dropped
<1>30. /\ SameLeaf(heap, leaf, heap', Element(heap', r, offset))
       /\ \A k \in Keys(heap, o) : SameLeaf(heap, Element(heap, o, k), heap', Element(heap', r, k))
  <2>1. ASSUME NEW k \in Keys(heap, o)
        PROVE  SameLeaf(heap, Element(heap, o, k), heap', Element(heap', r, k))
    BY <1>15, <1>19, <1>21 DEF SameLeaf
  <2>2. Element(heap', r, offset) = leaf
    BY <1>15, <1>19
  <2> QED BY <1>22, <2>1, <2>2 DEF SameLeaf
<1>31. object'[x].type = "struct" /\ object'[x] # Dead /\ object'[y].type = leaf.type
  BY <1>18, <1>25, <1>26 DEF Dead, Object
<1>32. Keys(heap', object'[x]) = Keys(heap, o) \cup {offset} /\ \A k \in Keys(heap, o) : k < offset
  BY <1>7, <1>11, <1>15, <1>19, <1>26
<1> QED BY <1>1, <1>2, <1>26, <1>27, <1>28, <1>29, <1>30, <1>31, <1>32 DEF IInv

RankedKey(D, n) == CHOOSE k \in D : Cardinality({l \in D : l < k}) = n - 1

(* Numbering finitely many integers from below gives each of them one number.            *)
LEMMA Ranks ==
    ASSUME NEW D, IsFiniteSet(D), D \subseteq Int
    PROVE  /\ Cardinality(D) \in Nat
           /\ \A n \in 1 .. Cardinality(D) :
                 /\ RankedKey(D, n) \in D
                 /\ Cardinality({l \in D : l < RankedKey(D, n)}) = n - 1
           /\ \A k \in D : /\ Cardinality({l \in D : l < k}) \in 0 .. Cardinality(D) - 1
                           /\ RankedKey(D, Cardinality({l \in D : l < k}) + 1) = k
<1> DEFINE Below(k) == {l \in D : l < k}
           rank == [k \in D |-> Cardinality(Below(k))]
<1>1. PICK N \in Nat : N = Cardinality(D)
  BY FS_CardinalityType
<1>2. ASSUME NEW k \in D
      PROVE  IsFiniteSet(Below(k)) /\ Cardinality(Below(k)) \in 0 .. N - 1
  <2>1. Below(k) \in SUBSET D /\ Below(k) # D
    <3>1. k \notin Below(k)
      OBVIOUS
    <3> QED BY <3>1
  <2>2. IsFiniteSet(Below(k)) /\ Cardinality(Below(k)) <= N /\ Cardinality(Below(k)) # N
    BY <1>1, <2>1, FS_Subset
  <2> QED BY <1>1, <2>2, FS_CardinalityType
<1>3. ASSUME NEW k \in D, NEW l \in D, k < l
      PROVE  Cardinality(Below(k)) # Cardinality(Below(l))
  <2>1. Below(k) \in SUBSET Below(l) /\ k \in Below(l) /\ k \notin Below(k)
    <3>1. ~(k < k) /\ \A j \in D : j < k => j < l
      BY <1>3
    <3> QED BY <1>3, <3>1
  <2>2. IsFiniteSet(Below(l))
    BY <1>2
  <2> HIDE DEF Below
  <2>3. Cardinality(Below(k)) = Cardinality(Below(l)) => Below(l) = Below(k)
    BY <2>1, <2>2, FS_Subset
  <2> QED BY <2>1, <2>3
<1>4. ASSUME NEW k \in D, NEW l \in D, Cardinality(Below(k)) = Cardinality(Below(l))
      PROVE  k = l
  <2>1. ~(k < l) /\ ~(l < k) /\ k \in Int /\ l \in Int
    BY <1>3, <1>4
  <2> QED BY <2>1
<1>5. rank \in Injection(D, 0 .. N - 1)
  <2>1. rank \in [D -> 0 .. N - 1]
    BY <1>2
  <2>2. ASSUME NEW k \in DOMAIN rank, NEW l \in DOMAIN rank, rank[k] = rank[l] PROVE k = l
    <3>1. k \in D /\ l \in D /\ Cardinality(Below(k)) = Cardinality(Below(l))
      BY <2>2
    <3> QED BY <1>4, <3>1
  <2> HIDE DEF rank
  <2> QED BY <2>1, <2>2 DEF Injection, IsInjective
<1>6. IsFiniteSet(0 .. N - 1) /\ Cardinality(0 .. N - 1) = N
  <2>1. N - 1 \in Int /\ ~(0 > N - 1 /\ N # 0)
    BY <1>1
  <2> QED BY <1>1, <2>1, FS_Interval
<1>7. rank \in Surjection(D, 0 .. N - 1)
  BY <1>1, <1>5, <1>6, FS_Injection
<1>8. ASSUME NEW n \in 1 .. N
      PROVE  RankedKey(D, n) \in D /\ Cardinality(Below(RankedKey(D, n))) = n - 1
  <2>1. n - 1 \in 0 .. N - 1
    BY <1>1
  <2>2. PICK k \in D : rank[k] = n - 1
    BY <1>7, <2>1 DEF Surjection
  <2>3. Cardinality({l \in D : l < k}) = n - 1
    BY <2>2
  <2> QED BY <2>3 DEF RankedKey
<1>9. ASSUME NEW k \in D
      PROVE  RankedKey(D, Cardinality(Below(k)) + 1) = k
  <2>1. PICK n : n = Cardinality(Below(k)) + 1
    OBVIOUS
  <2>2. n \in 1 .. N /\ n - 1 = Cardinality(Below(k))
    BY <1>1, <1>2, <2>1
  <2>3. RankedKey(D, n) \in D /\ Cardinality(Below(RankedKey(D, n))) = Cardinality(Below(k))
    BY <1>8, <2>2
  <2> QED BY <1>4, <2>1, <2>3
<1> QED BY <1>1, <1>2, <1>8, <1>9

(* The n-th key of an aggregate is one of its keys.                                      *)
LEMMA KeyAtIs ==
    ASSUME NEW at, IsFiniteSet(DOMAIN at), DOMAIN at \subseteq Int,
           NEW n \in 1 .. Cardinality(DOMAIN at)
    PROVE  KeyAt(at, n) \in DOMAIN at
<1>1. KeyAt(at, n) = RankedKey(DOMAIN at, n)
  BY DEF KeyAt, RankedKey
<1> QED BY <1>1, Ranks

(* The element is copied into blocks of its own.                                        *)
LEMMA GetElementStep ==
    ASSUME IInv, NEW x \in Variables, NEW y \in Variables, x # y, NEW n, GetElement(x, y, n)
    PROVE  /\ IInv' /\ DropsExplained /\ OthersKeep({x})
           /\ object[y].block # NoBlock
           /\ Copied(Element(heap, object[y], KeyAt(FieldsOf(object[y]), n)), object'[x])
<1>1. PICK o : o = object[y]
  OBVIOUS
<1>2. PICK fields : fields = FieldsOf(o)
  OBVIOUS
<1>3. PICK element : element = fields[KeyAt(fields, n)]
  OBVIOUS
<1>4. PICK f : f = CopyMap(element)
  OBVIOUS
<1>5. PICK new : new = Renamed(element, f)
  OBVIOUS
<1>6. /\ ~Live(x) /\ n \in 1 .. Cardinality(DOMAIN fields) /\ IsAggregate(o)
      /\ MemoryBound(Cardinality(Owned(element)))
      /\ heap' = WithCopies(f) /\ object' = Assign(x, new) /\ moved' = moved
  BY <1>1, <1>2, <1>3, <1>4, <1>5 DEF GetElement
<1>7. IsHeap(heap) /\ Sound(heap, o)
  BY <1>1 DEF IInv, Owners
<1>8. o.block # NoBlock
  <2>1. SUFFICES ASSUME o.block = NoBlock PROVE FALSE
    OBVIOUS
  <2>2. fields = <<>>
    BY <1>2, <2>1 DEF FieldsOf
  <2>3. DOMAIN fields = {}
    BY <2>2
  <2>4. Cardinality(DOMAIN fields) = 0
    BY <2>3, FS_EmptySet
  <2> QED BY <1>6, <2>4
<1>9. o.block \in Blocks /\ heap[o.block].kind = "elems" /\ IsContent(heap[o.block])
  BY <1>6, <1>7, <1>8, SoundInUse DEF Sound, ObjectType
<1>10. fields = heap[o.block].at /\ DOMAIN fields = Keys(heap, o)
  BY <1>2, <1>6, <1>8 DEF FieldsOf, Keys
<1>11. KeyAt(fields, n) \in Keys(heap, o)
  <2>1. IsFiniteSet(DOMAIN fields) /\ DOMAIN fields \subseteq Int
    BY <1>9, <1>10, ContentKinds
  <2> QED BY <1>6, <1>10, <2>1, KeyAtIs
<1>12. IsLeafObject(element) /\ (element.block # NoBlock => heap[element.block].kind = "word")
  <2>1. element = Element(heap, o, KeyAt(fields, n))
    BY <1>3, <1>10 DEF Element
  <2> QED BY <1>7, <1>11, <2>1, SoundInUse DEF Sound
<1>13. Sound(heap, element) /\ Owned(element) = {element.block} \ {NoBlock}
  BY <1>7, <1>12, LeafOwns
<1>14. f \in Injection(Owned(element), FreeBlocks)
  BY <1>4, <1>6, <1>7, <1>13, CopyFits
<1>15. /\ IsHeap(heap') /\ \A b \in Blocks \ FreeOf(heap) : heap'[b] = heap[b]
       /\ Sound(heap', new) /\ BlocksOf(heap', new) \subseteq FreeOf(heap)
       /\ SameValue(heap, element, heap', new)
  BY <1>5, <1>6, <1>7, <1>13, <1>14, CopyIsSound
<1>16. new \in ObjectType
  BY <1>15 DEF Sound
<1>17. Owners(heap', object') /\ OthersKeep({x})
  BY <1>6, <1>15, <1>16, OneChanges DEF IInv, Within
<1>18. new.type = element.type
  <2>1. element.block # NoBlock => f[element.block] \in Blocks
    BY <1>13, <1>14 DEF Injection, FreeBlocks
  <2> QED BY <1>5, <1>12, <2>1, RenamedIs DEF IsLeafObject
<1>19. new # Dead /\ new.type # "array"
  BY <1>12, <1>18 DEF IsLeafObject, Dead, Object
<1>20. Movable(object', moved')
  BY <1>6, <1>19, MovedOne
<1>21. DropsExplained
  BY <1>6, <1>17, DeadOwnsNothing, NothingDropped
<1>22. object'[x] = new
  BY <1>6 DEF Assign, IInv, Owners
<1>23. Copied(element, object'[x])
  BY <1>15, <1>22 DEF Copied
<1>24. element = Element(heap, o, KeyAt(fields, n))
  BY <1>3, <1>10 DEF Element
<1> QED BY <1>1, <1>2, <1>8, <1>17, <1>20, <1>21, <1>23, <1>24 DEF IInv

----------------------------------------------------------------------------------
LEMMA InitIInv == Init => IInv
<1> SUFFICES ASSUME Init PROVE IInv
  OBVIOUS
<1>1. Dead \in ObjectType /\ Dead.block = NoBlock /\ Dead.type = "none"
  BY DEF Dead, Object, ObjectType, Types, Vals
<1>2. Sound(heap, Dead) /\ BlocksOf(heap, Dead) = {}
  BY <1>1, NothingOwned
<1>3. IsHeap(heap)
  BY DEF Init, IsHeap
<1>4. object = [x \in Variables |-> Dead] /\ moved = {}
  BY DEF Init
<1>5. Owners(heap, object)
  BY <1>1, <1>2, <1>3, <1>4 DEF Owners, Apart
<1>6. Movable(object, moved)
  BY <1>1, <1>4 DEF Movable
<1> QED BY <1>5, <1>6 DEF IInv

LEMMA StepKeeps ==
    ASSUME IInv, Step
    PROVE  IInv' /\ DropsExplained
<1> DEFINE Goal == IInv' /\ DropsExplained
<1>1. ASSUME NEW x \in Variables
      PROVE  (MakeInline(x) \/ MakeWideInt(x) \/ MakeArray(x) \/ MakeStruct(x) \/ Destroy(x)) => Goal
  BY MakeInlineStep, MakeWideIntStep, MakeArrayStep, MakeStructStep, DestroyStep
<1>2. ASSUME NEW x \in Variables, NEW y \in Variables, x # y
      PROVE  /\ CopyConstruct(x, y) \/ CopyAssign(x, y) => Goal
             /\ MoveConstruct(x, y) \/ MoveAssign(x, y) => Goal
             /\ \A i : SetElement(x, i, y) => Goal
             /\ \A offset \in Offsets : AddField(x, offset, y) => Goal
             /\ \A n : GetElement(x, y, n) => Goal
  BY <1>2, CopyFromStep, MoveFromStep, SetElementStep, AddFieldStep, GetElementStep
     DEF CopyConstruct, CopyAssign, MoveConstruct, MoveAssign
<1> HIDE DEF Goal
<1>3. Goal
  BY <1>1, <1>2 DEF Step
<1> QED BY <1>3 DEF Goal

LEMMA NextIInv == IInv /\ [Next]_vars => IInv'
<1>1. ASSUME IInv, UNCHANGED vars PROVE IInv'
  BY <1>1 DEF IInv, vars
<1> QED BY <1>1, StepKeeps DEF Next

LEMMA Invariance == Spec => []IInv
<1>1. Init => IInv
  BY InitIInv
<1>2. IInv /\ [Next]_vars => IInv'
  BY NextIInv
<1> QED BY <1>1, <1>2, PTL DEF Spec

----------------------------------------------------------------------------------
(* The union agrees with the type (DynamicValue.h:140-150): the blocks in use hold what the   *)
(* objects that point to them read, and a moved-from object is still an object.            *)
THEOREM TypeCorrect == Spec => []TypeOK
<1>1. IInv => TypeOK
  <2> SUFFICES ASSUME IInv PROVE TypeOK
    OBVIOUS
  <2>1. object \in [Variables -> ObjectType] /\ moved \subseteq {x \in Variables : Live(x)}
    BY DEF IInv, Owners, Movable, Live
  <2>2. ASSUME NEW b \in Blocks \ FreeBlocks
        PROVE  \/ heap[b].kind = "word" /\ heap[b].value \in WideInts
               \/ /\ heap[b].kind = "elems" /\ DOMAIN heap[b].at # {}
                  /\ \A e \in Range(heap[b].at) :
                        e \in ObjectType /\ ~IsAggregate(e) /\ e.type # "none"
    <3>1. IsContent(heap[b])
      BY <2>2 DEF IInv, Owners, IsHeap, FreeBlocks
    <3>2. CASE \E v \in WideInts : heap[b] = Word(v)
      BY <3>2 DEF Word
    <3>3. CASE heap[b] = Elems(heap[b].at)
      <4>1. heap[b].kind = "elems"
        BY <3>3 DEF Elems
      <4>2. DOMAIN heap[b].at # {} /\ \A k \in DOMAIN heap[b].at : IsLeafObject(heap[b].at[k])
        BY <3>1, <4>1, ContentKinds
      <4> QED BY <4>1, <4>2 DEF Range, IsLeafObject, IsAggregate
    <3> QED BY <3>1, <3>2, <3>3 DEF IsContent
  <2> QED BY <2>1, <2>2 DEF TypeOK
<1> QED BY <1>1, Invariance, PTL

(* The places of TLC's property are the variables and the elements of their aggregates.     *)
LEMMA PlacesAre ==
    ASSUME IInv, NEW p \in Places
    PROVE  \E x \in Variables :
              \/ p = <<x>> /\ At(p) = object[x]
              \/ \E k \in Keys(heap, object[x]) :
                    p = <<x, k>> /\ At(p) = Element(heap, object[x], k)
<1>1. CASE \E x \in Variables : p = <<x>>
  BY <1>1 DEF At
<1>2. CASE \E x \in Variables : /\ IsAggregate(object[x]) /\ object[x].block # NoBlock
                                /\ \E k \in DOMAIN FieldsOf(object[x]) : p = <<x, k>>
  <2>1. PICK x \in Variables : /\ IsAggregate(object[x]) /\ object[x].block # NoBlock
                               /\ \E k \in DOMAIN FieldsOf(object[x]) : p = <<x, k>>
    BY <1>2
  <2>2. PICK k \in DOMAIN FieldsOf(object[x]) : p = <<x, k>>
    BY <2>1
  <2>3. /\ FieldsOf(object[x]) = heap[object[x].block].at
        /\ Keys(heap, object[x]) = DOMAIN FieldsOf(object[x])
    BY <2>1 DEF FieldsOf, Keys
  <2>4. Len(p) = 2 /\ p[1] = x /\ p[2] = k
    BY <2>2
  <2>5. At(p) = Element(heap, object[x], k)
    BY <2>3, <2>4 DEF At, Element
  <2> QED BY <2>2, <2>3, <2>5
<1> QED BY <1>1, <1>2 DEF Places

(* What is at a place is in use, and owned by the variable of the place.                    *)
LEMMA PlaceOwned ==
    ASSUME IInv, NEW p \in Places, At(p).block # NoBlock
    PROVE  \E x \in Variables :
              /\ At(p).block \in BlocksOf(heap, object[x]) /\ heap[At(p).block] # Free
              /\ \/ /\ p = <<x>> /\ At(p) = object[x]
                    /\ Keys(heap, object[x]) # {} => heap[At(p).block].kind = "elems"
                 \/ \E k \in Keys(heap, object[x]) :
                       /\ p = <<x, k>> /\ At(p) = Element(heap, object[x], k)
                       /\ heap[At(p).block].kind = "word"
<1>1. PICK x \in Variables :
         \/ p = <<x>> /\ At(p) = object[x]
         \/ \E k \in Keys(heap, object[x]) : p = <<x, k>> /\ At(p) = Element(heap, object[x], k)
  BY PlacesAre
<1>2. IsHeap(heap) /\ Sound(heap, object[x])
  BY DEF IInv, Owners
<1>3. BlocksOf(heap, object[x]) \cap FreeOf(heap) = {} /\ BlocksOf(heap, object[x]) \subseteq Blocks
  BY <1>2, SoundInUse DEF BlocksOf
<1>4. CASE p = <<x>> /\ At(p) = object[x]
  <2>1. object[x].block \in BlocksOf(heap, object[x])
    BY <1>2, <1>4 DEF Sound, ObjectType, BlocksOf
  <2>2. Keys(heap, object[x]) # {} => heap[object[x].block].kind = "elems"
    BY <1>2 DEF Keys, Sound
  <2> QED BY <1>3, <1>4, <2>1, <2>2 DEF FreeOf
<1>5. ASSUME NEW k \in Keys(heap, object[x]), p = <<x, k>>, At(p) = Element(heap, object[x], k)
      PROVE  /\ At(p).block \in BlocksOf(heap, object[x]) /\ heap[At(p).block] # Free
             /\ heap[At(p).block].kind = "word"
  <2>1. At(p).block \in Blocks
    BY <1>2, <1>5, SoundInUse DEF IsLeafObject, ObjectType
  <2>2. At(p).block \in BlocksOf(heap, object[x])
    BY <1>5, <2>1 DEF BlocksOf
  <2>3. heap[At(p).block].kind = "word"
    BY <1>2, <1>5 DEF Sound
  <2> QED BY <1>3, <2>2, <2>3 DEF FreeOf
<1> QED BY <1>1, <1>4, <1>5

(* No block of the C++ heap ever has two owners, and none that has an owner is free: the     *)
(* destructors, clear() and the special members of DynamicValue.cpp free a block once, and  *)
(* no object is left with a block that another has freed.                                 *)
THEOREM NothingFreedTwice == Spec => []OwnedOnce
<1>1. IInv => OwnedOnce
  <2> SUFFICES ASSUME IInv, NEW p \in Places, At(p).block # NoBlock
               PROVE  /\ heap[At(p).block] # Free
                      /\ \A q \in Places : At(q).block = At(p).block => q = p
    BY DEF OwnedOnce
  <2>1. heap[At(p).block] # Free
    BY PlaceOwned
  <2>2. ASSUME NEW q \in Places, At(q).block = At(p).block PROVE q = p
    <3>1. PICK x \in Variables :
              /\ At(p).block \in BlocksOf(heap, object[x])
              /\ \/ /\ p = <<x>> /\ At(p) = object[x]
                    /\ Keys(heap, object[x]) # {} => heap[At(p).block].kind = "elems"
                 \/ \E k \in Keys(heap, object[x]) :
                       /\ p = <<x, k>> /\ At(p) = Element(heap, object[x], k)
                       /\ heap[At(p).block].kind = "word"
      BY PlaceOwned, Zenon
    <3>2. PICK y \in Variables :
              /\ At(q).block \in BlocksOf(heap, object[y])
              /\ \/ /\ q = <<y>> /\ At(q) = object[y]
                    /\ Keys(heap, object[y]) # {} => heap[At(q).block].kind = "elems"
                 \/ \E k \in Keys(heap, object[y]) :
                       /\ q = <<y, k>> /\ At(q) = Element(heap, object[y], k)
                       /\ heap[At(q).block].kind = "word"
      BY <2>2, PlaceOwned, Zenon
    <3>3. x = y
      BY <2>2, <3>1, <3>2 DEF IInv, Owners, Apart
    <3>4. Sound(heap, object[x])
      BY DEF IInv, Owners
    <3>5. CASE p = <<x>> /\ q = <<y>>
      BY <3>3, <3>5
    <3>6. ASSUME NEW k \in Keys(heap, object[x]), NEW l \in Keys(heap, object[x]),
                 p = <<x, k>>, q = <<y, l>>, At(p) = Element(heap, object[x], k),
                 At(q) = Element(heap, object[y], l)
          PROVE  q = p
      <4>1. l = k
        BY <2>2, <3>3, <3>4, <3>6 DEF Sound
      <4> QED BY <3>3, <3>6, <4>1
    <3> QED BY <2>2, <3>1, <3>2, <3>3, <3>5, <3>6
  <2> QED BY <2>1, <2>2
<1> QED BY <1>1, Invariance, PTL

(* What the variables own together, and what of it a step loses.                           *)
OwnersAre ==
    \A b : b \in OwnedBySomeone <=> \E x \in Variables : b \in BlocksOf(heap, object[x])

LEMMA OwnedBySomeoneIs == IInv => OwnersAre
  BY LiveIs DEF OwnedBySomeone, OwnersAre

LEMMA LostIsDropped ==
    ASSUME IInv, IInv', NEW b
    PROVE  b \in LostBlocks <=> Dropped(b) /\ \E x \in Variables : b \in BlocksOf(heap, object[x])
<1>1. b \in OwnedBySomeone <=> \E x \in Variables : b \in BlocksOf(heap, object[x])
  BY OwnedBySomeoneIs DEF OwnersAre
<1>2. OwnersAre'
  BY OwnedBySomeoneIs, PTL
<1>3. b \in OwnedBySomeone' <=> \E x \in Variables : b \in BlocksOf(heap', object'[x])
  BY <1>2 DEF OwnersAre
<1>4. b \in OwnedBySomeone => b \in Blocks
  BY <1>1 DEF BlocksOf
<1> QED BY <1>1, <1>3, <1>4 DEF LostBlocks, Dropped

(* Storage is lost in one way only (operator=, DynamicValue.cpp:149-169): an assignment, of  *)
(* a variable or of an element, that finds a value of the same type in its destination.    *)
THEOREM LeaksExplained == Spec => LeaksOnlyOverSameType
<1> DEFINE Explained ==
             \A b \in LostBlocks :
                 \E p \in Places : /\ b \in Owned(At(p)) /\ At(p).block \in LostBlocks
                                   /\ p \in Places' /\ At(p)'.type = At(p).type
<1>1. ASSUME IInv, IInv', Step PROVE Explained
  <2> SUFFICES ASSUME NEW b \in LostBlocks
               PROVE  \E p \in Places : /\ b \in Owned(At(p)) /\ At(p).block \in LostBlocks
                                        /\ p \in Places' /\ At(p)'.type = At(p).type
    OBVIOUS
  <2>1. PICK x \in Variables : b \in BlocksOf(heap, object[x]) /\ Dropped(b)
    BY <1>1, LostIsDropped
  <2>2. DropsExplained
    BY <1>1, StepKeeps
  <2>3. PICK p \in Places : /\ b \in Owned(At(p)) /\ p \in Places' /\ At(p)'.type = At(p).type
                            /\ Dropped(At(p).block)
                            /\ At(p).block \in BlocksOf(heap, object[x])
    BY <2>1, <2>2 DEF DropsExplained
  <2>4. At(p).block \in LostBlocks
    BY <1>1, <2>3, LostIsDropped
  <2> QED BY <2>3, <2>4
<1>2. IInv /\ IInv' /\ [Next]_vars => [Explained]_vars
  BY <1>1 DEF Next
<1>3. Spec => [][Explained]_vars
  BY <1>2, Invariance, PTL DEF Spec
<1> QED BY <1>3 DEF LeaksOnlyOverSameType

----------------------------------------------------------------------------------
(* ------------------------------ values, and who sees them --------------------------- *)

(* The values that the model's operators read in the heap, with the heap as an argument.  *)
LeafAt(h, o) ==
    IF o.block = NoBlock THEN [type |-> o.type, val |-> o.val]
    ELSE [type |-> o.type, val |-> h[o.block].value]

ElemsAt(h, o) ==
    [n \in 1 .. Cardinality(Keys(h, o)) |-> LeafAt(h, Element(h, o, RankedKey(Keys(h, o), n)))]

ValueAt(h, o) ==
    IF ~IsAggregate(o) THEN LeafAt(h, o) ELSE [type |-> o.type, elems |-> ElemsAt(h, o)]

HeldAt(h, obj, mv, x) ==
    IF obj[x] = Dead THEN Gone("nothing")
    ELSE IF x \in mv THEN Gone("unspecified") ELSE ValueAt(h, obj[x])

ContentsHeld == Contents = [x \in Variables |-> HeldAt(heap, object, moved, x)]

LEMMA ContentsAre == ContentsHeld
<1>1. ASSUME NEW o PROVE ValueOf(o) = ValueAt(heap, o)
  <2>1. CASE ~IsAggregate(o)
    BY <2>1 DEF ValueOf, ValueAt, LeafValue, LeafAt
  <2>2. CASE IsAggregate(o)
    <3>1. /\ DOMAIN FieldsOf(o) = Keys(heap, o)
          /\ \A k \in Keys(heap, o) : FieldsOf(o)[k] = Element(heap, o, k)
      <4>1. CASE o.block = NoBlock
        <5>1. FieldsOf(o) = <<>> /\ Keys(heap, o) = {}
          BY <4>1 DEF FieldsOf, Keys
        <5>2. DOMAIN FieldsOf(o) = {}
          BY <5>1
        <5> QED BY <5>1, <5>2
      <4>2. CASE o.block # NoBlock
        BY <2>2, <4>2 DEF FieldsOf, Keys, Element
      <4> QED BY <4>1, <4>2
    <3>2. PICK at, D : at = FieldsOf(o) /\ D = Keys(heap, o)
      OBVIOUS
    <3>3. ASSUME NEW n \in 1 .. Cardinality(D)
          PROVE  LeafValue(at[KeyAt(at, n)]) = LeafAt(heap, Element(heap, o, RankedKey(D, n)))
      <4>1. KeyAt(at, n) = RankedKey(D, n)
        BY <3>1, <3>2 DEF KeyAt, RankedKey
      <4>2. at[RankedKey(D, n)] = Element(heap, o, RankedKey(D, n))
        <5>1. CASE o.block = NoBlock
          <6>1. D = {}
            BY <3>2, <5>1 DEF Keys
          <6>2. Cardinality(D) = 0
            BY <6>1, FS_EmptySet
          <6> QED BY <6>2
        <5>2. CASE o.block # NoBlock
          BY <3>2, <5>2 DEF FieldsOf, Element
        <5> QED BY <5>1, <5>2
      <4> QED BY <4>1, <4>2 DEF LeafValue, LeafAt
    <3>4. ValueOf(o) = [type |-> o.type,
                        elems |-> [n \in 1 .. Cardinality(D) |-> LeafValue(at[KeyAt(at, n)])]]
      BY <2>2, <3>1, <3>2 DEF ValueOf
    <3>5. [n \in 1 .. Cardinality(D) |-> LeafValue(at[KeyAt(at, n)])] = ElemsAt(heap, o)
      BY <3>2, <3>3 DEF ElemsAt
    <3> QED BY <2>2, <3>4, <3>5 DEF ValueAt
  <2> QED BY <2>1, <2>2
<1>2. \A x \in Variables : HeldAt(heap, object, moved, x) =
         IF ~Live(x) THEN Gone("nothing")
         ELSE IF x \in moved THEN Gone("unspecified") ELSE ValueOf(object[x])
  BY <1>1 DEF HeldAt, Live
<1> QED BY <1>2 DEF ContentsHeld, Contents

(* A key above all others is the last.                                                  *)
LEMMA LastRank ==
    ASSUME NEW D, IsFiniteSet(D), D \subseteq Int, NEW m \in Int, \A k \in D : k < m
    PROVE  /\ Cardinality(D \cup {m}) = Cardinality(D) + 1
           /\ RankedKey(D \cup {m}, Cardinality(D) + 1) = m
           /\ \A n \in 1 .. Cardinality(D) : RankedKey(D \cup {m}, n) = RankedKey(D, n)
<1> DEFINE E == D \cup {m}
<1>1. m \notin D
  OBVIOUS
<1>2. IsFiniteSet(E) /\ Cardinality(E) = Cardinality(D) + 1 /\ E \subseteq Int
  BY <1>1, FS_AddElement
<1>3. {l \in E : l < m} = D
  <2>1. ~(m < m)
    OBVIOUS
  <2>2. \A l : l \in E /\ l < m <=> l \in D
    BY <2>1
  <2> QED BY <2>2
<1>4. RankedKey(E, Cardinality(D) + 1) = m
  <2>1. m \in E
    OBVIOUS
  <2> HIDE DEF E
  <2>2. RankedKey(E, Cardinality({l \in E : l < m}) + 1) = m
    BY <1>2, <2>1, Ranks
  <2> QED BY <1>3, <2>2
<1>5. ASSUME NEW n \in 1 .. Cardinality(D) PROVE RankedKey(E, n) = RankedKey(D, n)
  <2>1. PICK k : k = RankedKey(D, n)
    OBVIOUS
  <2>2. k \in D /\ Cardinality({l \in D : l < k}) = n - 1
    BY <2>1, Ranks
  <2>3. {l \in E : l < k} = {l \in D : l < k}
    <3>1. k < m /\ k \in Int /\ ~(m < k)
      BY <2>2
    <3>2. \A l : l \in E /\ l < k <=> l \in D /\ l < k
      BY <3>1
    <3> QED BY <3>2
  <2>4. RankedKey(E, Cardinality({l \in E : l < k}) + 1) = k
    BY <1>2, <2>2, Ranks
  <2>5. Cardinality({l \in E : l < k}) + 1 = n
    BY <2>2, <2>3, Ranks
  <2> QED BY <2>1, <2>4, <2>5
<1> QED BY <1>2, <1>4, <1>5

(* What a variable of the store may hold.                                               *)
StoreValues ==
    {Gone("nothing"), Gone("unspecified")} \cup Leaves
    \cup [type : {"array", "struct"}, elems : Seq(Leaves)]

Held(x) == HeldAt(heap, object, moved, x)

StoreTyped == \A x \in Variables : Held(x) \in StoreValues

LEMMA LeafFacts ==
    /\ \A leaf \in Leaves : /\ leaf = [type |-> leaf.type, val |-> leaf.val]
                            /\ leaf.type \in {"undef", "int", "float", "ptr"}
    /\ \A how : Gone(how).type = how
    /\ [type |-> "undef", val |-> 0] \in Leaves
<1>1. \A v : [type |-> "int", val |-> v].type = "int" /\ [type |-> "int", val |-> v].val = v
  OBVIOUS
<1> QED BY <1>1, ValueAssumption DEF ValueAssumption, Leaves, Gone

LEMMA KeysFinite ==
    ASSUME NEW h, IsHeap(h), NEW o, Sound(h, o)
    PROVE  IsFiniteSet(Keys(h, o)) /\ Keys(h, o) \subseteq Int /\ Cardinality(Keys(h, o)) \in Nat
<1>1. CASE Keys(h, o) = {}
  BY <1>1, FS_EmptySet
<1>2. CASE Keys(h, o) # {}
  <2>1. IsAggregate(o) /\ o.block # NoBlock /\ Keys(h, o) = DOMAIN h[o.block].at
    BY <1>2 DEF Keys
  <2>2. o.block \in Blocks /\ h[o.block].kind = "elems"
    BY <2>1 DEF Sound, ObjectType
  <2>3. IsContent(h[o.block])
    BY <2>2, SoundInUse
  <2> QED BY <2>1, <2>2, <2>3, ContentKinds, FS_CardinalityType
<1> QED BY <1>1, <1>2

LEMMA SameLeafIs ==
    ASSUME NEW h, NEW o, NEW g, NEW r, SameLeaf(h, o, g, r)
    PROVE  LeafAt(g, r) = LeafAt(h, o)
  BY DEF SameLeaf, LeafAt

LEMMA SameIs ==
    ASSUME NEW h, IsHeap(h), NEW o, Sound(h, o), NEW g, NEW r, SameValue(h, o, g, r)
    PROVE  ValueAt(g, r) = ValueAt(h, o)
<1>1. IsAggregate(r) <=> IsAggregate(o)
  BY DEF SameValue, IsAggregate
<1>2. CASE ~IsAggregate(o)
  BY <1>1, <1>2, SameLeafIs DEF SameValue, ValueAt
<1>3. CASE IsAggregate(o)
  <2>1. Keys(g, r) = Keys(h, o) /\ r.type = o.type
    BY <1>3 DEF SameValue
  <2>2. ASSUME NEW n \in 1 .. Cardinality(Keys(h, o))
        PROVE  LeafAt(g, Element(g, r, RankedKey(Keys(h, o), n)))
               = LeafAt(h, Element(h, o, RankedKey(Keys(h, o), n)))
    <3>1. RankedKey(Keys(h, o), n) \in Keys(h, o)
      BY KeysFinite, Ranks
    <3> QED BY <1>3, <3>1, SameLeafIs DEF SameValue
  <2>3. ElemsAt(g, r) = ElemsAt(h, o)
    BY <2>1, <2>2 DEF ElemsAt
  <2> QED BY <1>1, <1>3, <2>1, <2>3 DEF ValueAt
<1> QED BY <1>2, <1>3

LEMMA UndisturbedSame ==
    ASSUME NEW h, NEW g, IsHeap(h), NEW o, Sound(h, o), \A b \in BlocksOf(h, o) : g[b] = h[b]
    PROVE  SameValue(h, o, g, o) /\ ValueAt(g, o) = ValueAt(h, o)
<1>1. o.block # NoBlock => o.block \in Blocks /\ g[o.block] = h[o.block]
  BY SoundInUse DEF Sound, ObjectType
<1>2. Keys(g, o) = Keys(h, o) /\ \A k \in Keys(h, o) : Element(g, o, k) = Element(h, o, k)
  BY <1>1 DEF Keys, Element
<1>3. ASSUME NEW k \in Keys(h, o), Element(h, o, k).block # NoBlock
      PROVE  g[Element(h, o, k).block] = h[Element(h, o, k).block]
  <2>1. Element(h, o, k).block \in Blocks
    BY <1>3, SoundInUse DEF IsLeafObject, ObjectType
  <2> QED BY <2>1 DEF BlocksOf
<1>4. SameValue(h, o, g, o)
  BY <1>1, <1>2, <1>3 DEF SameValue, SameLeaf
<1> QED BY <1>4, SameIs

(* A variable that a step does not name holds what it held.                             *)
LEMMA Elsewhere ==
    ASSUME IInv, NEW S, OthersKeep(S), NEW z \in Variables \ S, z \in moved' <=> z \in moved
    PROVE  Held(z)' = Held(z)
<1>1. object'[z] = object[z] /\ \A b \in BlocksOf(heap, object[z]) : heap'[b] = heap[b]
  BY DEF OthersKeep
<1>2. ValueAt(heap', object[z]) = ValueAt(heap, object[z])
  BY <1>1, UndisturbedSame DEF IInv, Owners
<1> QED BY <1>1, <1>2 DEF Held, HeldAt

(* An object that can be read holds a value, and the store says which.                    *)
LEMMA ReadableHeld ==
    ASSUME IInv, StoreTyped, NEW x \in Variables, Readable(x)
    PROVE  /\ Held(x) = ValueAt(heap, object[x])
           /\ Held(x) \notin {Gone("nothing"), Gone("unspecified")}
           /\ Held(x) \in Leaves <=> ~IsAggregate(object[x])
           /\ IsAggregate(object[x]) =>
                 /\ Held(x) = [type |-> object[x].type, elems |-> ElemsAt(heap, object[x])]
                 /\ ElemsAt(heap, object[x]) \in Seq(Leaves)
<1>1. Held(x) = ValueAt(heap, object[x]) /\ Held(x) \in StoreValues
  BY DEF Held, HeldAt, Readable, Live, StoreTyped
<1>2. object[x].type \in Types /\ object[x].type # "none"
  BY LiveIs DEF Readable, ObjectType
<1>3. Held(x).type = object[x].type
  BY <1>1 DEF ValueAt, LeafAt
<1>4. Held(x) \notin {Gone("nothing"), Gone("unspecified")}
  BY <1>2, <1>3, LeafFacts DEF Types
<1>5. CASE ~IsAggregate(object[x])
  BY <1>1, <1>3, <1>4, <1>5 DEF StoreValues, IsAggregate
<1>6. CASE IsAggregate(object[x])
  <2>1. Held(x) = [type |-> object[x].type, elems |-> ElemsAt(heap, object[x])]
    BY <1>1, <1>6 DEF ValueAt
  <2>2. Held(x) \notin Leaves
    BY <1>3, <1>6, LeafFacts DEF IsAggregate
  <2>3. Held(x) \in [type : {"array", "struct"}, elems : Seq(Leaves)]
    BY <1>1, <1>4, <2>2 DEF StoreValues
  <2>4. ElemsAt(heap, object[x]) = Held(x).elems
    BY <2>1
  <2> QED BY <1>1, <1>4, <1>6, <2>1, <2>2, <2>3, <2>4
<1> QED BY <1>1, <1>4, <1>5, <1>6

(* The two ways in which a step changes the store.                                       *)
LEMMA GivenIs ==
    ASSUME StoreTyped, NEW x \in Variables, NEW v \in StoreValues, Held(x)' = v,
           \A z \in Variables \ {x} : Held(z)' = Held(z)
    PROVE  StoreTyped' /\ Contents' = [Contents EXCEPT ![x] = v]
<1>1. Contents = [z \in Variables |-> Held(z)]
  BY ContentsAre DEF ContentsHeld, Held
<1>2. ContentsHeld'
  BY ContentsAre, PTL
<1>3. Contents' = [z \in Variables |-> Held(z)']
  BY <1>2 DEF ContentsHeld, Held
<1>4. StoreTyped'
  BY DEF StoreTyped
<1> QED BY <1>1, <1>3, <1>4

LEMMA HandedIs ==
    ASSUME StoreTyped, NEW x \in Variables, NEW y \in Variables, x # y,
           NEW v \in StoreValues, Held(x)' = v, Held(y)' = Gone("unspecified"),
           \A z \in Variables \ {x, y} : Held(z)' = Held(z)
    PROVE  StoreTyped' /\ Contents' = [Contents EXCEPT ![x] = v, ![y] = Gone("unspecified")]
<1>1. Contents = [z \in Variables |-> Held(z)]
  BY ContentsAre DEF ContentsHeld, Held
<1>2. ContentsHeld'
  BY ContentsAre, PTL
<1>3. Contents' = [z \in Variables |-> Held(z)']
  BY <1>2 DEF ContentsHeld, Held
<1>4. StoreTyped'
  BY DEF StoreTyped, StoreValues
<1> QED BY <1>1, <1>3, <1>4

LEMMA ContentsAt ==
    \A x \in Variables : Contents[x] = Held(x)
  BY ContentsAre DEF ContentsHeld, Held

LEMMA OneGiven ==
    ASSUME IInv, StoreTyped, NEW x \in Variables, OthersKeep({x}), moved' \ {x} = moved \ {x},
           NEW v \in StoreValues, Held(x)' = v
    PROVE  StoreTyped' /\ Contents' = [Contents EXCEPT ![x] = v]
<1>1. ASSUME NEW z \in Variables \ {x} PROVE Held(z)' = Held(z)
  BY Elsewhere
<1> QED BY <1>1, GivenIs

LEMMA OneHanded ==
    ASSUME IInv, StoreTyped, NEW x \in Variables, NEW y \in Variables, x # y, OthersKeep({x, y}),
           moved' \ {x, y} = moved \ {x, y}, y \in moved', object'[y] # Dead,
           NEW v \in StoreValues, Held(x)' = v
    PROVE  StoreTyped' /\ Contents' = [Contents EXCEPT ![x] = v, ![y] = Gone("unspecified")]
<1>1. ASSUME NEW z \in Variables \ {x, y} PROVE Held(z)' = Held(z)
  BY Elsewhere
<1>2. Held(y)' = Gone("unspecified")
  BY DEF Held, HeldAt
<1> QED BY <1>1, <1>2, HandedIs

LEMMA DeadHeld ==
    ASSUME IInv, NEW x \in Variables, ~Live(x)
    PROVE  Contents[x] = Gone("nothing") /\ x \notin moved
  BY ContentsAt DEF Held, HeldAt, Live, IInv, Movable

LEMMA MakeInlineImplements ==
    ASSUME IInv, StoreTyped, NEW x \in Variables, MakeInline(x)
    PROVE  Store!Make(x) /\ StoreTyped'
<1>1. PICK leaf \in Inline : object' = Assign(x, Object(leaf.type, leaf.val, NoBlock))
  BY DEF MakeInline
<1>2. moved' = moved /\ ~Live(x) /\ OthersKeep({x})
  BY MakeInlineStep DEF MakeInline
<1>3. PICK new : new = Object(leaf.type, leaf.val, NoBlock)
  OBVIOUS
<1>4. object'[x] = new
  BY <1>1, <1>3 DEF Assign, IInv, Owners
<1>5. /\ leaf = [type |-> leaf.type, val |-> leaf.val]
      /\ leaf.type \in {"undef", "int", "float", "ptr"} /\ leaf \in Leaves
  BY LeafFacts DEF Leaves
<1>6. new # Dead /\ ~IsAggregate(new) /\ LeafAt(heap', new) = leaf
  BY <1>3, <1>5 DEF Object, Dead, IsAggregate, LeafAt
<1>7. Held(x)' = leaf
  BY <1>2, <1>4, <1>6, DeadHeld DEF Held, HeldAt, ValueAt
<1>8. StoreTyped' /\ Contents' = [Contents EXCEPT ![x] = leaf]
  BY <1>2, <1>5, <1>7, OneGiven DEF StoreValues
<1> QED BY <1>2, <1>5, <1>8, DeadHeld DEF Store!Make, Store!Give

LEMMA MakeWideIntImplements ==
    ASSUME IInv, StoreTyped, NEW x \in Variables, MakeWideInt(x)
    PROVE  Store!Make(x) /\ StoreTyped'
<1>1. PICK v \in WideInts : MakeWithBlock(x, "int", Word(v))
  BY DEF MakeWideInt
<1>2. PICK b : b = NewBlock
  OBVIOUS
<1>3. PICK new : new = Object("int", 0, b)
  OBVIOUS
<1>4. /\ ~Live(x) /\ object' = Assign(x, new) /\ moved' = moved
      /\ heap' = [heap EXCEPT ![b] = Word(v)] /\ OthersKeep({x})
  BY <1>1, <1>2, <1>3, MakeWideIntStep DEF MakeWithBlock
<1>5. b \in Blocks /\ b # NoBlock
  BY <1>1, <1>2, NewBlockIsFree, ValueAssumption DEF MakeWithBlock, FreeBlocks, ValueAssumption
<1>6. object'[x] = new /\ heap'[b] = Word(v)
  BY <1>4, <1>5 DEF Assign, IInv, Owners, IsHeap
<1>7. PICK leaf : leaf = [type |-> "int", val |-> v]
  OBVIOUS
<1>8. new # Dead /\ ~IsAggregate(new) /\ LeafAt(heap', new) = leaf
  BY <1>3, <1>5, <1>6, <1>7 DEF Object, Dead, IsAggregate, LeafAt, Word
<1>9. leaf \in Leaves
  BY <1>7 DEF Leaves
<1>10. Held(x)' = leaf
  BY <1>4, <1>6, <1>8, DeadHeld DEF Held, HeldAt, ValueAt
<1>11. StoreTyped' /\ Contents' = [Contents EXCEPT ![x] = leaf]
  BY <1>4, <1>9, <1>10, OneGiven DEF StoreValues
<1> QED BY <1>4, <1>9, <1>11, DeadHeld DEF Store!Make, Store!Give

LEMMA MakeStructImplements ==
    ASSUME IInv, StoreTyped, NEW x \in Variables, MakeStruct(x)
    PROVE  Store!Make(x) /\ StoreTyped'
<1>1. PICK new : new = Object("struct", 0, NoBlock)
  OBVIOUS
<1>2. ~Live(x) /\ object' = Assign(x, new) /\ moved' = moved /\ OthersKeep({x})
  BY <1>1, MakeStructStep DEF MakeStruct
<1>3. object'[x] = new /\ new # Dead /\ IsAggregate(new) /\ new.type = "struct"
  BY <1>1, <1>2 DEF Assign, IInv, Owners, Object, Dead, IsAggregate
<1>4. Keys(heap', new) = {}
  BY <1>1 DEF Keys, Object
<1>5. ElemsAt(heap', new) = <<>>
  <2>1. Cardinality({}) = 0 /\ 1 .. 0 = {}
    BY FS_EmptySet
  <2>2. PICK e : e = ElemsAt(heap', new)
    OBVIOUS
  <2>3. DOMAIN e = {} /\ e = [n \in {} |-> e[n]]
    BY <1>4, <2>1, <2>2 DEF ElemsAt
  <2> QED BY <2>2, <2>3
<1>6. PICK v : v = [type |-> "struct", elems |-> <<>>]
  OBVIOUS
<1>7. v \in StoreValues
  BY <1>6 DEF StoreValues
<1>8. Held(x)' = v
  BY <1>2, <1>3, <1>5, <1>6, DeadHeld DEF Held, HeldAt, ValueAt
<1>9. StoreTyped' /\ Contents' = [Contents EXCEPT ![x] = v]
  BY <1>2, <1>7, <1>8, OneGiven
<1> QED BY <1>2, <1>6, <1>9, DeadHeld DEF Store!Make, Store!Give, Store!Aggregate

LEMMA MakeArrayImplements ==
    ASSUME IInv, StoreTyped, NEW x \in Variables, MakeArray(x)
    PROVE  Store!Make(x) /\ StoreTyped'
<1>1. PICK n \in Lengths : MakeWithBlock(x, "array", Elems([i \in 0 .. n - 1 |-> UndefObject]))
  BY DEF MakeArray
<1>2. PICK b : b = NewBlock
  OBVIOUS
<1>3. PICK new : new = Object("array", 0, b)
  OBVIOUS
<1>4. PICK at : at = [i \in 0 .. n - 1 |-> UndefObject]
  OBVIOUS
<1>5. /\ ~Live(x) /\ object' = Assign(x, new) /\ moved' = moved
      /\ heap' = [heap EXCEPT ![b] = Elems(at)] /\ OthersKeep({x})
  BY <1>1, <1>2, <1>3, <1>4, MakeArrayStep DEF MakeWithBlock
<1>6. b \in Blocks /\ b # NoBlock /\ n \in Nat \ {0}
  BY <1>1, <1>2, NewBlockIsFree, ValueAssumption DEF MakeWithBlock, FreeBlocks, ValueAssumption
<1>7. object'[x] = new /\ heap'[b].at = at
  BY <1>5, <1>6 DEF Assign, IInv, Owners, IsHeap, Elems
<1>8. new # Dead /\ IsAggregate(new) /\ new.type = "array" /\ new.block = b
  BY <1>3 DEF Object, Dead, IsAggregate
<1>9. Keys(heap', new) = 0 .. n - 1 /\ \A k \in 0 .. n - 1 : Element(heap', new, k) = UndefObject
  BY <1>4, <1>6, <1>7, <1>8 DEF Keys, Element
<1>10. IsFiniteSet(0 .. n - 1) /\ Cardinality(0 .. n - 1) = n /\ 0 .. n - 1 \subseteq Int
  <2>1. n - 1 \in Int /\ ~(0 > n - 1) /\ (n - 1) - 0 + 1 = n
    BY <1>6
  <2>2. 0 .. n - 1 \subseteq Int
    OBVIOUS
  <2> QED BY <2>1, <2>2, FS_Interval
<1>11. PICK undef : undef = [type |-> "undef", val |-> 0]
  OBVIOUS
<1>12. LeafAt(heap', UndefObject) = undef /\ undef \in Leaves
  BY <1>11, LeafFacts DEF LeafAt, UndefObject, Object
<1>13. ElemsAt(heap', new) = [i \in 1 .. n |-> undef]
  <2>1. PICK D : D = 0 .. n - 1
    OBVIOUS
  <2>2. \A i \in 1 .. n : RankedKey(D, i) \in D
    BY <1>10, <2>1, Ranks
  <2>3. \A i \in 1 .. n : LeafAt(heap', Element(heap', new, RankedKey(D, i))) = undef
    BY <1>9, <1>12, <2>1, <2>2
  <2> QED BY <1>9, <1>10, <2>1, <2>3 DEF ElemsAt
<1>14. PICK v : v = [type |-> "array", elems |-> [i \in 1 .. n |-> undef]]
  OBVIOUS
<1>15. v \in StoreValues
  <2>1. [i \in 1 .. n |-> undef] \in Seq(Leaves)
    BY <1>6, <1>12
  <2> QED BY <1>14, <2>1 DEF StoreValues
<1>16. Held(x)' = v
  BY <1>5, <1>7, <1>8, <1>13, <1>14, DeadHeld DEF Held, HeldAt, ValueAt
<1>17. StoreTyped' /\ Contents' = [Contents EXCEPT ![x] = v]
  BY <1>5, <1>15, <1>16, OneGiven
<1> QED BY <1>5, <1>11, <1>14, <1>17, DeadHeld DEF Store!Make, Store!Give, Store!Aggregate

LEMMA DestroyImplements ==
    ASSUME IInv, StoreTyped, NEW x \in Variables, Destroy(x)
    PROVE  Store!Destroy(x) /\ StoreTyped'
<1>1. OthersKeep({x}) /\ moved' = moved \ {x} /\ object' = Assign(x, Dead) /\ Live(x)
  BY DestroyStep DEF Destroy
<1>2. object'[x] = Dead
  BY <1>1 DEF Assign, IInv, Owners
<1>3. Held(x)' = Gone("nothing") /\ Gone("nothing") \in StoreValues
  BY <1>2 DEF Held, HeldAt, StoreValues
<1>4. StoreTyped' /\ Contents' = [Contents EXCEPT ![x] = Gone("nothing")]
  BY <1>1, <1>3, OneGiven
<1>5. Contents[x] # Gone("nothing")
  <2>1. CASE x \in moved
    BY <1>1, <2>1, ContentsAt, LeafFacts DEF Held, HeldAt, Live
  <2>2. CASE x \notin moved
    BY <1>1, <2>2, ContentsAt, ReadableHeld DEF Readable
  <2> QED BY <2>1, <2>2
<1> QED BY <1>4, <1>5 DEF Store!Destroy, Store!Give

LEMMA CopiedIs ==
    ASSUME IInv, NEW o, Sound(heap, o), NEW r, Copied(o, r)
    PROVE  r.type = o.type /\ ValueAt(heap', r) = ValueAt(heap, o)
<1>1. PICK copy : /\ IsHeap(copy) /\ Sound(copy, r) /\ SameValue(heap, o, copy, r)
                  /\ \A b \in BlocksOf(copy, r) : heap'[b] = copy[b]
  BY DEF Copied
<1>2. ValueAt(copy, r) = ValueAt(heap, o)
  BY <1>1, SameIs DEF IInv, Owners
<1>3. ValueAt(heap', r) = ValueAt(copy, r)
  BY <1>1, UndisturbedSame
<1> QED BY <1>1, <1>2, <1>3 DEF SameValue

LEMMA CopyImplements ==
    ASSUME IInv, StoreTyped, NEW x \in Variables, NEW y \in Variables, x # y, CopyFrom(x, y)
    PROVE  Store!Copy(x, y) /\ StoreTyped'
<1>1. Readable(y) /\ moved' = moved \ {x} /\ OthersKeep({x}) /\ Copied(object[y], object'[x])
  BY CopyFromStep DEF CopyFrom
<1>2. Held(y) = ValueAt(heap, object[y]) /\ Held(y) \notin {Gone("nothing"), Gone("unspecified")}
  BY <1>1, ReadableHeld
<1>3. Held(y) \in StoreValues
  BY DEF StoreTyped
<1>4. Sound(heap, object[y]) /\ object[y].type # "none"
  BY <1>1, LiveIs DEF Readable
<1>5. object'[x].type = object[y].type /\ ValueAt(heap', object'[x]) = ValueAt(heap, object[y])
  BY <1>1, <1>4, CopiedIs
<1>6. object'[x] # Dead
  BY <1>4, <1>5 DEF Dead, Object
<1>7. Held(x)' = Held(y)
  BY <1>1, <1>2, <1>5, <1>6 DEF Held, HeldAt
<1>8. StoreTyped' /\ Contents' = [Contents EXCEPT ![x] = Held(y)]
  <2>1. PICK v : v = Held(y)
    OBVIOUS
  <2>2. v \in StoreValues /\ Held(x)' = v
    BY <1>3, <1>7, <2>1
  <2>3. moved' \ {x} = moved \ {x}
    BY <1>1
  <2> QED BY <1>1, <2>1, <2>2, <2>3, OneGiven
<1>9. Contents[y] = Held(y)
  BY ContentsAt
<1> QED BY <1>2, <1>8, <1>9 DEF Store!Copy, Store!Give, Store!Readable

LEMMA MoveImplements ==
    ASSUME IInv, StoreTyped, NEW x \in Variables, NEW y \in Variables, x # y, MoveFrom(x, y)
    PROVE  Store!Move(x, y) /\ StoreTyped'
<1>1. /\ Readable(y) /\ moved' = (moved \ {x}) \cup {y} /\ OthersKeep({x, y})
      /\ object'[x] = object[y] /\ object'[y].type = object[y].type
      /\ \A b \in BlocksOf(heap, object[y]) : heap'[b] = heap[b]
  BY MoveFromStep DEF MoveFrom
<1>2. Held(y) = ValueAt(heap, object[y]) /\ Held(y) \notin {Gone("nothing"), Gone("unspecified")}
  BY <1>1, ReadableHeld
<1>3. Held(y) \in StoreValues
  BY DEF StoreTyped
<1>4. Sound(heap, object[y]) /\ object[y].type # "none"
  BY <1>1, LiveIs DEF Readable
<1>5. ValueAt(heap', object[y]) = ValueAt(heap, object[y])
  BY <1>1, <1>4, UndisturbedSame DEF IInv, Owners
<1>6. object'[x] # Dead /\ object'[y] # Dead
  BY <1>1, <1>4 DEF Dead, Object
<1>7. Held(x)' = Held(y)
  BY <1>1, <1>2, <1>5, <1>6 DEF Held, HeldAt
<1>8. StoreTyped' /\ Contents' = [Contents EXCEPT ![x] = Held(y), ![y] = Gone("unspecified")]
  <2>1. PICK v : v = Held(y)
    OBVIOUS
  <2>2. v \in StoreValues /\ Held(x)' = v
    BY <1>3, <1>7, <2>1
  <2>3. moved' \ {x, y} = moved \ {x, y} /\ y \in moved'
    BY <1>1
  <2> QED BY <1>1, <1>6, <2>1, <2>2, <2>3, OneHanded
<1>9. Contents[y] = Held(y)
  BY ContentsAt
<1> QED BY <1>2, <1>8, <1>9 DEF Store!Move, Store!Readable

(* An aggregate of the store has as many elements as its object.                         *)
LEMMA ElementsHeld ==
    ASSUME IInv, StoreTyped, NEW x \in Variables, Readable(x), IsAggregate(object[x])
    PROVE  /\ Store!IsAggregate(x)
           /\ Contents[x] = [type |-> object[x].type, elems |-> ElemsAt(heap, object[x])]
           /\ Store!ElementsOf(x) = ElemsAt(heap, object[x])
           /\ ElemsAt(heap, object[x]) \in Seq(Leaves)
           /\ Len(ElemsAt(heap, object[x])) = Cardinality(Keys(heap, object[x]))
           /\ DOMAIN ElemsAt(heap, object[x]) = 1 .. Cardinality(Keys(heap, object[x]))
           /\ IsFiniteSet(Keys(heap, object[x])) /\ Keys(heap, object[x]) \subseteq Int
           /\ Cardinality(Keys(heap, object[x])) \in Nat
<1>1. /\ Contents[x] = [type |-> object[x].type, elems |-> ElemsAt(heap, object[x])]
      /\ ElemsAt(heap, object[x]) \in Seq(Leaves) /\ Contents[x] \notin Leaves
      /\ Contents[x] \notin {Gone("nothing"), Gone("unspecified")}
  BY ReadableHeld, ContentsAt
<1>2. Store!IsAggregate(x)
  BY <1>1 DEF Store!IsAggregate, Store!Readable
<1>3. Store!ElementsOf(x) = ElemsAt(heap, object[x])
  BY <1>1, <1>2 DEF Store!ElementsOf
<1>4. /\ IsFiniteSet(Keys(heap, object[x])) /\ Keys(heap, object[x]) \subseteq Int
      /\ Cardinality(Keys(heap, object[x])) \in Nat
  BY KeysFinite DEF IInv, Owners
<1>5. DOMAIN ElemsAt(heap, object[x]) = 1 .. Cardinality(Keys(heap, object[x]))
  BY DEF ElemsAt
<1>6. Len(ElemsAt(heap, object[x])) = Cardinality(Keys(heap, object[x]))
  BY <1>1, <1>4, <1>5
<1> QED BY <1>1, <1>2, <1>3, <1>4, <1>5, <1>6

LEMMA GetElementImplements ==
    ASSUME IInv, StoreTyped, NEW x \in Variables, NEW y \in Variables, x # y, NEW n, GetElement(x, y, n)
    PROVE  /\ n \in DOMAIN Store!ElementsOf(y) /\ Store!GetElement(x, y, n)
           /\ StoreTyped'
<1>1. PICK o : o = object[y]
  OBVIOUS
<1>2. PICK fields : fields = FieldsOf(o)
  OBVIOUS
<1>3. /\ ~Live(x) /\ Readable(y) /\ IsAggregate(o) /\ n \in 1 .. Cardinality(DOMAIN fields)
      /\ moved' = moved /\ OthersKeep({x}) /\ o.block # NoBlock
      /\ Copied(Element(heap, o, KeyAt(fields, n)), object'[x])
  BY <1>1, <1>2, GetElementStep DEF GetElement
<1>4. DOMAIN fields = Keys(heap, o)
  BY <1>2, <1>3 DEF FieldsOf, Keys
<1>5. PICK k : k = RankedKey(Keys(heap, o), n)
  OBVIOUS
<1>6. KeyAt(fields, n) = k
  BY <1>4, <1>5 DEF KeyAt, RankedKey
<1>7. /\ Store!IsAggregate(y) /\ Contents[y].elems = ElemsAt(heap, o)
      /\ Store!ElementsOf(y) = ElemsAt(heap, o)
      /\ ElemsAt(heap, o) \in Seq(Leaves) /\ DOMAIN ElemsAt(heap, o) = 1 .. Cardinality(Keys(heap, o))
      /\ IsFiniteSet(Keys(heap, o)) /\ Keys(heap, o) \subseteq Int
  <2>1. PICK elems, D : elems = ElemsAt(heap, o) /\ D = Keys(heap, o)
    OBVIOUS
  <2>2. /\ Store!IsAggregate(y) /\ Contents[y] = [type |-> o.type, elems |-> elems]
        /\ Store!ElementsOf(y) = elems
        /\ elems \in Seq(Leaves) /\ DOMAIN elems = 1 .. Cardinality(D)
        /\ IsFiniteSet(D) /\ D \subseteq Int
    BY <1>1, <1>3, <2>1, ElementsHeld
  <2>3. Contents[y].elems = elems
    BY <2>2
  <2> QED BY <2>1, <2>2, <2>3
<1>8. PICK e : e = Element(heap, o, k)
  OBVIOUS
<1>9. k \in Keys(heap, o) /\ ElemsAt(heap, o)[n] = LeafAt(heap, e) /\ ElemsAt(heap, o)[n] \in Leaves
  <2>1. n \in 1 .. Cardinality(Keys(heap, o))
    BY <1>3, <1>4
  <2>2. k \in Keys(heap, o)
    BY <1>5, <1>7, <2>1, Ranks
  <2>3. ElemsAt(heap, o)[n] \in Leaves
    <3>1. PICK elems : elems = ElemsAt(heap, o)
      OBVIOUS
    <3>2. elems \in Seq(Leaves) /\ n \in DOMAIN elems
      BY <1>7, <2>1, <3>1
    <3>3. elems[n] \in Leaves
      BY <3>2
    <3> QED BY <3>1, <3>3
  <2>4. ElemsAt(heap, o)[n] = LeafAt(heap, e)
    BY <1>5, <1>8, <2>1 DEF ElemsAt
  <2> QED BY <2>2, <2>3, <2>4
<1>10. IsHeap(heap) /\ Sound(heap, o)
  BY <1>1 DEF IInv, Owners
<1>11. Sound(heap, e) /\ ~IsAggregate(e) /\ e.type # "none"
  <2>1. IsLeafObject(e) /\ (e.block # NoBlock => heap[e.block].kind = "word")
    BY <1>8, <1>9, <1>10, SoundInUse DEF Sound
  <2> QED BY <1>10, <2>1, LeafOwns DEF IsLeafObject, IsAggregate
<1>12. object'[x].type = e.type /\ ValueAt(heap', object'[x]) = ValueAt(heap, e)
  BY <1>3, <1>6, <1>8, <1>11, CopiedIs
<1>13. PICK v : v = LeafAt(heap, e)
  OBVIOUS
<1>14. Held(x)' = v
  <2>1. object'[x] # Dead /\ x \notin moved'
    BY <1>3, <1>11, <1>12, DeadHeld DEF Dead, Object
  <2> QED BY <1>11, <1>12, <1>13, <2>1 DEF Held, HeldAt, ValueAt
<1>15. v \in StoreValues
  BY <1>9, <1>13 DEF StoreValues
<1>16. StoreTyped' /\ Contents' = [Contents EXCEPT ![x] = v]
  BY <1>3, <1>14, <1>15, OneGiven
<1>17. n \in DOMAIN Store!ElementsOf(y) /\ Contents[y].elems[n] = v /\ n \in DOMAIN Contents[y].elems
  BY <1>3, <1>4, <1>7, <1>9, <1>13
<1>18. Store!GetElement(x, y, n)
  BY <1>3, <1>7, <1>16, <1>17, DeadHeld DEF Store!GetElement, Store!Give
<1> QED BY <1>16, <1>17, <1>18

(* What a leaf that can be read is in the store.                                         *)
LEMMA LeafHeld ==
    ASSUME IInv, StoreTyped, NEW y \in Variables, IsLeaf(y)
    PROVE  /\ Store!IsLeaf(y) /\ Contents[y] = LeafAt(heap, object[y]) /\ Contents[y] \in Leaves
           /\ object[y].type # "none"
<1>1. Readable(y) /\ ~IsAggregate(object[y])
  BY DEF IsLeaf
<1>2. Contents[y] = LeafAt(heap, object[y]) /\ Contents[y] \in Leaves
  BY <1>1, ReadableHeld, ContentsAt DEF ValueAt
<1>3. object[y].type # "none"
  BY <1>1, LiveIs DEF Readable
<1> QED BY <1>2, <1>3 DEF Store!IsLeaf

(* A value is written over the n-th element, or after the last one, and the variable it    *)
(* was in is given up.                                                                  *)
LEMMA SetElementImplements ==
    ASSUME IInv, StoreTyped, NEW x \in Variables, NEW y \in Variables, x # y, NEW i,
           SetElement(x, i, y)
    PROVE  /\ StoreTyped'
           /\ \E n \in DOMAIN Store!ElementsOf(x) : Store!SetElement(x, n, y)
<1>1. PICK o : o = object[x]
  OBVIOUS
<1>2. PICK D : D = Keys(heap, o)
  OBVIOUS
<1>3. PICK old : old = ElemsAt(heap, o)
  OBVIOUS
<1>4. PICK leaf : leaf = LeafAt(heap, object[y])
  OBVIOUS
<1>5. /\ Readable(x) /\ o.type = "array" /\ IsAggregate(o) /\ IsLeaf(y)
      /\ moved' = moved \cup {y}
  BY <1>1 DEF SetElement, IsAggregate
<1>6. /\ OthersKeep({x, y}) /\ object'[x] = o /\ object'[y].type = object[y].type
      /\ i \in D /\ Keys(heap', o) = D
      /\ SameLeaf(heap, object[y], heap', Element(heap', o, i))
      /\ \A k \in D \ {i} : SameLeaf(heap, Element(heap, o, k), heap', Element(heap', o, k))
  BY <1>1, <1>2, SetElementStep
<1>7. /\ Store!IsAggregate(x) /\ Store!ElementsOf(x) = old
      /\ Contents[x] = [type |-> "array", elems |-> old]
      /\ old \in Seq(Leaves) /\ DOMAIN old = 1 .. Cardinality(D)
      /\ IsFiniteSet(D) /\ D \subseteq Int /\ Cardinality(D) \in Nat
  BY <1>1, <1>2, <1>3, <1>5, ElementsHeld
<1>8. Store!IsLeaf(y) /\ Contents[y] = leaf /\ leaf \in Leaves /\ object[y].type # "none"
  BY <1>4, <1>5, LeafHeld
<1>9. PICK n : n = Cardinality({l \in D : l < i}) + 1
  OBVIOUS
<1>10. /\ n \in 1 .. Cardinality(D) /\ RankedKey(D, n) = i
       /\ \A m \in 1 .. Cardinality(D) : RankedKey(D, m) \in D
       /\ \A m \in 1 .. Cardinality(D) : RankedKey(D, m) = i => m = n
  <2>1. /\ Cardinality({l \in D : l < i}) \in 0 .. Cardinality(D) - 1
        /\ RankedKey(D, Cardinality({l \in D : l < i}) + 1) = i
    BY <1>6, <1>7, Ranks
  <2>2. \A m \in 1 .. Cardinality(D) :
           /\ RankedKey(D, m) \in D
           /\ Cardinality({l \in D : l < RankedKey(D, m)}) = m - 1
    BY <1>7, Ranks
  <2>3. ASSUME NEW m \in 1 .. Cardinality(D), RankedKey(D, m) = i PROVE m = n
    <3>1. Cardinality({l \in D : l < i}) = m - 1
      BY <2>2, <2>3
    <3> QED BY <1>7, <1>9, <3>1
  <2>4. n \in 1 .. Cardinality(D) /\ RankedKey(D, n) = i
    <3>1. PICK c : c = Cardinality({l \in D : l < i})
      OBVIOUS
    <3>2. c \in 0 .. Cardinality(D) - 1 /\ n = c + 1 /\ RankedKey(D, c + 1) = i
      BY <1>9, <2>1, <3>1
    <3> QED BY <1>7, <3>2
  <2>5. \A m \in 1 .. Cardinality(D) : RankedKey(D, m) \in D
    BY <2>2
  <2>6. \A m \in 1 .. Cardinality(D) : RankedKey(D, m) = i => m = n
    BY <2>3
  <2> QED BY <2>4, <2>5, <2>6
<1>11. PICK new : new = [old EXCEPT ![n] = leaf]
  OBVIOUS
<1>12. ElemsAt(heap', o) = new
  <2>1. ASSUME NEW m \in 1 .. Cardinality(D)
        PROVE  LeafAt(heap', Element(heap', o, RankedKey(D, m))) = new[m]
    <3>1. CASE m = n
      <4>1. LeafAt(heap', Element(heap', o, i)) = leaf
        BY <1>4, <1>6, SameLeafIs
      <4> QED BY <1>7, <1>10, <1>11, <3>1, <4>1
    <3>2. CASE m # n
      <4>1. RankedKey(D, m) \in D \ {i}
        BY <1>10, <3>2
      <4>2. LeafAt(heap', Element(heap', o, RankedKey(D, m)))
            = LeafAt(heap, Element(heap, o, RankedKey(D, m)))
        BY <1>6, <4>1, SameLeafIs
      <4>3. old[m] = LeafAt(heap, Element(heap, o, RankedKey(D, m)))
        BY <1>2, <1>3 DEF ElemsAt
      <4> QED BY <1>7, <1>11, <3>2, <4>2, <4>3
    <3> QED BY <3>1, <3>2
  <2>2. new = [m \in 1 .. Cardinality(D) |-> new[m]]
    BY <1>7, <1>11
  <2>3. ElemsAt(heap', o) = [m \in 1 .. Cardinality(D) |->
                                LeafAt(heap', Element(heap', o, RankedKey(D, m)))]
    BY <1>6 DEF ElemsAt
  <2> QED BY <2>1, <2>2, <2>3
<1>13. PICK v : v = [type |-> "array", elems |-> new]
  OBVIOUS
<1>14. v \in StoreValues
  <2>1. new \in Seq(Leaves)
    BY <1>7, <1>8, <1>10, <1>11
  <2> QED BY <1>13, <2>1 DEF StoreValues
<1>15. object'[x] # Dead /\ object'[y] # Dead
  BY <1>5, <1>6, <1>8 DEF Dead, Object
<1>16. x \notin moved'
  BY <1>5 DEF Readable
<1>17. Held(x)' = v
  BY <1>5, <1>6, <1>12, <1>13, <1>15, <1>16 DEF Held, HeldAt, ValueAt
<1>18. StoreTyped' /\ Contents' = [Contents EXCEPT ![x] = v, ![y] = Gone("unspecified")]
  <2>1. moved' \ {x, y} = moved \ {x, y} /\ y \in moved'
    BY <1>5
  <2> QED BY <1>6, <1>14, <1>15, <1>17, <2>1, OneHanded
<1>19. Contents' = [Contents EXCEPT ![x].elems[n] = Contents[y], ![y] = Gone("unspecified")]
  <2>1. [Contents[x] EXCEPT !.elems[n] = leaf] = v
    BY <1>7, <1>11, <1>13
  <2>2. [Contents EXCEPT ![x].elems[n] = leaf] = [Contents EXCEPT ![x] = v]
    BY <2>1 DEF Contents
  <2> QED BY <1>8, <1>18, <2>2
<1>20. n \in DOMAIN Store!ElementsOf(x) /\ n \in DOMAIN Contents[x].elems
  BY <1>7, <1>10
<1>21. Store!SetElement(x, n, y)
  BY <1>7, <1>8, <1>19, <1>20 DEF Store!SetElement
<1> QED BY <1>18, <1>20, <1>21

LEMMA AddFieldImplements ==
    ASSUME IInv, StoreTyped, NEW x \in Variables, NEW y \in Variables, x # y,
           NEW offset \in Offsets, AddField(x, offset, y)
    PROVE  Store!AddField(x, y) /\ StoreTyped'
<1>1. PICK o, r : o = object[x] /\ r = object'[x]
  OBVIOUS
<1>2. PICK D : D = Keys(heap, o)
  OBVIOUS
<1>3. PICK old : old = ElemsAt(heap, o)
  OBVIOUS
<1>4. PICK leaf : leaf = LeafAt(heap, object[y])
  OBVIOUS
<1>5. /\ Readable(x) /\ o.type = "struct" /\ IsAggregate(o) /\ IsLeaf(y)
      /\ moved' = moved \cup {y}
  BY <1>1 DEF AddField, IsAggregate
<1>6. /\ OthersKeep({x, y}) /\ r.type = "struct" /\ object'[y].type = object[y].type
      /\ r # Dead /\ (\A k \in D : k < offset) /\ Keys(heap', r) = D \cup {offset}
      /\ SameLeaf(heap, object[y], heap', Element(heap', r, offset))
      /\ \A k \in D : SameLeaf(heap, Element(heap, o, k), heap', Element(heap', r, k))
  BY <1>1, <1>2, AddFieldStep
<1>7. /\ Store!IsAggregate(x)
      /\ Contents[x] = [type |-> "struct", elems |-> old]
      /\ old \in Seq(Leaves) /\ Len(old) = Cardinality(D) /\ DOMAIN old = 1 .. Cardinality(D)
      /\ IsFiniteSet(D) /\ D \subseteq Int /\ Cardinality(D) \in Nat
  BY <1>1, <1>2, <1>3, <1>5, ElementsHeld
<1>8. Store!IsLeaf(y) /\ Contents[y] = leaf /\ leaf \in Leaves /\ object[y].type # "none"
  BY <1>4, <1>5, LeafHeld
<1>9. PICK N : N = Cardinality(D)
  OBVIOUS
<1>10. /\ Cardinality(D \cup {offset}) = N + 1 /\ RankedKey(D \cup {offset}, N + 1) = offset
       /\ \A m \in 1 .. N : RankedKey(D \cup {offset}, m) = RankedKey(D, m) /\ RankedKey(D, m) \in D
  <2>1. offset \in Int
    BY ValueAssumption DEF ValueAssumption
  <2> QED BY <1>6, <1>7, <1>9, <2>1, LastRank, Ranks
<1>11. PICK new : new = Append(old, leaf)
  OBVIOUS
<1>12. /\ new \in Seq(Leaves) /\ DOMAIN new = 1 .. N + 1 /\ new[N + 1] = leaf
       /\ \A m \in 1 .. N : new[m] = old[m]
  BY <1>7, <1>8, <1>9, <1>11
<1>13. ElemsAt(heap', r) = new
  <2>1. ASSUME NEW m \in 1 .. N + 1
        PROVE  LeafAt(heap', Element(heap', r, RankedKey(D \cup {offset}, m))) = new[m]
    <3>1. CASE m = N + 1
      <4>1. LeafAt(heap', Element(heap', r, offset)) = leaf
        BY <1>4, <1>6, SameLeafIs
      <4> QED BY <1>10, <1>12, <3>1, <4>1
    <3>2. CASE m # N + 1
      <4>1. m \in 1 .. N
        BY <1>7, <1>9, <3>2
      <4>2. RankedKey(D \cup {offset}, m) = RankedKey(D, m) /\ RankedKey(D, m) \in D
        BY <1>10, <4>1
      <4>3. LeafAt(heap', Element(heap', r, RankedKey(D, m)))
            = LeafAt(heap, Element(heap, o, RankedKey(D, m)))
        BY <1>6, <4>2, SameLeafIs
      <4>4. old[m] = LeafAt(heap, Element(heap, o, RankedKey(D, m)))
        BY <1>2, <1>3, <1>9, <4>1 DEF ElemsAt
      <4> QED BY <1>12, <4>1, <4>2, <4>3, <4>4
    <3> QED BY <3>1, <3>2
  <2>2. new = [m \in 1 .. N + 1 |-> new[m]]
    BY <1>12
  <2>3. ElemsAt(heap', r) = [m \in 1 .. N + 1 |->
                                LeafAt(heap', Element(heap', r, RankedKey(D \cup {offset}, m)))]
    BY <1>6, <1>10 DEF ElemsAt
  <2> QED BY <2>1, <2>2, <2>3
<1>14. PICK v : v = [type |-> "struct", elems |-> new]
  OBVIOUS
<1>15. v \in StoreValues
  BY <1>12, <1>14 DEF StoreValues
<1>16. object'[y] # Dead /\ x \notin moved'
  BY <1>5, <1>6, <1>8 DEF Dead, Object, Readable
<1>17. Held(x)' = v
  <2>1. IsAggregate(r)
    BY <1>6 DEF IsAggregate
  <2> QED BY <1>1, <1>6, <1>13, <1>14, <1>16, <2>1 DEF Held, HeldAt, ValueAt
<1>18. StoreTyped' /\ Contents' = [Contents EXCEPT ![x] = v, ![y] = Gone("unspecified")]
  <2>1. moved' \ {x, y} = moved \ {x, y} /\ y \in moved'
    BY <1>5
  <2> QED BY <1>6, <1>15, <1>16, <1>17, <2>1, OneHanded
<1>19. Contents' = [Contents EXCEPT ![x].elems = Append(@, Contents[y]),
                                    ![y] = Gone("unspecified")]
  <2>1. [Contents[x] EXCEPT !.elems = Append(@, leaf)] = v
    <3>1. PICK a : a = Contents[x]
      OBVIOUS
    <3>2. a = [type |-> "struct", elems |-> old]
      BY <1>7, <3>1
    <3>3. a.elems = old
      BY <3>2
    <3>4. [a EXCEPT !.elems = Append(a.elems, leaf)] = [a EXCEPT !.elems = new]
      BY <1>11, <3>3
    <3>5. [a EXCEPT !.elems = new] = v
      BY <1>14, <3>2
    <3> QED BY <3>1, <3>4, <3>5
  <2>2. [Contents EXCEPT ![x].elems = Append(@, leaf)] = [Contents EXCEPT ![x] = v]
    BY <2>1 DEF Contents
  <2> QED BY <1>8, <1>18, <2>2
<1>20. Store!AddField(x, y)
  BY <1>7, <1>8, <1>19 DEF Store!AddField
<1> QED BY <1>18, <1>20

LEMMA StepImplements ==
    ASSUME IInv, StoreTyped, Step
    PROVE  Store!Next /\ StoreTyped'
<1>1. ASSUME NEW x \in Variables,
             MakeInline(x) \/ MakeWideInt(x) \/ MakeArray(x) \/ MakeStruct(x) \/ Destroy(x)
      PROVE  (Store!Make(x) \/ Store!Destroy(x)) /\ StoreTyped'
  BY <1>1, MakeInlineImplements, MakeWideIntImplements, MakeArrayImplements,
     MakeStructImplements, DestroyImplements
<1>2. ASSUME NEW x \in Variables, NEW y \in Variables, x # y,
             \/ CopyConstruct(x, y) \/ CopyAssign(x, y)
             \/ MoveConstruct(x, y) \/ MoveAssign(x, y)
             \/ \E offset \in Offsets : AddField(x, offset, y)
      PROVE  (Store!Copy(x, y) \/ Store!Move(x, y) \/ Store!AddField(x, y)) /\ StoreTyped'
  BY <1>2, CopyImplements, MoveImplements, AddFieldImplements
     DEF CopyConstruct, CopyAssign, MoveConstruct, MoveAssign
<1>3. ASSUME NEW x \in Variables, NEW y \in Variables, x # y, NEW i, SetElement(x, i, y)
      PROVE  (\E n \in DOMAIN Store!ElementsOf(x) : Store!SetElement(x, n, y)) /\ StoreTyped'
  BY <1>3, SetElementImplements
<1>4. ASSUME NEW x \in Variables, NEW y \in Variables, x # y, NEW n, GetElement(x, y, n)
      PROVE  (\E i \in DOMAIN Store!ElementsOf(y) : Store!GetElement(x, y, i)) /\ StoreTyped'
  BY <1>4, GetElementImplements
<1>5. CASE \E x \in Variables :
             MakeInline(x) \/ MakeWideInt(x) \/ MakeArray(x) \/ MakeStruct(x) \/ Destroy(x)
  BY <1>1, <1>5 DEF Store!Next
<1>6. CASE \E x, y \in Variables : x # y /\
             \/ CopyConstruct(x, y) \/ CopyAssign(x, y)
             \/ MoveConstruct(x, y) \/ MoveAssign(x, y)
             \/ \E offset \in Offsets : AddField(x, offset, y)
  BY <1>2, <1>6 DEF Store!Next
<1>7. CASE \E x, y \in Variables : x # y /\ \E i : SetElement(x, i, y)
  BY <1>3, <1>7 DEF Store!Next
<1>8. CASE \E x, y \in Variables : x # y /\ \E n : GetElement(x, y, n)
  BY <1>4, <1>8 DEF Store!Next
<1> QED BY <1>5, <1>6, <1>7, <1>8 DEF Step

(* The interpreter's variables hold values (DynamicValue.cpp:79-169): whatever is copied,   *)
(* moved, stored into an aggregate, read back and destroyed, in whatever order, a variable  *)
(* holds what the same operations would have left in a store without blocks or owners.     *)
THEOREM ValuesHeld == Spec => HoldsValues
<1>1. Init => Store!Init /\ StoreTyped
  <2> SUFFICES ASSUME Init PROVE Store!Init /\ StoreTyped
    OBVIOUS
  <2>1. \A x \in Variables : Held(x) = Gone("nothing")
    BY DEF Init, Held, HeldAt
  <2>2. Contents = [x \in Variables |-> Gone("nothing")]
    BY <2>1, ContentsAre DEF ContentsHeld, Held
  <2> QED BY <2>1, <2>2 DEF Store!Init, StoreTyped, StoreValues
<1>2. IInv /\ StoreTyped /\ [Next]_vars => [Store!Next]_Contents /\ StoreTyped'
  <2> SUFFICES ASSUME IInv, StoreTyped, [Next]_vars
               PROVE  [Store!Next]_Contents /\ StoreTyped'
    OBVIOUS
  <2>1. CASE Next
    BY <2>1, StepImplements DEF Next
  <2>2. CASE UNCHANGED vars
    <3>1. object' = object /\ heap' = heap /\ moved' = moved
      BY <2>2 DEF vars
    <3>2. \A x \in Variables : Held(x)' = Held(x)
      BY <3>1 DEF Held
    <3>3. StoreTyped'
      BY <3>2 DEF StoreTyped
    <3>4. ContentsHeld'
      BY ContentsAre, PTL
    <3>5. Contents' = Contents
      BY <3>1, <3>4, ContentsAre DEF ContentsHeld
    <3> QED BY <3>3, <3>5
  <2> QED BY <2>1, <2>2
<1>3. Spec => []IInv
  BY Invariance
<1> QED BY <1>1, <1>2, <1>3, PTL DEF Spec, HoldsValues, Store!Spec
===================================================================================
