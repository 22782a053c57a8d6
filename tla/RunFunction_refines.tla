---------------------------- MODULE RunFunction_refines ---------------------------
(* The interpreter implements the language: every step of runFunction is a step of     *)
(* SsaSemantics or changes nothing that the language knows of.                         *)
EXTENDS RunFunction_proofs

(* A terminator, in these registers, leads to the block.                               *)
LeadsTo(t, regs, bb) ==
    \/ t.kind = "br" /\ bb = t.dest
    \/ t.kind \in {"condbr", "switch"} /\ IsInt(regs, t.on) /\ bb = Successor(t, Eval(regs, t.on))

(* What switchToNewBasicBlock has done so far, when it is in its first loop or in its  *)
(* second: the values come from the registers that the branch saw, and the second loop *)
(* has bound those that are no longer in the cache.                                    *)
Has(phi, f) == f.prev \in DOMAIN phi.from /\ Evaluable(f.before, phi.from[f.prev])
Incoming(phi, f) == Eval(f.before, phi.from[f.prev])

Evaluating(phis, f) ==
    /\ f.vRegs = f.before
    /\ \A i \in 1 .. Len(f.cache) : Has(phis[i], f) /\ f.cache[i] = Incoming(phis[i], f)

Bound(phis, f) == 1 .. Len(phis) - Len(f.cache)

Committing(phis, f) ==
    /\ \A i \in DOMAIN phis : Has(phis[i], f)
    /\ DOMAIN f.vRegs = DOMAIN f.before \cup {phis[i].dst : i \in Bound(phis, f)}
    /\ \A i \in Bound(phis, f) : f.vRegs[phis[i].dst] = Incoming(phis[i], f)
    /\ \A r \in DOMAIN f.before :
          (\A i \in Bound(phis, f) : phis[i].dst # r) => f.vRegs[r] = f.before[r]
    /\ \A i \in 1 .. Len(f.cache) :
          f.cache[i] = Incoming(phis[Len(phis) - Len(f.cache) + i], f)

Entering(p, f) ==
    f.stage \in {"evaluate", "commit"} =>
        /\ f.idx = 1 /\ f.prev \in DOMAIN BlocksOf(p, f) /\ IsRegs(f.before)
        /\ LeadsTo(Block(p, f.fn, f.prev).term, f.before, f.bb)
        /\ f.stage = "evaluate" => Evaluating(PhisOf(p, f), f)
        /\ f.stage = "commit" => Committing(PhisOf(p, f), f)

RInv == IInv /\ \A j \in DOMAIN active : Entering(program, active[j])

----------------------------------------------------------------------------------
(* The first loop adds a value to the cache, and has the whole cache in the end.       *)
LEMMA CacheOne ==
    ASSUME NEW phis, IsSequence(phis), NEW f, NEW g, f.cache \in Seq(Value), NEW v \in Value,
           Len(f.cache) < Len(phis), Evaluating(phis, f),
           Has(phis[Len(f.cache) + 1], f), v = Incoming(phis[Len(f.cache) + 1], f),
           g.cache = Append(f.cache, v), g.prev = f.prev, g.before = f.before, g.vRegs = f.vRegs
    PROVE  /\ Evaluating(phis, g)
           /\ Len(g.cache) = Len(phis) => Committing(phis, g)
<1>1. PICK m \in Nat, n \in Nat : m = Len(f.cache) /\ n = Len(phis)
  BY SequenceShape
<1>2. /\ DOMAIN phis = 1 .. n /\ Len(g.cache) = m + 1
      /\ \A i \in 1 .. m : g.cache[i] = f.cache[i]
      /\ g.cache[m + 1] = v
  BY <1>1, SequenceShape
<1>3. \A phi : (Has(phi, g) <=> Has(phi, f)) /\ Incoming(phi, g) = Incoming(phi, f)
  BY DEF Has, Incoming
<1>4. ASSUME NEW i \in 1 .. m + 1
      PROVE  Has(phis[i], g) /\ g.cache[i] = Incoming(phis[i], g)
  <2>1. CASE i \in 1 .. m
    BY <1>1, <1>2, <1>3, <2>1 DEF Evaluating
  <2>2. CASE i = m + 1
    BY <1>1, <1>2, <1>3, <2>2
  <2>3. i \in 1 .. m \/ i = m + 1
    BY <1>4
  <2> QED BY <2>1, <2>2, <2>3
<1>5. Evaluating(phis, g)
  BY <1>2, <1>4 DEF Evaluating
<1>6. ASSUME Len(g.cache) = Len(phis) PROVE Committing(phis, g)
  <2>1. n = m + 1 /\ n - n = 0 /\ 1 .. 0 = {} /\ \A i \in 1 .. n : 0 + i = i
    BY <1>1, <1>2, <1>6
  <2>2. Bound(phis, g) = {} /\ Len(phis) - Len(g.cache) = 0
    BY <1>1, <1>2, <2>1 DEF Bound
  <2>3. g.vRegs = g.before
    BY <1>5 DEF Evaluating
  <2> QED BY <1>1, <1>2, <1>4, <2>1, <2>2, <2>3 DEF Committing
<1> QED BY <1>5, <1>6

(* The second loop binds one more phi: no earlier one is bound again, and nothing else  *)
(* changes.                                                                            *)
LEMMA BindOne ==
    ASSUME NEW phis, IsSequence(phis), NEW f, NEW g, f.cache \in Seq(Value), f.cache # <<>>,
           \A i, j \in DOMAIN phis : phis[i].dst = phis[j].dst => i = j,
           Len(f.cache) <= Len(phis), Committing(phis, f),
           g.cache = Tail(f.cache), g.prev = f.prev, g.before = f.before,
           g.vRegs = Bind(f.vRegs, phis[Len(phis) - Len(f.cache) + 1].dst, Head(f.cache))
    PROVE  Committing(phis, g)
<1>1. PICK m \in Nat, n \in Nat : m = Len(f.cache) /\ n = Len(phis)
  BY SequenceShape
<1>2. /\ m >= 1 /\ m <= n /\ DOMAIN phis = 1 .. n /\ Len(g.cache) = m - 1
      /\ \A i \in 1 .. m - 1 : g.cache[i] = f.cache[i + 1]
      /\ Head(f.cache) = f.cache[1]
  BY <1>1, SequenceShape, EmptySeq
<1>3. PICK k \in 1 .. n : k = n - m + 1
  BY <1>2
<1>4. /\ Bound(phis, f) = 1 .. k - 1 /\ Bound(phis, g) = 1 .. k /\ k \in DOMAIN phis
      /\ n - Len(g.cache) = k /\ n - Len(f.cache) = k - 1
  <2>1. n - m = k - 1 /\ n - (m - 1) = k
    BY <1>3
  <2> QED BY <1>1, <1>2, <2>1 DEF Bound
<1>5. \A phi : (Has(phi, g) <=> Has(phi, f)) /\ Incoming(phi, g) = Incoming(phi, f)
  BY DEF Has, Incoming
<1>6. Head(f.cache) = Incoming(phis[k], g)
  <2>1. (k - 1) + 1 = k /\ 1 \in 1 .. m
    BY <1>2
  <2>2. f.cache[1] = Incoming(phis[(k - 1) + 1], f)
    BY <1>1, <1>4, <2>1 DEF Committing
  <2> QED BY <1>2, <1>5, <2>1, <2>2
<1>7. /\ DOMAIN g.vRegs = DOMAIN f.vRegs \cup {phis[k].dst}
      /\ \A r \in DOMAIN g.vRegs : g.vRegs[r] = IF r = phis[k].dst THEN Head(f.cache) ELSE f.vRegs[r]
  BY <1>1, <1>3 DEF Bind
<1>8. 1 .. k = (1 .. k - 1) \cup {k} /\ \A i \in 1 .. k : i \in DOMAIN phis
  BY <1>2
<1>9. \A i \in DOMAIN phis : Has(phis[i], g)
  BY <1>5 DEF Committing
<1>10. DOMAIN g.vRegs = DOMAIN g.before \cup {phis[i].dst : i \in Bound(phis, g)}
  <2>1. DOMAIN f.vRegs = DOMAIN f.before \cup {phis[i].dst : i \in 1 .. k - 1}
    BY <1>4 DEF Committing
  <2>2. {phis[i].dst : i \in 1 .. k} = {phis[i].dst : i \in 1 .. k - 1} \cup {phis[k].dst}
    BY <1>8
  <2> QED BY <1>4, <1>7, <2>1, <2>2
<1>11. ASSUME NEW i \in Bound(phis, g) PROVE g.vRegs[phis[i].dst] = Incoming(phis[i], g)
  <2>1. CASE i = k
    BY <1>6, <1>7, <2>1
  <2>2. CASE i \in 1 .. k - 1
    <3>1. phis[i].dst # phis[k].dst
      <4>1. i # k /\ i \in DOMAIN phis
        BY <1>8, <2>2
      <4> QED BY <1>4, <4>1
    <3>2. f.vRegs[phis[i].dst] = Incoming(phis[i], f) /\ phis[i].dst \in DOMAIN f.vRegs
      BY <1>4, <2>2 DEF Committing
    <3> QED BY <1>5, <1>7, <3>1, <3>2
  <2> QED BY <1>4, <1>8, <1>11, <2>1, <2>2
<1>12. ASSUME NEW r \in DOMAIN g.before, \A i \in Bound(phis, g) : phis[i].dst # r
       PROVE  g.vRegs[r] = g.before[r]
  <2>1. r # phis[k].dst /\ \A i \in Bound(phis, f) : phis[i].dst # r
    BY <1>4, <1>8, <1>12
  <2>2. f.vRegs[r] = f.before[r] /\ r \in DOMAIN f.vRegs
    BY <1>12, <2>1 DEF Committing
  <2> QED BY <1>7, <2>1, <2>2
<1>13. ASSUME NEW i \in 1 .. Len(g.cache)
       PROVE  g.cache[i] = Incoming(phis[Len(phis) - Len(g.cache) + i], g)
  <2>1. i \in 1 .. m - 1 /\ i + 1 \in 1 .. m /\ (k - 1) + (i + 1) = k + i
    BY <1>2
  <2>2. f.cache[i + 1] = Incoming(phis[(k - 1) + (i + 1)], f)
    BY <1>1, <1>4, <2>1 DEF Committing
  <2> QED BY <1>1, <1>2, <1>4, <1>5, <2>1, <2>2
<1> QED BY <1>9, <1>10, <1>11, <1>12, <1>13 DEF Committing

(* When the second loop is done, the registers are what the language says they are.     *)
LEMMA AllBound ==
    ASSUME NEW phis, IsSequence(phis), NEW f, f.cache = <<>>, IsRegs(f.vRegs), Committing(phis, f),
           \A i, j \in DOMAIN phis : phis[i].dst = phis[j].dst => i = j
    PROVE  LET assigned == {phis[i].dst : i \in DOMAIN phis}
           IN  f.vRegs = [r \in DOMAIN f.before \cup assigned |->
                            IF r \in assigned
                            THEN Eval(f.before, phis[CHOOSE i \in DOMAIN phis : phis[i].dst = r].from[f.prev])
                            ELSE f.before[r]]
<1> DEFINE assigned == {phis[i].dst : i \in DOMAIN phis}
           which(r) == CHOOSE i \in DOMAIN phis : phis[i].dst = r
<1>1. Bound(phis, f) = DOMAIN phis
  BY SequenceShape, EmptySeq DEF Bound
<1>2. f.vRegs = [r \in DOMAIN f.vRegs |-> f.vRegs[r]] /\ DOMAIN f.vRegs = DOMAIN f.before \cup assigned
  BY <1>1 DEF IsRegs, Committing
<1>3. ASSUME NEW r \in assigned PROVE f.vRegs[r] = Eval(f.before, phis[which(r)].from[f.prev])
  <2>1. which(r) \in DOMAIN phis /\ phis[which(r)].dst = r
    BY <1>3
  <2> QED BY <1>1, <2>1 DEF Committing, Incoming
<1>4. ASSUME NEW r \in DOMAIN f.before, r \notin assigned PROVE f.vRegs[r] = f.before[r]
  BY <1>1, <1>4 DEF Committing
<1> HIDE DEF which, assigned
<1>5. f.vRegs = [r \in DOMAIN f.before \cup assigned |->
         IF r \in assigned THEN Eval(f.before, phis[which(r)].from[f.prev]) ELSE f.before[r]]
  BY <1>2, <1>3, <1>4
<1> QED BY <1>5 DEF which, assigned

----------------------------------------------------------------------------------
(* The running frame is the only one that a step may take into the loops.              *)
LEMMA SeenEnters ==
    ASSUME NEW p, NEW f, Entering(p, f)
    PROVE  Entering(p, AsSeen(f))
<1> DEFINE g == AsSeen(f)
<1>1. /\ g.fn = f.fn /\ g.bb = f.bb /\ g.idx = f.idx /\ g.prev = f.prev /\ g.stage = f.stage
      /\ g.before = f.before /\ g.vRegs = f.vRegs /\ g.cache = f.cache
  BY DEF AsSeen, Merged
<1> HIDE DEF g
<1>2. BlocksOf(p, g) = BlocksOf(p, f) /\ PhisOf(p, g) = PhisOf(p, f)
  BY <1>1 DEF BlocksOf, PhisOf
<1>3. \A phi : (Has(phi, g) <=> Has(phi, f)) /\ Incoming(phi, g) = Incoming(phi, f)
  BY <1>1 DEF Has, Incoming
<1>4. \A phis : Evaluating(phis, f) => Evaluating(phis, g)
  BY <1>1, <1>3 DEF Evaluating
<1>5. \A phis : Committing(phis, f) => Committing(phis, g)
  <2>1. \A phis : Bound(phis, g) = Bound(phis, f)
    BY <1>1 DEF Bound
  <2>2. ASSUME NEW phis, Committing(phis, f)
        PROVE  Committing(phis, g)
    <3>1. DOMAIN g.vRegs = DOMAIN g.before \cup {phis[i].dst : i \in Bound(phis, g)}
      <4>1. Bound(phis, g) = Bound(phis, f)
        BY <2>1
      <4>2. DOMAIN f.vRegs = DOMAIN f.before \cup {phis[i].dst : i \in Bound(phis, f)}
        BY <2>2 DEF Committing
      <4> QED BY <1>1, <4>1, <4>2, Zenon
    <3>2. \A i \in Bound(phis, g) : g.vRegs[phis[i].dst] = Incoming(phis[i], g)
      BY <1>1, <1>3, <2>1, <2>2 DEF Committing
    <3>3. \A r \in DOMAIN g.before :
             (\A i \in Bound(phis, g) : phis[i].dst # r) => g.vRegs[r] = g.before[r]
      BY <1>1, <2>1, <2>2 DEF Committing
    <3>4. \A i \in DOMAIN phis : Has(phis[i], g)
      BY <1>3, <2>2 DEF Committing
    <3>5. ASSUME NEW i \in 1 .. Len(g.cache)
          PROVE  g.cache[i] = Incoming(phis[Len(phis) - Len(g.cache) + i], g)
      <4>1. f.cache[i] = Incoming(phis[Len(phis) - Len(f.cache) + i], f)
        BY <1>1, <2>2, <3>5 DEF Committing
      <4> QED BY <1>1, <1>3, <4>1, Zenon
    <3> QED BY <3>1, <3>2, <3>3, <3>4, <3>5, Zenon DEF Committing
  <2> QED BY <2>2
<1>6. Entering(p, g)
  BY <1>1, <1>2, <1>4, <1>5 DEF Entering
<1> QED BY <1>6 DEF g

LEMMA ContinueEnters ==
    ASSUME RInv, status = "running", NEW g, g.fn = top.fn, Continue(g), UNCHANGED program,
           Entering(program, g)
    PROVE  \A j \in DOMAIN active' : Entering(program', active'[j])
<1>1. PICK h : h = AsSeen(g)
  OBVIOUS
<1>2. /\ active' = [active EXCEPT ![Len(active)] = h] /\ Len(active) \in DOMAIN active
  BY <1>1, TopFrame, Calling, ContinueActive DEF RInv
<1>3. /\ DOMAIN active' = DOMAIN active
      /\ \A j \in DOMAIN active : active'[j] = IF j = Len(active) THEN h ELSE active[j]
  BY <1>2
<1>4. Entering(program, h)
  BY <1>1, SeenEnters
<1> QED BY <1>3, <1>4 DEF RInv

LEMMA ElsewhereEnters ==
    ASSUME NEW p, NEW f, f.stage \in {"body", "calling"}
    PROVE  Entering(p, f)
  BY DEF Entering

LEMMA AppendLen == ASSUME NEW s \in Seq(Value), NEW v \in Value PROVE Len(Append(s, v)) = Len(s) + 1
  OBVIOUS

LEMMA EvaluateEnters ==
    ASSUME RInv, status = "running", top.stage = "evaluate",
           Has(Phis[Len(top.cache) + 1], top)
    PROVE  /\ Entering(program, Cache(top, Incoming(Phis[Len(top.cache) + 1], top)))
           /\ Cache(top, Incoming(Phis[Len(top.cache) + 1], top)).fn = top.fn
           /\ Incoming(Phis[Len(top.cache) + 1], top) \in Value
<1> DEFINE phi == Phis[Len(top.cache) + 1]
           v == Incoming(phi, top)
           g == Cache(top, v)
<1>1. /\ GoodFrame(program, top) /\ Len(active) \in DOMAIN active
      /\ IsBlock(Block(program, top.fn, top.bb), DOMAIN BlocksOf(program, top))
  BY TopFrame DEF RInv
<1>2. /\ top.idx = 1 /\ top.prev \in DOMAIN BlocksOf(program, top) /\ IsRegs(top.before)
      /\ LeadsTo(Block(program, top.fn, top.prev).term, top.before, top.bb)
      /\ Evaluating(Phis, top)
  BY <1>1 DEF RInv, Entering, top, Phis, PhisOf
<1>3. /\ IsSequence(Phis) /\ top.cache \in Seq(Value) /\ DOMAIN top = FrameFields
      /\ Len(top.cache) \in Nat /\ Len(Phis) \in Nat /\ DOMAIN Phis = 1 .. Len(Phis)
      /\ Len(top.cache) < Len(Phis)
  <2>1. IsSequence(Phis)
    BY <1>1 DEF IsBlock, Phis
  <2>2. top.cache \in Seq(Value) /\ DOMAIN top = FrameFields
    BY <1>1 DEF GoodFrame, IsFrame
  <2>3. Len(top.cache) < Len(Phis)
    BY <1>1 DEF GoodFrame, PhiLoops, Phis, PhisOf
  <2> QED BY <2>1, <2>2, <2>3, SequenceShape
<1>4. IsOperand(phi.from[top.prev])
  <2>1. Len(top.cache) + 1 \in DOMAIN Phis
    BY <1>3
  <2>2. IsPhi(phi)
    BY <1>1, <2>1 DEF IsBlock, Phis
  <2>3. top.prev \in DOMAIN phi.from
    BY DEF Has
  <2> HIDE DEF phi
  <2> QED BY <2>2, <2>3, Zenon DEF IsPhi
<1>5. v \in Value
  <2>1. Evaluable(top.before, phi.from[top.prev])
    BY DEF Has
  <2> HIDE DEF phi
  <2> QED BY <1>2, <1>4, <2>1, EvalValue, Zenon DEF Incoming
<1>6. /\ g.fn = top.fn /\ g.bb = top.bb /\ g.idx = top.idx /\ g.prev = top.prev
      /\ g.before = top.before /\ g.vRegs = top.vRegs /\ g.cache = Append(top.cache, v)
      /\ g.stage = IF Len(top.cache) + 1 = Len(Phis) THEN "commit" ELSE "evaluate"
  BY <1>3 DEF Cache, NextStage, FrameFields, Phis
<1>7. Len(g.cache) = Len(top.cache) + 1
  <2> HIDE DEF g, v
  <2>0. top.cache \in Seq(Value)
    BY <1>3, Zenon
  <2>1. Len(Append(top.cache, v)) = Len(top.cache) + 1
    BY <2>0, <1>5, AppendLen, Zenon
  <2>2. g.cache = Append(top.cache, v)
    BY <1>6
  <2> QED BY <2>1, <2>2, Zenon
<1>8. PhisOf(program, g) = Phis /\ BlocksOf(program, g) = BlocksOf(program, top)
  BY <1>6 DEF PhisOf, Phis, BlocksOf
<1>9. Evaluating(Phis, g) /\ (g.stage = "commit" => Committing(Phis, g))
  <2> HIDE DEF g, v
  <2>1. Has(phi, top) /\ v = Incoming(phi, top)
    BY DEF v
  <2>2. PICK phis : phis = Phis
    OBVIOUS
  <2>3. PICK f : f = top
    OBVIOUS
  <2>4. /\ IsSequence(phis) /\ f.cache \in Seq(Value) /\ Len(f.cache) < Len(phis)
        /\ Evaluating(phis, f) /\ Has(phis[Len(f.cache) + 1], f)
        /\ v = Incoming(phis[Len(f.cache) + 1], f)
    BY <1>2, <1>3, <2>1, <2>2, <2>3
  <2>5. /\ g.cache = Append(f.cache, v) /\ g.prev = f.prev /\ g.before = f.before
        /\ g.vRegs = f.vRegs
    BY <1>6, <2>3
  <2>6. Evaluating(phis, g) /\ (Len(g.cache) = Len(phis) => Committing(phis, g))
    BY <1>5, <2>4, <2>5, CacheOne, Zenon
  <2>7. g.stage = "commit" => Len(g.cache) = Len(Phis)
    BY <1>6, <1>7
  <2> QED BY <2>2, <2>6, <2>7
<1>10. Entering(program, g)
  <2> HIDE DEF g, v
  <2> QED BY <1>2, <1>6, <1>8, <1>9 DEF Entering
<1> QED BY <1>5, <1>6, <1>10

LEMMA CommitEnters ==
    ASSUME RInv, status = "running", top.stage = "commit", NEW g,
           g = [top EXCEPT
                  !.vRegs = Bind(@, Phis[Len(Phis) - Len(top.cache) + 1].dst, Head(top.cache)),
                  !.cache = Tail(@),
                  !.stage = IF Len(Phis) - Len(top.cache) + 1 = Len(Phis) THEN "body" ELSE @]
    PROVE  Entering(program, g) /\ Committing(Phis, g) /\ g.fn = top.fn
<1>1. /\ GoodFrame(program, top) /\ Len(active) \in DOMAIN active
      /\ IsBlock(Block(program, top.fn, top.bb), DOMAIN BlocksOf(program, top))
  BY TopFrame DEF RInv
<1>2. /\ top.idx = 1 /\ top.prev \in DOMAIN BlocksOf(program, top) /\ IsRegs(top.before)
      /\ LeadsTo(Block(program, top.fn, top.prev).term, top.before, top.bb)
      /\ Committing(Phis, top)
  BY <1>1 DEF RInv, Entering, top, Phis, PhisOf
<1>3. /\ IsSequence(Phis) /\ top.cache \in Seq(Value) /\ DOMAIN top = FrameFields
      /\ top.cache # <<>> /\ Len(top.cache) <= Len(Phis)
      /\ \A i, j \in DOMAIN Phis : Phis[i].dst = Phis[j].dst => i = j
  BY <1>1 DEF IsBlock, Phis, PhisOf, GoodFrame, IsFrame, PhiLoops
<1>4. /\ g.fn = top.fn /\ g.bb = top.bb /\ g.idx = top.idx /\ g.prev = top.prev
      /\ g.before = top.before /\ g.cache = Tail(top.cache)
      /\ g.vRegs = Bind(top.vRegs, Phis[Len(Phis) - Len(top.cache) + 1].dst, Head(top.cache))
      /\ g.stage \in {"body", "commit"}
  BY <1>3 DEF FrameFields
<1>5. PhisOf(program, g) = Phis /\ BlocksOf(program, g) = BlocksOf(program, top)
  BY <1>4 DEF PhisOf, Phis, BlocksOf
<1>6. Committing(Phis, g)
  <2>1. PICK phis, f : phis = Phis /\ f = top
    OBVIOUS
  <2>2. /\ IsSequence(phis) /\ f.cache \in Seq(Value) /\ f.cache # <<>> /\ Len(f.cache) <= Len(phis)
        /\ \A i, j \in DOMAIN phis : phis[i].dst = phis[j].dst => i = j
        /\ Committing(phis, f) /\ g.cache = Tail(f.cache) /\ g.prev = f.prev /\ g.before = f.before
        /\ g.vRegs = Bind(f.vRegs, phis[Len(phis) - Len(f.cache) + 1].dst, Head(f.cache))
    BY <1>2, <1>3, <1>4, <2>1
  <2>3. Committing(phis, g)
    BY <2>2, BindOne, Zenon
  <2> QED BY <2>1, <2>3
<1> QED BY <1>2, <1>4, <1>5, <1>6 DEF Entering

LEMMA SwitchEnters ==
    ASSUME RInv, AtTerm, NEW dest \in DOMAIN BlocksOf(program, top),
           LeadsTo(Term, top.vRegs, dest), NEW g,
           g = [top EXCEPT !.prev = top.bb, !.bb = dest, !.idx = 1, !.cache = <<>>,
                  !.before = top.vRegs,
                  !.stage = IF Block(program, top.fn, dest).phis = <<>> THEN "body" ELSE "evaluate"]
    PROVE  Entering(program, g) /\ g.fn = top.fn
<1>1. IsRegs(top.vRegs) /\ DOMAIN top = FrameFields /\ GoodFrame(program, top)
  BY AtTerminator DEF RInv
<1>2. /\ g.fn = top.fn /\ g.bb = dest /\ g.idx = 1 /\ g.prev = top.bb /\ g.before = top.vRegs
      /\ g.vRegs = top.vRegs /\ g.cache = <<>> /\ g.stage \in {"body", "evaluate"}
  BY <1>1 DEF FrameFields
<1>3. Evaluating(PhisOf(program, g), g)
  <2>1. Len(g.cache) = 0
    BY <1>2
  <2> QED BY <1>2, <2>1 DEF Evaluating
<1>4. /\ LeadsTo(Block(program, g.fn, g.prev).term, g.before, g.bb)
      /\ g.prev \in DOMAIN BlocksOf(program, g)
  BY <1>1, <1>2 DEF Term, GoodFrame, IsFrame, BlocksOf
<1> QED BY <1>1, <1>2, <1>3, <1>4 DEF Entering

LEMMA InitRInv == ASSUME Init PROVE RInv
<1>1. PICK args : active = <<NewActive(program, "main", args)>>
  BY InitActive DEF Init
<1>2. PICK f : active = <<f>> /\ f.stage = "body"
  BY <1>1 DEF NewActive, Merged, NewCall
<1>3. \A j \in DOMAIN active : Entering(program, active[j])
  BY <1>2, ElsewhereEnters
<1> QED BY <1>3, InitIInv DEF RInv

LEMMA NextRInv == ASSUME RInv, [Next]_vars PROVE RInv'
<1> DEFINE AllEnter == \A j \in DOMAIN active' : Entering(program', active'[j])
<1>1. SUFFICES AllEnter
  BY NextIInv DEF RInv
<1>2. ASSUME NEW why, Stop(why) PROVE AllEnter
  BY <1>2 DEF Stop, RInv, active, Seen
<1>3. ASSUME status = "running", NEW g, g.fn = top.fn, Continue(g), UNCHANGED program,
             g.stage \in {"body", "calling"}
      PROVE  AllEnter
  BY <1>3, ContinueEnters, ElsewhereEnters
<1>4. ASSUME status = "running", top.stage \in {"body", "calling"}
      PROVE  /\ DOMAIN top = FrameFields /\ IsSequence(active) /\ active # <<>>
             /\ Len(active) \in Nat /\ Len(active) >= 1 /\ DOMAIN active = 1 .. Len(active)
  BY <1>4, TopFrame, SequenceShape DEF RInv, IInv, Shape, GoodFrame, IsFrame
<1>5. CASE EvaluatePhi
  <2> DEFINE phi == Phis[Len(top.cache) + 1]
  <2>0. status = "running" /\ top.stage = "evaluate"
    BY <1>5 DEF EvaluatePhi
  <2>1. CASE Stop("noPhiEntry") \/ Stop("unbound")
    BY <1>2, <2>1
  <2>2. CASE /\ top.prev \in DOMAIN phi.from /\ Evaluable(top.vRegs, phi.from[top.prev])
             /\ Continue(Cache(top, Eval(top.vRegs, phi.from[top.prev]))) /\ UNCHANGED program
    <3>1. top.vRegs = top.before
      BY <2>0, TopFrame DEF RInv, Entering, Evaluating, top
    <3>2. Has(phi, top) /\ Eval(top.vRegs, phi.from[top.prev]) = Incoming(phi, top)
      BY <2>2, <3>1 DEF Has, Incoming
    <3>3. Entering(program, Cache(top, Incoming(phi, top))) /\ Cache(top, Incoming(phi, top)).fn = top.fn
      BY <2>0, <3>2, EvaluateEnters
    <3> QED BY <2>0, <2>2, <3>2, <3>3, ContinueEnters
  <2> QED BY <1>5, <2>1, <2>2 DEF EvaluatePhi
<1>6. CASE CommitPhi
  BY <1>6, CommitEnters, ContinueEnters DEF CommitPhi
<1>7. CASE Execute
  <2>1. status = "running" /\ top.stage = "body" /\ DOMAIN top = FrameFields
    BY <1>4, <1>7 DEF Execute, AtInst
  <2>2. \A r, v : LET g == [top EXCEPT !.idx = @ + 1, !.vRegs = Bind(@, r, v)]
                   IN  g.stage = "body" /\ g.fn = top.fn
    BY <2>1 DEF FrameFields
  <2> HIDE DEF AllEnter
  <2> QED BY <1>2, <1>3, <1>7, <2>1, <2>2 DEF Execute
<1>8. CASE Call
  <2>1. /\ status = "running" /\ top.stage = "body" /\ DOMAIN top = FrameFields
        /\ IsSequence(active) /\ active # <<>>
        /\ Len(active) \in Nat /\ Len(active) >= 1 /\ DOMAIN active = 1 .. Len(active)
    BY <1>4, <1>8 DEF Call, AtInst
  <2>2. Wait(top).stage = "calling" /\ Wait(top).fn = top.fn /\ Wait(top).vRegs = top.vRegs
    BY <2>1 DEF Wait, FrameFields
  <2>3. ASSUME NEW fn, NEW args, UNCHANGED program, Push(Wait(top), fn, args)
        PROVE  AllEnter
    <3> DEFINE w == AsSeen(Wait(top))
               n == NewActive(program, fn, args)
               s == [active EXCEPT ![Len(active)] = w]
    <3>1. /\ IsSequence(s) /\ Len(s) = Len(active) /\ s[Len(s)] = w
          /\ \A j \in DOMAIN active : j # Len(active) => s[j] = active[j]
      BY <2>1, ReplaceTop
    <3>2. active' = Append(s, n) /\ DOMAIN s = DOMAIN active
      BY <2>1, <2>2, <2>3, PushActive, Calling DEF RInv
    <3> HIDE DEF s, w, n
    <3>3. /\ IsSequence(active') /\ Len(active') = Len(active) + 1 /\ active'[Len(active) + 1] = n
          /\ \A j \in DOMAIN s : active'[j] = s[j]
      BY <3>1, <3>2, AppendLast
    <3>4. \A j \in DOMAIN active' : j \in DOMAIN active \/ j = Len(active) + 1
      BY <2>1, <3>3, SequenceShape
    <3>5. \A j \in DOMAIN active : active'[j] \in {w, active[j]}
      BY <3>1, <3>2, <3>3
    <3>6. Entering(program, w) /\ Entering(program, n)
      <4>1. w.stage = "calling" /\ n.stage = "body"
        BY <2>2 DEF w, n, AsSeen, NewActive, Merged, NewCall
      <4> QED BY <4>1, ElsewhereEnters
    <3> QED BY <2>3, <3>3, <3>4, <3>5, <3>6 DEF RInv
  <2> HIDE DEF AllEnter
  <2>5. CASE Stop("badCall") \/ Stop("unbound")
    BY <1>2, <2>5
  <2>6. CASE Continue(Wait(top)) /\ UNCHANGED program
    BY <1>3, <2>1, <2>2, <2>6
  <2>7. CASE (\E fn, args : Push(Wait(top), fn, args)) /\ UNCHANGED program
    BY <2>3, <2>7
  <2> QED BY <1>8, <2>5, <2>6, <2>7 DEF Call
<1>9. CASE FinishCall
  <2>1. status = "running" /\ top.stage = "calling" /\ Continue(CallDone(top)) /\ UNCHANGED program
    BY <1>9 DEF FinishCall
  <2>2. CallDone(top).stage = "body" /\ CallDone(top).fn = top.fn
    BY <1>4, <2>1 DEF CallDone, CallDoneAt, FrameFields
  <2> QED BY <1>3, <2>1, <2>2
<1>10. ASSUME AtTerm, NEW dest, SwitchTo(dest), dest \in DOMAIN BlocksOf(program, top),
              LeadsTo(Term, top.vRegs, dest)
       PROVE  AllEnter
  BY <1>10, SwitchEnters, ContinueEnters, Zenon DEF SwitchTo, AtTerm
<1>11. CASE Br
  <2>1. AtTerm /\ Term.kind = "br" /\ SwitchTo(Term.dest)
    BY <1>11 DEF Br
  <2>2. Term.dest \in DOMAIN BlocksOf(program, top)
    BY <2>1, AtTerminator DEF IsTerm, RInv
  <2> QED BY <1>10, <2>1, <2>2 DEF LeadsTo
<1>12. CASE Select
  <2> DEFINE v == Eval(top.vRegs, Term.on)
  <2>1. AtTerm /\ Term.kind \in {"condbr", "switch"}
    BY <1>12 DEF Select
  <2>2. CASE Stop("unbound") \/ Stop("badValue")
    BY <1>2, <2>2
  <2>3. CASE Evaluable(top.vRegs, Term.on) /\ v # Undef /\ SwitchTo(Successor(Term, v))
    <3>1. Successor(Term, v) \in DOMAIN BlocksOf(program, top)
      BY <2>1, AtTerminator, SuccessorKnown DEF RInv
    <3>2. LeadsTo(Term, top.vRegs, Successor(Term, v))
      BY <2>1, <2>3 DEF LeadsTo, IsInt
    <3> QED BY <1>10, <2>1, <2>3, <3>1, <3>2
  <2> QED BY <1>12, <2>2, <2>3 DEF Select
<1>13. CASE Ret
  <2>1. /\ status = "running" /\ IsSequence(active) /\ active # <<>> /\ Len(active) >= 1
    BY <1>4, <1>13 DEF Ret, AtTerm
  <2>2. CASE Stop("unbound")
    BY <1>2, <2>2
  <2>3. CASE Pop /\ UNCHANGED program
    <3>0. active' = SubSeq(active, 1, Len(active) - 1)
      BY <2>1, <2>3, PopActive, Calling DEF RInv
    <3>1. \A j \in DOMAIN active' : j \in DOMAIN active /\ active'[j] = active[j]
      BY <2>1, <3>0, DropLast
    <3> QED BY <2>3, <3>1 DEF RInv
  <2> QED BY <1>13, <2>2, <2>3 DEF Ret
<1>14. CASE Unreachable
  BY <1>2, <1>14 DEF Unreachable
<1>15. CASE UNCHANGED vars
  BY <1>15 DEF vars, RInv, active, Seen
<1> HIDE DEF AllEnter
<1> QED BY <1>5, <1>6, <1>7, <1>8, <1>9, <1>11, <1>12, <1>13, <1>14, <1>15 DEF Next

----------------------------------------------------------------------------------
(* The activations of a sequence of frames, when r is the value on its way to the last. *)
ActOf(p, f) ==
    IF f.stage \in {"evaluate", "commit"}
    THEN [fn |-> f.fn, bb |-> f.prev, idx |-> Len(Block(p, f.fn, f.prev).insts) + 1,
          env |-> f.before]
    ELSE [fn |-> f.fn, bb |-> f.bb, idx |-> f.idx, env |-> f.vRegs]

DoneOf(p, f, r) ==
    LET i == Block(p, f.fn, f.bb).insts[f.idx]
        fn == CHOOSE c \in Callee(p, f.vRegs, i) : TRUE
    IN  [f EXCEPT !.stage = "body", !.idx = f.idx + 1,
           !.vRegs = IF p.fns[fn].returnsVoid THEN @ ELSE Bind(@, i.dst, r[1])]

LastOf(p, f, r) == IF r # <<>> THEN ActOf(p, DoneOf(p, f, r)) ELSE ActOf(p, f)

ActsOf(p, s, r) == [j \in DOMAIN s |-> IF j = Len(s) THEN LastOf(p, s[j], r) ELSE ActOf(p, s[j])]

LEMMA ActivationsAre ==
    /\ Activations = ActsOf(program, active, retVal)
    /\ Activations' = ActsOf(program', active', retVal')
<1>1. \A f : Activation(f) = ActOf(program, f) /\ CallDone(f) = DoneOf(program, f, retVal)
  BY DEF Activation, ActOf, CallDone, CallDoneAt, DoneOf
<1>2. \A f : Activation(f)' = ActOf(program', f) /\ CallDone(f)' = DoneOf(program', f, retVal')
  BY DEF Activation, ActOf, CallDone, CallDoneAt, DoneOf
<1>3. Activations = ActsOf(program, active, retVal)
  BY <1>1 DEF Activations, ActsOf, LastOf
<1>4. Activations' = ActsOf(program', active', retVal')
  BY <1>2 DEF Activations, ActsOf, LastOf
<1> QED BY <1>3, <1>4

LEMMA ActsShape ==
    ASSUME NEW p, NEW s, IsSequence(s), NEW r
    PROVE  /\ IsSequence(ActsOf(p, s, r)) /\ Len(ActsOf(p, s, r)) = Len(s)
           /\ \A j \in DOMAIN s :
                 ActsOf(p, s, r)[j] = IF j = Len(s) THEN LastOf(p, s[j], r) ELSE ActOf(p, s[j])
<1> DEFINE a == ActsOf(p, s, r)
<1>1. Len(s) \in Nat /\ DOMAIN s = 1 .. Len(s)
  BY SequenceShape
<1>2. /\ a = [j \in 1 .. Len(s) |-> a[j]]
      /\ \A j \in DOMAIN s : a[j] = IF j = Len(s) THEN LastOf(p, s[j], r) ELSE ActOf(p, s[j])
  BY <1>1 DEF ActsOf
<1> HIDE DEF a
<1>3. IsSequence(a) /\ Len(a) = Len(s)
  BY <1>1, <1>2, FunctionSequence
<1> QED BY <1>2, <1>3 DEF a

(* What the three moves of the frames do to the activations.                           *)
WithLast(s, f) == [s EXCEPT ![Len(s)] = f]

LEMMA ActsContinue ==
    ASSUME NEW p, NEW s, IsSequence(s), s # <<>>, NEW r, NEW q, NEW g
    PROVE  ActsOf(p, WithLast(s, g), q) = WithLast(ActsOf(p, s, r), LastOf(p, g, q))
<1> DEFINE t == WithLast(s, g)
           a == ActsOf(p, s, r)
           b == ActsOf(p, t, q)
           c == WithLast(a, LastOf(p, g, q))
<1>1. Len(s) \in Nat /\ DOMAIN s = 1 .. Len(s) /\ Len(s) \in DOMAIN s
  BY SequenceShape
<1>2. /\ IsSequence(t) /\ Len(t) = Len(s) /\ t[Len(s)] = g
      /\ \A j \in DOMAIN s : j # Len(s) => t[j] = s[j]
  BY ReplaceTop DEF WithLast
<1>3. /\ IsSequence(a) /\ Len(a) = Len(s)
      /\ \A j \in DOMAIN s : a[j] = IF j = Len(s) THEN LastOf(p, s[j], r) ELSE ActOf(p, s[j])
  BY ActsShape
<1> HIDE DEF t, a
<1>4. /\ IsSequence(b) /\ Len(b) = Len(s)
      /\ \A j \in DOMAIN t : b[j] = IF j = Len(s) THEN LastOf(p, t[j], q) ELSE ActOf(p, t[j])
  BY <1>2, ActsShape
<1>5. a # <<>> /\ DOMAIN a = DOMAIN s /\ DOMAIN t = DOMAIN s
  BY <1>1, <1>2, <1>3, SequenceShape
<1> HIDE DEF b
<1>6. IsSequence(c) /\ Len(c) = Len(s) /\ c[Len(s)] = LastOf(p, g, q)
      /\ \A j \in DOMAIN s : j # Len(s) => c[j] = a[j]
  <2>1. /\ IsSequence(c) /\ Len(c) = Len(a) /\ c[Len(c)] = LastOf(p, g, q)
        /\ \A j \in DOMAIN a : j # Len(a) => c[j] = a[j]
    BY <1>3, <1>5, ReplaceTop DEF WithLast
  <2> HIDE DEF c
  <2> QED BY <1>3, <1>5, <2>1
<1> HIDE DEF c
<1>7. \A j \in DOMAIN s : b[j] = c[j]
  BY <1>1, <1>2, <1>3, <1>4, <1>5, <1>6
<1>8. b = c
  BY <1>1, <1>4, <1>6, <1>7, SameSequence
<1> QED BY <1>8 DEF a, b, c, t

LEMMA ActsSame ==
    ASSUME NEW p, NEW s, IsSequence(s), s # <<>>, NEW r, NEW q, NEW g,
           LastOf(p, g, q) = LastOf(p, s[Len(s)], r)
    PROVE  ActsOf(p, WithLast(s, g), q) = ActsOf(p, s, r)
<1> DEFINE a == ActsOf(p, s, r)
<1>1. Len(s) \in DOMAIN s
  BY SequenceShape
<1>2. Len(a) = Len(s) /\ a[Len(s)] = LastOf(p, s[Len(s)], r) /\ IsSequence(a)
  BY <1>1, ActsShape
<1>3. a = [j \in DOMAIN a |-> a[j]]
  BY DEF ActsOf
<1>4. ActsOf(p, WithLast(s, g), q) = WithLast(a, LastOf(p, g, q))
  BY ActsContinue
<1> HIDE DEF a
<1>5. WithLast(a, LastOf(p, g, q)) = a
  BY <1>2, <1>3 DEF WithLast
<1> QED BY <1>4, <1>5 DEF a

LEMMA ActsPush ==
    ASSUME NEW p, NEW s, IsSequence(s), s # <<>>, NEW w, NEW g,
           ActOf(p, w) = ActOf(p, s[Len(s)])
    PROVE  ActsOf(p, Append(WithLast(s, w), g), <<>>)
              = Append(ActsOf(p, s, <<>>), ActOf(p, g))
<1> DEFINE t == WithLast(s, w)
           u == Append(t, g)
           a == ActsOf(p, s, <<>>)
           b == ActsOf(p, u, <<>>)
           c == Append(a, ActOf(p, g))
<1>1. Len(s) \in Nat /\ DOMAIN s = 1 .. Len(s) /\ Len(s) \in DOMAIN s
  BY SequenceShape
<1>2. /\ IsSequence(t) /\ Len(t) = Len(s) /\ t[Len(s)] = w
      /\ \A j \in DOMAIN s : j # Len(s) => t[j] = s[j]
  BY ReplaceTop DEF WithLast
<1>3. /\ IsSequence(a) /\ Len(a) = Len(s)
      /\ \A j \in DOMAIN s : a[j] = ActOf(p, s[j])
  BY ActsShape DEF LastOf
<1> HIDE DEF t, a
<1>4. /\ IsSequence(u) /\ Len(u) = Len(s) + 1 /\ u[Len(s) + 1] = g
      /\ \A j \in DOMAIN t : u[j] = t[j]
  BY <1>2, AppendLast
<1> HIDE DEF u
<1>5. /\ IsSequence(b) /\ Len(b) = Len(s) + 1
      /\ \A j \in DOMAIN u : b[j] = ActOf(p, u[j])
  BY <1>4, ActsShape DEF LastOf
<1>6. /\ IsSequence(c) /\ Len(c) = Len(s) + 1 /\ c[Len(s) + 1] = ActOf(p, g)
      /\ \A j \in DOMAIN a : c[j] = a[j]
  BY <1>3, AppendLast
<1> HIDE DEF b, c
<1>7. /\ DOMAIN t = 1 .. Len(s) /\ DOMAIN a = 1 .. Len(s) /\ DOMAIN u = 1 .. Len(s) + 1
  BY <1>2, <1>3, <1>4, SequenceShape
<1>8. \A j \in 1 .. Len(s) : u[j] = t[j] /\ c[j] = ActOf(p, s[j]) /\ j \in DOMAIN u
  BY <1>1, <1>3, <1>4, <1>6, <1>7
<1>9. \A j \in 1 .. Len(s) : b[j] = c[j]
  BY <1>1, <1>2, <1>5, <1>8
<1>10. b[Len(s) + 1] = c[Len(s) + 1]
  BY <1>1, <1>4, <1>5, <1>6, <1>7
<1>11. b = c
  <2>1. \A j \in 1 .. Len(s) + 1 : j \in 1 .. Len(s) \/ j = Len(s) + 1
    BY <1>1
  <2> QED BY <1>5, <1>6, <1>9, <1>10, <2>1, SameSequence
<1> QED BY <1>11 DEF a, b, c, t, u

(* rest is what is left of the activations, and acts what they are with the value q.   *)
Popped(p, s, q, rest, acts) ==
    /\ IsSequence(rest) /\ Len(rest) = Len(s) - 1
    /\ \A j \in DOMAIN rest : rest[j] = ActOf(p, s[j])
    /\ Len(s) = 1 => acts = rest
    /\ Len(s) > 1 => acts = WithLast(rest, LastOf(p, s[Len(s) - 1], q))

LEMMA ActsPop ==
    ASSUME NEW p, NEW s, IsSequence(s), s # <<>>, NEW q
    PROVE  Popped(p, s, q, SubSeq(ActsOf(p, s, <<>>), 1, Len(ActsOf(p, s, <<>>)) - 1),
                  ActsOf(p, SubSeq(s, 1, Len(s) - 1), q))
<1> DEFINE t == SubSeq(s, 1, Len(s) - 1)
           a == ActsOf(p, s, <<>>)
           rest == SubSeq(a, 1, Len(a) - 1)
           b == ActsOf(p, t, q)
           c == WithLast(rest, LastOf(p, s[Len(s) - 1], q))
<1>1. PICK n \in Nat : n = Len(s) /\ n >= 1 /\ DOMAIN s = 1 .. n
  BY SequenceShape
<1>2. IsSequence(t) /\ Len(t) = n - 1 /\ \A j \in DOMAIN t : t[j] = s[j]
  BY <1>1, DropLast
<1>3. IsSequence(a) /\ Len(a) = n /\ \A j \in DOMAIN s : a[j] = ActOf(p, s[j])
  BY <1>1, ActsShape DEF LastOf
<1>4. a # <<>>
  BY <1>1, <1>3, SequenceShape
<1> HIDE DEF t, a
<1>5. /\ IsSequence(rest) /\ Len(rest) = n - 1
      /\ \A j \in DOMAIN rest : j \in DOMAIN a /\ rest[j] = a[j]
  BY <1>3, <1>4, DropLast
<1>6. /\ IsSequence(b) /\ Len(b) = n - 1
      /\ \A j \in DOMAIN t : b[j] = IF j = n - 1 THEN LastOf(p, t[j], q) ELSE ActOf(p, t[j])
  <2>1. /\ IsSequence(b) /\ Len(b) = Len(t)
        /\ \A j \in DOMAIN t : b[j] = IF j = Len(t) THEN LastOf(p, t[j], q) ELSE ActOf(p, t[j])
    <3>1. IsSequence(t)
      BY <1>2
    <3>2. IsSequence(b) /\ Len(b) = Len(t)
      BY <3>1, ActsShape
    <3>3. \A j \in DOMAIN t : ActsOf(p, t, q)[j] = IF j = Len(t) THEN LastOf(p, t[j], q) ELSE ActOf(p, t[j])
      BY <3>1, ActsShape
    <3> QED BY <3>2, <3>3
  <2> HIDE DEF b
  <2> QED BY <1>2, <2>1
<1> HIDE DEF rest, b
<1>7. /\ DOMAIN t = 1 .. n - 1 /\ DOMAIN rest = 1 .. n - 1 /\ DOMAIN b = 1 .. n - 1
      /\ DOMAIN a = 1 .. n
  BY <1>2, <1>3, <1>5, <1>6, SequenceShape
<1>8. \A j \in DOMAIN rest : rest[j] = ActOf(p, s[j])
  BY <1>1, <1>3, <1>5, <1>7
<1>9. ASSUME n = 1 PROVE b = rest
  BY <1>5, <1>6, <1>9, SequenceShape
<1>10. ASSUME n > 1 PROVE b = c
  <2>1. rest # <<>> /\ n - 1 \in 1 .. n - 1 /\ n - 1 \in Nat
    BY <1>1, <1>5, <1>10, SequenceShape
  <2>2. /\ IsSequence(c) /\ Len(c) = n - 1 /\ c[n - 1] = LastOf(p, s[n - 1], q)
        /\ \A j \in DOMAIN rest : j # n - 1 => c[j] = rest[j]
    BY <1>1, <1>5, <2>1, ReplaceTop DEF WithLast
  <2> HIDE DEF c
  <2>3. \A j \in 1 .. n - 1 : b[j] = c[j]
    BY <1>2, <1>6, <1>7, <1>8, <2>2
  <2> QED BY <1>6, <2>2, <2>3, SameSequence
<1>11. Popped(p, s, q, rest, b)
  BY <1>1, <1>5, <1>8, <1>9, <1>10 DEF Popped, c
<1> QED BY <1>11 DEF a, b, t, rest

----------------------------------------------------------------------------------
(* The abstract specification reads the program as the interpreter does.               *)
LEMMA SameFunctions ==
    /\ \A p, fn, bb : Abs!Block(p, fn, bb) = Block(p, fn, bb)
    /\ \A p, fn : Abs!IsDeclaration(p, fn) <=> IsDeclaration(p, fn)
    /\ \A p, regs, i : Abs!Callee(p, regs, i) = Callee(p, regs, i)
    /\ \A p, fn, args : Abs!ArityOK(p, fn, args) <=> ArityOK(p, fn, args)
    /\ \A p, fn, args : Abs!BindParams(p, fn, args) = BindParams(p, fn, args)
  BY DEF Abs!Block, Block, Abs!IsDeclaration, IsDeclaration, Abs!Callee, Callee,
         Abs!ArityOK, ArityOK, Abs!BindParams, BindParams, Abs!Range, Range

LEMMA SameValues ==
    /\ \A regs, o : Abs!Eval(regs, o) = Eval(regs, o)
    /\ \A regs, o : Abs!Evaluable(regs, o) <=> Evaluable(regs, o)
    /\ \A regs, os : Abs!AllEvaluable(regs, os) <=> AllEvaluable(regs, os)
    /\ \A regs, os : Abs!EvalAll(regs, os) = EvalAll(regs, os)
    /\ \A regs, o : Abs!IsInt(regs, o) <=> IsInt(regs, o)
    /\ \A regs, r, v : Abs!Bind(regs, r, v) = Bind(regs, r, v)
    /\ Abs!Computes = Computes /\ Abs!Undef = Undef
    /\ \A op, a, b : Abs!Compute(op, a, b) = Compute(op, a, b)
    /\ \A t, v : Abs!Successor(t, v) = Successor(t, v)
<1>1. \A regs, o : Abs!Eval(regs, o) = Eval(regs, o) /\ (Abs!Evaluable(regs, o) <=> Evaluable(regs, o))
  BY DEF Abs!Eval, Eval, Abs!Evaluable, Evaluable
<1>2. /\ \A regs, os : Abs!AllEvaluable(regs, os) <=> AllEvaluable(regs, os)
      /\ \A regs, os : Abs!EvalAll(regs, os) = EvalAll(regs, os)
      /\ \A regs, o : Abs!IsInt(regs, o) <=> IsInt(regs, o)
  BY <1>1 DEF Abs!AllEvaluable, AllEvaluable, Abs!EvalAll, EvalAll, Abs!IsInt, IsInt, Abs!Undef, Undef
<1>3. /\ \A regs, r, v : Abs!Bind(regs, r, v) = Bind(regs, r, v)
      /\ Abs!Computes = Computes /\ Abs!Undef = Undef
      /\ \A op, a, b : Abs!Compute(op, a, b) = Compute(op, a, b)
  BY DEF Abs!Bind, Bind, Abs!Computes, Computes, Abs!Compute, Compute, Abs!Undef, Undef
<1>4. \A t, v : Abs!Successor(t, v) = Successor(t, v)
  BY DEF Abs!Successor, Successor
<1> QED BY <1>1, <1>2, <1>3, <1>4

(* The running activation, as the language sees it.                                    *)
LEMMA TopActivation ==
    ASSUME RInv, status = "running"
    PROVE  /\ IsSequence(Activations) /\ Len(Activations) = Len(active)
           /\ IsSequence(active) /\ active # <<>>
           /\ retVal = <<>> => Abs!top = ActOf(program, top)
<1>1. /\ IsSequence(active) /\ active # <<>> /\ Len(active) \in DOMAIN active
  BY TopFrame DEF RInv, IInv, Shape
<1>2. /\ IsSequence(Activations) /\ Len(Activations) = Len(active)
      /\ Activations[Len(active)] = LastOf(program, active[Len(active)], retVal)
  BY <1>1, ActsShape, ActivationsAre
<1> QED BY <1>1, <1>2 DEF Abs!top, top, LastOf

LEMMA AtBody ==
    ASSUME RInv, status = "running", top.stage = "body"
    PROVE  /\ retVal = <<>>
           /\ Abs!top = [fn |-> top.fn, bb |-> top.bb, idx |-> top.idx, env |-> top.vRegs]
           /\ Abs!Insts = Insts /\ Abs!Term = Term
           /\ Abs!AtTerm <=> top.idx = Len(Insts) + 1
<1>1. retVal = <<>>
  BY TopFrame DEF RInv
<1>2. Abs!top = [fn |-> top.fn, bb |-> top.bb, idx |-> top.idx, env |-> top.vRegs]
  BY <1>1, TopActivation DEF ActOf
<1> QED BY <1>1, <1>2, SameFunctions DEF Abs!Insts, Insts, Abs!Term, Term, Abs!AtTerm

(* A frame at the phis of its block is, to the language, still at the branch.          *)
LEMMA AtPhis ==
    ASSUME RInv, status = "running", top.stage \in {"evaluate", "commit"}
    PROVE  /\ retVal = <<>>
           /\ Abs!top.fn = top.fn /\ Abs!top.bb = top.prev /\ Abs!top.env = top.before
           /\ DOMAIN Abs!top = {"fn", "bb", "idx", "env"}
           /\ Abs!AtTerm /\ Abs!Term.kind # "ret" /\ Abs!Destinations = {top.bb}
           /\ Abs!Enterable(top.prev, top.bb) <=> \A i \in DOMAIN Phis : Has(Phis[i], top)
<1>1. retVal = <<>> /\ Len(active) \in DOMAIN active
  BY TopFrame DEF RInv
<1>2. Abs!top = [fn |-> top.fn, bb |-> top.prev, idx |-> Len(Block(program, top.fn, top.prev).insts) + 1,
                 env |-> top.before]
  BY <1>1, TopActivation DEF ActOf
<1>3. LeadsTo(Block(program, top.fn, top.prev).term, top.before, top.bb)
  BY <1>1 DEF RInv, Entering, top
<1>4. Abs!AtTerm /\ Abs!Term = Block(program, top.fn, top.prev).term
  BY <1>2, SameFunctions DEF Abs!AtTerm, Abs!Insts, Abs!Term
<1>5. Abs!Term.kind # "ret" /\ Abs!Destinations = {top.bb}
  BY <1>2, <1>3, <1>4, SameValues DEF LeadsTo, Abs!Destinations
<1>6. Abs!Enterable(top.prev, top.bb) <=> \A i \in DOMAIN Phis : Has(Phis[i], top)
  BY <1>2, SameFunctions, SameValues DEF Abs!Enterable, Phis, Has
<1> QED BY <1>1, <1>2, <1>4, <1>5, <1>6

LEMMA SeenActs ==
    ASSUME NEW p, NEW f, DOMAIN f = FrameFields, NEW r
    PROVE  ActOf(p, AsSeen(f)) = ActOf(p, f) /\ LastOf(p, AsSeen(f), r) = LastOf(p, f, r)
<1> DEFINE g == AsSeen(f)
<1>1. /\ g.fn = f.fn /\ g.bb = f.bb /\ g.idx = f.idx /\ g.prev = f.prev /\ g.stage = f.stage
      /\ g.before = f.before /\ g.vRegs = f.vRegs /\ DOMAIN g = FrameFields
  BY DEF AsSeen, Merged, FrameFields
<1> HIDE DEF g
<1>2. ActOf(p, g) = ActOf(p, f)
  BY <1>1 DEF ActOf
<1>3. ActOf(p, DoneOf(p, g, r)) = ActOf(p, DoneOf(p, f, r))
  <2> DEFINE d == DoneOf(p, g, r)
             e == DoneOf(p, f, r)
  <2>1. d.fn = e.fn /\ d.bb = e.bb /\ d.idx = e.idx /\ d.stage = "body" /\ e.stage = "body"
    BY <1>1 DEF DoneOf, FrameFields
  <2>2. d.vRegs = e.vRegs
    BY <1>1 DEF DoneOf, FrameFields
  <2> HIDE DEF d, e
  <2>3. ActOf(p, d) = ActOf(p, e)
    BY <2>1, <2>2 DEF ActOf
  <2> QED BY <2>3 DEF d, e
<1>4. LastOf(p, g, r) = LastOf(p, f, r)
  BY <1>2, <1>3 DEF LastOf
<1> QED BY <1>2, <1>4 DEF g

LEMMA ContinueActs ==
    ASSUME RInv, status = "running", NEW g, g.fn = top.fn, DOMAIN g = FrameFields, Continue(g),
           UNCHANGED program
    PROVE  /\ Activations' = WithLast(Activations, LastOf(program, g, retVal'))
           /\ LastOf(program, g, retVal') = LastOf(program, top, retVal) => Activations' = Activations
<1>1. IsSequence(active) /\ active # <<>>
  BY TopActivation
<1>2. PICK h : h = AsSeen(g)
  OBVIOUS
<1>3. LastOf(program, h, retVal') = LastOf(program, g, retVal')
  BY <1>2, SeenActs
<1>4. active' = WithLast(active, h)
  BY <1>2, ContinueActive, Calling DEF RInv, WithLast
<1>5. /\ Activations = ActsOf(program, active, retVal)
      /\ Activations' = ActsOf(program, WithLast(active, h), retVal')
  BY <1>4, ActivationsAre
<1>6. Activations' = WithLast(Activations, LastOf(program, g, retVal'))
  BY <1>1, <1>3, <1>5, ActsContinue
<1>7. ASSUME LastOf(program, g, retVal') = LastOf(program, top, retVal)
      PROVE  Activations' = Activations
  BY <1>1, <1>3, <1>5, <1>7, ActsSame DEF top
<1> QED BY <1>6, <1>7

(* A step at which the interpreter gives up, where the program has no meaning.         *)
LEMMA GivesUp ==
    ASSUME status = "running", NEW why \in Failures, Stop(why), Abs!Meaningless
    PROVE  Abs!Next
<1>1. UNCHANGED <<program, active, retVal, result>> /\ status' = why /\ status \notin Failures
  BY DEF Stop, Failures, active, Seen
<1>2. Activations' = Activations
  BY <1>1, ActivationsAre
<1> QED BY <1>1, <1>2 DEF Abs!Next, Abs!GiveUp, Failures

LEMMA EvaluatePhiImplements == ASSUME RInv, EvaluatePhi PROVE [Abs!Next]_(Abs!vars)
<1> DEFINE phi == Phis[Len(top.cache) + 1]
           v == Eval(top.vRegs, phi.from[top.prev])
<1>1. status = "running" /\ top.stage = "evaluate"
  BY DEF EvaluatePhi
<1>2. /\ GoodFrame(program, top) /\ Len(active) \in DOMAIN active
      /\ IsBlock(Block(program, top.fn, top.bb), DOMAIN BlocksOf(program, top))
  BY <1>1, TopFrame DEF RInv
<1>3. top.vRegs = top.before
  BY <1>1, <1>2 DEF RInv, Entering, Evaluating, top
<1>4. DOMAIN top = FrameFields /\ Len(top.cache) + 1 \in DOMAIN Phis
  BY <1>1, <1>2, SequenceShape DEF IsBlock, Phis, PhisOf, GoodFrame, IsFrame, PhiLoops
<1>5. ASSUME ~Has(phi, top) PROVE Abs!Meaningless
  BY <1>1, <1>4, <1>5, AtPhis DEF Abs!Meaningless
<1>6. CASE ~(top.prev \in DOMAIN phi.from) /\ Stop("noPhiEntry")
  BY <1>1, <1>5, <1>6, GivesUp DEF Has, Failures
<1>7. CASE ~Evaluable(top.vRegs, phi.from[top.prev]) /\ Stop("unbound")
  BY <1>1, <1>3, <1>5, <1>7, GivesUp DEF Has, Failures
<1>8. CASE Continue(Cache(top, v)) /\ UNCHANGED <<program, status, retVal, result>>
  <2> DEFINE g == Cache(top, v)
  <2>1. /\ g.fn = top.fn /\ g.bb = top.bb /\ g.idx = top.idx /\ g.prev = top.prev
        /\ g.before = top.before /\ g.stage \in {"commit", "evaluate"}
        /\ DOMAIN g = FrameFields
    BY <1>4 DEF Cache, NextStage, FrameFields
  <2> HIDE DEF g
  <2>2. ActOf(program, g) = ActOf(program, top)
    BY <1>1, <2>1 DEF ActOf
  <2>3. retVal = <<>> /\ retVal' = <<>>
    BY <1>1, <1>8, AtPhis
  <2>4. LastOf(program, g, retVal') = LastOf(program, top, retVal)
    BY <2>2, <2>3 DEF LastOf
  <2>5. Activations' = Activations
    BY <1>1, <1>8, <2>1, <2>4, ContinueActs DEF g
  <2> QED BY <1>8, <2>5 DEF Abs!vars
<1> QED BY <1>6, <1>7, <1>8 DEF EvaluatePhi

(* The registers that the language gives to a block, and the interpreter's.             *)
EnteredWith(regs, phis, prev) ==
    LET dsts == {phis[i].dst : i \in DOMAIN phis}
        from(r) == phis[CHOOSE i \in DOMAIN phis : phis[i].dst = r].from[prev]
    IN  [r \in DOMAIN regs \cup dsts |-> IF r \in dsts THEN Abs!Eval(regs, from(r)) ELSE regs[r]]

LEMMA SameEntry ==
    ASSUME NEW regs, NEW phis, NEW prev
    PROVE  LET dsts == {phis[i].dst : i \in DOMAIN phis}
               which(r) == CHOOSE i \in DOMAIN phis : phis[i].dst = r
           IN  EnteredWith(regs, phis, prev)
                 = [r \in DOMAIN regs \cup dsts |-> IF r \in dsts THEN Eval(regs, phis[which(r)].from[prev])
                                                   ELSE regs[r]]
<1> DEFINE from(r) == phis[CHOOSE i \in DOMAIN phis : phis[i].dst = r].from[prev]
           dsts == {phis[i].dst : i \in DOMAIN phis}
<1>1. \A r : Abs!Eval(regs, from(r)) = Eval(regs, from(r))
  BY SameValues
<1> HIDE DEF from, dsts
<1>2. [r \in DOMAIN regs \cup dsts |-> IF r \in dsts THEN Abs!Eval(regs, from(r)) ELSE regs[r]]
        = [r \in DOMAIN regs \cup dsts |-> IF r \in dsts THEN Eval(regs, from(r)) ELSE regs[r]]
  BY <1>1
<1> QED BY <1>2 DEF from, dsts, EnteredWith

LEMMA CommitPhiImplements == ASSUME RInv, CommitPhi PROVE [Abs!Next]_(Abs!vars)
<1> DEFINE k == Len(Phis) - Len(top.cache) + 1
<1>1. PICK g : g = [top EXCEPT !.vRegs = Bind(@, Phis[k].dst, Head(top.cache)),
                               !.cache = Tail(@),
                               !.stage = IF k = Len(Phis) THEN "body" ELSE @]
  OBVIOUS
<1>2. /\ status = "running" /\ top.stage = "commit"
      /\ Continue(g) /\ UNCHANGED <<program, status, retVal, result>>
  BY <1>1 DEF CommitPhi
<1>3. /\ GoodFrame(program, top) /\ DOMAIN top = FrameFields /\ Len(active) \in DOMAIN active
      /\ IsBlock(Block(program, top.fn, top.bb), DOMAIN BlocksOf(program, top))
  BY <1>2, TopFrame DEF RInv, GoodFrame, IsFrame
<1>4. /\ g.fn = top.fn /\ g.bb = top.bb /\ g.idx = top.idx /\ g.prev = top.prev
      /\ g.before = top.before /\ g.cache = Tail(top.cache)
      /\ g.vRegs = Bind(top.vRegs, Phis[k].dst, Head(top.cache))
      /\ g.stage = (IF k = Len(Phis) THEN "body" ELSE "commit") /\ DOMAIN g = FrameFields
  BY <1>1, <1>2, <1>3 DEF FrameFields
<1>5. retVal = <<>> /\ retVal' = <<>>
  BY <1>2, AtPhis
<1>6. CASE k # Len(Phis)
  <2>1. ActOf(program, g) = ActOf(program, top)
    BY <1>2, <1>4, <1>6 DEF ActOf
  <2>2. Activations' = Activations
    BY <1>2, <1>4, <1>5, <2>1, ContinueActs DEF LastOf
  <2> QED BY <1>2, <2>2 DEF Abs!vars
<1>7. CASE k = Len(Phis)
  <2>1. Committing(Phis, g) /\ Committing(Phis, top)
    <3>1. Committing(Phis, g)
      BY <1>1, <1>2, CommitEnters
    <3> QED BY <1>2, <1>3, <3>1 DEF RInv, Entering, top, Phis, PhisOf
  <2>2. g.cache = <<>>
    <3>1. /\ top.cache \in Seq(Value) /\ top.cache # <<>> /\ Len(top.cache) \in Nat
          /\ Len(Phis) \in Nat
      BY <1>2, <1>3, SequenceShape DEF GoodFrame, IsFrame, PhiLoops, IsBlock, Phis
    <3>2. Len(top.cache) = 1
      <4>1. ASSUME NEW m \in Nat, NEW n \in Nat, n - m + 1 = n PROVE m = 1
        BY <4>1
      <4> QED BY <1>7, <3>1, <4>1
    <3>3. Len(Tail(top.cache)) = 0 /\ Tail(top.cache) \in Seq(Value)
      BY <3>1, <3>2
    <3> QED BY <1>4, <3>3, EmptySeq
  <2>3. IsRegs(g.vRegs)
    <3>1. Head(top.cache) \in Value
      BY <1>2, <1>3 DEF GoodFrame, IsFrame, PhiLoops
    <3> QED BY <1>3, <1>4, <3>1, BindRegs DEF GoodFrame, IsFrame
  <2>4. IsSequence(Phis) /\ \A i, j \in DOMAIN Phis : Phis[i].dst = Phis[j].dst => i = j
    BY <1>3 DEF IsBlock, Phis
  <2> DEFINE assigned == {Phis[i].dst : i \in DOMAIN Phis}
             which(r) == CHOOSE i \in DOMAIN Phis : Phis[i].dst = r
             env == [r \in DOMAIN top.before \cup assigned |->
                       IF r \in assigned THEN Eval(top.before, Phis[which(r)].from[top.prev])
                       ELSE top.before[r]]
  <2>5. g.vRegs = env
    <3> HIDE DEF k
    <3> QED BY <1>4, <2>1, <2>2, <2>3, <2>4, AllBound
  <2>6. Abs!Enterable(top.prev, top.bb)
    BY <1>2, <2>1, AtPhis DEF Committing
  <2>7. g.idx = 1
    BY <1>2, <1>3, <1>4 DEF RInv, Entering, top
  <2>8. LastOf(program, g, retVal') = [Abs!top EXCEPT !.bb = top.bb, !.idx = 1, !.env = env]
    <3>1. LastOf(program, g, retVal') = [fn |-> top.fn, bb |-> top.bb, idx |-> 1, env |-> g.vRegs]
      BY <1>4, <1>5, <1>7, <2>7 DEF LastOf, ActOf
    <3>2. Abs!top = [fn |-> top.fn, bb |-> top.prev,
                     idx |-> Len(Block(program, top.fn, top.prev).insts) + 1, env |-> top.before]
      BY <1>2, <1>5, TopActivation DEF ActOf
    <3> HIDE DEF env
    <3>3. [Abs!top EXCEPT !.bb = top.bb, !.idx = 1, !.env = env]
             = [fn |-> top.fn, bb |-> top.bb, idx |-> 1, env |-> env]
      <4> DEFINE l == [Abs!top EXCEPT !.bb = top.bb, !.idx = 1, !.env = env]
                 r == [fn |-> top.fn, bb |-> top.bb, idx |-> 1, env |-> env]
                 names == {"fn", "bb", "idx", "env"}
      <4>1. l = [x \in names |-> l[x]] /\ r = [x \in names |-> r[x]]
        BY <3>2
      <4>2. l.fn = r.fn /\ l.bb = r.bb /\ l.idx = r.idx /\ l.env = r.env
        BY <3>2
      <4> HIDE DEF l, r
      <4>3. l = r
        BY <4>1, <4>2
      <4> QED BY <4>3 DEF l, r
    <3> QED BY <2>5, <3>1, <3>3
  <2>9. Activations' = [Activations EXCEPT ![Len(Activations)] =
                          [Abs!top EXCEPT !.bb = top.bb, !.idx = 1, !.env = env]]
    BY <1>2, <1>4, <2>8, ContinueActs DEF WithLast
  <2>10. Abs!Goto(top.bb)
    <3>1. Abs!top.fn = top.fn /\ Abs!top.bb = top.prev /\ Abs!top.env = top.before
      BY <1>2, AtPhis
    <3>2. Block(program, Abs!top.fn, top.bb).phis = Phis
      BY <3>1 DEF Phis
    <3> DEFINE phis == Abs!Block(program, Abs!top.fn, top.bb).phis
               dsts == {phis[i].dst : i \in DOMAIN phis}
               from(r) == phis[CHOOSE i \in DOMAIN phis : phis[i].dst = r].from[Abs!top.bb]
               bound == [r \in DOMAIN Abs!top.env \cup dsts |->
                           IF r \in dsts THEN Abs!Eval(Abs!top.env, from(r)) ELSE Abs!top.env[r]]
    <3>3. phis = Phis
      BY <3>2, SameFunctions
    <3>4. bound = env
      <4>1. bound = EnteredWith(Abs!top.env, phis, Abs!top.bb)
        BY Zenon DEF EnteredWith
      <4>2. phis = Phis /\ Abs!top.env = top.before /\ Abs!top.bb = top.prev
        BY <3>1, <3>3, Zenon
      <4>3. EnteredWith(top.before, Phis, top.prev) = env
        BY SameEntry, Zenon
      <4> HIDE DEF bound, phis, env
      <4> QED BY <4>1, <4>2, <4>3, Zenon
    <3>5. Activations' = [Activations EXCEPT ![Len(Activations)] =
                            [Abs!top EXCEPT !.bb = top.bb, !.idx = 1, !.env = bound]]
      BY <2>9, <3>4
    <3> HIDE DEF env
    <3> QED BY <2>6, <3>1, <3>5 DEF Abs!Goto, Abs!Continue
  <2>11. Abs!Jump
    BY <1>2, <2>10, AtPhis DEF Abs!Jump
  <2> QED BY <1>2, <2>11 DEF Abs!Next, Failures
<1> QED BY <1>6, <1>7

----------------------------------------------------------------------------------
(* What an activation becomes when its instruction has a value.                        *)
LEMMA YieldIs ==
    ASSUME NEW fn, NEW bb, NEW idx, NEW env, NEW a,
           a = [fn |-> fn, bb |-> bb, idx |-> idx, env |-> env],
           NEW i, NEW v
    PROVE  Abs!Yield(a, i, v) = [fn |-> fn, bb |-> bb, idx |-> idx + 1, env |-> Bind(env, i.dst, v)]
<1> DEFINE l == [a EXCEPT !.idx = @ + 1, !.env = Abs!Bind(@, i.dst, v)]
           r == [fn |-> fn, bb |-> bb, idx |-> idx + 1, env |-> Bind(env, i.dst, v)]
           names == {"fn", "bb", "idx", "env"}
<1>1. l = [x \in names |-> l[x]] /\ r = [x \in names |-> r[x]]
  OBVIOUS
<1>2. l.fn = r.fn /\ l.bb = r.bb /\ l.idx = r.idx /\ l.env = r.env
  <2>1. l.fn = fn /\ l.bb = bb /\ l.idx = idx + 1 /\ l.env = Abs!Bind(env, i.dst, v)
    OBVIOUS
  <2>2. r.fn = fn /\ r.bb = bb /\ r.idx = idx + 1 /\ r.env = Bind(env, i.dst, v)
    OBVIOUS
  <2> HIDE DEF l, r
  <2> QED BY <2>1, <2>2, SameValues
<1>3. l = Abs!Yield(a, i, v)
  BY DEF Abs!Yield
<1> HIDE DEF l, r
<1>4. l = r
  BY <1>1, <1>2
<1> QED BY <1>3, <1>4 DEF r

LEMMA ResumeIs ==
    ASSUME NEW fn, NEW bb, NEW idx, NEW env, NEW a,
           a = [fn |-> fn, bb |-> bb, idx |-> idx, env |-> env],
           NEW i, NEW c, NEW v
    PROVE  Abs!Resume(a, i, c, v)
              = [fn |-> fn, bb |-> bb, idx |-> idx + 1,
                 env |-> IF program.fns[c].returnsVoid THEN env ELSE Bind(env, i.dst, v)]
<1>1. CASE program.fns[c].returnsVoid
  <2>1. Abs!Resume(a, i, c, v) = [a EXCEPT !.idx = @ + 1]
    BY <1>1 DEF Abs!Resume
  <2>2. [a EXCEPT !.idx = @ + 1] = [fn |-> fn, bb |-> bb, idx |-> idx + 1, env |-> env]
    OBVIOUS
  <2> QED BY <1>1, <2>1, <2>2
<1>2. CASE ~program.fns[c].returnsVoid
  <2>1. Abs!Resume(a, i, c, v) = Abs!Yield(a, i, v)
    BY <1>2 DEF Abs!Resume
  <2> QED BY <1>2, <2>1, YieldIs
<1> QED BY <1>1, <1>2

LEMMA OnlyOne ==
    ASSUME NEW s, NEW c \in s, \A d \in s : d = c
    PROVE  (CHOOSE d \in s : TRUE) = c
<1>1. (CHOOSE d \in s : TRUE) \in s
  <2>1. \E d \in s : TRUE
    OBVIOUS
  <2> QED BY <2>1
<1> QED BY <1>1

LEMMA CalleeUnique ==
    ASSUME NEW p, NEW regs, NEW i, NEW c \in Callee(p, regs, i)
    PROVE  \A d \in Callee(p, regs, i) : d = c
  BY DEF Callee

(* A frame whose Call has its value is the activation that the language resumes.       *)
LEMMA DoneIs ==
    ASSUME NEW p, p \in Programs, NEW f, DOMAIN f = FrameFields, f.stage = "calling", NEW v,
           NEW c \in Callee(p, f.vRegs, Block(p, f.fn, f.bb).insts[f.idx])
    PROVE  LastOf(p, f, <<v>>)
              = [fn |-> f.fn, bb |-> f.bb, idx |-> f.idx + 1,
                 env |-> IF p.fns[c].returnsVoid THEN f.vRegs
                         ELSE Bind(f.vRegs, Block(p, f.fn, f.bb).insts[f.idx].dst, v)]
<1> DEFINE i == Block(p, f.fn, f.bb).insts[f.idx]
           g == DoneOf(p, f, <<v>>)
<1>1. (CHOOSE d \in Callee(p, f.vRegs, i) : TRUE) = c
  <2>1. c \in Callee(p, f.vRegs, i)
    OBVIOUS
  <2> HIDE DEF i
  <2>2. \A d \in Callee(p, f.vRegs, i) : d = c
    BY <2>1, CalleeUnique, Zenon
  <2> QED BY <2>1, <2>2, OnlyOne, Zenon
<1>2. <<v>> # <<>> /\ <<v>>[1] = v
  OBVIOUS
<1>3. /\ g.fn = f.fn /\ g.bb = f.bb /\ g.idx = f.idx + 1 /\ g.stage = "body"
      /\ g.vRegs = (IF p.fns[c].returnsVoid THEN f.vRegs ELSE Bind(f.vRegs, i.dst, v))
  BY <1>1, <1>2 DEF DoneOf, FrameFields
<1> HIDE DEF g
<1>4. LastOf(p, f, <<v>>) = ActOf(p, g)
  BY <1>2 DEF LastOf, g
<1> QED BY <1>3, <1>4 DEF ActOf

LEMMA ExecuteImplements == ASSUME RInv, Execute PROVE Abs!Next
<1> DEFINE i == Insts[top.idx]
           v == Compute(i.op, Eval(top.vRegs, i.args[1]), Eval(top.vRegs, i.args[2]))
<1>1. AtInst /\ i.op \in Computes /\ status = "running" /\ top.stage = "body"
  BY DEF Execute, AtInst
<1>2. /\ top.idx \in 1 .. Len(Insts) /\ Len(Insts) \in Nat /\ IsInst(i)
      /\ IsRegs(top.vRegs) /\ DOMAIN top = FrameFields
  BY <1>1, AtInstruction DEF RInv
<1>3. /\ retVal = <<>>
      /\ Abs!top = [fn |-> top.fn, bb |-> top.bb, idx |-> top.idx, env |-> top.vRegs]
      /\ Abs!Insts = Insts /\ (Abs!AtTerm <=> top.idx = Len(Insts) + 1)
  BY <1>1, AtBody
<1>4. /\ ~Abs!AtTerm /\ Abs!top.env = top.vRegs /\ Abs!Insts[Abs!top.idx] = i
      /\ i.op \in Abs!Computes /\ i.op # "call"
  BY <1>1, <1>2, <1>3, SameValues DEF Computes
<1> HIDE DEF i
<1>5. ASSUME NEW k \in DOMAIN i.args, ~IsInt(top.vRegs, i.args[k])
      PROVE  Abs!Meaningless
  BY <1>4, <1>5, SameValues DEF Abs!Meaningless
<1>6. CASE ~AllEvaluable(top.vRegs, i.args) /\ Stop("unbound")
  BY <1>1, <1>5, <1>6, GivesUp DEF AllEvaluable, IsInt, Failures
<1>7. CASE Undef \in Range(EvalAll(top.vRegs, i.args)) /\ Stop("badValue")
  <2>1. PICK k \in DOMAIN i.args : Eval(top.vRegs, i.args[k]) = Undef
    BY <1>7 DEF Range, EvalAll
  <2>2. ~IsInt(top.vRegs, i.args[k])
    BY <2>1 DEF IsInt
  <2> QED BY <1>1, <1>5, <1>7, <2>2, GivesUp DEF Failures
<1>8. CASE /\ AllEvaluable(top.vRegs, i.args) /\ Undef \notin Range(EvalAll(top.vRegs, i.args))
           /\ Continue([top EXCEPT !.idx = @ + 1, !.vRegs = Bind(@, i.dst, v)])
           /\ UNCHANGED <<program, status, retVal, result>>
  <2> HIDE DEF v
  <2>1. PICK g : g = [top EXCEPT !.idx = @ + 1, !.vRegs = Bind(@, i.dst, v)]
    OBVIOUS
  <2>2. /\ g.fn = top.fn /\ g.bb = top.bb /\ g.idx = top.idx + 1 /\ g.stage = "body"
        /\ g.vRegs = Bind(top.vRegs, i.dst, v) /\ DOMAIN g = FrameFields
    BY <1>1, <1>2, <2>1 DEF FrameFields
  <2>3. LastOf(program, g, retVal') = [fn |-> top.fn, bb |-> top.bb, idx |-> top.idx + 1,
                                        env |-> Bind(top.vRegs, i.dst, v)]
    BY <1>3, <1>8, <2>2 DEF LastOf, ActOf
  <2>4. LastOf(program, g, retVal') = Abs!Yield(Abs!top, i, v)
    BY <1>3, <2>3, YieldIs
  <2>5. Abs!Continue(Abs!Yield(Abs!top, i, v))
    BY <1>1, <1>8, <2>1, <2>2, <2>4, ContinueActs DEF WithLast, Abs!Continue
  <2>6. \A k \in DOMAIN i.args : Abs!IsInt(Abs!top.env, i.args[k])
    BY <1>4, <1>8, SameValues DEF IsInt, AllEvaluable, EvalAll, Range
  <2>7. v = Abs!Compute(i.op, Abs!Eval(Abs!top.env, i.args[1]), Abs!Eval(Abs!top.env, i.args[2]))
    BY <1>4, SameValues DEF v
  <2>8. Abs!Computation
    BY <1>4, <1>8, <2>5, <2>6, <2>7 DEF Abs!Computation
  <2> QED BY <1>1, <2>8 DEF Abs!Next, Failures
<1> QED BY <1>6, <1>7, <1>8 DEF Execute, i

LEMMA CallImplements == ASSUME RInv, Call PROVE Abs!Next
<1> DEFINE i == Insts[top.idx]
           args == EvalAll(top.vRegs, i.args)
<1>1. AtInst /\ i.op = "call" /\ status = "running" /\ top.stage = "body"
  BY DEF Call, AtInst
<1>2. /\ top.idx \in 1 .. Len(Insts) /\ Len(Insts) \in Nat /\ DOMAIN top = FrameFields
      /\ program \in Programs /\ i = Block(program, top.fn, top.bb).insts[top.idx]
  BY <1>1, AtInstruction DEF RInv, IInv, Shape, Insts
<1>3. /\ retVal = <<>>
      /\ Abs!top = [fn |-> top.fn, bb |-> top.bb, idx |-> top.idx, env |-> top.vRegs]
      /\ Abs!Insts = Insts /\ (Abs!AtTerm <=> top.idx = Len(Insts) + 1)
  BY <1>1, AtBody
<1>4. /\ ~Abs!AtTerm /\ Abs!top.env = top.vRegs /\ Abs!Insts[Abs!top.idx] = i
      /\ Abs!EvalAll(Abs!top.env, i.args) = args
      /\ Abs!AllEvaluable(Abs!top.env, i.args) <=> AllEvaluable(top.vRegs, i.args)
      /\ Abs!Callee(program, Abs!top.env, i) = Callee(program, top.vRegs, i)
  BY <1>1, <1>2, <1>3, SameValues, SameFunctions
<1>5. /\ Wait(top).fn = top.fn /\ Wait(top).bb = top.bb /\ Wait(top).idx = top.idx
      /\ Wait(top).vRegs = top.vRegs /\ Wait(top).stage = "calling" /\ DOMAIN Wait(top) = FrameFields
  BY <1>2 DEF Wait, FrameFields
<1>6. \A fn, gn \in Callee(program, top.vRegs, i) : fn = gn
  BY <1>2, CalleeKnown
<1> HIDE DEF i, args
<1>7. ASSUME ~AllEvaluable(top.vRegs, i.args) PROVE Abs!Meaningless
  BY <1>1, <1>4, <1>7 DEF Abs!Meaningless, i
<1>8. ASSUME \A fn \in Callee(program, top.vRegs, i) :
                ~IsDeclaration(program, fn) /\ ~ArityOK(program, fn, args)
      PROVE  Abs!Meaningless
  BY <1>1, <1>4, <1>8, SameFunctions DEF Abs!Meaningless, i
<1>9. CASE Callee(program, top.vRegs, i) = {} /\ Stop("badCall")
  BY <1>1, <1>8, <1>9, GivesUp DEF Failures
<1>10. ASSUME NEW fn \in Callee(program, top.vRegs, i), ~AllEvaluable(top.vRegs, i.args), Stop("unbound")
       PROVE  Abs!Next
  BY <1>1, <1>7, <1>10, GivesUp DEF Failures
<1>11. ASSUME NEW fn \in Callee(program, top.vRegs, i), AllEvaluable(top.vRegs, i.args),
              IsDeclaration(program, fn), \E v \in ExternalResults : retVal' = <<v>>,
              Continue(Wait(top)), UNCHANGED <<program, status, result>>
       PROVE  Abs!Next
  <2>1. PICK v \in ExternalResults : retVal' = <<v>>
    BY <1>11
  <2>2. PICK w : w = Wait(top)
    OBVIOUS
  <2>3. LastOf(program, w, <<v>>)
           = [fn |-> top.fn, bb |-> top.bb, idx |-> top.idx + 1,
              env |-> IF program.fns[fn].returnsVoid THEN top.vRegs ELSE Bind(top.vRegs, i.dst, v)]
    <3>1. /\ w.fn = top.fn /\ w.bb = top.bb /\ w.idx = top.idx /\ w.vRegs = top.vRegs
          /\ w.stage = "calling" /\ DOMAIN w = FrameFields
      BY <1>5, <2>2
    <3>2. Block(program, w.fn, w.bb).insts[w.idx] = i
      BY <1>2, <3>1
    <3>3. fn \in Callee(program, w.vRegs, Block(program, w.fn, w.bb).insts[w.idx])
      BY <1>11, <3>1, <3>2
    <3>4. LastOf(program, w, <<v>>)
             = [fn |-> w.fn, bb |-> w.bb, idx |-> w.idx + 1,
                env |-> IF program.fns[fn].returnsVoid THEN w.vRegs
                        ELSE Bind(w.vRegs, Block(program, w.fn, w.bb).insts[w.idx].dst, v)]
      BY <1>2, <3>1, <3>3, DoneIs, Zenon
    <3> QED BY <3>1, <3>2, <3>4
  <2>4. LastOf(program, w, <<v>>) = Abs!Resume(Abs!top, i, fn, v)
    BY <1>3, <2>3, ResumeIs
  <2>5. Abs!Continue(Abs!Resume(Abs!top, i, fn, v))
    BY <1>1, <1>5, <1>11, <2>1, <2>2, <2>4, ContinueActs DEF WithLast, Abs!Continue
  <2>6. Abs!Call
    BY <1>1, <1>4, <1>11, <2>5, SameFunctions DEF Abs!Call, i
  <2> QED BY <1>1, <1>11, <2>6 DEF Abs!Next, Failures
<1>12. ASSUME NEW fn \in Callee(program, top.vRegs, i), AllEvaluable(top.vRegs, i.args),
              ~IsDeclaration(program, fn), ~ArityOK(program, fn, args), Stop("badCall")
       PROVE  Abs!Next
  BY <1>1, <1>6, <1>8, <1>12, GivesUp DEF Failures
<1>13. ASSUME NEW fn \in Callee(program, top.vRegs, i), AllEvaluable(top.vRegs, i.args),
              ~IsDeclaration(program, fn), ArityOK(program, fn, args),
              Push(Wait(top), fn, args),
              UNCHANGED <<program, status, retVal, result>>
       PROVE  Abs!Next
  <2> DEFINE w == AsSeen(Wait(top))
             n == NewActive(program, fn, args)
  <2>1. IsSequence(active) /\ active # <<>>
    BY <1>1, TopActivation
  <2>2. active' = Append(WithLast(active, w), n)
    BY <1>1, <1>5, <1>13, PushActive, Calling DEF WithLast, RInv
  <2>3. ActOf(program, w) = ActOf(program, active[Len(active)])
    <3>1. ActOf(program, w) = ActOf(program, Wait(top))
      BY <1>5, SeenActs
    <3> QED BY <1>1, <1>5, <3>1 DEF ActOf, top
  <2>4. ActOf(program, n) = Abs!Activation(fn, args)
    BY SameFunctions DEF ActOf, NewActive, Merged, NewCall, NewFrame, Abs!Activation
  <2>5. /\ Activations = ActsOf(program, active, <<>>)
        /\ Activations' = ActsOf(program, Append(WithLast(active, w), n), <<>>)
    BY <1>3, <1>13, <2>2, ActivationsAre
  <2> HIDE DEF w, n
  <2>6. Activations' = Append(Activations, ActOf(program, n))
    BY <2>1, <2>3, <2>5, ActsPush
  <2>7. Activations' = Append(Activations, Abs!Activation(fn, Abs!EvalAll(Abs!top.env, i.args)))
    BY <1>4, <2>4, <2>6
  <2>8. Abs!Call
    BY <1>1, <1>4, <1>13, <2>7, SameFunctions DEF Abs!Call, i
  <2> QED BY <1>1, <1>13, <2>8 DEF Abs!Next, Failures
<1> QED BY <1>9, <1>10, <1>11, <1>12, <1>13 DEF Call, i, args

LEMMA FinishCallImplements == ASSUME RInv, FinishCall PROVE UNCHANGED Abs!vars
<1>1. /\ status = "running" /\ top.stage = "calling"
      /\ Continue(CallDone(top)) /\ retVal' = <<>> /\ UNCHANGED <<program, status, result>>
  BY DEF FinishCall
<1>2. retVal # <<>>
  BY <1>1, TopFrame DEF RInv
<1>3. CallDone(top) = DoneOf(program, top, retVal)
  BY DEF CallDone, CallDoneAt, DoneOf
<1>4. LastOf(program, CallDone(top), retVal') = LastOf(program, top, retVal)
  BY <1>1, <1>2, <1>3 DEF LastOf
<1>5. CallDone(top).fn = top.fn /\ DOMAIN CallDone(top) = FrameFields
  BY <1>1, TopFrame DEF CallDone, CallDoneAt, FrameFields, RInv, GoodFrame, IsFrame
<1>6. Activations' = Activations
  BY <1>1, <1>4, <1>5, ContinueActs
<1> QED BY <1>1, <1>6 DEF Abs!vars

----------------------------------------------------------------------------------
(* The branch is taken once the phis of the block have been dealt with: at once if      *)
(* there are none.                                                                     *)
LEMMA SwitchImplements ==
    ASSUME RInv, AtTerm, NEW dest \in DOMAIN BlocksOf(program, top),
           LeadsTo(Term, top.vRegs, dest), SwitchTo(dest)
    PROVE  [Abs!Next]_(Abs!vars)
<1> DEFINE phis == Block(program, top.fn, dest).phis
<1>1. PICK g : g = [top EXCEPT !.prev = top.bb, !.bb = dest, !.idx = 1, !.cache = <<>>,
                      !.before = top.vRegs,
                      !.stage = IF phis = <<>> THEN "body" ELSE "evaluate"]
  OBVIOUS
<1>2. Continue(g) /\ UNCHANGED <<program, status, retVal, result>>
  BY <1>1 DEF SwitchTo
<1>3. /\ status = "running" /\ top.stage = "body" /\ DOMAIN top = FrameFields /\ retVal = <<>>
      /\ IsRegs(top.vRegs) /\ Len(Insts) \in Nat /\ top.idx = Len(Insts) + 1
      /\ program \in Programs /\ GoodFrame(program, top)
  BY AtTerminator DEF RInv, IInv, Shape
<1>4. /\ g.fn = top.fn /\ g.bb = dest /\ g.idx = 1 /\ g.prev = top.bb /\ g.before = top.vRegs
      /\ g.vRegs = top.vRegs
      /\ g.stage = (IF phis = <<>> THEN "body" ELSE "evaluate") /\ DOMAIN g = FrameFields
  BY <1>1, <1>3 DEF FrameFields
<1>5. /\ Abs!top = [fn |-> top.fn, bb |-> top.bb, idx |-> top.idx, env |-> top.vRegs]
      /\ Abs!Term = Term /\ Abs!AtTerm
  BY <1>3, AtBody
<1>6. dest \in Abs!Destinations
  BY <1>5, SameValues DEF LeadsTo, Abs!Destinations
<1>7. CASE phis # <<>>
  <2>1. ActOf(program, g) = ActOf(program, top)
    BY <1>3, <1>4, <1>7 DEF ActOf, Insts
  <2>2. Activations' = Activations
    BY <1>2, <1>3, <1>4, <2>1, ContinueActs DEF LastOf
  <2> QED BY <1>2, <2>2 DEF Abs!vars
<1>8. CASE phis = <<>>
  <2>1. LastOf(program, g, retVal') = [fn |-> top.fn, bb |-> dest, idx |-> 1, env |-> top.vRegs]
    BY <1>2, <1>3, <1>4, <1>8 DEF LastOf, ActOf
  <2> DEFINE aphis == Abs!Block(program, Abs!top.fn, dest).phis
             dsts == {aphis[k].dst : k \in DOMAIN aphis}
             from(r) == aphis[CHOOSE k \in DOMAIN aphis : aphis[k].dst = r].from[Abs!top.bb]
             bound == [r \in DOMAIN Abs!top.env \cup dsts |->
                         IF r \in dsts THEN Abs!Eval(Abs!top.env, from(r)) ELSE Abs!top.env[r]]
  <2>2. DOMAIN aphis = {} /\ dsts = {}
    <3>1. aphis = <<>>
      BY <1>5, <1>8, SameFunctions
    <3> HIDE DEF aphis
    <3> QED BY <3>1
  <2>3. bound = top.vRegs
    <3> HIDE DEF aphis, dsts
    <3>1. bound = [r \in DOMAIN top.vRegs |-> top.vRegs[r]]
      BY <1>5, <2>2
    <3> QED BY <1>3, <3>1 DEF IsRegs
  <2>4. [Abs!top EXCEPT !.bb = dest, !.idx = 1, !.env = bound]
           = [fn |-> top.fn, bb |-> dest, idx |-> 1, env |-> top.vRegs]
    <3> HIDE DEF bound
    <3> DEFINE l == [Abs!top EXCEPT !.bb = dest, !.idx = 1, !.env = bound]
               r == [fn |-> top.fn, bb |-> dest, idx |-> 1, env |-> top.vRegs]
               names == {"fn", "bb", "idx", "env"}
    <3>1. l = [x \in names |-> l[x]] /\ r = [x \in names |-> r[x]]
      BY <1>5
    <3>2. l.fn = r.fn /\ l.bb = r.bb /\ l.idx = r.idx /\ l.env = r.env
      BY <1>5, <2>3
    <3> HIDE DEF l, r
    <3>3. l = r
      BY <3>1, <3>2
    <3> QED BY <3>3 DEF l, r
  <2>5. Activations' = [Activations EXCEPT ![Len(Activations)] =
                          [Abs!top EXCEPT !.bb = dest, !.idx = 1, !.env = bound]]
    <3>1. Activations' = WithLast(Activations, LastOf(program, g, retVal'))
      BY <1>2, <1>3, <1>4, ContinueActs
    <3> HIDE DEF bound
    <3> QED BY <2>1, <2>4, <3>1, Zenon DEF WithLast
  <2>6. Abs!Enterable(Abs!top.bb, dest)
    BY <2>2 DEF Abs!Enterable
  <2>7. Abs!Goto(dest)
    BY <2>5, <2>6 DEF Abs!Goto, Abs!Continue
  <2>8. Abs!Jump
    BY <1>2, <1>5, <1>6, <2>7 DEF Abs!Jump
  <2> QED BY <1>3, <2>8 DEF Abs!Next, Failures
<1> QED BY <1>7, <1>8

LEMMA BrImplements == ASSUME RInv, Br PROVE [Abs!Next]_(Abs!vars)
<1>1. AtTerm /\ Term.kind = "br" /\ SwitchTo(Term.dest)
  BY DEF Br
<1>2. Term.dest \in DOMAIN BlocksOf(program, top)
  BY <1>1, AtTerminator DEF IsTerm, RInv
<1>3. LeadsTo(Term, top.vRegs, Term.dest)
  BY <1>1 DEF LeadsTo
<1> QED BY <1>1, <1>2, <1>3, SwitchImplements

LEMMA SelectImplements == ASSUME RInv, Select PROVE [Abs!Next]_(Abs!vars)
<1> DEFINE v == Eval(top.vRegs, Term.on)
<1>1. AtTerm /\ Term.kind \in {"condbr", "switch"}
  BY DEF Select
<1>2. /\ status = "running" /\ top.stage = "body" /\ top.idx = Len(Insts) + 1
  BY <1>1, AtTerminator DEF RInv
<1>3. Abs!AtTerm /\ Abs!Term = Term /\ Abs!top.env = top.vRegs
  BY <1>2, AtBody
<1>4. ASSUME ~IsInt(top.vRegs, Term.on) PROVE Abs!Meaningless
  <2>1. Abs!Destinations = {}
    BY <1>1, <1>3, <1>4, SameValues DEF Abs!Destinations
  <2> QED BY <1>1, <1>3, <2>1 DEF Abs!Meaningless
<1>5. CASE ~Evaluable(top.vRegs, Term.on) /\ Stop("unbound")
  BY <1>2, <1>4, <1>5, GivesUp DEF IsInt, Failures
<1>6. CASE v = Undef /\ Stop("badValue")
  BY <1>2, <1>4, <1>6, GivesUp DEF IsInt, Failures
<1>7. CASE Evaluable(top.vRegs, Term.on) /\ v # Undef /\ SwitchTo(Successor(Term, v))
  <2>1. Successor(Term, v) \in DOMAIN BlocksOf(program, top)
    BY <1>1, AtTerminator, SuccessorKnown DEF RInv
  <2>2. LeadsTo(Term, top.vRegs, Successor(Term, v))
    BY <1>1, <1>7 DEF LeadsTo, IsInt
  <2> QED BY <1>1, <1>7, <2>1, <2>2, SwitchImplements
<1> QED BY <1>5, <1>6, <1>7 DEF Select

LEMMA RetImplements == ASSUME RInv, Ret PROVE Abs!Next
<1> DEFINE v == Eval(top.vRegs, Term.value)
           n == Len(active)
           rest == SubSeq(Activations, 1, Len(Activations) - 1)
           caller == active[n - 1]
<1>1. AtTerm /\ Term.kind = "ret"
  BY DEF Ret
<1>2. /\ status = "running" /\ top.stage = "body" /\ retVal = <<>> /\ top.idx = Len(Insts) + 1
      /\ program \in Programs
  BY <1>1, AtTerminator DEF RInv, IInv, Shape
<1>3. /\ Abs!AtTerm /\ Abs!Term = Term /\ Abs!top.env = top.vRegs /\ Abs!top.fn = top.fn
      /\ Abs!Eval(Abs!top.env, Abs!Term.value) = v
      /\ Abs!Evaluable(Abs!top.env, Abs!Term.value) <=> Evaluable(top.vRegs, Term.value)
  BY <1>2, AtBody, SameValues
<1>4. /\ IsSequence(active) /\ active # <<>> /\ n \in Nat /\ DOMAIN active = 1 .. n /\ n >= 1
  BY <1>2, TopActivation, SequenceShape
<1>5. CASE ~Evaluable(top.vRegs, Term.value) /\ Stop("unbound")
  <2>1. Abs!Meaningless
    BY <1>1, <1>3, <1>5 DEF Abs!Meaningless
  <2> QED BY <1>2, <1>5, <2>1, GivesUp DEF Failures
<1>6. CASE /\ Evaluable(top.vRegs, Term.value)
           /\ Pop
           /\ \/ Len(calls) = 1 /\ status' = "returned" /\ result' = v /\ UNCHANGED retVal
              \/ Len(calls) > 1 /\ retVal' = <<v>> /\ UNCHANGED <<status, result>>
           /\ UNCHANGED program
  <2>1. /\ Activations = ActsOf(program, active, <<>>)
        /\ Activations' = ActsOf(program, SubSeq(active, 1, n - 1), retVal')
    BY <1>2, <1>6, PopActive, Calling, ActivationsAre DEF RInv
  <2>2. Len(calls) = n
    BY <1>2, Calling DEF RInv
  <2>3. /\ IsSequence(rest) /\ Len(rest) = n - 1
        /\ \A j \in DOMAIN rest : rest[j] = ActOf(program, active[j])
        /\ n = 1 => Activations' = rest
        /\ n > 1 => Activations' = WithLast(rest, LastOf(program, caller, retVal'))
    <3>1. PICK q : q = retVal'
      OBVIOUS
    <3>2. Popped(program, active, q, rest, Activations')
      <4>1. IsSequence(active) /\ active # <<>>
        BY <1>4, Zenon
      <4>2. Popped(program, active, q, SubSeq(ActsOf(program, active, <<>>), 1, Len(ActsOf(program, active, <<>>)) - 1),
                   ActsOf(program, SubSeq(active, 1, Len(active) - 1), q))
        BY <4>1, ActsPop, Zenon
      <4> QED BY <2>1, <3>1, <4>2, Zenon
    <3> HIDE DEF rest
    <3> QED BY <3>1, <3>2 DEF Popped
  <2> HIDE DEF rest, v
  <2>4. rest = <<>> <=> n = 1
    BY <1>4, <2>3, SequenceShape
  <2>5. CASE n = 1
    <3>1. rest = <<>> /\ Activations' = rest /\ status' = "returned" /\ result' = v
      BY <1>6, <2>2, <2>3, <2>4, <2>5
    <3>2. Abs!Return
      BY <1>1, <1>3, <1>6, <3>1 DEF Abs!Return, rest, Failures
    <3> QED BY <1>2, <3>2 DEF Abs!Next, Failures
  <2>6. CASE n > 1
    <3>1. retVal' = <<v>> /\ UNCHANGED <<program, status, result>>
      BY <1>4, <1>6, <2>6, <2>2
    <3>2. n - 1 \in DOMAIN rest /\ n - 1 \in DOMAIN active /\ n - 1 < n /\ (n - 1) + 1 = n
      <4>1. DOMAIN rest = 1 .. n - 1
        BY <2>3, SequenceShape
      <4> QED BY <1>4, <2>6, <4>1
    <3>3. CallsNext(program, active, n - 1)
      BY <1>4, <3>2, CallChainAgain DEF RInv, IInv
    <3>4. /\ caller.stage = "calling"
          /\ top.fn \in Callee(program, caller.vRegs, Block(program, caller.fn, caller.bb).insts[caller.idx])
      BY <3>2, <3>3 DEF CallsNext, top
    <3>5. DOMAIN caller = FrameFields
      BY <3>2 DEF RInv, IInv, GoodFrame, IsFrame
    <3> HIDE DEF caller, n
    <3>6. rest[Len(rest)] = [fn |-> caller.fn, bb |-> caller.bb, idx |-> caller.idx, env |-> caller.vRegs]
      <4>1. rest[Len(rest)] = ActOf(program, caller)
        BY <2>3, <3>2 DEF caller
      <4> QED BY <3>4, <4>1 DEF ActOf
    <3> DEFINE i == Block(program, caller.fn, caller.bb).insts[caller.idx]
    <3>7. LastOf(program, caller, <<v>>)
             = [fn |-> caller.fn, bb |-> caller.bb, idx |-> caller.idx + 1,
                env |-> IF program.fns[top.fn].returnsVoid THEN caller.vRegs
                        ELSE Bind(caller.vRegs, i.dst, v)]
      BY <1>2, <3>4, <3>5, DoneIs
    <3>8. LastOf(program, caller, <<v>>) = Abs!Resume(rest[Len(rest)], i, top.fn, v)
      BY <3>6, <3>7, ResumeIs
    <3>9. Activations' = [rest EXCEPT ![Len(rest)] = Abs!Resume(rest[Len(rest)], i, top.fn, v)]
      BY <2>3, <2>6, <3>1, <3>8 DEF WithLast
    <3>10. i = Abs!Block(program, rest[Len(rest)].fn, rest[Len(rest)].bb).insts[rest[Len(rest)].idx]
      BY <3>6, SameFunctions
    <3> HIDE DEF i
    <3>11. rest # <<>>
      BY <2>4, <2>6
    <3>12. Abs!Return
      BY <1>1, <1>3, <1>6, <3>1, <3>9, <3>10, <3>11 DEF Abs!Return, rest
    <3> QED BY <1>2, <3>12 DEF Abs!Next, Failures
  <2> QED BY <1>4, <2>5, <2>6
<1> QED BY <1>5, <1>6 DEF Ret

LEMMA UnreachableImplements == ASSUME RInv, Unreachable PROVE Abs!Next
<1>1. AtTerm /\ Term.kind = "unreachable" /\ Stop("unreachable")
  BY DEF Unreachable
<1>2. /\ status = "running" /\ top.stage = "body" /\ top.idx = Len(Insts) + 1
  BY <1>1, AtTerminator DEF RInv
<1>3. Abs!AtTerm /\ Abs!Term = Term
  BY <1>2, AtBody
<1>4. Abs!Destinations = {}
  BY <1>1, <1>3 DEF Abs!Destinations
<1>5. Abs!Meaningless
  BY <1>1, <1>3, <1>4 DEF Abs!Meaningless
<1> QED BY <1>1, <1>2, <1>5, GivesUp DEF Failures

LEMMA InitImplements == ASSUME Init PROVE Abs!Init
<1>1. PICK args \in MainArgs : ArityOK(program, "main", args) /\ active = <<NewActive(program, "main", args)>>
  BY InitActive DEF Init
<1> DEFINE f == NewActive(program, "main", args)
<1>2. /\ program \in Programs /\ status = "running" /\ retVal = <<>> /\ result = Undef
  BY DEF Init
<1>3. ActOf(program, f) = Abs!Activation("main", args)
  BY SameFunctions DEF ActOf, NewActive, Merged, NewCall, NewFrame, Abs!Activation
<1> HIDE DEF f
<1>4. active = <<f>> /\ DOMAIN active = 1 .. 1 /\ active[1] = f /\ Len(active) = 1
  BY <1>1 DEF f
<1>5. Activations = [j \in 1 .. 1 |-> ActOf(program, f)]
  BY <1>2, <1>4, ActivationsAre DEF ActsOf, LastOf
<1>6. Activations = <<ActOf(program, f)>>
  BY <1>5
<1> QED BY <1>1, <1>2, <1>3, <1>6, SameFunctions, SameValues DEF Abs!Init, Failures

LEMMA NextImplements == ASSUME RInv, [Next]_vars PROVE [Abs!Next]_(Abs!vars)
<1>1. CASE Next
  BY <1>1, EvaluatePhiImplements, CommitPhiImplements, ExecuteImplements, CallImplements,
     FinishCallImplements, BrImplements, SelectImplements, RetImplements, UnreachableImplements DEF Next
<1>2. CASE UNCHANGED vars
  BY <1>2, ActivationsAre DEF vars, Abs!vars, active, Seen
<1> QED BY <1>1, <1>2

(* The interpreter executes programs as the language says: the phis of a block at once, *)
(* a call and a return in one step each, and it terminates early only at a step to     *)
(* which the program gives no meaning.  This holds of every set of programs that LLVM   *)
(* accepts, of any depth of recursion and any number of phis.                          *)
THEOREM InterpreterImplements == Spec => Implements
<1>1. Init => RInv
  BY InitRInv
<1>2. RInv /\ [Next]_vars => RInv'
  BY NextRInv
<1>3. Init => Abs!Init
  BY InitImplements
<1>4. RInv /\ [Next]_vars => [Abs!Next]_(Abs!vars)
  BY NextImplements
<1> QED BY <1>1, <1>2, <1>3, <1>4, PTL DEF Spec, Implements, Abs!Spec

==================================================================================
