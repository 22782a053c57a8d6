---------------------------- MODULE RunFunction_proofs ---------------------------
(* What holds of runFunction for every set of well-formed programs, every argument     *)
(* vector and everything that external functions may return.                           *)
EXTENDS RunFunction, SequenceTheorems, WellFoundedInduction, TLAPS

FrameFields == {"fn", "bb", "prev", "idx", "stage", "cache", "vRegs", "before"}

BlocksOf(p, f) == p.fns[f.fn].blocks
PhisOf(p, f) == Block(p, f.fn, f.bb).phis
InstsOf(p, f) == Block(p, f.fn, f.bb).insts

(* vRegs: a finite map whose values are values.                                        *)
IsRegs(regs) == regs \in [DOMAIN regs -> Value]

(* A frame is somewhere in a function that has a body.                                 *)
IsFrame(p, f) ==
    /\ DOMAIN f = FrameFields
    /\ f.fn \in DOMAIN p.fns /\ ~IsDeclaration(p, f.fn)
    /\ f.bb \in DOMAIN BlocksOf(p, f)
    /\ f.idx \in 1 .. Len(InstsOf(p, f)) + 1
    /\ f.stage \in Stages
    /\ f.cache \in Seq(Value)
    /\ IsRegs(f.vRegs)

(* The first loop of switchToNewBasicBlock has phis left to evaluate, the second has    *)
(* values left to bind, and no more of them than phis.                                 *)
PhiLoops(p, f) ==
    /\ Len(f.cache) <= Len(PhisOf(p, f))
    /\ f.stage = "evaluate" => Len(f.cache) < Len(PhisOf(p, f))
    /\ f.stage = "commit" => f.cache # <<>>

(* A frame that waits is at a Call that reaches a function.                            *)
Waiting(p, f) ==
    f.stage = "calling" =>
        /\ f.idx \in DOMAIN InstsOf(p, f) /\ InstsOf(p, f)[f.idx].op = "call"
        /\ Callee(p, f.vRegs, InstsOf(p, f)[f.idx]) # {}

GoodFrame(p, f) == IsFrame(p, f) /\ PhiLoops(p, f) /\ Waiting(p, f)

(* The frame at j waits at a Call that reaches the function of the frame above it.      *)
CallsNext(p, s, j) ==
    LET f == s[j]
        insts == Block(p, f.fn, f.bb).insts
    IN  /\ f.stage = "calling"
        /\ f.idx \in DOMAIN insts /\ insts[f.idx].op = "call"
        /\ s[j + 1].fn \in Callee(p, f.vRegs, insts[f.idx])

(* What is known besides the frames.                                                   *)
Shape ==
    /\ program \in Programs
    /\ status \in {"running", "returned"} \cup Failures
    /\ result \in Value
    /\ retVal = <<>> \/ \E v \in Value : retVal = <<v>>
    /\ IsSequence(active)
    /\ status = "running" => active # <<>>
    /\ active = <<>> => retVal = <<>>

(* The calls of runFunction and the frames of StackFrames: one frame for each call.     *)
Held == IsSequence(calls) /\ IsSequence(frames) /\ FramesOwned

IInv ==
    /\ Shape
    /\ \A j \in DOMAIN active : GoodFrame(program, active[j])
    /\ CallChain
    /\ Held

(* What a call with these locals sees, when this is its frame.                         *)
Merged(c, fr) ==
    [fn |-> fr.fn, vRegs |-> fr.vRegs, bb |-> c.bb, prev |-> c.prev, idx |-> c.idx,
     stage |-> c.stage, cache |-> c.cache, before |-> c.before]

AsSeen(f) == Merged(f, f)

NewActive(p, fn, args) == Merged(NewCall(p, fn, 1), NewFrame(p, fn, args))

----------------------------------------------------------------------------------
(* A non-empty set of naturals has a least element.                                    *)
LEMMA LeastNatural ==
    ASSUME NEW T \in SUBSET Nat, T # {}
    PROVE  \E x \in T : \A y \in T : x <= y
<1>1. PICK x \in T : \A y \in T : ~(<<y, x>> \in OpToRel(<, Nat))
  BY WFMin, NatLessThanWellFounded, Zenon
<1>2. \A y \in T : ~(y < x)
  BY <1>1 DEF OpToRel
<1> QED BY <1>2

(* The three ways in which a sequence changes here.                                    *)
LEMMA SequenceShape ==
    ASSUME NEW s, IsSequence(s)
    PROVE  /\ Len(s) \in Nat /\ DOMAIN s = 1 .. Len(s)
           /\ s \in Seq(Range(s))
           /\ s = <<>> <=> Len(s) = 0
  BY EmptySeq DEF IsSequence

LEMMA SequenceOf ==
    ASSUME NEW R, NEW t \in Seq(R)
    PROVE  IsSequence(t)
<1>1. Len(t) \in Nat /\ DOMAIN t = 1 .. Len(t) /\ t = [i \in 1 .. Len(t) |-> t[i]]
  BY LenProperties
<1>2. \A i \in 1 .. Len(t) : t[i] \in Range(t)
  BY <1>1 DEF Range
<1> QED BY <1>1, <1>2 DEF IsSequence

LEMMA ReplaceTop ==
    ASSUME NEW s, IsSequence(s), s # <<>>, NEW f
    PROVE  LET t == [s EXCEPT ![Len(s)] = f]
           IN  /\ IsSequence(t) /\ Len(t) = Len(s) /\ t[Len(t)] = f /\ t # <<>>
               /\ \A j \in DOMAIN s : j # Len(s) => t[j] = s[j]
<1> DEFINE t == [s EXCEPT ![Len(s)] = f]
           R == Range(s) \cup {f}
<1>1. Len(s) \in 1 .. Len(s) /\ Len(s) \in Nat /\ DOMAIN s = 1 .. Len(s) /\ s \in Seq(Range(s))
  BY SequenceShape
<1>2. s \in Seq(R)
  BY <1>1, SeqMonotonic
<1>3. t \in Seq(R) /\ Len(t) = Len(s) /\ \A j \in 1 .. Len(s) : t[j] = IF j = Len(s) THEN f ELSE s[j]
  BY <1>1, <1>2, ExceptSeq
<1>4. IsSequence(t)
  <2> HIDE DEF t, R
  <2> QED BY <1>3, SequenceOf
<1> QED BY <1>1, <1>3, <1>4

LEMMA AppendLast ==
    ASSUME NEW s, IsSequence(s), NEW f
    PROVE  LET t == Append(s, f)
           IN  /\ IsSequence(t) /\ Len(t) = Len(s) + 1 /\ t[Len(t)] = f /\ t # <<>>
               /\ \A j \in DOMAIN s : t[j] = s[j]
<1> DEFINE t == Append(s, f)
           R == Range(s) \cup {f}
<1>1. Len(s) \in Nat /\ DOMAIN s = 1 .. Len(s) /\ s \in Seq(Range(s))
  BY SequenceShape
<1>2. s \in Seq(R)
  BY <1>1, SeqMonotonic
<1>3. /\ t \in Seq(R) /\ Len(t) = Len(s) + 1 /\ t[Len(s) + 1] = f
      /\ \A j \in 1 .. Len(s) : t[j] = s[j]
  BY <1>1, <1>2, AppendProperties
<1>4. IsSequence(t)
  <2> HIDE DEF t, R
  <2> QED BY <1>3, SequenceOf
<1> QED BY <1>1, <1>3, <1>4

LEMMA DropLast ==
    ASSUME NEW s, IsSequence(s), s # <<>>
    PROVE  LET t == SubSeq(s, 1, Len(s) - 1)
           IN  /\ IsSequence(t) /\ Len(t) = Len(s) - 1
               /\ \A j \in DOMAIN t : j \in DOMAIN s /\ j < Len(s) /\ t[j] = s[j]
<1> DEFINE t == SubSeq(s, 1, Len(s) - 1)
           R == Range(s)
<1>1. Len(s) \in Nat /\ Len(s) >= 1 /\ DOMAIN s = 1 .. Len(s) /\ s \in Seq(R)
  BY SequenceShape
<1>3. /\ t \in Seq(R) /\ Len(t) = Len(s) - 1
      /\ \A j \in 1 .. Len(s) - 1 : t[j] = s[j]
  BY <1>1
<1>4. IsSequence(t)
  <2> HIDE DEF t, R
  <2> QED BY <1>3, SequenceOf
<1> QED BY <1>1, <1>3, <1>4

LEMMA SameSequence ==
    ASSUME NEW s, NEW t, IsSequence(s), IsSequence(t), Len(s) = Len(t),
           \A j \in 1 .. Len(s) : s[j] = t[j]
    PROVE  s = t
<1>1. s \in Seq(Range(s)) /\ t \in Seq(Range(t))
  BY SequenceShape
<1>2. s = [j \in 1 .. Len(s) |-> s[j]] /\ t = [j \in 1 .. Len(t) |-> t[j]]
  BY <1>1, LenProperties
<1> QED BY <1>2

LEMMA FunctionSequence ==
    ASSUME NEW n \in Nat, NEW t, t = [j \in 1 .. n |-> t[j]]
    PROVE  IsSequence(t) /\ Len(t) = n
<1>1. t \in [1 .. n -> Range(t)]
  BY DEF Range
<1> QED BY <1>1 DEF IsSequence

----------------------------------------------------------------------------------
(* One frame for each call: what the calls see is the two sequences, place by place.    *)
SeenOf(cs, fs) == [j \in DOMAIN cs |-> Merged(cs[j], fs[cs[j].frame])]

LEMMA SeenSequence ==
    ASSUME NEW cs, NEW fs, IsSequence(cs), \A j \in DOMAIN cs : cs[j].frame = j
    PROVE  LET a == SeenOf(cs, fs)
           IN  /\ IsSequence(a) /\ Len(a) = Len(cs) /\ DOMAIN a = 1 .. Len(cs)
               /\ \A j \in 1 .. Len(cs) : a[j] = Merged(cs[j], fs[j])
<1> DEFINE a == SeenOf(cs, fs)
<1>1. Len(cs) \in Nat /\ DOMAIN cs = 1 .. Len(cs)
  BY SequenceShape
<1>2. /\ a = [j \in 1 .. Len(cs) |-> a[j]]
      /\ \A j \in 1 .. Len(cs) : a[j] = Merged(cs[j], fs[j])
  BY <1>1 DEF SeenOf
<1> HIDE DEF a
<1>3. IsSequence(a) /\ Len(a) = Len(cs)
  BY <1>1, <1>2, FunctionSequence
<1> QED BY <1>2, <1>3, SequenceShape DEF a

LEMMA ActiveIs ==
    ASSUME Held
    PROVE  /\ IsSequence(active) /\ Len(active) = Len(calls) /\ Len(frames) = Len(calls)
           /\ DOMAIN active = 1 .. Len(calls) /\ Len(calls) \in Nat
           /\ DOMAIN calls = 1 .. Len(calls) /\ DOMAIN frames = 1 .. Len(calls)
           /\ \A j \in 1 .. Len(calls) : active[j] = Merged(calls[j], frames[j]) /\ calls[j].frame = j
<1>1. /\ IsSequence(calls) /\ IsSequence(frames) /\ Len(frames) = Len(calls)
      /\ \A j \in DOMAIN calls : calls[j].frame = j
  BY DEF Held, FramesOwned
<1>2. active = SeenOf(calls, frames)
  BY DEF active, Seen, Merged, SeenOf
<1>3. /\ Len(calls) \in Nat /\ DOMAIN calls = 1 .. Len(calls) /\ DOMAIN frames = 1 .. Len(calls)
  BY <1>1, SequenceShape
<1> QED BY <1>1, <1>2, <1>3, SeenSequence

LEMMA ActiveNext ==
    ASSUME IsSequence(calls'), IsSequence(frames'), Len(frames') = Len(calls'),
           \A j \in DOMAIN calls' : calls'[j].frame = j
    PROVE  /\ Held' /\ IsSequence(active') /\ Len(active') = Len(calls')
           /\ \A j \in 1 .. Len(calls') : active'[j] = Merged(calls'[j], frames'[j])
<1>1. active' = SeenOf(calls', frames')
  BY DEF active, Seen, Merged, SeenOf
<1>2. Held'
  BY DEF Held, FramesOwned
<1> QED BY <1>1, <1>2, SeenSequence

(* The running call goes on: what it sees is what it goes on with, and what the other   *)
(* calls see is what they saw.                                                         *)
LEMMA ContinueActive ==
    ASSUME Held, calls # <<>>, NEW f, f.fn = top.fn, Continue(f)
    PROVE  Held' /\ active' = [active EXCEPT ![Len(active)] = AsSeen(f)]
<1> DEFINE n == Len(calls)
           c == Locals(calls[n], f)
           fr == [fn |-> frames[n].fn, vRegs |-> f.vRegs]
           t == [active EXCEPT ![Len(active)] = AsSeen(f)]
<1>1. /\ IsSequence(active) /\ Len(active) = n /\ Len(frames) = n /\ DOMAIN active = 1 .. n
      /\ n \in Nat /\ DOMAIN calls = 1 .. n /\ DOMAIN frames = 1 .. n
      /\ \A j \in 1 .. n : active[j] = Merged(calls[j], frames[j]) /\ calls[j].frame = j
      /\ IsSequence(calls) /\ IsSequence(frames)
  BY ActiveIs DEF Held
<1>2. n \in 1 .. n /\ active # <<>> /\ frames # <<>>
  BY <1>1, SequenceShape
<1>3. calls' = [calls EXCEPT ![n] = c] /\ frames' = [frames EXCEPT ![n] = fr]
  BY <1>1, <1>2 DEF Continue
<1>4. c.frame = n /\ Merged(c, fr) = AsSeen(f)
  <2>1. c.frame = n
    BY <1>1, <1>2 DEF Locals
  <2>2. frames[n].fn = f.fn
    BY <1>1, <1>2 DEF top, Merged
  <2> QED BY <2>1, <2>2 DEF Locals, Merged, AsSeen
<1>5. n = Len(calls)
  OBVIOUS
<1> HIDE DEF c, fr, n
<1>6. /\ IsSequence(calls') /\ Len(calls') = n /\ calls'[n] = c
      /\ \A j \in DOMAIN calls : j # n => calls'[j] = calls[j]
  BY <1>5, <1>1, <1>2, <1>3, ReplaceTop
<1>7. /\ IsSequence(frames') /\ Len(frames') = n /\ frames'[n] = fr
      /\ \A j \in DOMAIN frames : j # n => frames'[j] = frames[j]
  BY <1>1, <1>2, <1>3, ReplaceTop
<1>8. DOMAIN calls' = 1 .. n
  BY <1>6, SequenceShape
<1>9. /\ Held' /\ IsSequence(active') /\ Len(active') = n
      /\ \A j \in 1 .. n : active'[j] = Merged(calls'[j], frames'[j])
  BY <1>1, <1>4, <1>6, <1>7, <1>8, ActiveNext
<1>10. /\ IsSequence(t) /\ Len(t) = n /\ t[n] = AsSeen(f)
      /\ \A j \in DOMAIN active : j # n => t[j] = active[j]
  BY <1>1, <1>2, ReplaceTop
<1> HIDE DEF t
<1>11. \A j \in 1 .. n : active'[j] = t[j]
  BY <1>1, <1>4, <1>6, <1>7, <1>9, <1>10
<1>12. active' = t
  BY <1>9, <1>10, <1>11, SameSequence
<1> QED BY <1>9, <1>12 DEF t

(* A call: the caller goes on with f, and the callee sees a frame of its own.           *)
LEMMA PushActive ==
    ASSUME Held, calls # <<>>, NEW f, f.fn = top.fn, f.vRegs = top.vRegs, NEW fn, NEW args,
           Push(f, fn, args)
    PROVE  /\ Held'
           /\ active' = Append([active EXCEPT ![Len(active)] = AsSeen(f)], NewActive(program, fn, args))
<1> DEFINE n == Len(calls)
           c == Locals(calls[n], f)
           new == NewCall(program, fn, n + 1)
           fr == NewFrame(program, fn, args)
           cs == [calls EXCEPT ![n] = c]
           s == [active EXCEPT ![Len(active)] = AsSeen(f)]
           t == Append(s, NewActive(program, fn, args))
<1>1. /\ IsSequence(active) /\ Len(active) = n /\ Len(frames) = n /\ DOMAIN active = 1 .. n
      /\ n \in Nat /\ DOMAIN calls = 1 .. n /\ DOMAIN frames = 1 .. n
      /\ \A j \in 1 .. n : active[j] = Merged(calls[j], frames[j]) /\ calls[j].frame = j
      /\ IsSequence(calls) /\ IsSequence(frames)
  BY ActiveIs DEF Held
<1>2. n \in 1 .. n /\ active # <<>>
  BY <1>1, SequenceShape
<1>3. calls' = Append(cs, new) /\ frames' = Append(frames, fr)
  BY <1>1, <1>2 DEF Push
<1>4. /\ c.frame = n /\ Merged(c, frames[n]) = AsSeen(f)
      /\ new.frame = n + 1 /\ Merged(new, fr) = NewActive(program, fn, args)
  <2>1. c.frame = n
    BY <1>1, <1>2 DEF Locals
  <2>2. frames[n].fn = f.fn /\ frames[n].vRegs = f.vRegs
    BY <1>1, <1>2 DEF top, Merged
  <2>3. new.frame = n + 1 /\ Merged(new, fr) = NewActive(program, fn, args)
    BY DEF NewCall, Merged, NewActive
  <2> QED BY <2>1, <2>2, <2>3 DEF Locals, Merged, AsSeen
<1>5. n = Len(calls)
  OBVIOUS
<1> HIDE DEF c, new, fr, n
<1>6. /\ IsSequence(cs) /\ Len(cs) = n /\ cs[n] = c
      /\ \A j \in DOMAIN calls : j # n => cs[j] = calls[j]
  BY <1>5, <1>1, <1>2, ReplaceTop
<1>7. /\ IsSequence(s) /\ Len(s) = n /\ s[n] = AsSeen(f)
      /\ \A j \in DOMAIN active : j # n => s[j] = active[j]
  BY <1>1, <1>2, ReplaceTop
<1> HIDE DEF cs, s
<1>8. DOMAIN cs = 1 .. n /\ DOMAIN s = 1 .. n
  BY <1>6, <1>7, SequenceShape
<1>9. /\ IsSequence(calls') /\ Len(calls') = n + 1 /\ calls'[n + 1] = new
      /\ \A j \in 1 .. n : calls'[j] = cs[j]
  BY <1>3, <1>6, <1>8, AppendLast
<1>10. /\ IsSequence(frames') /\ Len(frames') = n + 1 /\ frames'[n + 1] = fr
      /\ \A j \in 1 .. n : frames'[j] = frames[j]
  BY <1>1, <1>3, AppendLast
<1>11. /\ IsSequence(t) /\ Len(t) = n + 1 /\ t[n + 1] = NewActive(program, fn, args)
       /\ \A j \in 1 .. n : t[j] = s[j]
  BY <1>7, <1>8, AppendLast
<1> HIDE DEF t
<1>12. DOMAIN calls' = 1 .. n + 1 /\ \A j \in 1 .. n + 1 : j \in 1 .. n \/ j = n + 1
  BY <1>1, <1>9, SequenceShape
<1>13. \A j \in 1 .. n : calls'[j].frame = j
  BY <1>1, <1>4, <1>6, <1>9
<1>14. /\ Held' /\ IsSequence(active') /\ Len(active') = n + 1
       /\ \A j \in 1 .. n + 1 : active'[j] = Merged(calls'[j], frames'[j])
  BY <1>4, <1>9, <1>10, <1>12, <1>13, ActiveNext
<1>15. \A j \in 1 .. n : active'[j] = t[j]
  <2>1. \A j \in 1 .. n : active'[j] = Merged(cs[j], frames[j]) /\ t[j] = s[j]
    BY <1>1, <1>9, <1>10, <1>11, <1>14
  <2> QED BY <1>1, <1>4, <1>6, <1>7, <2>1
<1>16. active'[n + 1] = t[n + 1]
  BY <1>1, <1>4, <1>9, <1>10, <1>11, <1>14
<1>17. active' = t
  BY <1>11, <1>12, <1>14, <1>15, <1>16, SameSequence
<1> QED BY <1>14, <1>17 DEF t, s

(* A return: the last call and the last frame go together.                             *)
LEMMA PopActive ==
    ASSUME Held, calls # <<>>, Pop
    PROVE  Held' /\ active' = SubSeq(active, 1, Len(active) - 1)
<1> DEFINE n == Len(calls)
           t == SubSeq(active, 1, Len(active) - 1)
<1>1. /\ IsSequence(active) /\ Len(active) = n /\ Len(frames) = n /\ DOMAIN active = 1 .. n
      /\ n \in Nat /\ DOMAIN calls = 1 .. n /\ DOMAIN frames = 1 .. n
      /\ \A j \in 1 .. n : active[j] = Merged(calls[j], frames[j]) /\ calls[j].frame = j
      /\ IsSequence(calls) /\ IsSequence(frames)
  BY ActiveIs DEF Held
<1>2. n \in 1 .. n /\ active # <<>> /\ frames # <<>>
  BY <1>1, SequenceShape
<1>3. calls' = SubSeq(calls, 1, n - 1) /\ frames' = SubSeq(frames, 1, n - 1)
  BY <1>1 DEF Pop, PopFrame
<1>4. /\ IsSequence(calls') /\ Len(calls') = n - 1
      /\ \A j \in DOMAIN calls' : j \in 1 .. n /\ calls'[j] = calls[j]
  BY <1>1, <1>3, DropLast
<1>5. /\ IsSequence(frames') /\ Len(frames') = n - 1
      /\ \A j \in DOMAIN frames' : frames'[j] = frames[j]
  BY <1>1, <1>2, <1>3, DropLast
<1>6. /\ IsSequence(t) /\ Len(t) = n - 1
      /\ \A j \in DOMAIN t : t[j] = active[j]
  BY <1>1, <1>2, DropLast
<1> HIDE DEF t, n
<1>7. DOMAIN calls' = 1 .. n - 1 /\ DOMAIN frames' = 1 .. n - 1 /\ DOMAIN t = 1 .. n - 1
  BY <1>4, <1>5, <1>6, SequenceShape
<1>8. /\ Held' /\ IsSequence(active') /\ Len(active') = n - 1
      /\ \A j \in 1 .. n - 1 : active'[j] = Merged(calls'[j], frames'[j])
  BY <1>1, <1>4, <1>5, <1>7, ActiveNext
<1>9. \A j \in 1 .. n - 1 : active'[j] = t[j]
  BY <1>1, <1>4, <1>5, <1>6, <1>7, <1>8
<1>10. active' = t
  BY <1>6, <1>8, <1>9, SameSequence
<1> QED BY <1>8, <1>10 DEF t

(* callMain: one call, one frame.                                                      *)
LEMMA InitActive ==
    ASSUME NEW args, calls = <<NewCall(program, "main", 1)>>,
           frames = <<NewFrame(program, "main", args)>>
    PROVE  Held /\ active = <<NewActive(program, "main", args)>>
<1> DEFINE c == NewCall(program, "main", 1)
           fr == NewFrame(program, "main", args)
<1>1. c.frame = 1
  BY DEF NewCall
<1> HIDE DEF c, fr
<1>2. calls \in Seq({c}) /\ frames \in Seq({fr})
  BY DEF c, fr
<1>3. IsSequence(calls) /\ IsSequence(frames)
  BY <1>2, SequenceOf
<1>4. Len(calls) = 1 /\ Len(frames) = 1 /\ DOMAIN calls = 1 .. 1 /\ calls[1] = c /\ frames[1] = fr
  BY DEF c, fr
<1>5. Held
  BY <1>1, <1>3, <1>4 DEF Held, FramesOwned
<1>6. IsSequence(active) /\ Len(active) = 1 /\ active[1] = Merged(c, fr)
  BY <1>4, <1>5, ActiveIs
<1> DEFINE t == <<Merged(c, fr)>>
<1>7. t \in Seq({Merged(c, fr)}) /\ Len(t) = 1 /\ t[1] = Merged(c, fr)
  OBVIOUS
<1> HIDE DEF t
<1>8. IsSequence(t)
  BY <1>7, SequenceOf
<1>9. active = t
  BY <1>6, <1>7, <1>8, SameSequence
<1> QED BY <1>5, <1>9 DEF t, c, fr, NewActive

----------------------------------------------------------------------------------
(* What well-formedness says of the block a frame is in.                               *)
LEMMA BlockOfFrame ==
    ASSUME program \in Programs, NEW f, f.fn \in DOMAIN program.fns, ~IsDeclaration(program, f.fn),
           NEW bb \in DOMAIN BlocksOf(program, f)
    PROVE  IsBlock(Block(program, f.fn, bb), DOMAIN BlocksOf(program, f))
  BY RunFunctionAssumption DEF RunFunctionAssumption, IsProgram, IsFunction, Block, BlocksOf

LEMMA EvalValue ==
    ASSUME NEW regs, IsRegs(regs), NEW o, IsOperand(o), Evaluable(regs, o)
    PROVE  Eval(regs, o) \in Value
  BY DEF IsRegs, IsOperand, Evaluable, Eval

LEMMA EvalAllValues ==
    ASSUME NEW regs, IsRegs(regs), NEW os, AreOperands(os), AllEvaluable(regs, os)
    PROVE  /\ EvalAll(regs, os) \in Seq(Value)
           /\ Len(EvalAll(regs, os)) = Len(os)
           /\ DOMAIN EvalAll(regs, os) = DOMAIN os
<1>1. Len(os) \in Nat /\ DOMAIN os = 1 .. Len(os)
  BY SequenceShape DEF AreOperands
<1>2. \A k \in 1 .. Len(os) : Eval(regs, os[k]) \in Value
  BY <1>1, EvalValue DEF AreOperands, AllEvaluable
<1> QED BY <1>1, <1>2 DEF EvalAll

LEMMA BindRegs ==
    ASSUME NEW regs, IsRegs(regs), NEW r, NEW v \in Value
    PROVE  IsRegs(Bind(regs, r, v))
  BY DEF IsRegs, Bind

LEMMA ComputeValue ==
    ASSUME NEW op \in Computes, NEW a \in Int0, NEW b \in Int0
    PROVE  Compute(op, a, b) \in Value
<1>0. IntMod \in Nat \ {0} /\ a \in Nat /\ b \in Nat /\ a < IntMod
  BY IRAssumption DEF IRAssumption, Int0
<1>1. CASE op = "add"
  <2>1. (a + b) % IntMod \in 0 .. IntMod - 1
    BY <1>0
  <2> QED BY <1>1, <2>1 DEF Compute, Value, Int0
<1>2. CASE op = "sub"
  <2>1. (a - b) % IntMod \in 0 .. IntMod - 1
    BY <1>0
  <2> QED BY <1>2, <2>1 DEF Compute, Value, Int0
<1>3. CASE op = "ult"
  <2>1. CASE a < b
    <3>1. b < IntMod
      BY <1>0 DEF Int0
    <3>2. 1 \in 0 .. IntMod - 1
      BY <1>0, <2>1, <3>1
    <3> QED BY <1>3, <2>1, <3>2 DEF Compute, Value, Int0
  <2>2. CASE ~(a < b)
    BY <1>0, <1>3, <2>2 DEF Compute, Value, Int0
  <2> QED BY <2>1, <2>2
<1> QED BY <1>1, <1>2, <1>3 DEF Computes

LEMMA CalleeKnown ==
    ASSUME program \in Programs, NEW regs, NEW i
    PROVE  /\ \A fn \in Callee(program, regs, i) : fn \in DOMAIN program.fns
           /\ \A fn, gn \in Callee(program, regs, i) : fn = gn
  BY RunFunctionAssumption DEF RunFunctionAssumption, IsProgram, Callee

(* A switch reaches its first case that matches; a conditional branch one of its two.   *)
LEMMA SuccessorKnown ==
    ASSUME NEW blocks, NEW t, IsTerm(t, blocks), t.kind \in {"condbr", "switch"}, NEW v
    PROVE  Successor(t, v) \in blocks
<1>1. CASE t.kind = "condbr"
  BY <1>1 DEF Successor, IsTerm
<1>2. CASE t.kind = "switch"
  <2> DEFINE hits == {i \in DOMAIN t.cases : t.cases[i].value = v}
             first == CHOOSE i \in hits : \A j \in hits : i <= j
  <2>1. /\ t.default \in blocks /\ \A i \in DOMAIN t.cases : t.cases[i].dest \in blocks
        /\ DOMAIN t.cases \subseteq Nat
    BY <1>2, SequenceShape DEF IsTerm
  <2>2. Successor(t, v) = IF hits = {} THEN t.default ELSE t.cases[first].dest
    BY <1>2 DEF Successor
  <2>3. CASE hits = {}
    BY <2>1, <2>2, <2>3
  <2>4. CASE hits # {}
    <3>1. \E i \in hits : \A j \in hits : i <= j
      <4>1. hits \in SUBSET Nat
        BY <2>1
      <4> HIDE DEF hits
      <4> QED BY <2>4, <4>1, LeastNatural
    <3>2. first \in hits
      BY <3>1
    <3> QED BY <2>1, <2>2, <2>4, <3>2
  <2> QED BY <2>3, <2>4
<1> QED BY <1>1, <1>2

LEMMA SeenGood ==
    ASSUME NEW p, NEW f, GoodFrame(p, f)
    PROVE  GoodFrame(p, AsSeen(f)) /\ AsSeen(f).fn = f.fn /\ AsSeen(f).stage = f.stage
<1> DEFINE g == AsSeen(f)
<1>1. /\ DOMAIN g = FrameFields /\ g.fn = f.fn /\ g.bb = f.bb /\ g.idx = f.idx /\ g.stage = f.stage
      /\ g.cache = f.cache /\ g.vRegs = f.vRegs
  BY DEF AsSeen, Merged, FrameFields
<1> HIDE DEF g
<1>2. InstsOf(p, g) = InstsOf(p, f) /\ PhisOf(p, g) = PhisOf(p, f) /\ BlocksOf(p, g) = BlocksOf(p, f)
  BY <1>1 DEF InstsOf, PhisOf, BlocksOf
<1>3. IsFrame(p, g)
  BY <1>1, <1>2 DEF GoodFrame, IsFrame
<1>4. PhiLoops(p, g) /\ Waiting(p, g)
  BY <1>1, <1>2 DEF GoodFrame, PhiLoops, Waiting
<1> QED BY <1>1, <1>3, <1>4 DEF GoodFrame, g

(* callFunction makes a frame at the function's first instruction.                     *)
LEMMA NewActiveGood ==
    ASSUME program \in Programs, NEW fn \in DOMAIN program.fns, ~IsDeclaration(program, fn),
           NEW args \in Seq(Value), ArityOK(program, fn, args)
    PROVE  /\ GoodFrame(program, NewActive(program, fn, args))
           /\ NewActive(program, fn, args).stage = "body"
           /\ NewActive(program, fn, args).fn = fn
<1> DEFINE f == NewActive(program, fn, args)
           params == program.fns[fn].params
<1>1. IsSequence(params) /\ program.fns[fn].entry \in DOMAIN program.fns[fn].blocks
  BY RunFunctionAssumption DEF RunFunctionAssumption, IsProgram, IsFunction
<1>2. /\ DOMAIN f = FrameFields /\ f.fn = fn /\ f.bb = program.fns[fn].entry /\ f.idx = 1
      /\ f.stage = "body" /\ f.cache = <<>> /\ f.vRegs = BindParams(program, fn, args)
  BY DEF NewActive, Merged, NewCall, NewFrame, FrameFields
<1>3. IsRegs(f.vRegs)
  <2>1. Len(params) \in Nat /\ DOMAIN params = 1 .. Len(params)
    BY <1>1, SequenceShape
  <2>2. Len(args) >= Len(params)
    BY <2>1 DEF ArityOK
  <2>3. \A r \in Range(params) : (CHOOSE i \in DOMAIN params : params[i] = r) \in 1 .. Len(params)
    BY <2>1 DEF Range
  <2>4. \A i \in 1 .. Len(params) : args[i] \in Value
    BY <2>1, <2>2
  <2>5. f.vRegs = [r \in Range(params) |-> args[CHOOSE i \in DOMAIN params : params[i] = r]]
    BY <1>2 DEF BindParams
  <2>6. \A r \in Range(params) : args[CHOOSE i \in DOMAIN params : params[i] = r] \in Value
    BY <2>3, <2>4
  <2> HIDE DEF f, params
  <2> QED BY <2>5, <2>6 DEF IsRegs
<1>4. IsBlock(Block(program, f.fn, f.bb), DOMAIN BlocksOf(program, f))
  BY <1>1, <1>2, BlockOfFrame DEF BlocksOf
<1>5. Len(InstsOf(program, f)) \in Nat /\ Len(PhisOf(program, f)) \in Nat
  BY <1>4, SequenceShape DEF IsBlock, InstsOf, PhisOf
<1> QED
  <2> HIDE DEF f
  <2>1. IsFrame(program, f)
    BY <1>1, <1>2, <1>3, <1>5 DEF IsFrame, BlocksOf, Stages
  <2>2. PhiLoops(program, f) /\ Waiting(program, f)
    BY <1>2, <1>5 DEF PhiLoops, Waiting
  <2> QED BY <1>2, <2>1, <2>2 DEF GoodFrame, f

----------------------------------------------------------------------------------
LEMMA CallChainAgain ==
    /\ CallChain <=> \A j \in DOMAIN active :
          \/ j = Len(active) /\ (active[j].stage = "calling" <=> retVal # <<>>)
          \/ j < Len(active) /\ CallsNext(program, active, j)
    /\ CallChain' <=> \A j \in DOMAIN active' :
          \/ j = Len(active') /\ (active'[j].stage = "calling" <=> retVal' # <<>>)
          \/ j < Len(active') /\ CallsNext(program', active', j)
  BY DEF CallChain, CallsNext

(* A step that gives up leaves the frames as they are.                                 *)
LEMMA StopStep ==
    ASSUME IInv, NEW why \in Failures, Stop(why)
    PROVE  IInv'
<1>1. UNCHANGED <<program, active, calls, frames, retVal, result>> /\ status' = why
  BY DEF Stop, active, Seen
<1>2. Shape'
  BY <1>1 DEF IInv, Shape, Failures
<1>3. CallChain'
  BY <1>1 DEF IInv, CallChain
<1>4. Held'
  BY <1>1 DEF IInv, Held, FramesOwned
<1> QED BY <1>1, <1>2, <1>3, <1>4 DEF IInv

LEMMA Calling ==
    ASSUME IInv, status = "running"
    PROVE  Held /\ calls # <<>> /\ Len(calls) = Len(active)
<1>1. Held /\ IsSequence(active) /\ active # <<>>
  BY DEF IInv, Shape
<1>2. IsSequence(calls) /\ Len(active) = Len(calls)
  BY <1>1, ActiveIs DEF Held
<1> QED BY <1>1, <1>2, SequenceShape

(* A step of the running frame: what holds of its next state is all there is to show.    *)
LEMMA ContinueStep ==
    ASSUME IInv, status = "running", NEW g, GoodFrame(program, g), g.fn = top.fn, Continue(g),
           UNCHANGED <<program, status, result>>,
           retVal' = <<>> \/ (\E v \in Value : retVal' = <<v>>),
           g.stage = "calling" <=> retVal' # <<>>
    PROVE  IInv'
<1>1. /\ IsSequence(active) /\ active # <<>>
      /\ Len(active) \in Nat /\ Len(active) >= 1 /\ DOMAIN active = 1 .. Len(active)
      /\ Held /\ calls # <<>>
  BY SequenceShape, Calling DEF IInv, Shape
<1>2. PICK h : h = AsSeen(g)
  OBVIOUS
<1>3. GoodFrame(program, h) /\ h.fn = top.fn /\ (h.stage = "calling" <=> retVal' # <<>>)
  BY <1>2, SeenGood
<1>4. Held' /\ active' = [active EXCEPT ![Len(active)] = h]
  BY <1>2, <1>1, ContinueActive
<1>5. /\ IsSequence(active') /\ Len(active') = Len(active) /\ active'[Len(active)] = h /\ active' # <<>>
      /\ \A j \in DOMAIN active : j # Len(active) => active'[j] = active[j]
      /\ DOMAIN active' = DOMAIN active
  <2> DEFINE t == [active EXCEPT ![Len(active)] = h]
  <2>1. active' = t
    BY <1>4
  <2>2. /\ IsSequence(t) /\ Len(t) = Len(active) /\ t[Len(t)] = h /\ t # <<>>
        /\ \A j \in DOMAIN active : j # Len(active) => t[j] = active[j]
    BY <1>1, ReplaceTop
  <2> HIDE DEF t
  <2>3. DOMAIN t = 1 .. Len(t)
    BY <2>2, SequenceShape
  <2> QED BY <1>1, <2>1, <2>2, <2>3
<1>6. Shape'
  BY <1>5 DEF IInv, Shape
<1>7. \A j \in DOMAIN active' : GoodFrame(program', active'[j])
  BY <1>5, <1>3 DEF IInv
<1>8. CallChain'
  <2>1. ASSUME NEW j \in DOMAIN active, j < Len(active)
        PROVE  CallsNext(program, active', j)
    <3>1. active'[j] = active[j] /\ active'[j + 1].fn = active[j + 1].fn
      BY <1>1, <1>5, <1>3, <2>1 DEF top
    <3>2. CallsNext(program, active, j)
      BY <1>1, <2>1, CallChainAgain DEF IInv
    <3> QED BY <3>1, <3>2 DEF CallsNext
  <2> QED BY <1>1, <1>5, <1>3, <2>1, CallChainAgain
<1> QED BY <1>6, <1>7, <1>8, <1>4 DEF IInv

(* The running frame, and what its program says of it.                                 *)
LEMMA TopFrame ==
    ASSUME IInv, status = "running"
    PROVE  /\ GoodFrame(program, top)
           /\ IsBlock(Block(program, top.fn, top.bb), DOMAIN BlocksOf(program, top))
           /\ top.stage = "calling" <=> retVal # <<>>
           /\ Len(active) \in DOMAIN active /\ Len(active) \in Nat
           /\ program \in Programs
<1>1. Len(active) \in DOMAIN active /\ Len(active) \in Nat
  BY SequenceShape DEF IInv, Shape
<1>2. GoodFrame(program, top) /\ program \in Programs
  BY <1>1 DEF IInv, Shape, top
<1>3. IsBlock(Block(program, top.fn, top.bb), DOMAIN BlocksOf(program, top))
  BY <1>2, BlockOfFrame DEF GoodFrame, IsFrame
<1>4. top.stage = "calling" <=> retVal # <<>>
  BY <1>1 DEF IInv, CallChain, top
<1> QED BY <1>1, <1>2, <1>3, <1>4

LEMMA AppendOne ==
    ASSUME NEW s \in Seq(Value), NEW v \in Value, NEW n \in Nat, Len(s) < n
    PROVE  /\ Append(s, v) \in Seq(Value) /\ Append(s, v) # <<>>
           /\ Len(Append(s, v)) = Len(s) + 1 /\ Len(Append(s, v)) <= n
           /\ Len(s) + 1 # n => Len(Append(s, v)) < n
  OBVIOUS

LEMMA TailOne ==
    ASSUME NEW s \in Seq(Value), s # <<>>, NEW n \in Nat, Len(s) <= n
    PROVE  /\ Head(s) \in Value /\ Tail(s) \in Seq(Value) /\ Len(Tail(s)) <= n
           /\ n - Len(s) + 1 \in 1 .. n
           /\ n - Len(s) + 1 # n <=> Tail(s) # <<>>
<1>1. PICK m \in Nat : m = Len(s) /\ m >= 1 /\ m <= n
  BY EmptySeq
<1>2. Head(s) \in Value /\ Tail(s) \in Seq(Value) /\ Len(Tail(s)) = m - 1
  BY <1>1
<1>3. Tail(s) = <<>> <=> m - 1 = 0
  BY <1>2, EmptySeq
<1>4. n - m + 1 # n <=> m # 1
  BY <1>1
<1> QED BY <1>1, <1>2, <1>3, <1>4

LEMMA EvaluatePhiStep == ASSUME IInv, EvaluatePhi PROVE IInv'
<1> DEFINE k == Len(top.cache) + 1
           phi == Phis[k]
           v == Eval(top.vRegs, phi.from[top.prev])
<1>0. status = "running" /\ top.stage = "evaluate"
  BY DEF EvaluatePhi
<1>1. /\ GoodFrame(program, top) /\ retVal = <<>>
      /\ IsBlock(Block(program, top.fn, top.bb), DOMAIN BlocksOf(program, top))
  BY <1>0, TopFrame
<1>2. CASE Stop("noPhiEntry") \/ Stop("unbound")
  <2>1. "noPhiEntry" \in Failures /\ "unbound" \in Failures
    BY Zenon DEF Failures
  <2> QED BY <1>2, <2>1, StopStep, Zenon
<1>3. CASE /\ top.prev \in DOMAIN phi.from /\ Evaluable(top.vRegs, phi.from[top.prev])
           /\ Continue(Cache(top, v)) /\ UNCHANGED <<program, status, retVal, result>>
  <2> DEFINE g == Cache(top, v)
  <2>1. /\ Len(top.cache) \in Nat /\ top.cache \in Seq(Value) /\ Len(top.cache) < Len(Phis)
        /\ Len(Phis) \in Nat /\ DOMAIN Phis = 1 .. Len(Phis)
    BY <1>0, <1>1, SequenceShape DEF GoodFrame, IsFrame, PhiLoops, IsBlock, Phis, PhisOf
  <2>2. IsOperand(phi.from[top.prev])
    <3>1. k \in DOMAIN Phis
      BY <2>1
    <3>2. IsPhi(phi)
      BY <1>1, <3>1 DEF IsBlock, Phis
    <3> HIDE DEF phi
    <3> QED BY <1>3, <3>2, Zenon DEF IsPhi
  <2>3. v \in Value
    <3>1. IsRegs(top.vRegs) /\ Evaluable(top.vRegs, phi.from[top.prev])
      BY <1>1, <1>3, Zenon DEF GoodFrame, IsFrame
    <3> HIDE DEF phi
    <3> QED BY <2>2, <3>1, EvalValue, Zenon
  <2> DEFINE c == Append(top.cache, v)
  <2>4. /\ c \in Seq(Value) /\ c # <<>> /\ Len(c) <= Len(Phis)
        /\ k # Len(Phis) => Len(c) < Len(Phis)
    BY <2>1, <2>3, AppendOne
  <2>5. DOMAIN top = FrameFields
    BY <1>1 DEF GoodFrame, IsFrame
  <2>6. /\ DOMAIN g = FrameFields /\ g.fn = top.fn /\ g.bb = top.bb /\ g.idx = top.idx
        /\ g.vRegs = top.vRegs /\ g.cache = c
        /\ g.stage = IF k = Len(Phis) THEN "commit" ELSE "evaluate"
    BY <2>5 DEF Cache, NextStage, FrameFields, Phis
  <2>7. GoodFrame(program, g)
    <3> HIDE DEF g, v, c, k
    <3>1. IsFrame(program, g)
      BY <1>1, <2>4, <2>6 DEF GoodFrame, IsFrame, BlocksOf, InstsOf, Stages
    <3>2. PhiLoops(program, g)
      <4>1. PhisOf(program, g) = Phis
        BY <2>6 DEF PhisOf, Phis
      <4> QED BY <2>4, <2>6, <4>1 DEF PhiLoops
    <3>3. Waiting(program, g)
      <4>1. g.stage # "calling"
        BY <2>6, Zenon
      <4> QED BY <4>1, Zenon DEF Waiting
    <3> QED BY <3>1, <3>2, <3>3 DEF GoodFrame
  <2>8. g.stage # "calling"
    BY <2>6
  <2> HIDE DEF g
  <2> QED BY <1>0, <1>1, <1>3, <2>6, <2>7, <2>8, ContinueStep DEF g
<1> QED BY <1>2, <1>3 DEF EvaluatePhi

LEMMA CommitPhiStep == ASSUME IInv, CommitPhi PROVE IInv'
<1> DEFINE k == Len(Phis) - Len(top.cache) + 1
           g == [top EXCEPT !.vRegs = Bind(@, Phis[k].dst, Head(top.cache)),
                            !.cache = Tail(@),
                            !.stage = IF k = Len(Phis) THEN "body" ELSE @]
<1>0. /\ status = "running" /\ top.stage = "commit"
      /\ Continue(g) /\ UNCHANGED <<program, status, retVal, result>>
  BY DEF CommitPhi
<1>1. GoodFrame(program, top) /\ retVal = <<>>
      /\ IsBlock(Block(program, top.fn, top.bb), DOMAIN BlocksOf(program, top))
  BY <1>0, TopFrame
<1>2. /\ top.cache \in Seq(Value) /\ top.cache # <<>> /\ Len(top.cache) <= Len(Phis)
      /\ Len(top.cache) \in Nat /\ Len(Phis) \in Nat
  BY <1>0, <1>1, SequenceShape DEF GoodFrame, IsFrame, PhiLoops, IsBlock, Phis, PhisOf
<1>3. /\ Head(top.cache) \in Value /\ Tail(top.cache) \in Seq(Value)
      /\ Len(Tail(top.cache)) <= Len(Phis) /\ (k # Len(Phis) <=> Tail(top.cache) # <<>>)
  BY <1>2, TailOne
<1>4. DOMAIN top = FrameFields
  BY <1>1 DEF GoodFrame, IsFrame
<1>5. /\ DOMAIN g = FrameFields /\ g.fn = top.fn /\ g.bb = top.bb /\ g.idx = top.idx
      /\ g.vRegs = Bind(top.vRegs, Phis[k].dst, Head(top.cache)) /\ g.cache = Tail(top.cache)
      /\ g.stage = IF k = Len(Phis) THEN "body" ELSE "commit"
  BY <1>0, <1>4 DEF FrameFields
<1>6. GoodFrame(program, g)
  <2> HIDE DEF g
  <2>1. IsRegs(g.vRegs)
    BY <1>1, <1>3, <1>5, BindRegs DEF GoodFrame, IsFrame
  <2>2. IsFrame(program, g)
    BY <1>1, <1>3, <1>5, <2>1 DEF GoodFrame, IsFrame, BlocksOf, InstsOf, Stages
  <2>3. PhiLoops(program, g)
    <3>1. PhisOf(program, g) = Phis
      BY <1>5 DEF PhisOf, Phis
    <3> HIDE DEF k
    <3> QED BY <1>3, <1>5, <3>1 DEF PhiLoops
  <2>4. Waiting(program, g)
    <3>1. g.stage # "calling"
      BY <1>5
    <3> QED BY <3>1, Zenon DEF Waiting
  <2> QED BY <2>2, <2>3, <2>4 DEF GoodFrame
<1>7. g.stage # "calling"
  BY <1>5
<1> HIDE DEF g
<1> QED BY <1>0, <1>1, <1>5, <1>6, <1>7, ContinueStep

(* The running frame at an instruction, or past the last one.                          *)
LEMMA AtInstruction ==
    ASSUME IInv, AtInst
    PROVE  /\ top.idx \in 1 .. Len(Insts) /\ Len(Insts) \in Nat /\ DOMAIN Insts = 1 .. Len(Insts)
           /\ IsInst(Insts[top.idx]) /\ Insts = InstsOf(program, top) /\ retVal = <<>>
           /\ GoodFrame(program, top) /\ IsRegs(top.vRegs) /\ DOMAIN top = FrameFields
<1>1. status = "running" /\ top.stage = "body" /\ top.idx <= Len(Insts)
  BY DEF AtInst
<1>2. /\ GoodFrame(program, top) /\ retVal = <<>>
      /\ IsBlock(Block(program, top.fn, top.bb), DOMAIN BlocksOf(program, top))
  BY <1>1, TopFrame
<1>3. /\ Len(Insts) \in Nat /\ DOMAIN Insts = 1 .. Len(Insts)
      /\ top.idx \in 1 .. Len(Insts) + 1 /\ Insts = InstsOf(program, top)
  BY <1>2, SequenceShape DEF IsBlock, Insts, GoodFrame, IsFrame, InstsOf
<1> QED BY <1>1, <1>2, <1>3 DEF IsBlock, Insts, GoodFrame, IsFrame

LEMMA ExecuteStep == ASSUME IInv, Execute PROVE IInv'
<1> DEFINE i == Insts[top.idx]
           v == Compute(i.op, Eval(top.vRegs, i.args[1]), Eval(top.vRegs, i.args[2]))
           g == [top EXCEPT !.idx = @ + 1, !.vRegs = Bind(@, i.dst, v)]
<1>0. AtInst /\ i.op \in Computes /\ status = "running" /\ top.stage = "body"
  BY DEF Execute, AtInst
<1>1. CASE Stop("unbound") \/ Stop("badValue")
  BY <1>1, StopStep DEF Failures
<1>2. CASE /\ AllEvaluable(top.vRegs, i.args) /\ Undef \notin Range(EvalAll(top.vRegs, i.args))
           /\ Continue(g) /\ UNCHANGED <<program, status, retVal, result>>
  <2>1. /\ top.idx \in 1 .. Len(Insts) /\ Len(Insts) \in Nat /\ Insts = InstsOf(program, top)
        /\ IsInst(i) /\ retVal = <<>>
        /\ GoodFrame(program, top) /\ IsRegs(top.vRegs) /\ DOMAIN top = FrameFields
    BY <1>0, AtInstruction
  <2>2. Len(i.args) = 2 /\ AreOperands(i.args)
    BY <1>0, <2>1 DEF IsInst, Computes
  <2>3. /\ EvalAll(top.vRegs, i.args) \in Seq(Value) /\ DOMAIN EvalAll(top.vRegs, i.args) = 1 .. 2
        /\ DOMAIN i.args = 1 .. 2
    BY <1>2, <2>1, <2>2, EvalAllValues
  <2>4. \A n \in 1 .. 2 : Eval(top.vRegs, i.args[n]) = EvalAll(top.vRegs, i.args)[n]
    BY <2>3 DEF EvalAll
  <2>5. \A n \in 1 .. 2 : Eval(top.vRegs, i.args[n]) \in Int0
    BY <1>2, <2>3, <2>4 DEF Range, Value
  <2>6. v \in Value
    BY <1>0, <2>5, ComputeValue
  <2> HIDE DEF v, i
  <2>7. /\ DOMAIN g = FrameFields /\ g.fn = top.fn /\ g.bb = top.bb /\ g.idx = top.idx + 1
        /\ g.vRegs = Bind(top.vRegs, i.dst, v) /\ g.cache = top.cache /\ g.stage = top.stage
    BY <2>1 DEF FrameFields
  <2>8. GoodFrame(program, g)
    <3> HIDE DEF g
    <3>1. IsRegs(g.vRegs)
      BY <2>1, <2>6, <2>7, BindRegs
    <3>2. InstsOf(program, g) = Insts /\ PhisOf(program, g) = PhisOf(program, top)
      BY <2>1, <2>7 DEF InstsOf, PhisOf
    <3>3. IsFrame(program, g)
      BY <2>1, <2>7, <3>1, <3>2 DEF GoodFrame, IsFrame, BlocksOf
    <3>4. PhiLoops(program, g) /\ Waiting(program, g)
      BY <1>0, <2>1, <2>7, <3>2 DEF GoodFrame, PhiLoops, Waiting
    <3> QED BY <3>3, <3>4 DEF GoodFrame
  <2> HIDE DEF g
  <2> QED BY <1>0, <1>2, <2>1, <2>7, <2>8, ContinueStep
<1> QED BY <1>1, <1>2 DEF Execute

LEMMA CallStep == ASSUME IInv, Call PROVE IInv'
<1> DEFINE i == Insts[top.idx]
           args == EvalAll(top.vRegs, i.args)
           w == Wait(top)
<1>0. AtInst /\ i.op = "call" /\ status = "running" /\ top.stage = "body"
  BY DEF Call, AtInst
<1>1. /\ top.idx \in 1 .. Len(Insts) /\ DOMAIN Insts = 1 .. Len(Insts) /\ Insts = InstsOf(program, top)
      /\ IsInst(i) /\ retVal = <<>>
      /\ GoodFrame(program, top) /\ IsRegs(top.vRegs) /\ DOMAIN top = FrameFields
  BY <1>0, AtInstruction
<1>2. /\ DOMAIN w = FrameFields /\ w.fn = top.fn /\ w.bb = top.bb /\ w.idx = top.idx
      /\ w.stage = "calling" /\ w.cache = top.cache /\ w.vRegs = top.vRegs
  BY <1>1 DEF Wait, FrameFields
<1>3. InstsOf(program, w) = Insts /\ PhisOf(program, w) = PhisOf(program, top)
  BY <1>1, <1>2 DEF InstsOf, PhisOf
<1>4. ASSUME Callee(program, top.vRegs, i) # {}
      PROVE  GoodFrame(program, w)
  <2> HIDE DEF w
  <2>1. IsFrame(program, w)
    BY <1>1, <1>2, <1>3 DEF GoodFrame, IsFrame, BlocksOf, Stages
  <2>2. PhiLoops(program, w)
    BY <1>1, <1>2, <1>3 DEF GoodFrame, PhiLoops
  <2>3. Waiting(program, w)
    BY <1>0, <1>1, <1>2, <1>3, <1>4 DEF Waiting
  <2> QED BY <2>1, <2>2, <2>3 DEF GoodFrame
<1>5. CASE Stop("badCall") \/ Stop("unbound")
  BY <1>5, StopStep DEF Failures
<1>6. CASE \E fn \in Callee(program, top.vRegs, i) :
             /\ \E v \in ExternalResults : retVal' = <<v>>
             /\ Continue(w) /\ UNCHANGED <<program, status, result>>
  <2>1. GoodFrame(program, w)
    BY <1>4, <1>6
  <2>2. \E v \in Value : retVal' = <<v>>
    BY <1>6, RunFunctionAssumption DEF RunFunctionAssumption
  <2>3. retVal' # <<>>
    BY <2>2
  <2> HIDE DEF w
  <2> QED BY <1>0, <1>2, <1>6, <2>1, <2>2, <2>3, ContinueStep
<1>7. ASSUME NEW fn \in Callee(program, top.vRegs, i), AllEvaluable(top.vRegs, i.args),
             ~IsDeclaration(program, fn), ArityOK(program, fn, args),
             Push(w, fn, args),
             UNCHANGED <<program, status, retVal, result>>
      PROVE  IInv'
  <2> DEFINE n == NewActive(program, fn, args)
             u == AsSeen(w)
             s == [active EXCEPT ![Len(active)] = u]
  <2>1. /\ IsSequence(active) /\ active # <<>> /\ program \in Programs
        /\ Len(active) \in Nat /\ Len(active) >= 1 /\ DOMAIN active = 1 .. Len(active)
    BY <1>0, SequenceShape DEF IInv, Shape
  <2>2. fn \in DOMAIN program.fns /\ args \in Seq(Value)
    BY <1>1, <1>7, <2>1, CalleeKnown, EvalAllValues DEF IsInst
  <2>3. GoodFrame(program, n) /\ n.stage = "body" /\ n.fn = fn
    BY <1>7, <2>1, <2>2, NewActiveGood
  <2>4. /\ GoodFrame(program, u) /\ u.fn = top.fn /\ u.bb = top.bb /\ u.idx = top.idx
        /\ u.stage = "calling" /\ u.vRegs = top.vRegs
    <3>1. GoodFrame(program, w)
      BY <1>4, <1>7
    <3> HIDE DEF w
    <3> QED BY <1>2, <3>1, SeenGood DEF AsSeen, Merged
  <2>5. /\ IsSequence(s) /\ Len(s) = Len(active) /\ s[Len(s)] = u
        /\ \A j \in DOMAIN active : j # Len(active) => s[j] = active[j]
    BY <2>1, ReplaceTop
  <2>6. active' = Append(s, n) /\ Held'
    <3> HIDE DEF w
    <3> QED BY <1>0, <1>2, <1>7, PushActive, Calling
  <2> HIDE DEF s, n, w, u
  <2>7. /\ IsSequence(active') /\ Len(active') = Len(active) + 1 /\ active'[Len(active) + 1] = n
        /\ active' # <<>> /\ \A j \in DOMAIN s : active'[j] = s[j]
    BY <2>5, <2>6, AppendLast
  <2>8. DOMAIN active' = 1 .. Len(active) + 1 /\ DOMAIN s = 1 .. Len(active)
    BY <2>5, <2>7, SequenceShape
  <2>9. active'[Len(active)] = u /\ \A j \in 1 .. Len(active) - 1 : active'[j] = active[j]
    BY <2>1, <2>5, <2>7, <2>8
  <2>10. ASSUME NEW j \in DOMAIN active'
         PROVE  \/ j = Len(active') /\ active'[j] = n
                \/ j < Len(active') /\ j = Len(active) /\ active'[j] = u /\ active'[j + 1] = n
                \/ /\ j < Len(active') /\ j \in 1 .. Len(active) - 1
                   /\ active'[j] = active[j] /\ active'[j + 1].fn = active[j + 1].fn
    <3>1. CASE j \in 1 .. Len(active) - 1
      <4>1. j + 1 \in 1 .. Len(active) /\ j < Len(active')
        BY <2>1, <2>7, <3>1
      <4>2. active'[j + 1].fn = active[j + 1].fn
        <5>1. CASE j + 1 = Len(active)
          BY <2>4, <2>9, <5>1 DEF top
        <5>2. CASE j + 1 # Len(active)
          <6>1. j + 1 \in 1 .. Len(active) - 1
            BY <2>1, <4>1, <5>2
          <6> QED BY <2>9, <6>1
        <5> QED BY <5>1, <5>2
      <4> QED BY <2>9, <3>1, <4>1, <4>2
    <3>2. CASE j = Len(active) \/ j = Len(active) + 1
      BY <2>1, <2>7, <2>9, <3>2
    <3> QED BY <2>1, <2>8, <2>10, <3>1, <3>2
  <2>11. Shape'
    BY <1>7, <2>7 DEF IInv, Shape
  <2>12. \A j \in DOMAIN active' : GoodFrame(program', active'[j])
    <3>1. ASSUME NEW j \in DOMAIN active'
          PROVE  active'[j] \in {n, u} \/ (j \in DOMAIN active /\ active'[j] = active[j])
      <4>1. 1 .. Len(active) - 1 \subseteq DOMAIN active
        BY <2>1
      <4> QED BY <2>10, <3>1, <4>1, Zenon
    <3>2. \A j \in DOMAIN active : GoodFrame(program, active[j])
      BY DEF IInv
    <3> QED BY <1>7, <2>3, <2>4, <3>1, <3>2
  <2>13. CallChain'
    <3>1. ASSUME NEW j \in DOMAIN active'
          PROVE  \/ j = Len(active') /\ (active'[j].stage = "calling" <=> retVal' # <<>>)
                 \/ j < Len(active') /\ CallsNext(program, active', j)
      <4>1. CASE j = Len(active') /\ active'[j] = n
        BY <1>1, <1>7, <2>3, <4>1
      <4>2. CASE j < Len(active') /\ active'[j] = u /\ active'[j + 1] = n
        BY <1>0, <1>1, <1>7, <2>3, <2>4, <4>2 DEF CallsNext, InstsOf
      <4>3. CASE /\ j < Len(active') /\ j \in 1 .. Len(active) - 1
                 /\ active'[j] = active[j] /\ active'[j + 1].fn = active[j + 1].fn
        <5>1. CallsNext(program, active, j)
          BY <2>1, <4>3, CallChainAgain DEF IInv
        <5> QED BY <4>3, <5>1 DEF CallsNext
      <4> QED BY <2>10, <3>1, <4>1, <4>2, <4>3
    <3> QED BY <1>7, <3>1, CallChainAgain
  <2> QED BY <2>6, <2>11, <2>12, <2>13 DEF IInv
<1> QED BY <1>5, <1>6, <1>7 DEF Call

LEMMA FinishCallStep == ASSUME IInv, FinishCall PROVE IInv'
<1> DEFINE i == Block(program, top.fn, top.bb).insts[top.idx]
           fn == CHOOSE c \in Callee(program, top.vRegs, i) : TRUE
           g == CallDone(top)
<1>0. /\ status = "running" /\ top.stage = "calling"
      /\ Continue(g) /\ retVal' = <<>> /\ UNCHANGED <<program, status, result>>
  BY DEF FinishCall
<1>1. /\ GoodFrame(program, top) /\ retVal # <<>>
      /\ IsBlock(Block(program, top.fn, top.bb), DOMAIN BlocksOf(program, top))
  BY <1>0, TopFrame
<1>2. retVal[1] \in Value
  BY <1>1 DEF IInv, Shape
<1>3. /\ Len(InstsOf(program, top)) \in Nat
      /\ DOMAIN InstsOf(program, top) = 1 .. Len(InstsOf(program, top))
      /\ top.idx \in DOMAIN InstsOf(program, top)
  BY <1>0, <1>1, SequenceShape DEF IsBlock, GoodFrame, IsFrame, InstsOf, Waiting
<1>4. IsRegs(top.vRegs) /\ DOMAIN top = FrameFields
  BY <1>1 DEF GoodFrame, IsFrame
<1>5. /\ DOMAIN g = FrameFields /\ g.fn = top.fn /\ g.bb = top.bb /\ g.idx = top.idx + 1
      /\ g.vRegs = (IF program.fns[fn].returnsVoid THEN top.vRegs ELSE Bind(top.vRegs, i.dst, retVal[1]))
      /\ g.cache = top.cache /\ g.stage = "body"
  BY <1>4 DEF CallDone, CallDoneAt, FrameFields
<1>6. IsRegs(g.vRegs)
  <2> HIDE DEF g, fn, i
  <2> QED BY <1>2, <1>4, <1>5, BindRegs
<1>7. GoodFrame(program, g)
  <2> HIDE DEF g, fn, i
  <2>1. InstsOf(program, g) = InstsOf(program, top) /\ PhisOf(program, g) = PhisOf(program, top)
    BY <1>5 DEF InstsOf, PhisOf
  <2>2. IsFrame(program, g)
    <3>1. top.idx + 1 \in 1 .. Len(InstsOf(program, top)) + 1
      BY <1>3
    <3> QED BY <1>1, <1>5, <1>6, <2>1, <3>1 DEF GoodFrame, IsFrame, BlocksOf, Stages
  <2>3. PhiLoops(program, g)
    BY <1>1, <1>5, <2>1 DEF GoodFrame, PhiLoops
  <2>4. Waiting(program, g)
    <3>1. g.stage # "calling"
      BY <1>5
    <3> QED BY <3>1, Zenon DEF Waiting
  <2> QED BY <2>2, <2>3, <2>4 DEF GoodFrame
<1>8. g.stage # "calling" /\ g.fn = top.fn
  BY <1>5
<1> HIDE DEF g
<1> QED BY <1>0, <1>7, <1>8, ContinueStep

(* The running frame at its terminator.                                                *)
LEMMA AtTerminator ==
    ASSUME IInv, AtTerm
    PROVE  /\ IsTerm(Term, DOMAIN BlocksOf(program, top)) /\ retVal = <<>>
           /\ status = "running" /\ GoodFrame(program, top) /\ top.stage = "body"
           /\ IsRegs(top.vRegs) /\ DOMAIN top = FrameFields
           /\ Len(Insts) \in Nat /\ top.idx = Len(Insts) + 1
<1>1. status = "running" /\ top.stage = "body" /\ top.idx > Len(Insts)
  BY DEF AtTerm
<1>2. /\ GoodFrame(program, top) /\ retVal = <<>>
      /\ IsBlock(Block(program, top.fn, top.bb), DOMAIN BlocksOf(program, top))
  BY <1>1, TopFrame
<1>3. /\ Len(Insts) \in Nat /\ top.idx \in 1 .. Len(Insts) + 1
  BY <1>2, SequenceShape DEF IsBlock, Insts, GoodFrame, IsFrame, InstsOf
<1> QED BY <1>1, <1>2, <1>3 DEF IsBlock, Term, GoodFrame, IsFrame

LEMMA SwitchStep ==
    ASSUME IInv, AtTerm, NEW dest \in DOMAIN BlocksOf(program, top), SwitchTo(dest)
    PROVE  IInv'
<1> DEFINE g == [top EXCEPT !.prev = top.bb, !.bb = dest, !.idx = 1, !.cache = <<>>,
                   !.before = top.vRegs,
                   !.stage = IF Block(program, top.fn, dest).phis = <<>> THEN "body" ELSE "evaluate"]
<1>0. Continue(g) /\ UNCHANGED <<program, status, retVal, result>>
  BY DEF SwitchTo
<1>1. /\ status = "running" /\ GoodFrame(program, top) /\ retVal = <<>> /\ program \in Programs
      /\ IsRegs(top.vRegs) /\ DOMAIN top = FrameFields
  BY AtTerminator DEF IInv, Shape
<1>2. /\ DOMAIN g = FrameFields /\ g.fn = top.fn /\ g.bb = dest /\ g.idx = 1
      /\ g.vRegs = top.vRegs /\ g.cache = <<>>
      /\ g.stage = IF Block(program, top.fn, dest).phis = <<>> THEN "body" ELSE "evaluate"
  BY <1>1 DEF FrameFields
<1> HIDE DEF g
<1>3. IsBlock(Block(program, top.fn, dest), DOMAIN BlocksOf(program, top))
  BY <1>1, BlockOfFrame DEF GoodFrame, IsFrame
<1>4. /\ PhisOf(program, g) = Block(program, top.fn, dest).phis
      /\ Len(PhisOf(program, g)) \in Nat /\ Len(InstsOf(program, g)) \in Nat
      /\ PhisOf(program, g) # <<>> => Len(PhisOf(program, g)) # 0
  BY <1>2, <1>3, SequenceShape DEF IsBlock, PhisOf, InstsOf
<1>5. GoodFrame(program, g)
  <2>1. IsFrame(program, g)
    BY <1>1, <1>2, <1>4 DEF GoodFrame, IsFrame, BlocksOf, Stages
  <2>2. PhiLoops(program, g)
    BY <1>2, <1>4 DEF PhiLoops
  <2>3. Waiting(program, g)
    BY <1>2 DEF Waiting
  <2> QED BY <2>1, <2>2, <2>3 DEF GoodFrame
<1>6. g.stage # "calling"
  BY <1>2
<1> QED BY <1>0, <1>1, <1>2, <1>5, <1>6, ContinueStep

LEMMA BrStep == ASSUME IInv, Br PROVE IInv'
<1>1. AtTerm /\ Term.kind = "br" /\ SwitchTo(Term.dest)
  BY DEF Br
<1>2. Term.dest \in DOMAIN BlocksOf(program, top)
  BY <1>1, AtTerminator DEF IsTerm
<1> QED BY <1>1, <1>2, SwitchStep

LEMMA SelectStep == ASSUME IInv, Select PROVE IInv'
<1> DEFINE v == Eval(top.vRegs, Term.on)
<1>1. AtTerm /\ Term.kind \in {"condbr", "switch"}
  BY DEF Select
<1>2. CASE Stop("unbound") \/ Stop("badValue")
  BY <1>2, StopStep DEF Failures
<1>3. CASE SwitchTo(Successor(Term, v))
  <2>1. Successor(Term, v) \in DOMAIN BlocksOf(program, top)
    BY <1>1, AtTerminator, SuccessorKnown
  <2> QED BY <1>1, <1>3, <2>1, SwitchStep
<1> QED BY <1>2, <1>3 DEF Select

LEMMA RetStep == ASSUME IInv, Ret PROVE IInv'
<1> DEFINE v == Eval(top.vRegs, Term.value)
<1>0. AtTerm /\ Term.kind = "ret"
  BY DEF Ret
<1>1. CASE Stop("unbound")
  BY <1>1, StopStep DEF Failures
<1>2. CASE /\ Evaluable(top.vRegs, Term.value)
           /\ Pop
           /\ \/ Len(calls) = 1 /\ status' = "returned" /\ result' = v /\ UNCHANGED retVal
              \/ Len(calls) > 1 /\ retVal' = <<v>> /\ UNCHANGED <<status, result>>
           /\ UNCHANGED program
  <2>1. /\ IsSequence(active) /\ active # <<>> /\ program \in Programs /\ status = "running"
        /\ Len(active) \in Nat /\ Len(active) >= 1 /\ DOMAIN active = 1 .. Len(active)
        /\ retVal = <<>> /\ Held /\ calls # <<>> /\ Len(calls) = Len(active)
    BY <1>0, AtTerminator, SequenceShape, Calling DEF IInv, Shape
  <2>2. Held' /\ active' = SubSeq(active, 1, Len(active) - 1)
    BY <1>2, <2>1, PopActive
  <2>3. v \in Value
    BY <1>0, <1>2, AtTerminator, EvalValue DEF IsTerm
  <2> HIDE DEF v
  <2>4. /\ IsSequence(active') /\ Len(active') = Len(active) - 1
        /\ \A j \in DOMAIN active' : j \in DOMAIN active /\ j < Len(active) /\ active'[j] = active[j]
    BY <2>1, <2>2, DropLast
  <2>5. DOMAIN active' = 1 .. Len(active) - 1 /\ (active' = <<>> <=> Len(active') = 0)
    BY <2>4, SequenceShape
  <2>6. active' = <<>> <=> Len(active) = 1
    BY <2>1, <2>4, <2>5
  <2>7. Shape'
    BY <1>2, <2>1, <2>3, <2>4, <2>6 DEF IInv, Shape
  <2>8. \A j \in DOMAIN active' : GoodFrame(program', active'[j])
    BY <1>2, <2>4 DEF IInv
  <2>9. CallChain'
    <3>1. ASSUME NEW j \in DOMAIN active'
          PROVE  \/ j = Len(active') /\ (active'[j].stage = "calling" <=> retVal' # <<>>)
                 \/ j < Len(active') /\ CallsNext(program, active', j)
      <4>1. /\ active'[j] = active[j] /\ j \in 1 .. Len(active) - 1
            /\ Len(active) > 1 /\ retVal' = <<v>>
        BY <1>2, <2>1, <2>4, <2>5, <3>1
      <4>2. CallsNext(program, active, j)
        BY <2>1, <4>1, CallChainAgain DEF IInv
      <4>3. CASE j = Len(active')
        BY <4>1, <4>2, <4>3 DEF CallsNext
      <4>4. CASE j # Len(active')
        <5>1. j + 1 \in DOMAIN active' /\ j < Len(active')
          BY <2>1, <2>4, <2>5, <4>1, <4>4
        <5> QED BY <2>4, <4>1, <4>2, <5>1 DEF CallsNext
      <4> QED BY <4>3, <4>4
    <3> QED BY <1>2, <3>1, CallChainAgain
  <2> QED BY <2>7, <2>8, <2>9, <2>2 DEF IInv
<1> QED BY <1>1, <1>2 DEF Ret

LEMMA UnreachableStep == ASSUME IInv, Unreachable PROVE IInv'
  BY StopStep DEF Unreachable, Failures

LEMMA InitIInv == ASSUME Init PROVE IInv
<1>1. PICK args \in MainArgs :
         /\ ArityOK(program, "main", args)
         /\ frames = <<NewFrame(program, "main", args)>> /\ calls = <<NewCall(program, "main", 1)>>
  BY DEF Init
<1> DEFINE f == NewActive(program, "main", args)
<1>2. Held /\ active = <<f>>
  BY <1>1, InitActive
<1>3. program \in Programs /\ args \in Seq(Value)
  BY RunFunctionAssumption DEF Init, RunFunctionAssumption
<1>4. "main" \in DOMAIN program.fns /\ ~IsDeclaration(program, "main")
  BY <1>3, RunFunctionAssumption DEF RunFunctionAssumption, IsProgram
<1>5. GoodFrame(program, f) /\ f.stage = "body"
  BY <1>1, <1>3, <1>4, NewActiveGood
<1> HIDE DEF f
<1>6. active \in Seq({f}) /\ Len(active) = 1 /\ DOMAIN active = {1} /\ active[1] = f /\ active # <<>>
  BY <1>2
<1>7. IsSequence(active)
  BY <1>6, SequenceOf
<1>8. status = "running" /\ retVal = <<>> /\ result \in Value
  BY DEF Init, Value
<1>9. Shape
  BY <1>3, <1>6, <1>7, <1>8 DEF Shape
<1>10. CallChain
  BY <1>5, <1>6, <1>8 DEF CallChain
<1> QED BY <1>5, <1>6, <1>9, <1>10, <1>2 DEF IInv

LEMMA NextIInv == ASSUME IInv, [Next]_vars PROVE IInv'
<1>1. CASE Next
  BY <1>1, EvaluatePhiStep, CommitPhiStep, ExecuteStep, CallStep, FinishCallStep, BrStep, SelectStep,
     RetStep, UnreachableStep DEF Next
<1>2. CASE UNCHANGED vars
  <2>1. UNCHANGED <<program, calls, frames, status, retVal, result, active>>
    BY <1>2 DEF vars, active, Seen
  <2> QED BY <2>1 DEF IInv, Shape, CallChain, Held, FramesOwned
<1> QED BY <1>1, <1>2

LEMMA Invariance == Spec => []IInv
  BY InitIInv, NextIInv, PTL DEF Spec

----------------------------------------------------------------------------------
(* runFunction keeps to the shape that its locals and the StackFrames have, whatever   *)
(* well-formed program it runs.                                                        *)
THEOREM TypeCorrect == Spec => []TypeOK
<1>1. ASSUME IInv PROVE TypeOK
  <2>1. retVal = <<>> \/ (retVal \in Seq(Value) /\ Len(retVal) = 1 /\ top.stage = "calling")
    <3>1. SUFFICES ASSUME retVal # <<>>
                   PROVE  retVal \in Seq(Value) /\ Len(retVal) = 1 /\ top.stage = "calling"
      OBVIOUS
    <3>2. PICK v \in Value : retVal = <<v>>
      BY <1>1, <3>1 DEF IInv, Shape
    <3>3. Len(active) \in DOMAIN active /\ DOMAIN active = 1 .. Len(active)
      BY <1>1, <3>1, SequenceShape DEF IInv, Shape
    <3>4. top.stage = "calling"
      BY <1>1, <3>1, <3>3, CallChainAgain DEF IInv, top
    <3> QED BY <3>2, <3>4
  <2>2. ASSUME NEW j \in DOMAIN active
        PROVE  /\ active[j].stage \in Stages
               /\ active[j].idx \in 1 .. Len(Block(program, active[j].fn, active[j].bb).insts) + 1
               /\ active[j].cache \in Seq(Value)
               /\ Len(active[j].cache) <= Len(Block(program, active[j].fn, active[j].bb).phis)
               /\ \A r \in DOMAIN active[j].vRegs : active[j].vRegs[r] \in Value
    <3>1. GoodFrame(program, active[j])
      BY <1>1, <2>2 DEF IInv
    <3> QED BY <3>1 DEF GoodFrame, IsFrame, PhiLoops, IsRegs, InstsOf, PhisOf
  <2> QED BY <1>1, <2>1, <2>2 DEF IInv, Shape, TypeOK
<1> QED BY <1>1, Invariance, PTL

(* callFunction and popStack keep the StackFrames in step with the C++ calls: every    *)
(* frame waits at the Call that made the one above it.                                 *)
THEOREM CallsChained == Spec => []CallChain
<1>1. IInv => CallChain
  BY DEF IInv
<1> QED BY <1>1, Invariance, PTL

(* The frame& that a call of runFunction was given stays its own, and stays the last of  *)
(* the StackFrames while the call runs, however deep the calls below it went: popStack   *)
(* never takes the frame of another call.                                                *)
THEOREM FramesStayOwned == Spec => []FramesOwned
<1>1. IInv => FramesOwned
  BY DEF IInv, Held
<1> QED BY <1>1, Invariance, PTL

==================================================================================
