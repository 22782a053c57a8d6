------------------------------- MODULE RunFunction -------------------------------
(* Interpreter::runFunction and what it calls to move control: callFunction,          *)
(* switchToNewBasicBlock, evaluateInstruction for computing and calling instructions, *)
(* popStack (Interpreter.cpp, Evaluation.cpp, StackFrame.h).                          *)
(*                                                                                    *)
(* Phi nodes take one step each, as the code's two loops do: first every incoming     *)
(* value is evaluated into phiValueCache, then the cache is committed to vRegs.       *)
EXTENDS IR

CONSTANTS
    Programs,           \* the programs to run
    MainArgs,           \* argument vectors that runMain may pass
    ExternalResults     \* what callExternalFunction may return

ASSUME RunFunctionAssumption ==
    /\ \A p \in Programs : IsProgram(p)
    /\ MainArgs \subseteq Seq(Value) /\ ExternalResults \subseteq Value

VARIABLES
    program,    \* the module being interpreted
    calls,      \* the C++ calls of runFunction that have not returned, the running one last
    frames,     \* StackFrames: the frames that exist, the current one last
    status,     \* "running", "returned", or why the process terminated
    retVal,     \* <<v>> while a Ret's value is on its way to the caller, else <<>>
    result      \* what runMain's call of main returned

vars == <<program, calls, frames, status, retVal, result>>

(* A frame has curFunction and vRegs.  A call has its argument "frame", a reference: the *)
(* place of the frame in the vector, which holds it by pointer and so may grow under it; *)
(* curBB, prevBB and phiValueCache of switchToNewBasicBlock; instItr as an index; and     *)
(* which loop is running.  "before" is a history variable: vRegs when the branch to curBB *)
(* was taken.                                                                         *)
NewFrame(p, fn, args) == [fn |-> fn, vRegs |-> BindParams(p, fn, args)]

NewCall(p, fn, ref) ==
    [frame |-> ref, bb |-> p.fns[fn].entry, prev |-> p.fns[fn].entry, idx |-> 1,
     stage |-> "body", cache |-> <<>>, before |-> <<>>]

(* What a call works with: its locals, and the frame that it refers to. *)
Seen(c) ==
    [fn |-> frames[c.frame].fn, vRegs |-> frames[c.frame].vRegs, bb |-> c.bb, prev |-> c.prev,
     idx |-> c.idx, stage |-> c.stage, cache |-> c.cache, before |-> c.before]

active == [j \in DOMAIN calls |-> Seen(calls[j])]
top == active[Len(active)]

Phis == Block(program, top.fn, top.bb).phis
Insts == Block(program, top.fn, top.bb).insts
Term == Block(program, top.fn, top.bb).term

(* The running call goes on with f: its locals are its own, vRegs is the frame's. *)
Locals(c, f) ==
    [frame |-> c.frame, bb |-> f.bb, prev |-> f.prev, idx |-> f.idx, stage |-> f.stage,
     cache |-> f.cache, before |-> f.before]

Continue(f) ==
    LET c == calls[Len(calls)]
    IN  /\ calls' = [calls EXCEPT ![Len(calls)] = Locals(c, f)]
        /\ frames' = [frames EXCEPT ![c.frame] = [fn |-> @.fn, vRegs |-> f.vRegs]]

(* callFunction: createFrame puts a frame at the back and returns a reference to it, and *)
(* runFunction is called with that while f waits. *)
Push(f, fn, args) ==
    /\ calls' = Append([calls EXCEPT ![Len(calls)] = Locals(@, f)],
                       NewCall(program, fn, Len(frames) + 1))
    /\ frames' = Append(frames, NewFrame(program, fn, args))

PopNoFrame(fs) == fs            \* mutant: the frame of a function that returns is kept

(* popStack drops the frame that getCurrentFrame() returns, whichever it is. *)
PopFrame(fs) == SubSeq(fs, 1, Len(fs) - 1)

Pop ==
    /\ calls' = SubSeq(calls, 1, Len(calls) - 1)
    /\ frames' = PopFrame(frames)

Stop(why) == status' = why /\ UNCHANGED <<program, calls, frames, retVal, result>>

Init ==
    /\ program \in Programs
    /\ \E args \in MainArgs :
          /\ ArityOK(program, "main", args)
          /\ frames = <<NewFrame(program, "main", args)>>
          /\ calls = <<NewCall(program, "main", 1)>>
    /\ status = "running"
    /\ retVal = <<>>
    /\ result = Undef

----------------------------------------------------------------------------------
(* switchToNewBasicBlock, first loop: the next phi's value is evaluated, not bound.   *)
NextStage(f) ==
    IF Len(f.cache) + 1 = Len(Block(program, f.fn, f.bb).phis) THEN "commit" ELSE "evaluate"

CacheAndBind(f, v) ==    \* mutant: phis are updated on the fly
    [f EXCEPT !.cache = Append(@, v), !.stage = NextStage(f),
              !.vRegs = Bind(@, Block(program, f.fn, f.bb).phis[Len(f.cache) + 1].dst, v)]

Cache(f, v) == [f EXCEPT !.cache = Append(@, v), !.stage = NextStage(f)]

EvaluatePhi ==
    /\ status = "running"
    /\ top.stage = "evaluate"
    /\ LET phi == Phis[Len(top.cache) + 1]
           have == top.prev \in DOMAIN phi.from
       IN  \/ ~have /\ Stop("noPhiEntry")
           \/ have /\ ~Evaluable(top.vRegs, phi.from[top.prev]) /\ Stop("unbound")
           \/ /\ have /\ Evaluable(top.vRegs, phi.from[top.prev])
              /\ Continue(Cache(top, Eval(top.vRegs, phi.from[top.prev])))
              /\ UNCHANGED <<program, status, retVal, result>>

(* Second loop: the cached values are bound, in order.                                *)
CommitPhi ==
    /\ status = "running"
    /\ top.stage = "commit"
    /\ LET k == Len(Phis) - Len(top.cache) + 1
       IN  Continue([top EXCEPT !.vRegs = Bind(@, Phis[k].dst, Head(top.cache)),
              !.cache = Tail(@),
              !.stage = IF k = Len(Phis) THEN "body" ELSE @])
    /\ UNCHANGED <<program, status, retVal, result>>

AtInst == status = "running" /\ top.stage = "body" /\ top.idx <= Len(Insts)
AtTerm == status = "running" /\ top.stage = "body" /\ top.idx > Len(Insts)

(* evaluateInstruction of an instruction that computes. *)
Execute ==
    /\ AtInst
    /\ LET i == Insts[top.idx]
       IN  /\ i.op \in Computes
           /\ \/ ~AllEvaluable(top.vRegs, i.args) /\ Stop("unbound")
              \/ /\ AllEvaluable(top.vRegs, i.args)
                 /\ \/ Undef \in Range(EvalAll(top.vRegs, i.args)) /\ Stop("badValue")
                    \/ /\ Undef \notin Range(EvalAll(top.vRegs, i.args))
                       /\ LET v == Compute(i.op, Eval(top.vRegs, i.args[1]), Eval(top.vRegs, i.args[2]))
                          IN  Continue([top EXCEPT !.idx = @ + 1, !.vRegs = Bind(@, i.dst, v)])
                       /\ UNCHANGED <<program, status, retVal, result>>

WaitPast(f) == [f EXCEPT !.stage = "calling", !.idx = @ + 1]    \* mutant: instItr moves on first

Wait(f) == [f EXCEPT !.stage = "calling"]

(* Call: the callee is found, then the arguments are evaluated; an external function  *)
(* returns at once, any other one gets a frame and runs in it. *)
Call ==
    /\ AtInst
    /\ LET i == Insts[top.idx]
           args == EvalAll(top.vRegs, i.args)
       IN  /\ i.op = "call"
           /\ \/ Callee(program, top.vRegs, i) = {} /\ Stop("badCall")
              \/ \E fn \in Callee(program, top.vRegs, i) :
                   \/ ~AllEvaluable(top.vRegs, i.args) /\ Stop("unbound")
                   \/ /\ AllEvaluable(top.vRegs, i.args)
                      /\ IsDeclaration(program, fn)
                      /\ \E v \in ExternalResults : retVal' = <<v>>
                      /\ Continue(Wait(top))
                      /\ UNCHANGED <<program, status, result>>
                   \/ /\ AllEvaluable(top.vRegs, i.args)
                      /\ ~IsDeclaration(program, fn)
                      /\ \/ ~ArityOK(program, fn, args) /\ Stop("badCall")
                         \/ /\ ArityOK(program, fn, args)
                            /\ Push(Wait(top), fn, args)
                            /\ UNCHANGED <<program, status, retVal, result>>

(* The rest of the Call instruction, once the callee has returned to it: unless the   *)
(* callee is void, its value is bound to the instruction. *)
CallDoneAt(f, idx) ==
    LET i == Block(program, f.fn, f.bb).insts[f.idx]
        fn == CHOOSE c \in Callee(program, f.vRegs, i) : TRUE
    IN  [f EXCEPT !.stage = "body", !.idx = idx,
           !.vRegs = IF program.fns[fn].returnsVoid THEN @ ELSE Bind(@, i.dst, retVal[1])]

CallDoneInPlace(f) == CallDoneAt(f, f.idx)        \* mutant: instItr is left at the call
CallDoneSkipping(f) == CallDoneAt(f, f.idx + 2)   \* mutant: instItr is moved on twice

CallDone(f) == CallDoneAt(f, f.idx + 1)

FinishCall ==
    /\ status = "running"
    /\ top.stage = "calling"
    /\ Continue(CallDone(top))
    /\ retVal' = <<>>
    /\ UNCHANGED <<program, status, result>>

----------------------------------------------------------------------------------
(* A branch enters switchToNewBasicBlock; a block without phis goes on to its body.   *)
SwitchTo(dest) ==
    /\ Continue([top EXCEPT !.prev = top.bb, !.bb = dest, !.idx = 1, !.cache = <<>>,
          !.before = top.vRegs,
          !.stage = IF Block(program, top.fn, dest).phis = <<>> THEN "body" ELSE "evaluate"])
    /\ UNCHANGED <<program, status, retVal, result>>

Br ==
    /\ AtTerm
    /\ Term.kind = "br"
    /\ SwitchTo(Term.dest)

(* A conditional Br or a Switch: its operand selects the destination. *)
Select ==
    /\ AtTerm
    /\ Term.kind \in {"condbr", "switch"}
    /\ \/ ~Evaluable(top.vRegs, Term.on) /\ Stop("unbound")
       \/ /\ Evaluable(top.vRegs, Term.on)
          /\ LET v == Eval(top.vRegs, Term.on)
             IN  \/ v = Undef /\ Stop("badValue")
                 \/ v # Undef /\ SwitchTo(Successor(Term, v))

(* Ret: the value is evaluated in the callee's frame, then popStack drops it.  The    *)
(* outermost call returns to runMain.                                                 *)
Ret ==
    /\ AtTerm
    /\ Term.kind = "ret"
    /\ \/ ~Evaluable(top.vRegs, Term.value) /\ Stop("unbound")
       \/ /\ Evaluable(top.vRegs, Term.value)
          /\ LET v == Eval(top.vRegs, Term.value)
             IN  /\ Pop
                 /\ \/ /\ Len(calls) = 1
                       /\ status' = "returned" /\ result' = v /\ UNCHANGED retVal
                    \/ /\ Len(calls) > 1
                       /\ retVal' = <<v>> /\ UNCHANGED <<status, result>>
          /\ UNCHANGED program

Unreachable ==
    /\ AtTerm
    /\ Term.kind = "unreachable"
    /\ Stop("unreachable")

Next ==
    \/ EvaluatePhi \/ CommitPhi
    \/ Execute \/ Call \/ FinishCall
    \/ Br \/ Select \/ Ret \/ Unreachable

Spec == Init /\ [][Next]_vars

(* The interpreter is one thread that always takes its next step.                     *)
FairSpec == Spec /\ WF_vars(Next)

(* --------------------------------- correctness ---------------------------------- *)

Stages == {"evaluate", "commit", "body", "calling"}
Failures == {"unbound", "noPhiEntry", "badValue", "badCall", "unreachable"}

(* The state has the shape that runFunction's locals have: a cache no longer than the *)
(* phis of the block, one pending value, held only while a Call waits for it.         *)
TypeOK ==
    /\ program \in Programs
    /\ status \in {"running", "returned"} \cup Failures
    /\ result \in Value
    /\ retVal = <<>> \/ (retVal \in Seq(Value) /\ Len(retVal) = 1 /\ top.stage = "calling")
    /\ \A j \in DOMAIN active :
         LET f == active[j]
         IN  /\ f.stage \in Stages
             /\ f.idx \in 1 .. Len(Block(program, f.fn, f.bb).insts) + 1
             /\ f.cache \in Seq(Value)
             /\ Len(f.cache) <= Len(Block(program, f.fn, f.bb).phis)
             /\ \A r \in DOMAIN f.vRegs : f.vRegs[r] \in Value

(* C++ calls and interpreted calls stay in step: every frame but the last waits at    *)
(* the Call that made the frame above it, and a waiting last frame has a value coming. *)
CallChain ==
    \A j \in DOMAIN active :
        \/ j = Len(active) /\ (active[j].stage = "calling" <=> retVal # <<>>)
        \/ /\ j < Len(active)
           /\ active[j].stage = "calling"
           /\ LET f == active[j]
                  insts == Block(program, f.fn, f.bb).insts
              IN  /\ f.idx \in DOMAIN insts
                  /\ insts[f.idx].op = "call"
                  /\ active[j + 1].fn \in Callee(program, f.vRegs, insts[f.idx])

(* Every call of runFunction holds the frame that was made for it, and no other frame    *)
(* exists: the frame& of the running call is the one getCurrentFrame() returns, so what   *)
(* popStack drops, and whose allocations it gives back, is the frame of the call that     *)
(* returns; and a caller's reference is still good when the call below it returns.        *)
FramesOwned ==
    /\ Len(frames) = Len(calls)
    /\ \A j \in DOMAIN calls : calls[j].frame = j

(* The abstract activation of a frame.  A frame that is still at the phis of its block *)
(* has, to the language, not left the block before: its registers are those the branch *)
(* saw.  A frame whose call has returned has, to the language, its value already.      *)
Activation(f) ==
    IF f.stage \in {"evaluate", "commit"}
    THEN [fn |-> f.fn, bb |-> f.prev, env |-> f.before,
          idx |-> Len(Block(program, f.fn, f.prev).insts) + 1]
    ELSE [fn |-> f.fn, bb |-> f.bb, env |-> f.vRegs, idx |-> f.idx]

Activations ==
    [j \in DOMAIN active |->
       IF j = Len(active) /\ retVal # <<>> THEN Activation(CallDone(active[j])) ELSE Activation(active[j])]

Abs == INSTANCE SsaSemantics WITH
    acts <- Activations,
    status <- IF status \in Failures THEN "aborted" ELSE status

(* The interpreter does what the language says: phis in parallel, calls and returns   *)
(* in one step, and it gives up only where the program has no meaning.                *)
Implements == Abs!Spec

(* Every program of the instance comes to an end: no step of the interpreter returns  *)
(* to a place where it was with nothing changed.                                      *)
Terminates == <>(status # "running")
================================================================================
