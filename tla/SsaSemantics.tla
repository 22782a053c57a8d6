------------------------------- MODULE SsaSemantics ------------------------------
(* What the language promises about control: a stack of activations, one instruction *)
(* at a time.  Taking a branch assigns all phi nodes of the destination at once,     *)
(* from the values its source block saw; a return hands its value to the register of *)
(* the call in one step; activations of one function share nothing.  An execution    *)
(* may be given up only at a step to which the program gives no meaning.             *)
EXTENDS IR

CONSTANTS Programs, MainArgs, ExternalResults

VARIABLES
    program,    \* the program being run
    acts,       \* the activations, [fn, bb, idx, env] each, the running one last
    status,     \* "running", "returned" or "aborted"
    result      \* the value of main, once it has returned

vars == <<program, acts, status, result>>

top == acts[Len(acts)]

Activation(fn, args) ==
    [fn |-> fn, bb |-> program.fns[fn].entry, idx |-> 1, env |-> BindParams(program, fn, args)]

Init ==
    /\ program \in Programs
    /\ \E args \in MainArgs :
          ArityOK(program, "main", args) /\ acts = <<Activation("main", args)>>
    /\ status = "running"
    /\ result = Undef

Insts == Block(program, top.fn, top.bb).insts
Term == Block(program, top.fn, top.bb).term
AtTerm == top.idx = Len(Insts) + 1

Continue(a) == acts' = [acts EXCEPT ![Len(acts)] = a]

(* The instruction's register gets a value and control moves on. *)
Yield(a, i, v) == [a EXCEPT !.idx = @ + 1, !.env = Bind(@, i.dst, v)]

Resume(a, i, fn, v) ==
    IF program.fns[fn].returnsVoid THEN [a EXCEPT !.idx = @ + 1] ELSE Yield(a, i, v)

Computation ==
    /\ ~AtTerm
    /\ LET i == Insts[top.idx]
       IN  /\ i.op \in Computes
           /\ \A k \in DOMAIN i.args : IsInt(top.env, i.args[k])
           /\ Continue(Yield(top, i, Compute(i.op, Eval(top.env, i.args[1]), Eval(top.env, i.args[2]))))
    /\ UNCHANGED <<program, status, result>>

Call ==
    /\ ~AtTerm
    /\ LET i == Insts[top.idx]
       IN  /\ i.op = "call"
           /\ AllEvaluable(top.env, i.args)
           /\ \E fn \in Callee(program, top.env, i) :
                 \/ /\ ~IsDeclaration(program, fn)
                    /\ ArityOK(program, fn, EvalAll(top.env, i.args))
                    /\ acts' = Append(acts, Activation(fn, EvalAll(top.env, i.args)))
                 \/ /\ IsDeclaration(program, fn)
                    /\ \E v \in ExternalResults : Continue(Resume(top, i, fn, v))
    /\ UNCHANGED <<program, status, result>>

(* The phis of a block that its predecessor gives a value. *)
Enterable(from, dest) ==
    LET phis == Block(program, top.fn, dest).phis
    IN  \A i \in DOMAIN phis :
           from \in DOMAIN phis[i].from /\ Evaluable(top.env, phis[i].from[from])

Goto(dest) ==
    LET phis == Block(program, top.fn, dest).phis
        assigned == {phis[i].dst : i \in DOMAIN phis}
        incoming(r) == phis[CHOOSE i \in DOMAIN phis : phis[i].dst = r].from[top.bb]
    IN  /\ Enterable(top.bb, dest)
        /\ Continue([top EXCEPT !.bb = dest, !.idx = 1,
             !.env = [r \in DOMAIN @ \cup assigned |->
                        IF r \in assigned THEN Eval(@, incoming(r)) ELSE @[r]]])

(* Where the terminator leads: nowhere, if its condition is not an integer. *)
Destinations ==
    IF Term.kind = "br" THEN {Term.dest}
    ELSE IF Term.kind \in {"condbr", "switch"} /\ IsInt(top.env, Term.on)
    THEN {Successor(Term, Eval(top.env, Term.on))}
    ELSE {}

Jump ==
    /\ AtTerm
    /\ \E dest \in Destinations : Goto(dest)
    /\ UNCHANGED <<program, status, result>>

Return ==
    /\ AtTerm
    /\ Term.kind = "ret"
    /\ Evaluable(top.env, Term.value)
    /\ LET v == Eval(top.env, Term.value)
           rest == SubSeq(acts, 1, Len(acts) - 1)
       IN  \/ /\ rest = <<>>
              /\ acts' = rest /\ status' = "returned" /\ result' = v
           \/ /\ rest # <<>>
              /\ LET caller == rest[Len(rest)]
                     i == Block(program, caller.fn, caller.bb).insts[caller.idx]
                 IN  acts' = [rest EXCEPT ![Len(rest)] = Resume(@, i, top.fn, v)]
              /\ UNCHANGED <<status, result>>
    /\ UNCHANGED program

(* The next step has no meaning: an operand without a value, a computation or a      *)
(* branch on no integer, a call that reaches no function that takes its arguments, a *)
(* block that is not entered from here, or the instruction unreachable. *)
Meaningless ==
    IF AtTerm
    THEN IF Term.kind = "ret" THEN ~Evaluable(top.env, Term.value)
         ELSE ~\E dest \in Destinations : Enterable(top.bb, dest)
    ELSE LET i == Insts[top.idx]
         IN  IF i.op = "call"
             THEN \/ ~AllEvaluable(top.env, i.args)
                  \/ ~\E fn \in Callee(program, top.env, i) :
                         \/ IsDeclaration(program, fn)
                         \/ ArityOK(program, fn, EvalAll(top.env, i.args))
             ELSE ~\A k \in DOMAIN i.args : IsInt(top.env, i.args[k])

GiveUp ==
    /\ Meaningless
    /\ status' = "aborted"
    /\ UNCHANGED <<program, acts, result>>

Next == status = "running" /\ (Computation \/ Call \/ Jump \/ Return \/ GiveUp)

Spec == Init /\ [][Next]_vars
================================================================================
