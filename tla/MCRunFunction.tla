------------------------------ MODULE MCRunFunction ------------------------------
(* Programs for RunFunction: every way three phis of a loop can take each other's    *)
(* values, recursion, switches, direct, indirect, void and external calls, and one   *)
(* program for each defect at which the interpreter terminates.                      *)
EXTENDS RunFunction, TLC

Op(dst, op, a, b) == [op |-> op, dst |-> dst, args |-> <<a, b>>]
CallOf(dst, callee, args) == [op |-> "call", dst |-> dst, callee |-> callee, args |-> args]
Phi(dst, from) == [dst |-> dst, from |-> from]

To(bb) == [kind |-> "br", dest |-> bb]
If(r, then, else) == [kind |-> "condbr", on |-> r, then |-> then, else |-> else]
SwitchOn(r, cases, default) == [kind |-> "switch", on |-> r, cases |-> cases, default |-> default]
RetOf(v) == [kind |-> "ret", value |-> v]
RetVoid == RetOf(Const(Undef))

BB(phis, insts, term) == [phis |-> phis, insts |-> insts, term |-> term]

Fun(params, blocks) ==
    [params |-> params, returnsVoid |-> FALSE, isVarArg |-> FALSE, entry |-> "entry",
     blocks |-> blocks]
VoidFun(params, blocks) == [Fun(params, blocks) EXCEPT !.returnsVoid = TRUE]
Straight(params, insts, term) == Fun(params, "entry" :> BB(<<>>, insts, term))

Prog(fns) == [fns |-> fns, funPtrMap |-> <<>>]

----------------------------------------------------------------------------------
(* A loop that goes round three times, and whose phis x and y take a and b.           *)
Loop(a, b) == Prog("main" :> Fun(<<>>,
    "entry" :> BB(<<>>, <<>>, To("loop")) @@
    "loop"  :> BB(<<Phi("i", ("entry" :> Const(0) @@ "loop" :> Reg("i2"))),
                    Phi("x", ("entry" :> Const(1) @@ "loop" :> a)),
                    Phi("y", ("entry" :> Const(2) @@ "loop" :> b))>>,
                  <<Op("i2", "add", Reg("i"), Const(1)),
                    Op("c", "ult", Reg("i2"), Const(3))>>,
                  If(Reg("c"), "loop", "exit")) @@
    "exit"  :> BB(<<>>, <<Op("r", "sub", Reg("x"), Reg("y"))>>, RetOf(Reg("r")))))

Loops == {Loop(a, b) : a, b \in {Reg("i"), Reg("x"), Reg("y"), Reg("i2")}}

(* sum(argc), by recursion. *)
Sum == Prog(
    "main" :> Straight(<<"argc", "argv">>, <<CallOf("r", "sum", <<Reg("argc")>>)>>, RetOf(Reg("r"))) @@
    "sum"  :> Fun(<<"n">>,
        "entry" :> BB(<<>>, <<Op("c", "ult", Reg("n"), Const(1))>>, If(Reg("c"), "join", "rec")) @@
        "rec"   :> BB(<<>>, <<Op("m", "sub", Reg("n"), Const(1)),
                              CallOf("s", "sum", <<Reg("m")>>),
                              Op("t", "add", Reg("s"), Reg("n"))>>, To("join")) @@
        "join"  :> BB(<<Phi("v", ("entry" :> Const(0) @@ "rec" :> Reg("t")))>>,
                      <<>>, RetOf(Reg("v")))))

(* A switch on argc, two of whose cases share a block with the default. *)
Switches == Prog("main" :> Fun(<<"argc">>,
    "entry" :> BB(<<>>, <<>>,
                  SwitchOn(Reg("argc"), <<[value |-> 1, dest |-> "one"], [value |-> 2, dest |-> "join"]>>,
                           "join")) @@
    "one"   :> BB(<<>>, <<>>, To("join")) @@
    "join"  :> BB(<<Phi("v", ("entry" :> Const(3) @@ "one" :> Reg("argc")))>>, <<>>, RetOf(Reg("v")))))

(* A void function is called for nothing, twice with a value on its way elsewhere. *)
VoidCalls == Prog(
    "main" :> Straight(<<"argc">>,
        <<CallOf("none", "nop", <<>>), CallOf("r", "two", <<>>), CallOf("none", "nop", <<>>)>>,
        RetOf(Reg("r"))) @@
    "two"  :> Straight(<<>>, <<CallOf("none", "nop", <<>>)>>, RetOf(Const(2))) @@
    "nop"  :> VoidFun(<<>>, "entry" :> BB(<<>>, <<>>, RetVoid)))

(* More arguments than parameters: an ellipsis takes them, if there are any. *)
Variadic == {Prog(
    "main"  :> Straight(<<"argc">>, <<CallOf("r", "first", args)>>, RetOf(Reg("r"))) @@
    "first" :> [Straight(<<"n">>, <<>>, RetOf(Reg("n"))) EXCEPT !.isVarArg = TRUE]) :
    args \in {<<Reg("argc")>>, <<Reg("argc"), Const(1), Const(Undef)>>}}

(* An address that an external function returned is called; only 3 is a function's.   *)
Indirect == [fns |->
    "main" :> Straight(<<"argc">>,
        <<CallOf("f", "ext", <<>>), CallOf("r", "f", <<Reg("argc")>>)>>, RetOf(Reg("r"))) @@
    "inc"  :> Straight(<<"n">>, <<Op("m", "add", Reg("n"), Const(1))>>, RetOf(Reg("m"))) @@
    "ext"  :> [external |-> TRUE, returnsVoid |-> FALSE],
    funPtrMap |-> 3 :> "inc"]

(* What an external function returned is branched on, or computed with.               *)
Externals == {
    Prog("main" :> Fun(<<>>,
            "entry" :> BB(<<>>, <<CallOf("v", "ext", <<>>), CallOf("none", "free", <<Reg("v")>>)>>, t) @@
            "yes"   :> BB(<<>>, <<Op("w", "add", Reg("v"), Const(1))>>, RetOf(Reg("w"))) @@
            "no"    :> BB(<<>>, <<>>, [kind |-> "unreachable"])) @@
         "ext"  :> [external |-> TRUE, returnsVoid |-> FALSE] @@
         "free" :> [external |-> TRUE, returnsVoid |-> TRUE]) :
    t \in {If(Reg("v"), "yes", "no"), To("yes")}}

(* Programs that parse and are wrong: a register is used that no path binds, a phi     *)
(* has no entry for a predecessor, a call has one argument too few or too many.       *)
Defective == {
    Prog("main" :> Straight(<<>>, <<Op("a", "add", Reg("ghost"), Const(1))>>, RetVoid)),
    Prog("main" :> Straight(<<>>, <<CallOf("a", "main", <<Reg("ghost")>>)>>, RetVoid)),
    Prog("main" :> Straight(<<>>, <<CallOf("a", "ghost", <<>>)>>, RetVoid)),
    Prog("main" :> Straight(<<>>, <<CallOf("a", "one", <<>>)>>, RetVoid) @@
         "one"  :> Straight(<<"p">>, <<>>, RetVoid)),
    Prog("main" :> Straight(<<>>, <<CallOf("a", "none", <<Const(1)>>)>>, RetVoid) @@
         "none" :> Straight(<<>>, <<>>, RetVoid)),
    Prog("main" :> Straight(<<>>, <<>>, RetOf(Reg("ghost")))),
    Prog("main" :> Fun(<<>>, "entry" :> BB(<<>>, <<>>, If(Reg("ghost"), "entry", "entry"))))}
  \cup {
    Prog("main" :> Fun(<<"argc">>,
        "entry" :> BB(<<>>, <<>>, To("next")) @@
        "next"  :> BB(<<Phi("a", "entry" :> Reg("argc")), phi>>, <<>>, RetOf(Reg("a"))))) :
    phi \in {Phi("b", "entry" :> Reg("ghost")), Phi("b", "next" :> Const(0))}}

MCPrograms ==
    Loops \cup Externals \cup Defective \cup Variadic \cup {Sum, Switches, VoidCalls, Indirect}

MCMainArgs == {<<argc, 0>> : argc \in 0 .. 3}

MCExternalResults == {Undef, 0, 3}
================================================================================
