------------------------------ MODULE MCGlobalSetup ------------------------------
(* Programs of up to three globals and two functions, each started with a few command  *)
(* lines.  Pointers are two bytes; a bit pattern of two bits is an integer.             *)
EXTENDS GlobalSetup

Chars(chars) == [kind |-> "chars", chars |-> chars]
Refs(names) == [kind |-> "refs", names |-> names]
NoInit(size) == [kind |-> "none", size |-> size]

Hello == Chars(<<"h", "%s", "NUL">>)
Numbers == Chars(<<"%u", "-", "%d", "NUL">>)
Unterminated == Chars(<<"u">>)

(* Tables of pointers to what is before and after them (a text without its first         *)
(* character, its end), to themselves and to a function.                                 *)
Around == Refs(<<Global(1), Global(3), Null>>)
Inside == Refs(<<Element(1, 1), Element(3, 4)>>)
Itself == Refs(<<Global(2)>>)
Handlers == Refs(<<Function(1)>>)

GlobalChoices ==
    {<<first, table, last>> : first \in {Hello, Unterminated, NoInit(0)},
                              table \in {Around, Itself, NoInit(1)},
                              last \in {Numbers, NoInit(0), Refs(<<>>)}}
    \cup {<<first, Inside, Numbers>> : first \in {Hello, Unterminated}}
    \cup {<<Handlers>>, <<>>}
    \cup {<<NoInit(n)>> : n \in {32, 34, 38, 40}}      \* full, sooner or later

FunctionChoices == {<<"defined", "external">>, <<"unknown">>}

ArgChoices == {<<<<"p">>>>, <<<<"p">>, <<>>, <<"x", "y">>>>}

Mains == {[found |-> FALSE, defined |-> FALSE, formals |-> 0],
          [found |-> TRUE, defined |-> FALSE, formals |-> 2]}
         \cup [found : {TRUE}, defined : {TRUE}, formals : {0, 2, 3}]

MCPrograms == [globals : GlobalChoices, functions : FunctionChoices, args : ArgChoices, main : Mains]

MCGarbage == [kind |-> "garbage"]
MCByte == {MCGarbage}
MCInts == {1, 3}
=================================================================================
