--------------------------- MODULE MCTranslation ---------------------------
(***************************************************************************)
(* Small LLVM modules: loops with one or several exits, nested loops,      *)
(* calls, assumptions and switches, with the operands that decide which    *)
(* values cross the boundaries of a loop as parameters.                    *)
(***************************************************************************)
EXTENDS Translation

Phi(x, ops, from) == [kind |-> "phi", def |-> x, ops |-> ops, from |-> from]
Calc(x, op, ops) == [kind |-> "calc", def |-> x, op |-> op, ops |-> ops]
Nondet(x) == [kind |-> "nondet", def |-> x, ops |-> <<>>]
Assume(x) == [kind |-> "assume", def |-> NoName, ops |-> <<x>>]
Error == [kind |-> "error", def |-> NoName, ops |-> <<"1">>]
Call(x, f, ops) == [kind |-> "call", def |-> x, callee |-> f, ops |-> ops]

Goto(b) == [kind |-> "br", def |-> NoName, ops |-> <<>>, succs |-> <<b>>]
If(x, b, c) == [kind |-> "br", def |-> NoName, ops |-> <<x>>, succs |-> <<b, c>>]
Switch(x, cs, bs) == [kind |-> "switch", def |-> NoName, ops |-> <<x>>, cases |-> cs, succs |-> bs]
Ret(x) == [kind |-> "ret", def |-> NoName, ops |-> <<x>>, succs |-> <<>>]
RetVoid == [kind |-> "ret", def |-> NoName, ops |-> <<>>, succs |-> <<>>]
Stop == [kind |-> "unreachable", def |-> NoName, ops |-> <<>>, succs |-> <<>>]

Function(args, void, blocks) == [args |-> args, void |-> void, blocks |-> blocks]

\* for (i = a; i < n; ++i) and a check of x and y behind it.
While(a, x, y) ==
    <<Function(<<"n">>, FALSE,
       <<<<Goto(2)>>,
         <<Phi("i", <<a, "i2">>, <<1, 3>>), Calc("c", "lt", <<"i", "n">>), If("c", 3, 4)>>,
         <<Calc("i2", "inc", <<"i">>), Goto(2)>>,
         <<Calc("e", "eq", <<x, y>>), If("e", 5, 6)>>,
         <<Error, Stop>>,
         <<Ret("i")>>>>)>>

\* A loop that is left at its end or by a break, and the value r that tells
\* the two apart; an assumption or a call of function 2 in its body.
Break(x, y, extra) ==
    Function(<<"n">>, FALSE,
       <<<<Goto(2)>>,
         <<Phi("i", <<"0", "i2">>, <<1, 4>>), Calc("c", "lt", <<"i", "n">>), If("c", 3, 5)>>,
         <<Nondet("k")>> \o extra \o <<Calc("s", "eq", <<"k", "i">>), If("s", 6, 4)>>,
         <<Calc("i2", "inc", <<"i">>), Goto(2)>>,
         <<Goto(7)>>,
         <<Goto(7)>>,
         <<Phi("r", <<x, y>>, <<5, 6>>), Calc("e", "eq", <<"r", "1">>), If("e", 8, 9)>>,
         <<Error, Stop>>,
         <<Ret("r")>>>>)

\* Counts to n if that is possible within two steps, and fails for 2.
Callee ==
    Function(<<"m">>, FALSE,
       <<<<Calc("z", "eq", <<"m", "2">>), Goto(2)>>,
         <<Phi("a", <<"m", "b">>, <<1, 2>>), Calc("b", "inc", <<"a">>), If("b", 2, 3)>>,
         <<If("z", 4, 5)>>,
         <<Error, Stop>>,
         <<Ret("a")>>>>)

Nop == Function(<<"m">>, TRUE, <<<<RetVoid>>>>)

\* Two nested loops; what the inner one starts with, how far it goes, and what
\* the outer one goes on with.
Nested(a, b, u, x) ==
    <<Function(<<"n">>, FALSE,
       <<<<Goto(2)>>,
         <<Phi("i", <<"0", "i2">>, <<1, 6>>), Calc("c", "lt", <<"i", "n">>), If("c", 3, 7)>>,
         <<Calc("h", "inc", <<"i">>), Goto(4)>>,
         <<Phi("j", <<a, "j2">>, <<3, 5>>), Calc("d", "lt", <<"j", b>>), If("d", 5, 6)>>,
         <<Calc("j2", "inc", <<"j">>), Goto(4)>>,
         <<Calc("i2", "inc", <<u>>), Goto(2)>>,
         <<Calc("e", "eq", <<x, "2">>), If("e", 8, 9)>>,
         <<Error, Stop>>,
         <<Ret("i")>>>>)>>

\* A switch inside a loop, two of whose cases leave it over the same edge.
Cases(x) ==
    <<Function(<<"n">>, FALSE,
       <<<<Calc("p", "inc", <<"n">>), Goto(2)>>,
         <<Phi("i", <<"n", "i2">>, <<1, 4>>), Calc("g", "inc", <<"i">>), Nondet("k"),
           Switch("k", <<"0", "1">>, <<3, 5, 4>>)>>,
         <<Goto(6)>>,
         <<Calc("q", "eq", <<"p", "i">>), Calc("i2", "inc", <<"i">>), Assume("q"), Goto(2)>>,
         <<Goto(6)>>,
         <<Phi("r", <<x, "1">>, <<3, 5>>), Calc("e", "eq", <<"r", "p">>), If("e", 7, 8)>>,
         <<Error, Stop>>,
         <<Ret("r")>>>>)>>

\* Straight-line code whose values are used once, twice and in another block.
Straight(x, y) ==
    <<Function(<<"n">>, FALSE,
       <<<<Calc("a", "inc", <<"n">>), Calc("b", "inc", <<"a">>), Calc("c", "eq", <<x, y>>), If("c", 2, 3)>>,
         <<Calc("d", "and", <<"c", "b">>), If("d", 4, 5)>>,
         <<Goto(5)>>,
         <<Error, Stop>>,
         <<Phi("r", <<"a", "b">>, <<2, 3>>), Ret("r")>>>>)>>

\* A break out of both of two loops, if the condition l holds.
BreakBoth(l) ==
    <<Function(<<"n">>, FALSE,
       <<<<Goto(2)>>,
         <<Phi("i", <<"0", "i2">>, <<1, 6>>), Calc("c", "lt", <<"i", "n">>), If("c", 3, 7)>>,
         <<Goto(4)>>,
         <<Nondet("k"), If("k", 5, 6)>>,
         <<Calc("l", "lt", l), If("l", 8, 4)>>,
         <<Calc("i2", "inc", <<"i">>), Goto(2)>>,
         <<Ret("0")>>,
         <<Error, Stop>>>>)>>

SupportedModules ==
    {While(a, x, y) : a \in {"0", "n"}, x, y \in {"i", "n", "1"}}
      \cup {<<Break(x, y, extra), Callee>> :
              x \in {"0", "i", "n"}, y \in {"k", "i", "2"},
              extra \in {<<>>, <<Assume("k")>>, <<Call("w", 2, <<"k">>), Assume("w")>>}}
      \cup {<<Break("i", "k", <<Call(NoName, 2, <<"i">>)>>), Nop>>}
      \cup {Nested(a, b, u, x) : a \in {"0", "i", "h"}, b \in {"n", "i", "h"}, u \in {"i", "j", "h"},
                                 x \in {"i", "n"}}
      \cup {Cases(x) : x \in {"i", "p", "k", "g"}}
      \cup {BreakBoth(<<"0", "k">>)}     \* no input makes the break impossible
      \cup {Straight(x, y) : x, y \in {"a", "b", "n"}}

-----------------------------------------------------------------------------
(* What the translation does not get right *)

MultiLevel == {BreakBoth(<<"n", "k">>)}

=============================================================================
