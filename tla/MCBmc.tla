------------------------------- MODULE MCBmc -------------------------------
(***************************************************************************)
(* Small automata systems for the bounded model checker.  The main         *)
(* automata are skeletons (a call that can be bypassed, calls on both      *)
(* branches, calls in sequence) whose guards range over sets of inputs;    *)
(* procedure f is a loop turned into a tail-recursive procedure, as the    *)
(* translation from LLVM makes it, and g calls f or branches.              *)
(***************************************************************************)
EXTENDS Bmc

Go(s, d, g) == [src |-> s, dst |-> d, guard |-> g, callee |-> NoProc, arg |-> Identity]
Call(s, d, g, p, a) == [src |-> s, dst |-> d, guard |-> g, callee |-> p, arg |-> a]

Cfa(n, err, es) == [n |-> n, err |-> err, edges |-> es]

Positive == {w \in World : w > 0}
Zero == World \ Positive
Decrement == [w \in World |-> IF w > 0 THEN w - 1 ELSE 0]

\* Location 3 calls f and returns to 2, which can also be reached without it.
Bypass(A, B) ==
    Cfa(5, {4}, <<Go(0, 2, A), Go(0, 3, World \ A), Call(3, 2, World, "f", Identity),
                  Go(2, 4, B), Go(2, 1, World \ B), Go(4, 1, {})>>)

\* Calls on two branches, and an error path beside both.
Branches(A, B, D) ==
    Cfa(6, {5}, <<Go(0, 5, D), Go(0, 2, A \ D), Go(0, 3, World \ (A \cup D)),
                  Call(2, 4, World, "f", Decrement), Call(3, 4, World, "g", Identity),
                  Go(4, 5, B), Go(4, 1, World \ B), Go(5, 1, {})>>)

\* Two calls in sequence with an error between them and one behind them.
Sequence(B, D) ==
    Cfa(6, {4, 5}, <<Call(0, 2, World, "f", Identity), Go(2, 5, D),
                     Call(2, 3, World \ D, "g", Decrement),
                     Go(3, 4, B), Go(3, 1, World \ B), Go(4, 1, {}), Go(5, 1, {})>>)

\* The loop `while (x > 0) --x;' which goes on after the loop only if x is in G.
Loop(G) ==
    Cfa(3, {}, <<Call(0, 2, Positive, "f", Decrement), Go(0, 1, Zero \cap G), Go(2, 1, G)>>)

\* Two parallel transitions, or a call of the loop.
Parallel(G) == Cfa(3, {}, <<Go(0, 2, G), Go(0, 2, World \ G), Go(2, 1, World)>>)
CallsLoop(G) == Cfa(3, {}, <<Call(0, 2, World, "f", Identity), Go(2, 1, G)>>)

System(main, f, g) ==
    [p \in Procs |-> IF p = Main THEN main ELSE IF p = "f" THEN f ELSE g]

Leaf == Parallel({})

\* f calls g and g calls f: mutual recursion.
Ping == Cfa(3, {}, <<Call(0, 2, Positive, "g", Identity), Go(0, 1, Zero), Go(2, 1, World)>>)
Pong == Cfa(3, {}, <<Call(0, 2, World, "f", Decrement), Go(2, 1, World)>>)

\* Fails on the inputs in G.
Failing(G) == Cfa(3, {2}, <<Go(0, 2, G), Go(0, 1, World \ G), Go(2, 1, {})>>)

\* Errors in the main automaton only: what the default pipeline produces.
LiftedPrograms ==
    {System(Bypass(A, B), Loop(G), Leaf) :
              A \in {{}, {1}, Zero, World}, B \in SUBSET World, G \in {World, Positive, {}}}
      \cup {System(Bypass(Zero, B), Ping, Pong) : B \in SUBSET World}
      \cup {System(Branches(A, B, D), Loop(World), h) :
              A \in {Zero, {}}, B, D \in {{}, {1}, World}, h \in {Leaf, CallsLoop(Positive)}}
      \cup {System(Sequence(B, D), Loop(World), h) :
              B, D \in {{}, {1}, Zero}, h \in {Leaf, CallsLoop(World)}}
      \cup {System(Bypass(A, B), Leaf, Leaf) : A, B \in {{}, {1}, World}}
      \cup {System(Failing(B), Leaf, Leaf) : B \in {{}, {1}}}
      \cup {System(Cfa(2, {}, <<Go(0, 1, World)>>), Leaf, Leaf)}

\* A smaller family, for a solver that may answer UNKNOWN.
FewPrograms ==
    {System(Bypass(A, B), Loop(World), Leaf) : A, B \in {{}, {1}, Positive, World}}
      \cup {System(Sequence(B, {1}), Loop(World), CallsLoop(World)) : B \in {{}, Zero}}
      \cup {System(Failing(B), Leaf, Leaf) : B \in {{}, Zero}}

-----------------------------------------------------------------------------
(* Errors in callees: the pipeline with -no-assert-lift *)

JustCall == Cfa(3, {}, <<Call(0, 2, World, "g", Identity), Go(2, 1, World)>>)

CallThenCheck(B) ==
    Cfa(4, {3}, <<Call(0, 2, World, "g", Decrement), Go(2, 3, B), Go(2, 1, World \ B),
                  Go(3, 1, {})>>)

\* No error location in the main automaton.
OnlyCalleeFails == {System(JustCall, Leaf, Failing(G)) : G \in SUBSET World}

\* Error locations in the main automaton and in the callee.
CalleeMayFail == {System(CallThenCheck(B), Leaf, Failing(G)) : B, G \in SUBSET World}

HardPrograms == FewPrograms \cup OnlyCalleeFails \cup CalleeMayFail

=============================================================================
