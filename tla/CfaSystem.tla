----------------------------- MODULE CfaSystem -----------------------------
(***************************************************************************)
(* Control flow automata (include/gazer/Automaton/Cfa.h) and what an       *)
(* automata system means.                                                  *)
(*                                                                         *)
(* An automaton is a record [n, err, edges]: its locations are 0..n-1, of  *)
(* which 0 is the entry and 1 the exit (the constructor creates them in    *)
(* that order), err is the set of its error locations and edges the        *)
(* sequence of its transitions in creation order.  A transition is a       *)
(* record [src, dst, guard, callee, arg].                                  *)
(*                                                                         *)
(* Data: every automaton has one input, a member of World.  Automata are   *)
(* in SSA form, so one valuation of the variables decides every guard of a *)
(* run through an automaton: a guard is the set of inputs that satisfy it, *)
(* and the argument of a call is a function from the caller's input to the *)
(* callee's.  The outputs of a call are left out: the caller only sees     *)
(* whether the callee returns.                                             *)
(***************************************************************************)
EXTENDS Naturals, Sequences, FiniteSets, Paths

CONSTANTS World,    \* values of an automaton's input
          Procs,    \* the automata of a system
          Main,     \* the main automaton
          NoProc    \* the callee of an assign transition

ASSUME WorldAssumption == IsFiniteSet(World) /\ World # {}
ASSUME ProcsAssumption == IsFiniteSet(Procs) /\ Main \in Procs /\ NoProc \notin Procs

Entry == 0
Exit == 1

LocsOf(cfa) == 0 .. cfa.n - 1
EdgesOf(cfa) == {cfa.edges[k] : k \in DOMAIN cfa.edges}
IsCall(e) == e.callee # NoProc

Transition == [src : Nat, dst : Nat, guard : SUBSET World,
               callee : Procs \cup {NoProc}, arg : [World -> World]]

(***************************************************************************)
(* A transition of the main automaton while the model checker works on it  *)
(* also has an identity: the pointer to it in the C++ code.  Identities    *)
(* grow in creation order, the order of the incoming and outgoing lists.   *)
(***************************************************************************)
Edge == [id : Nat, src : Nat, dst : Nat, guard : SUBSET World,
         callee : Procs \cup {NoProc}, arg : [World -> World]]

Identity == [w \in World |-> w]

AssignEdge(id, src, dst, guard) ==
    [id |-> id, src |-> src, dst |-> dst, guard |-> guard,
     callee |-> NoProc, arg |-> Identity]

-----------------------------------------------------------------------------
(* Graphs *)

\* All orders of the locations L in which every transition of es goes forward.
TopologicalOrders(L, es) ==
    LET Placed(q) == {q[i] : i \in DOMAIN q}
        Ready(q) == {l \in L \ Placed(q) : \A e \in es : e.dst = l => e.src \in Placed(q)}
        Prefixes[k \in 0 .. Cardinality(L)] ==
          IF k = 0 THEN {<<>>}
          ELSE UNION {{Append(q, l) : l \in Ready(q)} : q \in Prefixes[k - 1]}
    IN  Prefixes[Cardinality(L)]

\* What makes q such an order.
IsTopologicalOrder(q, L, es) ==
    /\ q \in Seq(L)
    /\ \A l \in L : \E i \in DOMAIN q : q[i] = l
    /\ \A i, j \in DOMAIN q : q[i] = q[j] => i = j
    /\ \A e \in es : \A i, j \in DOMAIN q : q[i] = e.src /\ q[j] = e.dst => i < j

(***************************************************************************)
(* What the translation from LLVM guarantees of an automaton: a DAG whose  *)
(* entry has no predecessor and reaches every location, with every         *)
(* location reaching the exit (if need be over a transition that is never  *)
(* taken), and error locations other than the entry and the exit.          *)
(***************************************************************************)
IsCfa(cfa) ==
    LET es == EdgesOf(cfa)
    IN  /\ cfa.n \in Nat /\ cfa.n >= 2
        /\ cfa.edges \in Seq(Transition)
        /\ cfa.err \subseteq LocsOf(cfa) \ {Entry, Exit}
        /\ \A e \in EdgesOf(cfa) : /\ e.src \in LocsOf(cfa) \ {Exit}
                                   /\ e.dst \in LocsOf(cfa) \ {Entry}
        /\ TopologicalOrders(LocsOf(cfa), es) # {}
        /\ ReachWithin({Entry}, es, cfa.n) = LocsOf(cfa)
        /\ ReachWithin({Exit}, Backwards(es), cfa.n) = LocsOf(cfa)

(***************************************************************************)
(* A call instruction of a function is followed by the rest of its block,  *)
(* so no call of the main automaton ends in its exit.  Main is not called: *)
(* inlining the automaton that is being edited into itself has no meaning. *)
(***************************************************************************)
IsSystem(sys) ==
    /\ sys \in [Procs -> {sys[p] : p \in Procs}]
    /\ \A p \in Procs : IsCfa(sys[p])
    /\ \A e \in EdgesOf(sys[Main]) : IsCall(e) => e.dst # Exit
    /\ \A p \in Procs : \A e \in EdgesOf(sys[p]) : e.callee # Main

-----------------------------------------------------------------------------
(***************************************************************************)
(* The meaning of a system: which inputs lead a procedure to its exit, and *)
(* which lead it, or a procedure it calls, to an error location.  Both are *)
(* sets of pairs <<procedure, input>>.                                     *)
(***************************************************************************)

\* The locations procedure p visits on input w when the calls in ret return.
Visits(sys, p, w, ret) ==
    ReachWithin({Entry},
        {e \in EdgesOf(sys[p]) : w \in e.guard /\ (IsCall(e) => <<e.callee, e.arg[w]>> \in ret)},
        sys[p].n)

\* A procedure fails in itself, or in a call that fails.
FailsIn(sys, p, w, ret, fail) ==
    LET seen == Visits(sys, p, w, ret)
    IN  \/ seen \cap sys[p].err # {}
        \/ \E e \in EdgesOf(sys[p]) :
              IsCall(e) /\ e.src \in seen /\ w \in e.guard /\ <<e.callee, e.arg[w]>> \in fail

Activations == Procs \X World

\* The calls that return, with any depth of recursion.
Returns(sys) ==
    LET R[i \in 0 .. Cardinality(Activations)] ==
          IF i = 0 THEN {}
          ELSE LET r == R[i - 1]
               IN  {a \in Activations : Exit \in Visits(sys, a[1], a[2], r)}
    IN  R[Cardinality(Activations)]

\* The calls that fail, with any depth of recursion.
Fails(sys) ==
    LET ret == Returns(sys)
        F[i \in 0 .. Cardinality(Activations)] ==
          IF i = 0 THEN {}
          ELSE LET f == F[i - 1]
               IN  {a \in Activations : FailsIn(sys, a[1], a[2], ret, f)}
    IN  F[Cardinality(Activations)]

ErrorInputs(sys) == {w \in World : <<Main, w>> \in Fails(sys)}

(***************************************************************************)
(* The same where no chain of nested calls enters a procedure more than    *)
(* `bound' times: an activation also has cnt, which counts for each        *)
(* procedure how often the chain has entered it.                           *)
(***************************************************************************)
DeepActivations(bound) == [Procs \ {Main} -> 0 .. bound] \X Activations
MaxDepth(bound) == bound * Cardinality(Procs) + 1

\* The activations in X that a chain with these counts may enter.
Below(X, cnt, bound) ==
    {a \in Activations :
       a[1] # Main /\ cnt[a[1]] < bound /\ <<[cnt EXCEPT ![a[1]] = @ + 1], a>> \in X}

BoundedReturns(sys, bound) ==
    LET R[i \in 0 .. MaxDepth(bound)] ==
          IF i = 0 THEN {}
          ELSE LET r == R[i - 1]
               IN  {d \in DeepActivations(bound) :
                      Exit \in Visits(sys, d[2][1], d[2][2], Below(r, d[1], bound))}
    IN  R[MaxDepth(bound)]

BoundedFails(sys, bound) ==
    LET ret == BoundedReturns(sys, bound)
        F[i \in 0 .. MaxDepth(bound)] ==
          IF i = 0 THEN {}
          ELSE LET f == F[i - 1]
               IN  {d \in DeepActivations(bound) :
                      FailsIn(sys, d[2][1], d[2][2], Below(ret, d[1], bound), Below(f, d[1], bound))}
    IN  F[MaxDepth(bound)]

BoundedErrorInputs(sys, bound) ==
    {w \in World : <<[p \in Procs \ {Main} |-> 0], <<Main, w>>>> \in BoundedFails(sys, bound)}

=============================================================================
