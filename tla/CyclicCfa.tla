----------------------------- MODULE CyclicCfa -----------------------------
(***************************************************************************)
(* From tail-recursive automata to one cyclic automaton, the form the      *)
(* theta model checker reads (src/Automaton/RecursiveToCyclicCfa.cpp).     *)
(*                                                                         *)
(* Here automata have variables.  An automaton is a record                 *)
(*   [name, inputs, outputs, locals, n, err, edges]                        *)
(* with locations 0..n-1 (0 the entry, 1 the exit), err from its error     *)
(* locations to their error field expressions, and transitions             *)
(*   [src, dst, guard, assigns, callee, outs]                              *)
(* in creation order; assigns is a sequence of [var, val], for a call its  *)
(* input assignments, and outs are the caller's variables with the         *)
(* callee's outputs.  A variable is [n, k, t]: its name, the number of the *)
(* inlining that made it (0 for none), and whether it is a temporary.  An  *)
(* expression is [k, x, c]: kind, variable and constant.                   *)
(***************************************************************************)
EXTENDS Integers, Sequences, FiniteSets, SequencesExt

CONSTANTS Values,   \* 0 .. some bound, the values of variables
          NoProc    \* the callee of an assign transition

ASSUME ValuesAssumption == IsFiniteSet(Values) /\ Values = 0 .. Cardinality(Values) - 1

Entry == 0
Exit == 1
V(n) == [n |-> n, k |-> 0, t |-> FALSE]
NoVar == V(<<>>)
ErrorField == V(<<"__gazer_error_field">>)

Lit(c) == [k |-> "lit", x |-> NoVar, c |-> c]
Ref(x) == [k |-> "var", x |-> x, c |-> 0]
Plus(x, c) == [k |-> "add", x |-> x, c |-> c]
Undef == [k |-> "undef", x |-> NoVar, c |-> 0]
Is(x, c) == [k |-> "eq", x |-> x, c |-> c]
IsNot(x, c) == [k |-> "neq", x |-> x, c |-> c]
True == [k |-> "true", x |-> NoVar, c |-> 0]
False == [k |-> "false", x |-> NoVar, c |-> 0]

IsCall(e) == e.callee # NoProc
Assign(x, e) == [var |-> x, val |-> e]
AssignEdge(s, d, g, as) ==
  [src |-> s, dst |-> d, guard |-> g, assigns |-> as, callee |-> NoProc, outs |-> <<>>]
CallEdge(s, d, g, p, as, os) ==
  [src |-> s, dst |-> d, guard |-> g, assigns |-> as, callee |-> p, outs |-> os]
Members(q) == {q[i] : i \in DOMAIN q}
VarsOf(cfa) == Members(cfa.inputs) \cup Members(cfa.outputs) \cup Members(cfa.locals)

-----------------------------------------------------------------------------
(* CallGraph::isTailRecursive *)
IsTailRecursive(sys, p) ==
  LET own == {e \in Members(sys[p].edges) : e.callee = p}
  IN  own # {} /\ \A e \in own : e.dst = Exit

(* addUniqueErrorLocation(): one error location behind all of them, which  *)
(* is entered with the error field assigned.                               *)
AddUniqueErrorLocation(root) ==
  LET error == root.n
      errors == SetToSortSeq(DOMAIN root.err, <)
      new == IF errors = <<>>
             THEN <<AssignEdge(Entry, error, False, <<Assign(ErrorField, Lit(0))>>)>>
             ELSE [i \in DOMAIN errors |->
                     AssignEdge(errors[i], error, True,
                                <<Assign(ErrorField, root.err[errors[i]])>>)]
  IN  [root EXCEPT !.n = @ + 1, !.edges = @ \o new,
                   !.locals = Append(@, ErrorField)]

(* The k-th copy of a variable of an inlined automaton, and the temporary  *)
(* that goes with the copy of an input.                                    *)
Copy(v, k) == [v EXCEPT !.k = k]
Temporary(v, k) == [v EXCEPT !.k = k, !.t = TRUE]

(* oldVarToNew: an output becomes the variable the call assigns it to. *)
NewVar(callee, call, k, v) ==
  IF v \in Members(callee.outputs)
  THEN (CHOOSE o \in Members(call.outs) : o.val = Ref(v)).var
  ELSE Copy(v, k)
RenamedExpr(callee, call, k, e) ==
  IF e.x = NoVar THEN e ELSE [e EXCEPT !.x = NewVar(callee, call, k, e.x)]

(* Mutant: no temporaries. *)
BackEdgeInPlace(callee, call, k, base, e) ==
  LET Arg(v) == (CHOOSE a \in Members(e.assigns) : a.var = v).val
      ins == callee.inputs
  IN  AssignEdge(base + e.src, base + Entry, e.guard,
        [i \in DOMAIN ins |->
           Assign(Copy(ins[i], k), RenamedExpr(callee, call, k, Arg(ins[i])))])

(* A call of the automaton to itself becomes a transition to its entry.    *)
(* Theta executes the assignments of a transition one after the other, so  *)
(* all new inputs are computed into temporaries first.                     *)
BackEdge(callee, call, k, base, e) ==
  LET Arg(v) == (CHOOSE a \in Members(e.assigns) : a.var = v).val
      ins == callee.inputs
  IN  AssignEdge(base + e.src, base + Entry, e.guard,
        [i \in DOMAIN ins |->
           Assign(Temporary(ins[i], k), RenamedExpr(callee, call, k, Arg(ins[i])))]
        \o [i \in DOMAIN ins |-> Assign(Copy(ins[i], k), Ref(Temporary(ins[i], k)))])

(* A transition of the callee in its k-th copy. *)
CloneEdge(callee, call, k, base, e) ==
  LET New(v) == NewVar(callee, call, k, v)
      E(x) == RenamedExpr(callee, call, k, x)
  IN  IF ~IsCall(e)
      THEN AssignEdge(base + e.src, base + e.dst, E(e.guard),
             [i \in DOMAIN e.assigns |-> Assign(New(e.assigns[i].var), E(e.assigns[i].val))])
      ELSE IF e.callee = callee.name THEN BackEdge(callee, call, k, base, e)
      ELSE CallEdge(base + e.src, base + e.dst, E(e.guard), e.callee,
             [i \in DOMAIN e.assigns |-> Assign(e.assigns[i].var, E(e.assigns[i].val))],
             [i \in DOMAIN e.outs |-> Assign(New(e.outs[i].var), e.outs[i].val)])

(* inlineCallIntoRoot(): the root without the call, with a copy of the     *)
(* callee; the copy of location l is base + l.                             *)
InlineCallIntoRoot(root, callee, call, error, k) ==
  LET base == root.n
      inner == SelectSeq(callee.locals, LAMBDA v : v \notin Members(callee.outputs))
      ins == SelectSeq(callee.inputs, LAMBDA v : v \notin Members(callee.outputs))
      Arg(v) == (CHOOSE a \in Members(call.assigns) : a.var = v).val
      errors == SetToSortSeq(DOMAIN callee.err, <)
  IN  [root EXCEPT
        !.n = @ + callee.n,
        !.locals = @ \o [i \in DOMAIN inner |-> Copy(inner[i], k)]
                     \o [i \in DOMAIN ins |-> Copy(ins[i], k)]
                     \o [i \in DOMAIN ins |-> Temporary(ins[i], k)],
        !.edges = SelectSeq(@, LAMBDA e : e # call)
          \o [i \in DOMAIN errors |->
                AssignEdge(base + errors[i], error, True,
                           <<Assign(ErrorField, callee.err[errors[i]])>>)]
          \o [i \in DOMAIN callee.edges |-> CloneEdge(callee, call, k, base, callee.edges[i])]
          \o << AssignEdge(call.src, base + Entry, call.guard,
                  [i \in DOMAIN callee.inputs |->
                     Assign(Copy(callee.inputs[i], k), Arg(callee.inputs[i]))]),
                AssignEdge(base + Exit, call.dst, True, <<>>) >>]

(* mTailRecursiveCalls after a call was inlined: the calls it brought. *)
NewCalls(sys, root, callee, call, k) ==
  SelectSeq([i \in DOMAIN callee.edges |->
               CloneEdge(callee, call, k, root.n, callee.edges[i])],
            LAMBDA e : IsCall(e) /\ IsTailRecursive(sys, e.callee))

-----------------------------------------------------------------------------
(* What automata mean.  A variable that was never assigned has the value   *)
(* `junk', for which every value of a small set is tried.                  *)

Eval(e, env) ==
  CASE e.k = "lit" -> e.c
    [] e.k = "var" -> env[e.x]
    [] e.k = "add" -> (env[e.x] + e.c) % Cardinality(Values)
    [] OTHER -> 0
Holds(g, env) ==
  CASE g.k = "true" -> TRUE
    [] g.k = "eq" -> env[g.x] = g.c
    [] g.k = "neq" -> env[g.x] # g.c
    [] OTHER -> FALSE

(* The environments after a sequence of assignments; undef is any value. *)
Outcomes(e, env) == IF e.k = "undef" THEN Values ELSE {Eval(e, env)}
After(as, env) ==
  FoldLeft(LAMBDA envs, a :
             UNION {{[v EXCEPT ![a.var] = c] : c \in Outcomes(a.val, v)} : v \in envs},
           {env}, as)

(* One step of a recursive system from <<location, environment>> in the    *)
(* automaton p, when `done' has the known [p, ins, res] of the calls; the  *)
(* arguments of a call are evaluated together.                             *)
CallResults(e, env, done) ==
  {r.res : r \in {d \in done : d.p = e.callee
                                /\ \A a \in Members(e.assigns) : d.ins[a.var] = Eval(a.val, env)}}
StepsOf(cfa, s, done) ==
  UNION {IF ~IsCall(e) THEN {<<e.dst, env>> : env \in After(e.assigns, s[2])}
         ELSE {<<e.dst, [v \in DOMAIN s[2] |->
                  IF \E o \in Members(e.outs) : o.var = v
                  THEN r.env[(CHOOSE o \in Members(e.outs) : o.var = v).val.x]
                  ELSE s[2][v]]>> : r \in {q \in CallResults(e, s[2], done) : q.k = "exit"}}
         : e \in {f \in Members(cfa.edges) : f.src = s[1] /\ Holds(f.guard, s[2])}}

(* What can come of running p on ins: it returns, or an error is reached   *)
(* in it or in a call it makes.                                            *)
ResultsOf(sys, p, ins, junk, done) ==
  LET cfa == sys[p]
      start == <<Entry, [v \in VarsOf(cfa) |-> IF v \in DOMAIN ins THEN ins[v] ELSE junk]>>
      reach[i \in 0 .. cfa.n] ==
        IF i = 0 THEN {start}
        ELSE LET r == reach[i - 1] IN r \cup UNION {StepsOf(cfa, s, done) : s \in r}
      seen == reach[cfa.n]
  IN  {[k |-> "exit", env |-> [v \in Members(cfa.outputs) |-> s[2][v]]] :
         s \in {t \in seen : t[1] = Exit}}
      \cup {[k |-> "error", code |-> Eval(cfa.err[s[1]], s[2])] :
              s \in {t \in seen : t[1] \in DOMAIN cfa.err}}
      \cup UNION {{r \in CallResults(e, s[2], done) : r.k = "error"} :
                    <<e, s>> \in {x \in Members(cfa.edges) \X seen :
                                    IsCall(x[1]) /\ x[1].src = x[2][1]
                                      /\ Holds(x[1].guard, x[2][2])}}

(* The error codes a system can fail with, by iteration over what its      *)
(* calls can do; `depth' nested calls are enough for the instances used.   *)
ErrorCodes(sys, main, junk, depth) ==
  LET calls == UNION {{[p |-> p, ins |-> i] : i \in [Members(sys[p].inputs) -> Values]} :
                        p \in DOMAIN sys}
      done[i \in 0 .. depth] ==
        IF i = 0 THEN {}
        ELSE LET d == done[i - 1] IN
             UNION {{[p |-> c.p, ins |-> c.ins, res |-> r] :
                       r \in ResultsOf(sys, c.p, c.ins, junk, d)} : c \in calls}
  IN  {r.res.code : r \in {d \in done[depth] : d.p = main /\ d.res.k = "error"}}

(* What the translation from LLVM guarantees: no input is an output, a     *)
(* loop calls itself unconditionally and hands its outputs through.        *)
IsLoopSystem(sys) ==
  \A p \in DOMAIN sys :
    /\ Members(sys[p].inputs) \cap Members(sys[p].outputs) = {}
    /\ \A e \in Members(sys[p].edges) :
         e.callee = p => /\ e.guard = True
                         /\ \A o \in Members(e.outs) : o.val = Ref(o.var)

===========================================================================
