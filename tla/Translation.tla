---------------------------- MODULE Translation ----------------------------
(***************************************************************************)
(* What an LLVM module means, what its automata mean, and that the         *)
(* translation keeps the meaning: the first with an interpreter of         *)
(* control flow graphs, the second the way the back ends read automata.    *)
(* Values are 0, 1 and 2; 0 is false and the others are true.              *)
(***************************************************************************)
EXTENDS ModuleToCfa

Value == 0 .. 2
LitValue == [x \in Literals |-> CASE x = "0" -> 0 [] x = "1" -> 1 [] x = "2" -> 2]
Truth(b) == IF b THEN 1 ELSE 0

\* The operations of instructions and expressions.
Compute(op, a) ==
    CASE op = "inc" -> (a[1] + 1) % 3
      [] op = "lt" -> Truth(a[1] < a[2])
      [] op = "eq" -> Truth(a[1] = a[2])
      [] op = "not" -> Truth(a[1] = 0)
      [] op = "and" -> Truth(a[1] # 0 /\ a[2] # 0)
      [] op = "true" -> 1
      [] op = "false" -> 0

-----------------------------------------------------------------------------
(***************************************************************************)
(* Automata.  The back ends conjoin the guards and assignments of a path:  *)
(* an assignment is an equation, and a variable without one may have any   *)
(* value.  A configuration is a location with the values of the variables  *)
(* that the path has mentioned.                                            *)
(***************************************************************************)
RECURSIVE Eval(_, _)
Eval(e, env) ==
    CASE e.op = "ref" -> env[e.var]
      [] e.op = "lit" -> LitValue[e.lit]
      [] e.op = "int" -> e.int
      [] OTHER -> Compute(e.op, [i \in DOMAIN e.args |-> Eval(e.args[i], env)])

\* The extensions of env with values for the variables V.
Extensions(env, V) ==
    {[v \in DOMAIN env \cup V |-> IF v \in DOMAIN env THEN env[v] ELSE new[v]] :
       new \in [V \ DOMAIN env -> Value]}

Satisfies(env, a) == a.val.op = "undef" \/ env[a.var] = Eval(a.val, env)

\* The environments after the transition e is read.
Through(env, e) ==
    {x \in Extensions(env, Reads(e) \cup {a.var : a \in e.assigns}) :
       Eval(e.guard, x) # 0 /\ \A a \in e.assigns : Satisfies(x, a)}

(***************************************************************************)
(* An activation is a procedure with the values of its inputs.  A table    *)
(* has an entry for each activation met so far: whether it reaches an      *)
(* error location, the values of its outputs at the exit, and the          *)
(* activations it calls.                                                   *)
(***************************************************************************)
NoOutcome == [error |-> FALSE, exits |-> {}, calls |-> {}]

\* The entry of activation act, with the table for the calls it makes.
Outcome(act, table) ==
    LET p == act[1]
        Callee(x, e) == <<e.callee, [v \in InputVars(e.callee) |->
                                       Eval((CHOOSE a \in e.ins : a.var = v).val, x)]>>
        Result(c) == IF c \in DOMAIN table THEN table[c] ELSE NoOutcome
        After(x, e) ==     \* the caller's environments after a call
          UNION {{y \in Extensions(x, Written(e)) :
                    \A a \in e.outs : a.val.var \in DOMAIN o => y[a.var] = o[a.val.var]} :
                 o \in Result(Callee(x, e)).exits}
        From(l) == {e \in cfa[p].edges : e.src = l}
        Step(c) ==
          UNION {{<<e.dst, y>> : y \in IF e.callee = NoProc THEN Through(c[2], e)
                                       ELSE UNION {After(x, e) : x \in Through(c[2], e)}} :
                 e \in From(c[1])}
        RECURSIVE Closure(_)
        Closure(S) ==
          LET T == S \cup UNION {Step(c) : c \in S} IN IF T = S THEN S ELSE Closure(T)
        seen == Closure({<<Entry, act[2]>>})
        calls == UNION {UNION {{Callee(x, e) : x \in Through(c[2], e)} :
                                e \in {e \in From(c[1]) : e.callee # NoProc}} : c \in seen}
    IN  [error |-> \/ \E c \in seen : c[1] \in cfa[p].err
                   \/ \E c \in calls : Result(c).error,
         exits |-> {[v \in OutputVars(p) \cap DOMAIN c[2] |-> c[2][v]] :
                      c \in {c \in seen : c[1] = Exit}},
         calls |-> calls]

RECURSIVE Solve(_)
Solve(table) ==
    LET acts == DOMAIN table \cup UNION {table[a].calls : a \in DOMAIN table}
        next == [a \in acts |-> Outcome(a, table)]
    IN  IF next = table THEN table ELSE Solve(next)

-----------------------------------------------------------------------------
(* Control flow graphs *)

Get(env, x) == IF x \in Literals THEN LitValue[x] ELSE env[x]

\* The successors of block b that its terminator takes.
Taken(G, b, env) ==
    LET t == Terminator(G, b)
        v == Get(env, t.ops[1])
    IN  IF t.kind = "switch"
        THEN LET hits == {i \in DOMAIN t.cases : LitValue[t.cases[i]] = v}
             IN  {t.succs[IF hits = {} THEN Len(t.succs)
                          ELSE CHOOSE i \in hits : \A j \in hits : i <= j]}
        ELSE IF t.kind # "br" THEN {}
        ELSE IF Len(t.succs) = 1 THEN {t.succs[1]}
        ELSE {IF v # 0 THEN t.succs[1] ELSE t.succs[2]}

\* What a call of function f with the arguments env gives.  A configuration
\* is a block, an instruction in it and the values computed so far.
RECURSIVE Behaviour(_, _)
Behaviour(f, args) ==
    LET G == mod[f]
        Set(env, x, v) == Extended(env, x, v)
        Enter(b, t, env) ==     \* from block b to block t
          LET phis == Phis(G, t)
          IN  <<t, Cardinality(phis) + 1,
                [x \in DOMAIN env \cup PhiDefs(G, t) |->
                   IF x \in PhiDefs(G, t)
                   THEN Get(env, IncomingValue(CHOOSE phi \in phis : phi.def = x, b))
                   ELSE env[x]]>>
        Called(inst, env) ==
          Behaviour(inst.callee, [x \in Args(mod[inst.callee]) |->
             LET k == CHOOSE k \in DOMAIN inst.ops : mod[inst.callee].args[k] = x
             IN  Get(env, inst.ops[k])])
        Step(c) ==
          LET inst == G.blocks[c[1]][c[2]]
              env == c[3]
              On(envs) == {<<c[1], c[2] + 1, x>> : x \in envs}
          IN  CASE inst.kind = "calc" ->
                     On({Set(env, inst.def, Compute(inst.op, [k \in DOMAIN inst.ops |-> Get(env, inst.ops[k])]))})
                [] inst.kind = "nondet" -> On({Set(env, inst.def, v) : v \in Value})
                [] inst.kind = "assume" -> On({x \in {env} : Get(env, inst.ops[1]) # 0})
                [] inst.kind = "call" ->
                     On({IF inst.def = NoName THEN env ELSE Set(env, inst.def, v) :
                           v \in Called(inst, env).returns})
                [] inst.kind = "error" -> On({env})
                [] inst.kind \in Terminators -> {Enter(c[1], t, env) : t \in Taken(G, c[1], env)}
        RECURSIVE Closure(_)
        Closure(S) ==
          LET T == S \cup UNION {Step(c) : c \in S} IN IF T = S THEN S ELSE Closure(T)
        seen == Closure({Enter(0, 1, args)})
        At(kind) == {c \in seen : G.blocks[c[1]][c[2]].kind = kind}
    IN  [error |-> \/ At("error") # {}
                   \/ \E c \in At("call") : Called(G.blocks[c[1]][c[2]], c[3]).error,
         returns |-> {IF G.void THEN 0 ELSE Get(c[3], G.blocks[c[1]][c[2]].ops[1]) : c \in At("ret")}]

-----------------------------------------------------------------------------
(* Properties *)

\* The automata of each function reach an error for the arguments for which
\* the function does, and return what it returns: no path is lost and none is
\* added by splitting loops off, by their inputs, outputs and exit selectors,
\* or by the elimination of variables.
TranslationIsExact ==
    pc = "done" =>
      LET calls == UNION {{<<f, args>> : args \in [Args(mod[f]) -> Value]} : f \in DOMAIN mod}
          Act(c) == <<<<c[1], 0>>, [v \in InputVars(<<c[1], 0>>) |-> c[2][v.name]]>>
          table == Solve([a \in {Act(c) : c \in calls} |-> NoOutcome])
      IN  \A c \in calls :
            LET o == table[Act(c)]
                b == Behaviour(c[1], c[2])
            IN  /\ o.error = b.error
                /\ {IF RetVal \in DOMAIN x THEN x[RetVal] ELSE 0 : x \in o.exits} = b.returns

=============================================================================
