--------------------------- MODULE ThetaVerifier ---------------------------
(***************************************************************************)
(* gazer-theta: the main automaton is made cyclic, written to a file with  *)
(* valid and unique names, theta runs on it as a process that may fail in  *)
(* many ways, and its answer and counterexample are read back and turned   *)
(* into a trace (tools/gazer-theta/lib, src/Support/SExpr.cpp,             *)
(* src/LLVM/LLVMTraceBuilder.cpp).                                         *)
(***************************************************************************)
EXTENDS CyclicCfa, Integers, TLC

CONSTANTS
  Programs,    \* the systems to verify: [cfas, main, blocks] by name
  Faults,      \* what can go wrong around the process, see Execute
  MaxInlines,  \* bound on the calls inlined
  MaxTrace,    \* bound on the length of theta's counterexamples
  Depth        \* nested calls that exhaust the programs, see ErrorCodes

ASSUME ProgramsAssumption == \A p \in DOMAIN Programs : IsLoopSystem(Programs[p].cfas)
ASSUME BoundAssumption == MaxInlines \in 0 .. 9 /\ MaxTrace \in Nat /\ Depth \in Nat

VARIABLES
  pc,        \* the step of ThetaVerifier::check that comes next
  prog,      \* the name of the program
  root,      \* mRoot: the main automaton
  error,     \* mError
  calls,     \* mTailRecursiveCalls, the last one is taken first
  inlineCnt, \* mInlineCnt
  locOrigin, \* mInlinedLocations: [p, l] for a copied location
  varOrigin, \* mInlinedVariables
  names,     \* mNameMapping.variables, by variable
  model,     \* the file written: locations, declared names, edges
  cexPath,   \* what theta found: a sequence of [loc, env], or <<>>
  cexText,   \* the counterexample file: its tree, and if all its lists are closed
  states,    \* what parseCex() collected
  actions,
  verdict,   \* the VerificationResult
  events,    \* the Trace of a FailResult
  fault      \* what went wrong around the process

transformVars == <<root, error, calls, inlineCnt, locOrigin, varOrigin>>
thetaVars == <<cexPath, cexText>>
traceVars == <<states, actions, events>>
vars == <<pc, prog, transformVars, names, model, thetaVars, traceVars, verdict, fault>>

(* A fold over q that computes what it has so far only once per element. *)
Fold(Op(_, _), base, q) ==
  FoldLeft(LAMBDA acc, x : CHOOSE r \in {Op(a, x) : a \in {acc}} : TRUE, base, q)

sys == Programs[prog].cfas
main == Programs[prog].main
Running == [status |-> "Running", code |-> 0, trace |-> FALSE]
InternalError == [Running EXCEPT !.status = "InternalError"]
Timeout == [Running EXCEPT !.status = "Timeout"]
Success == [Running EXCEPT !.status = "Success"]
Fail(code, trace) == [status |-> "Fail", code |-> code, trace |-> trace]
Abort == [Running EXCEPT !.status = "Abort"]    \* an assertion fires
GeneralFailureCode == 1
NoText == [tree |-> [k |-> "list", v |-> <<>>], closed |-> FALSE]
NoModel == [locs |-> <<>>, decls |-> {}, edges |-> <<>>]

Init ==
  /\ pc = "transform" /\ prog \in DOMAIN Programs
  /\ root = AddUniqueErrorLocation(sys[main])
  /\ error = sys[main].n
  /\ calls = SelectSeq(root.edges, LAMBDA e : IsCall(e) /\ IsTailRecursive(sys, e.callee))
  /\ inlineCnt = 0
  /\ locOrigin = <<>> /\ varOrigin = <<>>
  /\ names = <<>> /\ model = NoModel
  /\ cexPath = <<>> /\ cexText = NoText
  /\ states = <<>> /\ actions = <<>> /\ events = <<>>
  /\ verdict = Running /\ fault = "none"

(* One iteration of transform(). *)
Inline ==
  /\ pc = "transform" /\ calls # <<>> /\ inlineCnt < MaxInlines
  /\ LET call == calls[Len(calls)]
         callee == sys[call.callee]
         k == inlineCnt + 1
         new == {v \in Members(callee.inputs) \cup Members(callee.locals) :
                   v \notin Members(callee.outputs)}
     IN  /\ root' = InlineCallIntoRoot(root, callee, call, error, k)
         /\ calls' = SubSeq(calls, 1, Len(calls) - 1)
                       \o NewCalls(sys, root, callee, call, k)
         /\ locOrigin' = [l \in root.n .. root.n + callee.n - 1 |->
                            [p |-> callee.name, l |-> l - root.n]] @@ locOrigin
         /\ varOrigin' = [c \in {Copy(v, k) : v \in new} |-> Copy(c, 0)]
                         @@ [v \in {o.var : o \in Members(call.outs)} |->
                              (CHOOSE o \in Members(call.outs) : o.var = v).val.x]
                         @@ varOrigin
  /\ inlineCnt' = inlineCnt + 1
  /\ UNCHANGED <<pc, prog, error, names, model, thetaVars, traceVars, verdict, fault>>

-----------------------------------------------------------------------------
(* ThetaCfaGenerator.  Names are sequences of tokens. *)

Digits == <<"0", "1", "2", "3", "4", "5", "6", "7", "8", "9">>
ThetaKeywords == {"main", "process", "var", "loc", "assume", "init", "final", "error",
  "return", "havoc", "bool", "int", "rat", "if", "then", "else", "iff", "imply", "forall",
  "exists", "or", "and", "not", "mod", "rem", "true", "false"}

(* Variable::getName: the automaton, the name given, a suffix for a copy. *)
RawName(v) ==
  <<"main", "/">> \o v.n
  \o (IF v.k = 0 THEN <<>> ELSE <<"_", "inlined", Digits[v.k]>>)
  \o (IF v.t THEN <<"_">> ELSE <<>>)
Sanitized(name) ==
  LET s == [i \in DOMAIN name |-> IF name[i] \in {"/", "."} THEN "_" ELSE name[i]]
  IN  IF Len(s) = 1 /\ s[1] \in ThetaKeywords THEN Append(s, "_gazer") ELSE s

(* validName(): numbers are appended until the name is new. *)
RECURSIVE UniqueName(_, _, _)
UniqueName(name, used, tmp) ==
  IF name \notin used THEN [name |-> name, tmp |-> tmp]
  ELSE UniqueName(Append(name, Digits[tmp + 1]), used, tmp + 1)
(* Mutant: only the invalid characters are replaced. *)
ValidNamesNotUnique(vs) ==
  [v \in Members(vs) |-> Sanitized(RawName(v))]

ValidNames(vs) ==
  Fold(LAMBDA acc, v :
             LET r == UniqueName(Sanitized(RawName(v)), {acc.map[w] : w \in DOMAIN acc.map}, acc.tmp)
             IN  [map |-> (v :> r.name) @@ acc.map, tmp |-> r.tmp],
           [map |-> <<>>, tmp |-> 0], vs).map

(* printThetaExpr(): variables by canonizeName, which falls back to the    *)
(* raw name; what theta has no syntax for becomes a marker.                *)
Unhandled == [k |-> "__UNHANDLED_EXPR__", x |-> <<>>, c |-> 0]
PrintThetaExpr(e, nm) ==
  IF e.k \in {"lit", "var", "add", "eq", "neq", "true", "false"}
  THEN [k |-> e.k, c |-> e.c, x |-> IF e.x = NoVar THEN <<>>
                                   ELSE IF e.x \in DOMAIN nm THEN nm[e.x] ELSE RawName(e.x)]
  ELSE Unhandled

(* The statements of a transition, each [s, var, e]. *)
StmtsOf(e, nm) ==
  (IF e.guard = True THEN <<>>
   ELSE <<[s |-> "assume", var |-> <<>>, e |-> PrintThetaExpr(e.guard, nm)]>>)
  \o [i \in DOMAIN e.assigns |->
        LET a == e.assigns[i] IN
        IF a.val.k = "undef" THEN [s |-> "havoc", var |-> nm[a.var], e |-> Unhandled]
        ELSE [s |-> "assign", var |-> nm[a.var], e |-> PrintThetaExpr(a.val, nm)]]

LocFlag(l) ==
  IF l = error THEN "error" ELSE IF l = Entry THEN "init" ELSE IF l = Exit THEN "final" ELSE "loc"

(* clearDisconnectedElements() *)
Connected(cfa) == UNION {{e.src, e.dst} : e \in Members(cfa.edges)}

(* writeSystem(), or llvm_unreachable for a call that is left. *)
Write ==
  /\ pc = "transform" /\ calls = <<>>
  /\ LET nm == ValidNames(root.locals \o root.inputs) IN
       IF \E e \in Members(root.edges) : IsCall(e)
       THEN /\ verdict' = Abort /\ pc' = "done"
            /\ UNCHANGED <<names, model>>
       ELSE /\ names' = nm
            /\ model' = [locs |-> [l \in Connected(root) |-> LocFlag(l)],
                         decls |-> {nm[v] : v \in DOMAIN nm},
                         edges |-> [i \in DOMAIN root.edges |->
                                      [src |-> root.edges[i].src, dst |-> root.edges[i].dst,
                                       stmts |-> StmtsOf(root.edges[i], nm)]]]
            /\ pc' = "execute"
            /\ UNCHANGED verdict
  /\ UNCHANGED <<prog, transformVars, thetaVars, traceVars, fault>>

-----------------------------------------------------------------------------
(* The theta process (external): it rejects a file it cannot parse and     *)
(* otherwise decides whether the error location can be reached.            *)

NamesIn(m) ==
  UNION {UNION {{st.var, st.e.x} : st \in Members(m.edges[i].stmts)} : i \in DOMAIN m.edges} \ {<<>>}
ParsesModel(m) ==
  /\ NamesIn(m) \subseteq m.decls
  /\ \A i \in DOMAIN m.edges : \A st \in Members(m.edges[i].stmts) :
       st.s # "havoc" => st.e # Unhandled
  /\ Cardinality(m.decls) = Len(root.locals \o root.inputs)

(* A statement takes an environment to a set of them. *)
Stmt(st, env) ==
  CASE st.s = "assume" -> IF Holds(st.e, env) THEN {env} ELSE {}
    [] st.s = "assign" -> {[env EXCEPT ![st.var] = Eval(st.e, env)]}
    [] st.s = "havoc" -> {[env EXCEPT ![st.var] = c] : c \in Values}
RunStmts(sts, env) ==
  FoldLeft(LAMBDA envs, st : UNION {Stmt(st, v) : v \in envs}, {env}, sts)
Successors(m, s) ==
  UNION {{[loc |-> m.edges[i].dst, env |-> v] : v \in RunStmts(m.edges[i].stmts, s.env)} :
           i \in {j \in DOMAIN m.edges : m.edges[j].src = s.loc}}
Starts(m) ==
  {[loc |-> l, env |-> [d \in m.decls |-> junk]] :
     l \in {k \in DOMAIN m.locs : m.locs[k] = "init"}, junk \in {0, 1}}
RECURSIVE Explored(_, _)
Explored(m, seen) ==
  UNION {IF more = seen THEN seen ELSE Explored(m, more) :
           more \in {seen \cup UNION {Successors(m, s) : s \in seen}}}
ErrorReachable(m) == \E s \in Explored(m, Starts(m)) : m.locs[s.loc] = "error"
(* The paths to the error location that visit no state twice, with the     *)
(* variables that have been written so far.                                *)
PathSteps(m, s) ==
  UNION {{[loc |-> m.edges[i].dst, env |-> v,
           known |-> s.known \cup ({st.var : st \in Members(m.edges[i].stmts)} \ {<<>>})] :
            v \in RunStmts(m.edges[i].stmts, s.env)} :
           i \in {j \in DOMAIN m.edges : m.edges[j].src = s.loc}}
Extensions(m, path) ==
  IF m.locs[path[Len(path)].loc] = "error" THEN {path}
  ELSE {Append(path, s) : s \in {t \in PathSteps(m, path[Len(path)]) :
                                   \A r \in Members(path) : r.loc # t.loc \/ r.env # t.env}}
ErrorPaths(m) ==
  LET starts == {<<s @@ [known |-> {}]>> : s \in Starts(m)}
      longest == Fold(LAMBDA paths, i : UNION {Extensions(m, p) : p \in paths},
                      starts, [i \in 1 .. MaxTrace |-> i])
  IN  {p \in longest : m.locs[p[Len(p)].loc] = "error"}

(* The counterexample as theta prints it: the states, with the values of   *)
(* the variables known, and the actions between them.  A transition with   *)
(* several statements may have a location without a name between them.     *)
Atom(k, v) == [k |-> k, v |-> v]
List(q) == [k |-> "list", v |-> q]
StateTree(s, named, bad) ==
  LET order == SetToSeq(s.known)
      expl == List(<<Atom("tag", "ExplState")>> \o
                [i \in DOMAIN order |->
                   List(<<Atom("var", order[i]), Atom(IF bad THEN "text" ELSE "val", s.env[order[i]])>>)])
  IN  IF named THEN List(<<Atom("tag", "CfaState"), Atom("loc", s.loc), expl>>)
      ELSE List(<<Atom("tag", "CfaState"), expl>>)
PathTree(path, unnamed, bad) ==
  LET action == Atom("tag", "CfaAction")
      Of(i) == IF i = 1 THEN <<StateTree(path[i], TRUE, bad)>>
               ELSE IF unnamed
               THEN <<action, StateTree(path[i - 1], FALSE, bad), action, StateTree(path[i], TRUE, bad)>>
               ELSE <<action, StateTree(path[i], TRUE, bad)>>
  IN  List(<<Atom("tag", "Trace")>> \o FlattenSeq([i \in DOMAIN path |-> Of(i)]))

-----------------------------------------------------------------------------
(* execute() *)

(* What stops it before the process is started. *)
SetupFaults == {"tempfile", "open", "java", "outputs", "theta jar", "libz3"}
(* The exit code ExecuteAndWait() returns. *)
ReturnCode(f) ==
  CASE f = "launch" -> -1
    [] f = "timeout" -> -2
    [] f = "crash" -> 1
    [] OTHER -> IF ParsesModel(model) THEN 0 ELSE 1

(* Theta finds the error location unreachable. *)
ExecuteSafe(f) ==
  /\ f \notin {"output", "garbage"} /\ ~ErrorReachable(model)
  /\ verdict' = Success /\ pc' = "done"
  /\ UNCHANGED thetaVars
(* Theta finds a path; what is in the file, or is not, is read next. *)
ExecuteUnsafe(f) ==
  /\ f \notin {"output", "garbage"} /\ ErrorReachable(model)
  /\ \E path \in ErrorPaths(model), unnamed \in BOOLEAN :
       /\ cexPath' = path
       /\ cexText' = IF f \in {"no cex file", "no trace"} THEN NoText
                     ELSE [tree |-> PathTree(path, unnamed, f = "value"), closed |-> f # "truncated"]
  /\ IF f = "no cex file" THEN verdict' = InternalError /\ pc' = "done"
     ELSE IF f = "no trace" THEN verdict' = Fail(GeneralFailureCode, FALSE) /\ pc' = "done"
     ELSE UNCHANGED verdict /\ pc' = "parse"

(* The verdict for an exit code that is not zero. *)
ResultOfCode(c) == IF c = -2 THEN Timeout ELSE InternalError

Execute ==
  /\ pc = "execute"
  /\ \E f \in Faults \cup {"none"} :
       /\ fault' = f
       /\ \/ /\ f \in SetupFaults
             /\ verdict' = InternalError /\ pc' = "done"
             /\ UNCHANGED thetaVars
          \/ /\ f \notin SetupFaults /\ ReturnCode(f) # 0
             /\ verdict' = ResultOfCode(ReturnCode(f)) /\ pc' = "done"
             /\ UNCHANGED thetaVars
          \/ /\ f \notin SetupFaults /\ ReturnCode(f) = 0
             /\ \/ ExecuteSafe(f)
                \/ ExecuteUnsafe(f)
                \/ /\ f \in {"output", "garbage"}
                   /\ verdict' = InternalError /\ pc' = "done"
                   /\ UNCHANGED thetaVars
  /\ UNCHANGED <<prog, transformVars, names, model, traceVars>>

-----------------------------------------------------------------------------
(* The location and the variable of the program for one of the file. *)
(* Mutant: the copied locations are taken for locations of the main one. *)
OriginalLocationOfRoot(l) == [p |-> main, l |-> l]
OriginalLocation(l) == IF l \in DOMAIN locOrigin THEN locOrigin[l] ELSE [p |-> main, l |-> l]
OriginalVariable(name) ==
  LET v == CHOOSE w \in DOMAIN names : names[w] = name
  IN  IF v \in DOMAIN varOrigin THEN varOrigin[v] ELSE v

(* One element of the counterexample; acc is what was collected so far,    *)
(* `ok' says that no value was refused.                                    *)
ParseState(acc, e) ==
  IF e.v[2].k = "list" \/ ~acc.ok THEN acc
  ELSE LET values == SubSeq(e.v[3].v, 2, Len(e.v[3].v)) IN
       IF \E i \in DOMAIN values : values[i].v[2].k # "val" THEN [acc EXCEPT !.ok = FALSE]
       ELSE [acc EXCEPT
              !.actions = Append(@, [i \in DOMAIN values |->
                 [var |-> OriginalVariable(values[i].v[1].v), val |-> values[i].v[2].v]]),
              !.states = Append(@, OriginalLocation(e.v[2].v))]

(* The elements of the trace behind the first state, without the actions. *)
ParseTrace(trace) ==
  Fold(ParseState,
       [states |-> <<OriginalLocation(trace[2].v[2].v)>>, actions |-> <<>>, ok |-> TRUE],
       [i \in 1 .. (Len(trace) - 2) \div 2 |-> trace[2 * i + 2]])
(* parseCex(): an assertion fails if the text ends too early, or the last  *)
(* action has no error field.                                              *)
ParseCex ==
  /\ pc = "parse"
  /\ \/ /\ ~cexText.closed
        /\ verdict' = Abort /\ pc' = "done"
        /\ UNCHANGED <<states, actions>>
     \/ /\ cexText.closed
        /\ \E acc \in {ParseTrace(cexText.tree.v)} :
               /\ states' = acc.states /\ actions' = acc.actions
               /\ IF ~acc.ok
                  THEN verdict' = Fail(GeneralFailureCode, FALSE) /\ pc' = "done"
                  ELSE \E codes \in {{a.val : a \in {b \in Members(acc.actions[Len(acc.actions)]) :
                                                       b.var = ErrorField}}} :
                         IF codes = {} THEN verdict' = Abort /\ pc' = "done"
                         ELSE /\ \E c \in codes : verdict' = Fail(c, TRUE)
                              /\ pc' = "build"
  /\ UNCHANGED <<prog, transformVars, names, model, thetaVars, events, fault>>

-----------------------------------------------------------------------------
(* LLVMTraceBuilder::build().  A block has an entry location; it is a      *)
(* sequence of instructions [op, x, def, cond, from]: the value it reads,  *)
(* the one it defines, the condition of a select that chooses x, and the   *)
(* block from which a phi takes x.                                         *)

BlockOf(s) == IF s \in DOMAIN Programs[prog].blocks THEN Programs[prog].blocks[s] ELSE <<>>
ShouldProcessEntry(s) == BlockOf(s) # <<>>

UpdateCurrentValuation(vals, action) ==
  Fold(LAMBDA f, a : (a.var :> {a.val}) @@ f, vals, action)
(* getLiteralFromValue(): nothing for a value the counterexample has not. *)
GetLiteralFromValue(vals, x) == IF x \in DOMAIN vals THEN vals[x] ELSE {}

(* Does passing this instruction make its result undefined? *)
BecomesUndef(tr, inst) ==
  \/ inst.op = "undef"
  \/ inst.x \in tr.undefs /\ inst.op = "phi" /\ inst.from = tr.prev
  \/ /\ inst.x \in tr.undefs /\ inst.op = "select"
     /\ GetLiteralFromValue(tr.vals, inst.cond) = {1}
(* Is it an undefined value that it reads? *)
ReadsUndef(tr, inst) ==
  \/ inst.x \in tr.undefs /\ inst.op \notin {"phi", "select", "dbg"}
  \/ inst.cond \in tr.undefs /\ inst.op = "select"

(* An instruction of the block of s; tr is [vals, undefs, events, prev]. *)
ShowInstruction(s, tr, inst) ==
  LET Event(k, x) == [k |-> k, at |-> s, x |-> x, v |-> GetLiteralFromValue(tr.vals, x)]
      ub == IF ReadsUndef(tr, inst) THEN <<Event("undefined", inst.x)>> ELSE <<>>
      own == CASE inst.op \in {"dbg", "gwrite", "entry", "ret"} -> <<Event(inst.op, inst.x)>>
               [] inst.op \in {"retvoid", "returned"} -> <<Event(inst.op, NoVar)>>
               [] inst.op = "call" -> <<Event(inst.op, inst.def)>>
               [] OTHER -> <<>>
  IN  [tr EXCEPT !.events = @ \o ub \o own,
                 !.undefs = IF BecomesUndef(tr, inst) THEN @ \cup {inst.def} ELSE @ \ {inst.def}]
ShowBlock(s, tr) ==
  [Fold(LAMBDA t, inst : ShowInstruction(s, t, inst), tr, BlockOf(s)) EXCEPT !.prev = s]

(* The loop of build() from the i-th state: which state is shown and the   *)
(* last action applied before.  Locations without a block are skipped, and *)
(* then the action that leaves the block is applied as well.               *)
RECURSIVE Iterations(_)
Iterations(i) ==
  LET ahead == {j \in i .. Len(actions) : ShouldProcessEntry(states[j])}
      j == CHOOSE k \in ahead : \A l \in ahead : k <= l
      next == IF j = i THEN i ELSE j + 1
  IN  IF i > Len(states) \/ ahead = {} THEN <<>>
      ELSE IF next > Len(actions) THEN <<>>
      ELSE <<[first |-> i, shown |-> j, last |-> next]>> \o Iterations(next + 1)
Iterate(tr, it) ==
  ShowBlock(states[it.shown],
            [tr EXCEPT !.vals = Fold(UpdateCurrentValuation, @, SubSeq(actions, it.first, it.last))])

BuildTrace ==
  /\ pc = "build"
  /\ IF Len(states) # Len(actions) + 1 \/ states[1].l # Entry
     THEN verdict' = Abort /\ UNCHANGED events
     ELSE /\ events' = Fold(Iterate, [vals |-> <<>>, undefs |-> {}, events |-> <<>>,
                                   prev |-> [p |-> main, l |-> Exit]], Iterations(1)).events
          /\ UNCHANGED verdict
  /\ pc' = "done"
  /\ UNCHANGED <<prog, transformVars, names, model, thetaVars, states, actions, fault>>

(* check() has returned, or the program has been aborted. *)
Returned == pc = "done" /\ UNCHANGED vars

Next == Inline \/ Write \/ Execute \/ ParseCex \/ BuildTrace \/ Returned
Spec == Init /\ [][Next]_vars

-----------------------------------------------------------------------------
(* Properties *)

(* The codes each program can really fail with, from the meaning of the    *)
(* recursive automata and not from the cyclic one.                         *)
Failures ==
  UNION {{<<p, c>> : c \in UNION {ErrorCodes(Programs[p].cfas, Programs[p].main, junk, Depth) :
                                    junk \in {0, 1}}} : p \in DOMAIN Programs}
Recursion(p) == \E q \in DOMAIN Programs[p].cfas :
                  \E e \in Members(Programs[p].cfas[q].edges) :
                    IsCall(e) /\ ~IsTailRecursive(Programs[p].cfas, e.callee)

(* The verdict is right: "successful" only for a program without an error, *)
(* a failure with a trace only with a code the program can fail with, and  *)
(* one without a trace only when it can fail.  Swapped arguments of a tail *)
(* call, a lost error of a loop or an unchecked exit code would break it.  *)
VerdictIsSound ==
  pc = "done" =>
    /\ verdict.status = "Success" => \A f \in Failures : f[1] # prog
    /\ verdict.status = "Fail" => IF verdict.trace THEN <<prog, verdict.code>> \in Failures
                                  ELSE \E f \in Failures : f[1] = prog

(* If nothing goes wrong around the process, the answer is a verdict about *)
(* the program: the file is well-formed, with names that are unique after  *)
(* the invalid characters are replaced, and the counterexample is read     *)
(* without an assertion failing.  Only calls that are not tail recursive   *)
(* are refused.                                                            *)
FaultFreeRunDecides ==
  pc = "done" /\ fault = "none" =>
    IF Recursion(prog) THEN verdict = Abort ELSE verdict.status \in {"Success", "Fail"}

(* The trace is a path of the original automata: each step is a transition *)
(* of one of them, a call, a return from one, another iteration of a loop  *)
(* or the jump to the error location.                                      *)
IsOriginalStep(s, t) ==
  \/ \E e \in Members(sys[s.p].edges) :
       \/ ~IsCall(e) /\ s.p = t.p /\ e.src = s.l /\ e.dst = t.l
       \/ IsCall(e) /\ e.src = s.l /\ t.p = e.callee /\ t.l = Entry
  \/ s.l = Exit /\ \E e \in Members(sys[t.p].edges) : e.callee = s.p /\ e.dst = t.l
  \/ s.l \in DOMAIN sys[s.p].err /\ t = [p |-> main, l |-> error]
TraceIsAPath ==
  pc \in {"build", "done"} /\ verdict.trace /\ verdict # Abort =>
    /\ states[1] = [p |-> main, l |-> Entry]
    /\ states[Len(states)] = [p |-> main, l |-> error]
    /\ \A i \in 1 .. Len(states) - 1 : IsOriginalStep(states[i], states[i + 1])

(* The events of the trace are those of the blocks on the path in their    *)
(* order; only a block in the last step of the path may be missing.        *)
BlocksShown(q) ==
  FlattenSeq([i \in DOMAIN q |->
    LET shown == SelectSeq(BlockOf(q[i]), LAMBDA inst :
                   inst.op \in {"dbg", "gwrite", "entry", "ret", "retvoid", "returned", "call"})
    IN  [j \in DOMAIN shown |-> [k |-> shown[j].op, at |-> q[i]]]])
EventsFollowThePath ==
  pc = "done" /\ verdict.trace /\ verdict # Abort =>
    LET own == SelectSeq(events, LAMBDA e : e.k # "undefined")
        got == [i \in DOMAIN own |-> [k |-> own[i].k, at |-> own[i].at]]
    IN  \E n \in {Len(actions) - 1, Len(actions)} : got = BlocksShown(SubSeq(states, 1, n))

(* What a failing run shows is an execution of the program: a path of the  *)
(* original automata, with the events of its blocks.                       *)
TraceIsAnExecution == TraceIsAPath /\ EventsFollowThePath
===========================================================================
