---------------------------- MODULE ModuleToCfa ----------------------------
(***************************************************************************)
(* The translation of an LLVM module to automata                           *)
(* (src/LLVM/Automaton/ModuleToAutomata.cpp, FunctionToCfa.h,              *)
(* ExtensionPoints.cpp, SpecialFunctions.cpp), with the pass that prepares *)
(* loop exits for it (Transform/LoopExitCanonizationPass.cpp).             *)
(*                                                                         *)
(* Each function and each natural loop becomes an automaton.  A loop       *)
(* automaton is tail recursive: its inputs are the header's PHI nodes and  *)
(* the values it reads from outside, its outputs the values that are used  *)
(* behind the loop and, if it can be left over several edges, a selector   *)
(* that says over which.  All interfaces are declared first, inner loops   *)
(* before outer ones; then the blocks of each automaton are encoded.       *)
(*                                                                         *)
(* A procedure is a pair <<f, h>>: function f if h = 0, else the loop of f *)
(* with header h.  Memory objects are left out: the module has none.       *)
(***************************************************************************)
EXTENDS Naturals, Integers, Sequences, FiniteSets, Paths

CONSTANTS Modules,      \* the modules to translate
          ElimLevels    \* values of -elim-vars

VARIABLES
    pc,         \* where the pass pipeline and ModuleToCfa::generate are
    mod,        \* mModule
    elim,       \* mSettings.elimVars
    loops,      \* the LoopInfo of each function: header -> blocks
    declare,    \* the loops still to be canonized, the procedures still to be declared
    visited,    \* visitedBlocks of the function being declared
    info,       \* mGenCtx.mProcedures: the CfaGenInfo of each declared procedure
    cfa,        \* mSystem: the automaton of each declared procedure
    left,       \* the procedures still to be encoded
    cur,        \* the procedure being encoded
    rest,       \* its blocks still to be encoded
    bb, at,     \* the block being encoded, and the instruction or successor in it
    entry,      \* the local variable `entry' of encode()
    assigns,    \* the assignments collected since `entry'
    inlined,    \* mInlinedVars
    counter     \* mCounter

progVars == <<mod, elim, loops>>
declVars == <<declare, visited, info>>
blockVars == <<bb, at, entry, assigns>>
procVars == <<left, cur, rest, inlined, counter>>
vars == <<pc, progVars, declVars, cfa, procVars, blockVars>>

-----------------------------------------------------------------------------
(***************************************************************************)
(* LLVM modules (external).  A module is a sequence of functions, of which *)
(* the first is the entry function.  A function is [args, void, blocks];   *)
(* a block is a sequence of instructions, its PHI nodes first and its      *)
(* terminator last; block 1 is the entry block and blocks are numbered in  *)
(* layout order.  An instruction has a kind, the name it defines (or       *)
(* NoName) and operands: names of values, which are in SSA form, or        *)
(* literals.  It also has `from' (phi: the block each operand comes from), *)
(* `op' (calc: the operation), `callee' (call: the function) or `succs'    *)
(* and `cases' (br, switch).                                               *)
(***************************************************************************)
NoName == ""
Literals == {"0", "1", "2"}
Terminators == {"br", "switch", "ret", "unreachable"}

BlocksOf(F) == DOMAIN F.blocks
Terminator(F, b) == F.blocks[b][Len(F.blocks[b])]
Succs(F, b) == Terminator(F, b).succs
Flow(F) == {e \in [src : BlocksOf(F), dst : BlocksOf(F)] :
              \E i \in DOMAIN Succs(F, e.src) : Succs(F, e.src)[i] = e.dst}

DefsIn(F, b) == {F.blocks[b][i].def : i \in DOMAIN F.blocks[b]} \ {NoName}
Phis(F, b) == {inst \in {F.blocks[b][i] : i \in DOMAIN F.blocks[b]} : inst.kind = "phi"}
PhiDefs(F, b) == {inst.def : inst \in Phis(F, b)}
Args(F) == {F.args[i] : i \in DOMAIN F.args}

\* PHINode::getIncomingValueForBlock
IncomingValue(phi, b) == phi.ops[CHOOSE k \in DOMAIN phi.ops : phi.from[k] = b]

\* Value::users, in the blocks B: block, instruction and operand number.
UsesIn(F, B, x) ==
    UNION {UNION {{<<b, i, k>> : k \in {k \in DOMAIN F.blocks[b][i].ops : F.blocks[b][i].ops[k] = x}} :
                  i \in DOMAIN F.blocks[b]} : b \in B}

\* llvm::LoopInfo, from the dominator tree: the natural loop of each header.
Dominates(F, a, b) ==
    b \notin ReachWithin({1} \ {a}, {e \in Flow(F) : a \notin {e.src, e.dst}}, Len(F.blocks))
LoopInfo(F) ==
    LET Latches(h) == {e.src : e \in {e \in Flow(F) : e.dst = h /\ Dominates(F, h, e.src)}}
    IN  [h \in {h \in BlocksOf(F) : Latches(h) # {}} |->
           ReachWithin({h} \cup Latches(h), Backwards({e \in Flow(F) : e.dst # h}), Len(F.blocks))]

\* What the passes before the translation guarantee (LoopSimplify, and
\* CFGSimplification, which removes unreachable blocks): every block is
\* reachable, a loop is entered from one block that goes nowhere else, and an
\* exit block is reached from inside the loop only.
IsSimplified(F) ==
    LET li == LoopInfo(F)
    IN  /\ ReachWithin({1}, Flow(F), Len(F.blocks)) = BlocksOf(F)
        /\ \A e \in Flow(F) : e.dst # 1
        /\ \A h \in DOMAIN li :
             /\ \E q \in BlocksOf(F) : \A e \in Flow(F) :
                  e.dst = h /\ e.src \notin li[h] => e.src = q /\ Succs(F, q) = <<h>>
             /\ \A e, d \in Flow(F) :
                  e.src \in li[h] /\ e.dst \notin li[h] /\ d.dst = e.dst => d.src \in li[h]
             /\ \A e \in Flow(F) : e.src \notin li[h] /\ e.dst \in li[h] => e.dst = h

(***************************************************************************)
(* What LLVM's verifier guarantees.  Of a function: it has an entry block, *)
(* every block ends in a terminator, PHI nodes have names, and names are   *)
(* defined once.  Of its calls: they pass as many operands as the callee   *)
(* has arguments.                                                          *)
(***************************************************************************)
IsFunction(F) ==
    /\ {"args", "void", "blocks"} \subseteq DOMAIN F
    /\ \A j, k \in DOMAIN F.args : F.args[j] = F.args[k] => j = k
    /\ Len(F.blocks) \in Nat \ {0} /\ DOMAIN F.blocks = 1 .. Len(F.blocks)
    /\ \A b \in BlocksOf(F) :
         /\ Len(F.blocks[b]) \in Nat \ {0} /\ DOMAIN F.blocks[b] = 1 .. Len(F.blocks[b])
         /\ Terminator(F, b).kind \in Terminators /\ "succs" \in DOMAIN Terminator(F, b)
         /\ \A i \in DOMAIN F.blocks[b] :
              /\ {"kind", "def", "ops"} \subseteq DOMAIN F.blocks[b][i]
              /\ F.blocks[b][i].kind = "phi" => F.blocks[b][i].def # NoName
              /\ F.blocks[b][i].def # NoName => F.blocks[b][i].def \notin Args(F)
    /\ \A b, c \in BlocksOf(F) : \A i \in DOMAIN F.blocks[b] : \A j \in DOMAIN F.blocks[c] :
         F.blocks[b][i].def = F.blocks[c][j].def /\ F.blocks[b][i].def # NoName => b = c /\ i = j

CallsFit(m, F) ==
    \A b \in BlocksOf(F) : \A i \in DOMAIN F.blocks[b] :
      LET inst == F.blocks[b][i]
      IN  inst.kind = "call" => /\ "callee" \in DOMAIN inst /\ inst.callee \in DOMAIN m
                                /\ DOMAIN inst.ops = DOMAIN m[inst.callee].args

IsVerified(m) ==
    /\ Len(m) \in Nat \ {0} /\ DOMAIN m = 1 .. Len(m)
    /\ \A f \in DOMAIN m : IsFunction(m[f]) /\ CallsFit(m, m[f])

ASSUME ModulesAssumption ==
    \A m \in Modules : IsVerified(m) /\ \A f \in DOMAIN m : IsSimplified(m[f])
ASSUME ElimAssumption == ElimLevels \subseteq {"off", "normal", "aggressive"}

-----------------------------------------------------------------------------
(***************************************************************************)
(* Variables and expressions of automata.  A variable stands for a value   *)
(* (or, "out", for its copy at the exit of a loop), for the return value,  *)
(* or is a selector, number 0 being the automaton's own one.  NoVar is the *)
(* null pointer.  Expressions carry the set of variables they read.        *)
(***************************************************************************)
Var(kind, name, n) == [kind |-> kind, name |-> name, n |-> n]
ValueVar(x) == Var("value", x, 0)
OutVar(x) == Var("out", x, 0)
RetVal == Var("return", NoName, 0)
Selector(k) == Var("selector", NoName, k)
NoVar == Var("null", NoName, 0)

Ref(v) == [op |-> "ref", var |-> v, args |-> <<>>, reads |-> {v}]
Lit(x) == [op |-> "lit", lit |-> x, args |-> <<>>, reads |-> {}]
IntLit(i) == [op |-> "int", int |-> i, args |-> <<>>, reads |-> {}]
Undef == [op |-> "undef", args |-> <<>>, reads |-> {}]
Apply(op, args) ==
    [op |-> op, args |-> args, reads |-> UNION {args[i].reads : i \in DOMAIN args}]
True == Apply("true", <<>>)
False == Apply("false", <<>>)
Not(e) == Apply("not", <<e>>)
And(d, e) == Apply("and", <<d, e>>)
Eq(d, e) == Apply("eq", <<d, e>>)
NotEq(d, e) == Not(Eq(d, e))

\* An assignment, a transition and a call transition.  The inputs of a call
\* assign to the callee's inputs, the outputs to variables of the caller.
Assign(v, e) == [var |-> v, val |-> e]
NoProc == <<0, 0>>
AssignEdge(s, d, g, as) ==
    [src |-> s, dst |-> d, guard |-> g, assigns |-> as, callee |-> NoProc, ins |-> {}, outs |-> {}]
CallEdge(s, d, g, p, ins, outs) ==
    [src |-> s, dst |-> d, guard |-> g, assigns |-> {}, callee |-> p, ins |-> ins, outs |-> outs]

Entry == 0
Exit == 1

-----------------------------------------------------------------------------
(* The loop tree *)

Region(p) == IF p[2] = 0 THEN BlocksOf(mod[p[1]]) ELSE loops[p[1]][p[2]]
EntryBlock(p) == IF p[2] = 0 THEN 1 ELSE p[2]

\* LoopInfo::getLoopFor: the header of the innermost loop around b, the one
\* with the fewest blocks, or 0.
LoopFor(f, b) ==
    LET around == {h \in DOMAIN loops[f] : b \in loops[f][h]}
    IN  IF around = {} THEN 0
        ELSE CHOOSE h \in around :
               \A g \in around : Cardinality(loops[f][h]) <= Cardinality(loops[f][g])

\* getNestedLoopOf, for a block outside the blocks of procedure p.
NestedLoopOf(p, b) ==
    LET nested == LoopFor(p[1], b)
    IN  IF nested # 0 /\ (p[2] = 0 \/ loops[p[1]][nested] \subseteq Region(p)) THEN nested ELSE 0

\* The successors that leave the region of p, as pairs <<block, successor
\* number>>, in the order of the blocks and their successors.
ExitSites(p) ==
    UNION {{<<b, i>> : i \in {i \in DOMAIN Succs(mod[p[1]], b) : Succs(mod[p[1]], b)[i] \notin Region(p)}} :
           b \in Region(p)}
Precedes(s, t) == s[1] < t[1] \/ (s[1] = t[1] /\ s[2] < t[2])

\* Loop::getExitEdges
ExitEdges(p) ==
    LET sites == ExitSites(p)
    IN  [n \in 1 .. Cardinality(sites) |->
           LET s == CHOOSE s \in sites : Cardinality({t \in sites : Precedes(t, s)}) = n - 1
           IN  <<s[1], Succs(mod[p[1]], s[1])[s[2]]>>]

\* The procedures of function f in the order in which they are declared:
\* loops in reversed preorder, so inner ones first, then the function.
Procedures(f) ==
    LET heads == DOMAIN loops[f]
    IN  [n \in 1 .. Cardinality(heads) + 1 |->
           <<f, IF n > Cardinality(heads) THEN 0
                ELSE CHOOSE h \in heads : Cardinality({g \in heads : g > h}) = n - 1>>]

\* The elements of a finite set of numbers in ascending order.
Ascending(S) ==
    [n \in 1 .. Cardinality(S) |-> CHOOSE b \in S : Cardinality({a \in S : a < b}) = n - 1]

-----------------------------------------------------------------------------
(* The procedures' interfaces *)

\* The values that the instructions in blocks B read, PHI nodes of h excepted.
ReadsIn(F, B, h) ==
    UNION {UNION {IF b = h /\ F.blocks[b][i].kind = "phi" THEN {}
                  ELSE {F.blocks[b][i].ops[k] : k \in DOMAIN F.blocks[b][i].ops} :
                  i \in DOMAIN F.blocks[b]} : b \in B}

\* Mutant: arguments of the function are forgotten.
DefinedInCallerBlock(F, x, region) ==
    \E b \in BlocksOf(F) \ region : x \in DefsIn(F, b)

\* isDefinedInCaller
DefinedInCaller(F, x, region) ==
    x \in Args(F) \/ \E b \in BlocksOf(F) \ region : x \in DefsIn(F, b)

\* isErrorBlock
IsErrorBlock(F, b) == Len(F.blocks[b]) > 1 /\ F.blocks[b][Len(F.blocks[b]) - 1].kind = "error"

\* An automaton with variables vs and locations for the blocks bs: block k of
\* them has entry location 2k and exit location 2k+1.
NewCfa(F, bs, vs) ==
    [next |-> 2 * Len(bs) + 2,
     locs |-> 0 .. 2 * Len(bs) + 1,
     err |-> {2 * k + 1 : k \in {k \in DOMAIN bs : IsErrorBlock(F, bs[k])}},
     edges |-> {}, vars |-> vs]

Position(p, b) == CHOOSE k \in DOMAIN info[p].blocks : info[p].blocks[k] = b
OwnBlocks(p) == {info[p].blocks[k] : k \in DOMAIN info[p].blocks}
BlockEntry(p, b) == 2 * Position(p, b)
BlockExit(p, b) == 2 * Position(p, b) + 1

\* CfaGenInfo::ExitVariable # nullptr (`extra' holds the outputs that stand for
\* no value: the selector of a loop, the return value of a function), and the
\* selector's value for an edge: ExitEdges keeps the last number an edge was
\* registered with.
HasSelector(p) == Selector(0) \in info[p].extra
ExitValue(p, b, t) ==
    LET ks == {k \in DOMAIN info[p].exits : info[p].exits[k] = <<b, t>>}
    IN  (CHOOSE k \in ks : \A j \in ks : j <= k) - 1

\* CfaGenInfo::findVariable
FindVariable(p, x) ==
    IF x \in info[p].inputs \cup info[p].phiInputs \cup info[p].locals THEN ValueVar(x) ELSE NoVar

\* The inputs, outputs and variables of procedure p's automaton.
InputVars(p) == {ValueVar(x) : x \in info[p].inputs \cup info[p].phiInputs}
OutputVars(p) == {OutVar(x) : x \in info[p].outputs} \cup info[p].extra
VarsOf(i) == {ValueVar(x) : x \in i.inputs \cup i.phiInputs \cup i.locals}
               \cup {OutVar(x) : x \in i.outputs} \cup i.extra

-----------------------------------------------------------------------------
Empty == [x \in {} |-> NoName]

\* LoopInfo::getLoopsInPreorder, of one function after the other.  The
\* canonization means to visit inner loops first, but llvm::reverse leaves
\* the list as it is.
LoopsInPreorder ==
    LET nested == UNION {{<<f, h>> : h \in DOMAIN loops[f]} : f \in DOMAIN mod}
    IN  [n \in 1 .. Cardinality(nested) |->
           CHOOSE p \in nested : Cardinality({q \in nested : Precedes(q, p)}) = n - 1]

Init ==
    /\ mod \in Modules /\ elim \in ElimLevels
    /\ loops = [f \in DOMAIN mod |-> LoopInfo(mod[f])]
    /\ declare = LoopsInPreorder /\ visited = {}
    /\ info = Empty /\ cfa = Empty
    /\ left = {} /\ cur = NoProc /\ rest = <<>>
    /\ bb = 0 /\ at = 0 /\ entry = 0 /\ assigns = {}
    /\ inlined = Empty /\ counter = 0
    /\ pc = "canonize"

Extended(f, x, y) == [z \in DOMAIN f \cup {x} |-> IF z = x THEN y ELSE f[z]]

\* Loop::getParentLoop
ParentLoop(f, h) ==
    LET around == {g \in DOMAIN loops[f] \ {h} : loops[f][h] \subseteq loops[f][g]}
    IN  IF around = {} THEN 0
        ELSE CHOOSE g \in around : \A k \in around : loops[f][g] \subseteq loops[f][k]

\* The successors, of branches only, that leave the nested loop p and its
\* parent at once.
DeepExits(p) ==
    {s \in ExitSites(p) :
       /\ ParentLoop(p[1], p[2]) # 0
       /\ Terminator(mod[p[1]], s[1]).kind = "br"
       /\ Succs(mod[p[1]], s[1])[s[2]] \notin loops[p[1]][ParentLoop(p[1], p[2])]}

\* Function F where a new last block stands between block b and its successor i.
WithExitBlock(F, b, i) ==
    LET new == Len(F.blocks) + 1
        target == Succs(F, b)[i]
        Redirected(inst) ==     \* the terminator of b, and the PHI nodes of the target
          [inst EXCEPT !.succs = [@ EXCEPT ![i] = new]]
        Adjusted(phi) ==
          [phi EXCEPT !.from = [k \in DOMAIN @ |-> IF @[k] = b THEN new ELSE @[k]]]
        Goto(t) == [kind |-> "br", def |-> NoName, ops |-> <<>>, succs |-> <<t>>]
    IN  [F EXCEPT !.blocks =
           [k \in 1 .. new |->
              IF k = new THEN <<Goto(target)>>
              ELSE [n \in DOMAIN @[k] |->
                      IF k = target /\ @[k][n].kind = "phi" THEN Adjusted(@[k][n])
                      ELSE IF k = b /\ n = Len(@[k]) THEN Redirected(@[k][n])
                      ELSE @[k][n]]]]

\* LoopExitCanonizationPass::transformExitsInLoop for the loop at the head of
\* `declare': a block of the parent loop is put on its next such exit.
CanonizeExit ==
    LET p == Head(declare)
        f == p[1]
        new == Len(mod[f].blocks) + 1
    IN  /\ pc = "canonize" /\ declare # <<>>
        /\ \E s \in DeepExits(p) :
             /\ \A t \in DeepExits(p) : ~Precedes(t, s)
             /\ mod' = [mod EXCEPT ![f] = WithExitBlock(@, s[1], s[2])]
        /\ loops' = [loops EXCEPT ![f] = [h \in DOMAIN @ |->
                       IF ParentLoop(f, p[2]) \in @[h] THEN @[h] \cup {new} ELSE @[h]]]
        /\ UNCHANGED <<pc, elim, declVars, cfa, procVars, blockVars>>

\* The loop has no such exit any more.
CanonizeNext ==
    /\ pc = "canonize" /\ declare # <<>> /\ DeepExits(Head(declare)) = {}
    /\ declare' = Tail(declare)
    /\ UNCHANGED <<pc, progVars, visited, info, cfa, procVars, blockVars>>

\* ModuleToAutomataPass::runOnModule computes the loops anew.
AnalyzeLoops ==
    /\ pc = "canonize" /\ declare = <<>>
    /\ loops' = [f \in DOMAIN mod |-> LoopInfo(mod[f])]
    /\ declare' = Procedures(1)'
    /\ pc' = "declare"
    /\ UNCHANGED <<mod, elim, visited, info, cfa, procVars, blockVars>>

\* createAutomata for the next loop, with declareLoopVariables.  A value of an
\* inner loop that is only used behind this one has no variable here, and
\* createLoopOutput reads the type of the null variable.
DeclareLoop ==
    LET p == Head(declare)
        F == mod[p[1]]
        h == p[2]
        region == loops[p[1]][h]
        own == region \ visited
        defs == UNION {DefsIn(F, b) : b \in region} \ PhiDefs(F, h)
        locals == {x \in defs : \/ \E b \in own : x \in DefsIn(F, b)
                                \/ UsesIn(F, own, x) # {}}
        outputs == {x \in defs \cup PhiDefs(F, h) : UsesIn(F, BlocksOf(F) \ region, x) # {}}
        new == [inputs |-> {x \in ReadsIn(F, region, h) : DefinedInCaller(F, x, region)},
                phiInputs |-> PhiDefs(F, h),
                locals |-> locals, outputs |-> outputs,
                extra |-> {v \in {Selector(0)} : Len(ExitEdges(p)) # 1},
                exits |-> ExitEdges(p), blocks |-> Ascending(own)]
    IN  /\ pc = "declare" /\ declare # <<>> /\ p[2] # 0
        /\ info' = Extended(info, p, new)
        /\ cfa' = Extended(cfa, p, NewCfa(F, new.blocks, VarsOf(new)))
        /\ visited' = visited \cup region
        /\ declare' = Tail(declare)
        /\ pc' = IF outputs \subseteq locals \cup PhiDefs(F, h) THEN pc ELSE "abort"
        /\ UNCHANGED <<progVars, procVars, blockVars>>

\* createAutomata for the function itself: its loops have been declared.
DeclareFunction ==
    LET p == Head(declare)
        f == p[1]
        F == mod[f]
        own == BlocksOf(F) \ visited
        OfLoop(b, x) == LoopFor(f, b) # 0 /\ x \in info[<<f, LoopFor(f, b)>>].outputs
        locals == UNION {{x \in DefsIn(F, b) : \/ LoopFor(f, b) = 0
                                               \/ OfLoop(b, x)
                                               \/ UsesIn(F, own, x) # {}} : b \in BlocksOf(F)}
        new == [inputs |-> Args(F), phiInputs |-> {}, locals |-> locals, outputs |-> {},
                extra |-> {v \in {RetVal} : ~F.void},
                exits |-> <<>>, blocks |-> Ascending(own)]
    IN  /\ pc = "declare" /\ declare # <<>> /\ p[2] = 0
        /\ info' = Extended(info, p, new)
        /\ cfa' = Extended(cfa, p, NewCfa(F, new.blocks, VarsOf(new)))
        /\ visited' = {}
        /\ IF f = Len(mod)
           THEN /\ declare' = <<>> /\ pc' = "encode"
                /\ left' = DOMAIN info'
           ELSE declare' = Procedures(f + 1) /\ UNCHANGED <<pc, left>>
        /\ UNCHANGED <<progVars, cur, rest, inlined, counter, blockVars>>

-----------------------------------------------------------------------------
(* BlocksToCfa: building blocks *)

Func == mod[cur[1]]
Inst == Func.blocks[bb][at]
Term == Terminator(Func, bb)

\* operand
Operand(x) ==
    IF x \in Literals THEN Lit(x)
    ELSE IF x \in DOMAIN inlined THEN inlined[x] ELSE Ref(FindVariable(cur, x))

Operands(inst) == [k \in DOMAIN inst.ops |-> Operand(inst.ops[k])]

\* The variables an edge mentions in the automaton it belongs to.
Written(e) == {a.var : a \in e.assigns \cup e.outs}
Reads(e) == e.guard.reads \cup UNION {a.val.reads : a \in e.assigns \cup e.ins}

\* createCallToLoop creates a variable for the selector of the loop it calls.
NewSelectors(e) == {v \in Written(e) : v.kind = "selector" /\ v.n > 0}

\* The number of the next location of the current automaton.
Fresh == cfa[cur].next

\* Transitions es and k new locations are added to the current automaton.
\* findVariable's null pointer runs into the assertion of getVariable or of
\* insertOutputAssignments.
Emit(es, k, next) ==
    /\ cfa' = [cfa EXCEPT ![cur].next = @ + k,
                           ![cur].locs = @ \cup Fresh .. Fresh + k - 1,
                           ![cur].edges = @ \cup es,
                           ![cur].vars = @ \cup UNION {NewSelectors(e) : e \in es}]
    /\ pc' = IF \E e \in es : NoVar \in Written(e) \cup Reads(e) THEN "abort" ELSE next

\* insertPhiAssignments
PhiAssignments(source, target) ==
    {Assign(FindVariable(cur, phi.def), Operand(IncomingValue(phi, source))) :
       phi \in Phis(Func, target)}

\* Mutant: only the PHI inputs are passed.
LoopPhiArgs(q, source) ==
    {Assign(ValueVar(phi.def), Operand(IncomingValue(phi, source))) : phi \in Phis(Func, q[2])}

\* The arguments of a call to the loop procedure q, coming from block source.
LoopArgs(q, source) ==
    {Assign(ValueVar(phi.def), Operand(IncomingValue(phi, source))) : phi \in Phis(Func, q[2])}
      \cup {Assign(ValueVar(x), Operand(x)) : x \in info[q].inputs}

\* insertOutputAssignments
OutputAssignments(q) ==
    {Assign(IF x \in info[cur].outputs THEN OutVar(x) ELSE FindVariable(cur, x), Ref(OutVar(x))) :
       x \in info[q].outputs}

\* Mutant: the exit selector is not asked.
ExitConditionAny(q, b, t, selector) == True

\* getExitCondition
ExitCondition(q, b, t, selector) ==
    IF HasSelector(q) THEN Eq(Ref(selector), IntLit(ExitValue(q, b, t))) ELSE True

\* createExitTransition
ExitTransition(source, target, pred, condition) ==
    AssignEdge(pred, Exit, condition,
       {Assign(Selector(0), IntLit(ExitValue(cur, source, target))) : q \in {q \in {cur} : HasSelector(q)}}
         \cup {Assign(OutVar(x), Ref(FindVariable(cur, x))) : x \in info[cur].outputs})

-----------------------------------------------------------------------------
(* BlocksToCfa::encode *)

\* The procedures are encoded in the order of a hash map: any order.
BeginProcedure ==
    /\ pc = "encode"
    /\ \E p \in left :
         /\ cur' = p
         /\ rest' = info[p].blocks
         /\ cfa' = [cfa EXCEPT ![p].edges =
                      @ \cup {AssignEdge(Entry, BlockEntry(p, EntryBlock(p)), True, {})}]
    /\ inlined' = Empty /\ counter' = 0
    /\ pc' = "next"
    /\ UNCHANGED <<progVars, declVars, left, blockVars>>

BeginBlock ==
    /\ pc = "next" /\ rest # <<>>
    /\ bb' = Head(rest) /\ rest' = Tail(rest)
    /\ at' = Cardinality(Phis(Func, bb')) + 1
    /\ entry' = BlockEntry(cur, bb') /\ assigns' = {}
    /\ pc' = "inst"
    /\ UNCHANGED <<progVars, declVars, cfa, left, cur, inlined, counter>>

\* The end of encode(): eliminated variables are removed.
EndProcedure ==
    /\ pc = "next" /\ rest = <<>>
    /\ left' = left \ {cur}
    /\ cfa' = [cfa EXCEPT ![cur].vars = @ \ {ValueVar(x) : x \in DOMAIN inlined}]
    /\ pc' = IF left' = {} THEN "connect" ELSE "encode"
    /\ UNCHANGED <<progVars, declVars, cur, rest, inlined, counter, blockVars>>

\* tryToEliminate, for an instruction that is not a call.
MayEliminate(inst, expr) ==
    /\ elim # "off"
    /\ inst.def \notin info[cur].outputs
    /\ expr.op # "undef"
    /\ \/ elim = "aggressive"
       \/ Cardinality(UsesIn(Func, OwnBlocks(cur), inst.def)) <= 1
       \/ \A k \in DOMAIN inst.ops : inst.ops[k] \notin DOMAIN inlined

\* An instruction that computes a value.
EncodeCalc ==
    LET expr == Apply(Inst.op, Operands(Inst))
        v == FindVariable(cur, Inst.def)
    IN  /\ pc = "inst" /\ Inst.kind = "calc"
        /\ IF MayEliminate(Inst, expr)
           THEN inlined' = Extended(inlined, Inst.def, expr) /\ UNCHANGED assigns
           ELSE assigns' = assigns \cup {Assign(v, expr)} /\ UNCHANGED inlined
        /\ pc' = IF NoVar \in expr.reads \cup {v} THEN "abort" ELSE pc
        /\ at' = at + 1
        /\ UNCHANGED <<progVars, declVars, cfa, left, cur, rest, counter, bb, entry>>

\* handleCall for a function without a body that no handler is registered
\* for: its result is undefined.
EncodeUnknownCall ==
    /\ pc = "inst" /\ Inst.kind = "nondet"
    /\ assigns' = assigns \cup {Assign(FindVariable(cur, Inst.def), Undef)}
    /\ at' = at + 1
    /\ UNCHANGED <<pc, progVars, declVars, cfa, procVars, bb, entry>>

\* handleCall for gazer.error_code, which is the last one before the
\* terminator; the error code is left out.
EncodeErrorCall ==
    /\ pc = "inst" /\ Inst.kind = "error"
    /\ at' = at + 1
    /\ pc' = IF BlockExit(cur, bb) \in cfa[cur].err THEN pc ELSE "abort"
    /\ UNCHANGED <<progVars, declVars, cfa, procVars, bb, entry, assigns>>

\* handleAssume and splitCurrentTransition.
EncodeAssume ==
    /\ pc = "inst" /\ Inst.kind = "assume"
    /\ Emit({AssignEdge(entry, Fresh, True, assigns),
             AssignEdge(Fresh, Fresh + 1, Operand(Inst.ops[1]), {})}, 2, pc)
    /\ entry' = Fresh + 1 /\ assigns' = {}
    /\ at' = at + 1
    /\ UNCHANGED <<progVars, declVars, procVars, bb>>

\* handleCall for a function with a body.
EncodeCall ==
    LET callee == mod[Inst.callee]
    IN  /\ pc = "inst" /\ Inst.kind = "call"
        /\ Emit({AssignEdge(entry, Fresh, True, assigns),
                 CallEdge(Fresh, Fresh + 1, True, <<Inst.callee, 0>>,
                          {Assign(ValueVar(callee.args[k]), Operand(Inst.ops[k])) : k \in DOMAIN Inst.ops},
                          {Assign(FindVariable(cur, Inst.def), Ref(RetVal)) :
                             c \in {c \in {callee} : ~c.void}})}, 2, pc)
        /\ entry' = Fresh + 1 /\ assigns' = {}
        /\ at' = at + 1
        /\ UNCHANGED <<progVars, declVars, procVars, bb>>

\* The end of a block: its last transition, before the terminator is handled.
EndOfBlock ==
    /\ pc = "inst" /\ Inst.kind \in Terminators
    /\ Emit({AssignEdge(entry, BlockExit(cur, bb), True, assigns)}, 0, "succ")
    /\ at' = 1
    /\ UNCHANGED <<progVars, declVars, procVars, bb, entry, assigns>>

-----------------------------------------------------------------------------
(* handleTerminator and handleSuccessor *)

\* The condition under which the terminator goes to its successor i.
SuccCondition(i) ==
    LET on == Operand(Term.ops[1])
        Misses[n \in 0 .. Len(Term.succs)] ==
          IF n = 0 THEN True
          ELSE And(Misses[n - 1], NotEq(on, Lit(Term.cases[n])))
    IN  IF Term.kind = "switch"
        THEN IF i = Len(Term.succs) THEN Misses[i - 1]
             ELSE And(Misses[i - 1], Eq(on, Lit(Term.cases[i])))
        ELSE IF Len(Term.succs) = 1 THEN True
        ELSE IF i = 1 THEN on ELSE Not(on)

Succ == Term.succs[at]

AtSuccessor == pc = "succ" /\ Term.kind \in {"br", "switch"} /\ at \in DOMAIN Term.succs

\* The successor is the header of this loop: a recursive call.
CallSelf ==
    /\ AtSuccessor /\ Succ = EntryBlock(cur)
    /\ Emit({AssignEdge(BlockExit(cur, bb), Fresh, SuccCondition(at), {}),
             CallEdge(Fresh, Exit, True, cur, LoopArgs(cur, bb),
                      OutputAssignments(cur) \cup
                        {Assign(Selector(0), Ref(Selector(0))) : p \in {p \in {cur} : HasSelector(p)}})},
            1, pc)
    /\ at' = at + 1
    /\ UNCHANGED <<progVars, declVars, procVars, bb, entry, assigns>>

\* The successor is another block of this procedure.
GoToBlock ==
    /\ AtSuccessor /\ Succ # EntryBlock(cur) /\ Succ \in OwnBlocks(cur)
    /\ Emit({AssignEdge(BlockExit(cur, bb), BlockEntry(cur, Succ), SuccCondition(at),
                        PhiAssignments(bb, Succ))}, 0, pc)
    /\ at' = at + 1
    /\ UNCHANGED <<progVars, declVars, procVars, bb, entry, assigns>>

\* createCallToLoop: the successor is the header of a nested loop.  An exit
\* edge of that loop that also leaves this procedure becomes a transition from
\* the location in front of the call; the PHI nodes behind either kind of exit
\* must have variables here.
CallLoop ==
    LET q == <<cur[1], NestedLoopOf(cur, Succ)>>
        selector == Selector(counter + 1)
        Leave(b, t) ==
          IF t \in OwnBlocks(cur)
          THEN AssignEdge(Fresh, BlockEntry(cur, t), ExitCondition(q, b, t, selector),
                          PhiAssignments(b, t))
          ELSE ExitTransition(b, t, BlockExit(cur, bb), SuccCondition(at))
        exits == {info[q].exits[k] : k \in DOMAIN info[q].exits}
        hasPhis == \A x \in exits : \A a \in PhiAssignments(x[1], x[2]) : a.var # NoVar
    IN  /\ AtSuccessor /\ Succ \notin OwnBlocks(cur) /\ NestedLoopOf(cur, Succ) # 0
        /\ Emit({CallEdge(BlockExit(cur, bb), Fresh, SuccCondition(at), q, LoopArgs(q, bb),
                          OutputAssignments(q) \cup
                            {Assign(selector, Ref(Selector(0))) : p \in {p \in {q} : HasSelector(p)}})}
                  \cup {Leave(x[1], x[2]) : x \in exits},
                1, IF hasPhis THEN pc ELSE "abort")
        /\ counter' = IF HasSelector(q) THEN counter + 1 ELSE counter
        /\ at' = at + 1
        /\ UNCHANGED <<progVars, declVars, left, cur, rest, inlined, bb, entry, assigns>>

\* The successor lies outside of this loop.
LeaveLoop ==
    /\ AtSuccessor /\ Succ \notin OwnBlocks(cur) /\ NestedLoopOf(cur, Succ) = 0
    /\ Emit({ExitTransition(bb, Succ, BlockExit(cur, bb), SuccCondition(at))}, 0, pc)
    /\ at' = at + 1
    /\ UNCHANGED <<progVars, declVars, procVars, bb, entry, assigns>>

AfterSuccessors ==
    /\ pc = "succ" /\ Term.kind \in {"br", "switch"} /\ at > Len(Term.succs)
    /\ pc' = "next"
    /\ UNCHANGED <<progVars, declVars, cfa, procVars, blockVars>>

Return ==
    /\ pc = "succ" /\ Term.kind = "ret"
    /\ Emit({AssignEdge(BlockExit(cur, bb), Exit, True,
                        {Assign(RetVal, Operand(Term.ops[k])) : k \in DOMAIN Term.ops})}, 0, "next")
    /\ UNCHANGED <<progVars, declVars, procVars, blockVars>>

\* Mutant: no transition leaves the block.
UnreachableStops ==
    /\ pc = "succ" /\ Term.kind = "unreachable"
    /\ pc' = "next"
    /\ UNCHANGED <<progVars, declVars, cfa, procVars, blockVars>>

Unreachable ==
    /\ pc = "succ" /\ Term.kind = "unreachable"
    /\ Emit({AssignEdge(BlockExit(cur, bb), Exit, False, {})}, 0, "next")
    /\ UNCHANGED <<progVars, declVars, procVars, blockVars>>

-----------------------------------------------------------------------------
\* The dummy transition to an exit without predecessors, and
\* removeUnreachableLocations.
Connected(c) ==
    LET es == c.edges \cup {e \in {AssignEdge(Entry, Exit, False, {})} :
                              \A d \in c.edges : d.dst # Exit}
        live == ReachWithin({Entry}, es, c.next)
    IN  [c EXCEPT !.locs = live, !.err = @ \cap live, !.edges = {e \in es : e.src \in live}]

\* The end of generate().
Connect ==
    /\ pc = "connect"
    /\ cfa' = [p \in DOMAIN cfa |-> Connected(cfa[p])]
    /\ pc' = "done"
    /\ UNCHANGED <<progVars, declVars, procVars, blockVars>>

Done == pc \in {"done", "abort"} /\ UNCHANGED vars

Next == \/ CanonizeExit \/ CanonizeNext \/ AnalyzeLoops
        \/ DeclareLoop \/ DeclareFunction
        \/ BeginProcedure \/ BeginBlock \/ EndProcedure
        \/ EncodeCalc \/ EncodeUnknownCall \/ EncodeErrorCall \/ EncodeAssume \/ EncodeCall
        \/ EndOfBlock \/ CallSelf \/ GoToBlock \/ CallLoop \/ LeaveLoop \/ AfterSuccessors
        \/ Return \/ Unreachable
        \/ Connect \/ Done

Spec == Init /\ [][Next]_vars

-----------------------------------------------------------------------------
(* Properties *)

Steps == {"canonize", "declare", "encode", "next", "inst", "succ", "connect", "done", "abort"}

\* The generated automata are automata: transitions run between locations of
\* their own automaton, never into the entry or out of the exit, and call
\* procedures that exist.
TypeOK ==
    /\ pc \in Steps
    /\ visited \subseteq Nat /\ left \subseteq DOMAIN info
    /\ DOMAIN cfa = DOMAIN info
    /\ \A p \in DOMAIN cfa :
         /\ {Entry, Exit} \cup cfa[p].err \subseteq cfa[p].locs
         /\ cfa[p].locs \subseteq 0 .. cfa[p].next - 1
         /\ \A e \in cfa[p].edges :
              /\ e.src \in cfa[p].locs \ {Exit}
              /\ e.dst \in cfa[p].locs \ {Entry}
              /\ e.callee \in DOMAIN info \cup {NoProc}

\* No assertion of the translation fails and it follows no null pointer.
NoAssertionFails == pc # "abort"

\* When the translation is done, each automaton is a DAG.
IsAcyclic(c) == \A l \in c.locs : l \notin ReachWithin({e.dst : e \in {e \in c.edges : e.src = l}},
                                                      c.edges, Cardinality(c.locs))

\* What the bounded model checker expects of the automata: transitions between
\* their own locations, no cycle, every location reachable from the entry, and
\* the exit reachable from every location (the comment in
\* removeIrrelevantLocations).
CfaIsConnected ==
    /\ TypeOK
    /\ pc = "done" =>
      \A p \in DOMAIN cfa :
        LET c == cfa[p]
        IN  /\ IsAcyclic(c)
            /\ ReachWithin({Entry}, c.edges, c.next) = c.locs
            /\ ReachWithin({Exit}, Backwards(c.edges), c.next) = c.locs

\* Every call gives each input of the callee exactly one value and reads only
\* its outputs, whatever was declared for it from another loop's point of view.
CallsMatchInterfaces ==
    \A p \in DOMAIN cfa : \A e \in cfa[p].edges :
      e.callee # NoProc =>
        /\ {a.var : a \in e.ins} = InputVars(e.callee)
        /\ \A a, b \in e.ins : a.var = b.var => a = b
        /\ {a.val.var : a \in e.outs} = OutputVars(e.callee)
        /\ \A a, b \in e.outs : a.var = b.var => a = b

=============================================================================
