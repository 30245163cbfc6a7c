-------------------------------- MODULE Bmc --------------------------------
(***************************************************************************)
(* The bounded model checker of gazer-bmc                                  *)
(* (tools/gazer-bmc/Verifier/BoundedModelChecker.cpp), with the path       *)
(* condition and dominator algorithms it uses                              *)
(* (src/Automaton/CfaUtils.cpp).                                           *)
(*                                                                         *)
(* The engine works on one graph, the main automaton.  Calls in it are     *)
(* first replaced by FALSE (an under-approximation: what is satisfiable is *)
(* a real error), then by TRUE (an over-approximation: what is             *)
(* unsatisfiable is safe); the calls a spurious counterexample runs        *)
(* through are inlined and the two steps are repeated on the part of the   *)
(* graph between the common dominator and post-dominator of the remaining  *)
(* calls.                                                                  *)
(*                                                                         *)
(* A path condition is kept by what it means: for each input the           *)
(* assignments of the predecessor variables that satisfy it, an assignment *)
(* being a set of triples <<encoding, location, source>>.                  *)
(***************************************************************************)
EXTENDS CfaSystem

CONSTANTS Programs,        \* the automata systems to check
          MaxBounds,       \* values of BmcSettings.maxBound
          EagerUnrolls,    \* values of BmcSettings.eagerUnroll
          NoDomPushes,     \* values of -bmc-no-dom-push
          NoPostDomPushes, \* values of -bmc-no-postdom-push
          MaxUnknowns,     \* bound: how often the solver may answer UNKNOWN
          Null             \* a null Location pointer

ASSUME ProgramsAssumption == \A sys \in Programs : IsSystem(sys)
ASSUME NullAssumption == Null \notin Nat
ASSUME SettingsAssumption == /\ MaxBounds \subseteq Nat /\ EagerUnrolls \subseteq Nat
                             /\ NoDomPushes \subseteq BOOLEAN /\ NoPostDomPushes \subseteq BOOLEAN
                             /\ MaxUnknowns \in Nat

VARIABLES
    pc,          \* where BoundedModelCheckerImpl::check is
    prog,        \* mSystem: the automata, of which the main one is copied into edges
    maxBound, eagerUnroll, noDomPush, noPostDomPush,     \* mSettings
    nodes,       \* the locations of mRoot
    edges,       \* the transitions of mRoot
    nextLoc,     \* mRoot's next location number, Cfa::mLocationIdx
    nextEdge,    \* the next transition identity
    error,       \* mError
    origin,      \* mInlinedLocations
    topoSort,    \* mTopoSortMap
    topo,        \* mTopo
    locNum,      \* mLocNumbers
    calls,       \* mCalls
    openCalls,   \* mOpenCalls
    asserted,    \* the formulas asserted in mSolver
    marks,       \* for each open solver scope, how many formulas precede it
    preds,       \* mPredecessors, a ScopedCache
    unknowns,    \* how often the solver has answered UNKNOWN
    encodings,   \* PathConditionCalculator::mPredIdx
    bound, top, bottom, lca, unhandled, skipUnderApprox,
    work,        \* callsToInline
    cex,         \* the last counterexample read from a model
    verdict      \* the VerificationResult

graphVars == <<nodes, edges, nextLoc, nextEdge, origin, topo, locNum, calls>>
solverVars == <<asserted, marks, unknowns, preds, encodings>>
settings == <<maxBound, eagerUnroll, noDomPush, noPostDomPush>>
fixedVars == <<prog, settings, error, topoSort>>
loopVars == <<openCalls, bound, top, bottom, lca, unhandled, skipUnderApprox, work, cex>>
vars == <<pc, verdict, graphVars, solverVars, fixedVars, loopVars>>

NoCex == [input |-> Null, locs |-> <<>>]

\* "Abort" is an assertion or llvm_unreachable of check() that fires.
Statuses == {"Running", "Success", "Fail", "BoundReached", "Unknown", "Abort"}

\* The program counter: the step of check() that comes next.
Steps == {"errorField", "remove", "sort", "eager", "eagerInline",
          "under", "start", "over", "inline", "done"}

-----------------------------------------------------------------------------
(* The graph *)

Incoming(l) == {e \in edges : e.dst = l}
Outgoing(l) == {e \in edges : e.src = l}
CallEdges == {e \in edges : IsCall(e)}

\* The number of a location in an order.
PositionOf(q, l) == CHOOSE i \in DOMAIN q : q[i] = l

\* CallInfo::getCost: how often the callee occurs on its own call chain.
Cost(chain) == Cardinality({k \in DOMAIN chain : chain[k] = chain[Len(chain)]})

\* Mutant: `<' where the code has `<='.
CheapStrict(cs, b) == {c \in DOMAIN cs : Cost(cs[c].chain) < b}

\* The calls that bound b allows to inline.
Cheap(cs, b) == {c \in DOMAIN cs : Cost(cs[c].chain) <= b}

\* Mutant: an over-approximation is not taken back.
ApproximateSticky(cs, S) ==
    [c \in DOMAIN cs |-> [approx |-> c \in S \/ cs[c].approx, chain |-> cs[c].chain]]

\* The calls in S are replaced by TRUE, the others by FALSE.
Approximate(cs, S) == [c \in DOMAIN cs |-> [approx |-> c \in S, chain |-> cs[c].chain]]

\* Mutant: calls beyond the bound are not counted.
UnhandledNone(cs, open) == {}

\* numUnhandledCallSites counts these.
Unhandled(cs, open) == DOMAIN cs \ open

-----------------------------------------------------------------------------
(* PathConditionCalculator::encode *)

(***************************************************************************)
(* The formula for the paths from location `from' to location `to' in the  *)
(* stretch of the topological order between them, with the calls as cs     *)
(* approximates them, and what it stores for each location of the stretch: *)
(* its only predecessor, or the predecessor variable of this encoding.     *)
(***************************************************************************)
Encode(from, to, cs, enc) ==
    LET s == locNum[from]
        t == locNum[to]
        In(l) == {e \in Incoming(l) : locNum[e.src] >= s}
        Holds(e, w) == w \in e.guard /\ (IsCall(e) => cs[e.id].approx)
        Disc(l, e) == IF Cardinality(In(l)) = 1 THEN {} ELSE {<<enc, l, e.src>>}
        Dp[i \in s .. t] ==     \* the table dp, up to topo[i]
          IF i = s THEN <<[w \in World |-> {{}}]>>
          ELSE LET d == Dp[i - 1]
                   l == topo[i]
               IN  Append(d, [w \in World |->
                      UNION {{a \cup Disc(l, e) : a \in d[locNum[e.src] - s + 1][w]} :
                             e \in {f \in In(l) : Holds(f, w)}}])
        Stretch == {l \in nodes : s < locNum[l] /\ locNum[l] <= t /\ In(l) # {}}
    IN  [formula |-> Dp[t][t - s + 1],
         preds |-> [l \in Stretch |->
                      [disc |-> IF Cardinality(In(l)) = 1 THEN 0 ELSE enc,
                       srcs |-> {e.src : e \in In(l)}]]]

-----------------------------------------------------------------------------
(* Common dominators, over the topological order *)

Highest(S) == CHOOSE i \in S : \A j \in S : j <= i
Lowest(S) == CHOOSE i \in S : \A j \in S : i <= j

Last(T) == Highest({locNum[e.src] : e \in T})
First(T) == Lowest({locNum[e.src] : e \in T})

\* Mutant: the source of the last target, whatever paths avoid it.
LastTarget(targets, start) == IF targets = {} THEN Null ELSE topo[Last(targets)]

\* findLowestCommonDominator: the last location that every path from start
\* to a transition in targets runs through.
FindLowestCommonDominator(targets, start) ==
    IF targets = {} THEN Null ELSE
    LET s == locNum[start]
        Idx == s .. Last(targets)
        Dom[i \in Idx] ==     \* the pairs <<i, d>> where topo[d] dominates topo[i]
          IF i = s THEN {<<s, s>>}
          ELSE LET dom == Dom[i - 1]
               IN  dom \cup {<<i, i>>} \cup
                   {<<i, d>> : d \in {d \in Idx : \A e \in Incoming(topo[i]) :
                                      locNum[e.src] >= s => <<locNum[e.src], d>> \in dom}}
        all == Dom[Last(targets)]
    IN  topo[Highest({d \in Idx : \A e \in targets : <<locNum[e.src], d>> \in all})]

\* findHighestCommonPostDominator: the first location that every path from a
\* transition in targets to start runs through.
FindHighestCommonPostDominator(targets, start) ==
    IF targets = {} THEN Null ELSE
    LET s == locNum[start]
        Idx == First(targets) + 1 .. s
        Dom[i \in Idx] ==     \* the pairs <<i, d>> where topo[d] post-dominates topo[i]
          IF i = s THEN {<<s, s>>}
          ELSE LET dom == Dom[i + 1]
               IN  dom \cup {<<i, i>>} \cup
                   {<<i, d>> : d \in {d \in Idx : \A e \in Outgoing(topo[i]) :
                                      locNum[e.dst] <= s => <<locNum[e.dst], d>> \in dom}}
        all == Dom[First(targets) + 1]
    IN  topo[Lowest({d \in Idx : \A e \in targets : <<locNum[e.dst], d>> \in all})]

\* Mutant: the start node when there is no call, as findLowestCommonDominator's
\* comment has it.
AncestorOrStart(fwd, bwd) ==
    LET targets == {e \in edges : e.id \in DOMAIN calls}
    IN  <<IF targets = {} THEN fwd ELSE FindLowestCommonDominator(targets, fwd),
          FindHighestCommonPostDominator(targets, bwd)>>

\* Mutant: start and target stay where they are.
AncestorFixed(fwd, bwd) ==
    IF DOMAIN calls = {} THEN <<Null, Null>> ELSE <<fwd, bwd>>

\* findCommonCallAncestor
FindCommonCallAncestor(fwd, bwd) ==
    LET targets == {e \in edges : e.id \in DOMAIN calls}
    IN  <<IF noDomPush THEN fwd ELSE FindLowestCommonDominator(targets, fwd),
          IF noPostDomPush THEN bwd ELSE FindHighestCommonPostDominator(targets, bwd)>>

-----------------------------------------------------------------------------
(* The solver (external: Z3), and reading a counterexample from its model *)

SolverStatus == {"SAT", "UNSAT", "UNKNOWN"}

Satisfying(fs) == {w \in World : \A k \in DOMAIN fs : fs[k][w] # {}}

\* Solver::run, with the formulas fs asserted, may give this answer.
Run(fs, status) ==
    \/ /\ status = IF Satisfying(fs) = {} THEN "UNSAT" ELSE "SAT"
       /\ UNCHANGED unknowns
    \/ /\ status = "UNKNOWN" /\ unknowns < MaxUnknowns
       /\ unknowns' = unknowns + 1

\* The models of fs: an input and values for the predecessor variables.
Models(fs) ==
    LET M[k \in 0 .. Len(fs)] ==
          IF k = 0 THEN {[input |-> w, disc |-> {}] : w \in World}
          ELSE UNION {{[input |-> m.input, disc |-> m.disc \cup a] : a \in fs[k][m.input]} :
                      m \in M[k - 1]}
    IN  M[Len(fs)]

\* ScopedCache::get: the scopes of ps that know location l; the last one counts.
Known(ps, l) == {k \in DOMAIN ps : l \in DOMAIN ps[k]}

\* The predecessors of l that the model m allows, as mPredecessors has them.
PredecessorsIn(m, ps, l) ==
    LET p == ps[Highest(Known(ps, l))][l]
    IN  {s \in p.srcs : p.disc = 0 \/ <<p.disc, l, s>> \in m.disc}

\* cex_iterator: from the error location backwards while predecessors are known.
ReadCex(m, ps) ==
    LET Walk[k \in 1 .. Cardinality(nodes)] ==
          IF k = 1 THEN <<error>>
          ELSE LET q == Walk[k - 1]
                   l == q[Len(q)]
               IN  IF \/ Len(q) < k - 1
                      \/ Known(ps, l) = {}
                      \/ PredecessorsIn(m, ps, l) = {}
                   THEN q
                   ELSE Append(q, CHOOSE s \in PredecessorsIn(m, ps, l) : TRUE)
    IN  [input |-> m.input, locs |-> Walk[Cardinality(nodes)]]

\* The transition cex_iterator::advance takes for a step from src to dst: the
\* first one of the incoming list.
CexEdge(src, dst) ==
    CHOOSE e \in edges : /\ e.src = src /\ e.dst = dst
                         /\ \A f \in edges : f.src = src /\ f.dst = dst => e.id <= f.id

\* The elements of the list q that are in S, in their order.
Filtered(q, S) ==
    LET F[k \in 0 .. Len(q)] ==
          IF k = 0 THEN <<>>
          ELSE IF q[k] \in S THEN Append(F[k - 1], q[k]) ELSE F[k - 1]
    IN  F[Len(q)]

\* findOpenCallsInCex, from the error location backwards.
FindOpenCallsInCex(c, os) ==
    Filtered([k \in 1 .. Len(c.locs) - 1 |-> CexEdge(c.locs[k + 1], c.locs[k]).id], os)

-----------------------------------------------------------------------------
(* ScopedCache::insert for a whole encoding *)
Insert(scope, new) ==
    [l \in DOMAIN scope \cup DOMAIN new |-> IF l \in DOMAIN new THEN new[l] ELSE scope[l]]

InsertLast(ps, new) == [ps EXCEPT ![Len(ps)] = Insert(@, new)]

EmptyScope == [l \in {} |-> Null]

Finish(v) == pc' = "done" /\ verdict' = v

-----------------------------------------------------------------------------
(* Inlining *)

\* Mutant: the target of the call is not moved.
ShiftedAfter(n, pos, k) == IF n <= pos THEN n ELSE n + k

\* The number of a location when k locations are inserted at position pos.
Shifted(n, pos, k) == IF n < pos THEN n ELSE n + k

\* Mutant: an inlined call stays in mCalls.
RemainingKept(cs, id) == DOMAIN cs

\* mCalls.erase(call)
Remaining(cs, id) == DOMAIN cs \ {id}

\* The identity that the copy of the callee's transition k gets: the
\* transitions to the error goal are created before it.
CopyId(c, k) == nextEdge + prog[c.callee].n + k

\* Mutant: the guard is not rewritten.
CopiedEdgeUnrewritten(c, k) ==
    LET e == prog[c.callee].edges[k]
    IN  [id |-> CopyId(c, k), src |-> nextLoc + e.src, dst |-> nextLoc + e.dst,
         guard |-> e.guard,
         callee |-> e.callee, arg |-> [w \in World |-> e.arg[c.arg[w]]]]

\* Transition k of the callee of c, between the copies of its locations, with
\* its guard and argument rewritten to the caller's input.
CopiedEdge(c, k) ==
    LET e == prog[c.callee].edges[k]
    IN  [id |-> CopyId(c, k), src |-> nextLoc + e.src, dst |-> nextLoc + e.dst,
         guard |-> {w \in World : c.arg[w] \in e.guard},
         callee |-> e.callee, arg |-> [w \in World |-> e.arg[c.arg[w]]]]

\* From the copy of error location l to the error goal, from the call to the
\* copy of the entry, and from the copy of the exit to the target of the call.
ToErrorEdge(c, l) == AssignEdge(nextEdge + 1 + l, nextLoc + l, error, World)
EnterEdge(c) ==
    AssignEdge(CopyId(c, Len(prog[c.callee].edges) + 1), c.src, nextLoc + Entry, c.guard)
LeaveEdge(c) ==
    AssignEdge(CopyId(c, Len(prog[c.callee].edges) + 2), nextLoc + Exit, c.dst, World)

InlinedEdges(c) == {CopiedEdge(c, k) : k \in DOMAIN prog[c.callee].edges}
                     \cup {ToErrorEdge(c, l) : l \in prog[c.callee].err}
                     \cup {EnterEdge(c), LeaveEdge(c)}

\* The positions of the calls in the callee.
CopiedCalls(c) == {k \in DOMAIN prog[c.callee].edges : IsCall(prog[c.callee].edges[k])}

\* q with s put in front of its position pos.
Spliced(q, pos, s) == SubSeq(q, 1, pos - 1) \o s \o SubSeq(q, pos, Len(q))

(***************************************************************************)
(* inlineCallIntoRoot and the mCalls.erase(call) that follows each use of  *)
(* it.  The locations of the callee are copied behind the existing ones    *)
(* and its topological order is put in front of the target of the call.    *)
(***************************************************************************)
InlineCallIntoRoot(c) ==
    LET cfa == prog[c.callee]
        pos == locNum[c.dst]
        sorted == topoSort[c.callee]
    IN  /\ edges' = (edges \ {c}) \cup InlinedEdges(c)
        /\ nodes' = nodes \cup nextLoc .. nextLoc + cfa.n - 1
        /\ nextLoc' = nextLoc + cfa.n
        /\ nextEdge' = CopyId(c, Len(cfa.edges) + 2)
        /\ origin' = [l \in DOMAIN origin \cup nextLoc .. nextLoc + cfa.n - 1 |->
                        IF l >= nextLoc THEN <<c.callee, l - nextLoc>> ELSE origin[l]]
        /\ topo' = Spliced(topo, pos, [i \in DOMAIN sorted |-> nextLoc + sorted[i]])
        /\ locNum' = [l \in nodes' |->
                        IF l >= nextLoc
                        THEN pos - 1 + PositionOf(sorted, l - nextLoc)
                        ELSE Shifted(locNum[l], pos, Len(sorted))]
        /\ calls' = [i \in Remaining(calls, c.id) \cup {CopyId(c, k) : k \in CopiedCalls(c)} |->
                       IF i <= nextEdge THEN calls[i]
                       ELSE [approx |-> FALSE,
                             chain |-> Append(calls[c.id].chain, cfa.edges[i - CopyId(c, 0)].callee)]]

-----------------------------------------------------------------------------
(* check(): preparation *)

Init ==
    /\ pc = "errorField"
    /\ prog \in Programs /\ maxBound \in MaxBounds /\ eagerUnroll \in EagerUnrolls
    /\ noDomPush \in NoDomPushes /\ noPostDomPush \in NoPostDomPushes
    /\ LET main == prog[Main]
       IN  /\ edges = {[id |-> k, src |-> main.edges[k].src, dst |-> main.edges[k].dst,
                        guard |-> main.edges[k].guard, callee |-> main.edges[k].callee,
                        arg |-> main.edges[k].arg] : k \in DOMAIN main.edges}
           /\ nodes = LocsOf(main)
           /\ nextLoc = main.n
           /\ nextEdge = Len(main.edges)
    /\ error = Null /\ top = Null /\ bottom = Null /\ lca = <<Null, Null>>
    /\ origin = EmptyScope /\ locNum = EmptyScope /\ topo = <<>> /\ topoSort = EmptyScope
    /\ calls = EmptyScope /\ openCalls = {} /\ work = <<>>
    /\ asserted = <<>> /\ marks = <<>> /\ preds = <<EmptyScope>> /\ encodings = 1 /\ unknowns = 0
    /\ bound = 0 /\ unhandled = 0 /\ skipUnderApprox = FALSE
    /\ cex = NoCex /\ verdict = "Running"

\* initializeErrorField
InitializeErrorField ==
    /\ pc = "errorField"
    /\ LET main == prog[Main]
           goal == IF main.err = {}
                   THEN {AssignEdge(nextEdge + 1, Entry, nextLoc, {})}
                   ELSE {AssignEdge(nextEdge + 1 + l, l, nextLoc, World) : l \in main.err}
           leave == AssignEdge(nextEdge + 1 + nextLoc, nextLoc, Exit, {})
       IN  IF \A p \in Procs : prog[p].err = {}
           THEN Finish("Success") /\ UNCHANGED <<error, nodes, edges, nextLoc, nextEdge>>
           ELSE /\ error' = nextLoc
                /\ nodes' = nodes \cup {nextLoc}
                /\ edges' = edges \cup goal \cup {leave}
                /\ nextLoc' = nextLoc + 1
                /\ nextEdge' = nextEdge + 1 + nextLoc
                /\ pc' = "remove"
                /\ UNCHANGED verdict
    /\ UNCHANGED <<prog, settings, topoSort, origin, topo, locNum, calls, solverVars, loopVars>>

\* What the inverse depth-first search from mError visits: the locations in
\* every set that holds mError and is closed under predecessors; and the exit.
Relevant ==
    {l \in nodes : \A S \in SUBSET nodes :
        error \in S /\ (\A e \in edges : e.dst \in S => e.src \in S) => l \in S}
      \cup {Exit}

\* removeIrrelevantLocations
RemoveIrrelevantLocations ==
    /\ pc = "remove"
    /\ nodes' = Relevant
    /\ edges' = {e \in edges : e.src \in nodes' /\ e.dst \in nodes'}
    /\ pc' = "sort"
    /\ UNCHANGED <<verdict, nextLoc, nextEdge, origin, topo, locNum, calls,
                   solverVars, fixedVars, loopVars>>

\* createTopologicalSorts, and the initial call approximations.  Of the order
\* that createTopologicalSort computes only its being topological is used.
CreateTopologicalSorts ==
    /\ pc = "sort"
    /\ \E s \in TopologicalOrders(nodes, edges) :
          /\ IsTopologicalOrder(s, nodes, edges)
          /\ topo' = s
          /\ locNum' = [l \in nodes |-> PositionOf(s, l)]
    /\ \E f \in [Procs \ {Main} -> UNION {TopologicalOrders(LocsOf(prog[p]), EdgesOf(prog[p])) :
                                         p \in Procs \ {Main}}] :
          /\ \A p \in Procs \ {Main} :
                IsTopologicalOrder(f[p], LocsOf(prog[p]), EdgesOf(prog[p]))
          /\ topoSort' = f
    /\ calls' = [i \in {e.id : e \in CallEdges} |->
                   [approx |-> FALSE, chain |-> <<(CHOOSE e \in edges : e.id = i).callee>>]]
    /\ IF eagerUnroll > maxBound
       THEN Finish("Unknown") /\ UNCHANGED bound
       ELSE pc' = "eager" /\ bound' = 1 /\ UNCHANGED verdict
    /\ UNCHANGED <<nodes, edges, nextLoc, nextEdge, origin, solverVars, prog, settings, error,
                   openCalls, top, bottom, lca, unhandled, skipUnderApprox, work, cex>>

-----------------------------------------------------------------------------
(* check(): eager unrolling *)

\* The start of an iteration, or the end of the eager phase.
EagerIteration ==
    /\ pc = "eager"
    /\ IF bound <= eagerUnroll
       THEN /\ openCalls' = Cheap(calls, bound)
            /\ pc' = "eagerInline"
            /\ UNCHANGED <<verdict, bound, top, bottom>>
       ELSE /\ top' = Entry /\ bottom' = error
            /\ IF bound <= maxBound
               THEN pc' = "under" /\ UNCHANGED verdict
               ELSE Finish("BoundReached")
            /\ UNCHANGED <<bound, openCalls>>
    /\ UNCHANGED <<graphVars, solverVars, fixedVars, lca, unhandled, skipUnderApprox, work, cex>>

\* Mutant: the bound is not increased.
EagerInlineForever ==
    /\ pc = "eagerInline"
    /\ IF openCalls = {}
       THEN pc' = "eager" /\ UNCHANGED <<graphVars, openCalls, bound>>
       ELSE /\ \E c \in {e \in CallEdges : e.id \in openCalls} :
                  InlineCallIntoRoot(c) /\ openCalls' = openCalls \ {c.id}
            /\ UNCHANGED <<pc, bound>>
    /\ UNCHANGED <<verdict, solverVars, fixedVars, top, bottom, lca, unhandled,
                   skipUnderApprox, work, cex>>

\* The open calls are inlined in the order of a hash set: any order.
EagerInline ==
    /\ pc = "eagerInline"
    /\ IF openCalls = {}
       THEN pc' = "eager" /\ bound' = bound + 1 /\ UNCHANGED <<graphVars, openCalls>>
       ELSE /\ \E c \in {e \in CallEdges : e.id \in openCalls} :
                  InlineCallIntoRoot(c) /\ openCalls' = openCalls \ {c.id}
            /\ UNCHANGED <<pc, bound>>
    /\ UNCHANGED <<verdict, solverVars, fixedVars, top, bottom, lca, unhandled,
                   skipUnderApprox, work, cex>>

-----------------------------------------------------------------------------
(* check(): the refinement loop *)

\* Mutant: the solver scope is not opened.
PushNothing == UNCHANGED marks

\* Solver::push
Push == marks' = Append(marks, Len(asserted))

\* Solver::pop, undoing the last push.
Popped == SubSeq(asserted, 1, marks[Len(marks)])
ButLast(s) == SubSeq(s, 1, Len(s) - 1)

\* Under-approximation.  The predecessors are recorded before push(), the
\* formula after it; an answer other than SAT drops only the formula.
UnderApproximate ==
    LET cs == Approximate(calls, {})
        enc == Encode(top, bottom, cs, encodings)
        fs == Append(asserted, enc.formula)
        ps == InsertLast(preds, enc.preds)
    IN  /\ pc = "under" /\ ~skipUnderApprox
        /\ calls' = cs
        /\ encodings' = encodings + 1
        /\ \E status \in SolverStatus :
             /\ Run(fs, status)
             /\ IF status = "SAT"
                THEN /\ Push /\ asserted' = fs /\ preds' = Append(ps, EmptyScope)
                     /\ \E m \in Models(fs) : cex' = ReadCex(m, preds')
                     /\ Finish("Fail")
                ELSE /\ preds' = ps
                     /\ pc' = "start"
                     /\ UNCHANGED <<verdict, asserted, marks, cex>>
        /\ UNCHANGED <<nodes, edges, nextLoc, nextEdge, origin, topo, locNum, fixedVars, openCalls,
                       bound, top, bottom, lca, unhandled, skipUnderApprox, work>>

SkipUnderApproximation ==
    /\ pc = "under" /\ skipUnderApprox
    /\ skipUnderApprox' = FALSE
    /\ pc' = "start"
    /\ UNCHANGED <<verdict, graphVars, solverVars, fixedVars, openCalls, bound, top, bottom,
                   lca, unhandled, work, cex>>
\* The common ancestors of the remaining calls become the new start and
\* target; what lies before and after them is asserted for good.
SetStartAndTarget ==
    LET new == FindCommonCallAncestor(top, bottom)
        before == Encode(top, new[1], calls, encodings)
        after == Encode(new[2], bottom, calls, encodings + 1)
        fs == asserted \o <<before.formula, after.formula>>
    IN  /\ pc = "start"
        /\ IF new[1] = Null
           THEN /\ Push
                /\ preds' = Append(preds, EmptyScope)
                /\ lca' = <<top, bottom>>
                /\ pc' = "over"
                /\ UNCHANGED <<asserted, unknowns, encodings, verdict>>
           ELSE IF new[2] = Null
           THEN Finish("Abort") /\ UNCHANGED <<solverVars, lca>>
           ELSE /\ Push
                /\ asserted' = fs
                /\ preds' = Append(preds, Insert(before.preds, after.preds))
                /\ encodings' = encodings + 2
                /\ lca' = new
                /\ \E status \in SolverStatus :
                     /\ Run(fs, status)
                     /\ IF status = "UNSAT" THEN Finish("Success")
                        ELSE pc' = "over" /\ UNCHANGED verdict
        /\ UNCHANGED <<graphVars, fixedVars, openCalls, bound, top, bottom, unhandled,
                       skipUnderApprox, work, cex>>

(***************************************************************************)
(* Over-approximation.  An UNKNOWN answer runs into llvm_unreachable: a    *)
(* build with assertions stops, one without may take the UNSAT branch.     *)
(***************************************************************************)
OverApproximate ==
    LET open == Cheap(calls, bound)
        cs == Approximate(calls, open)
        enc == Encode(lca[1], lca[2], cs, encodings)
        fs == Append(asserted, enc.formula)
        left == Cardinality(Unhandled(calls, open))
    IN  /\ pc = "over"
        /\ calls' = cs /\ openCalls' = open /\ unhandled' = left
        /\ encodings' = encodings + 1
        /\ \E status \in SolverStatus :
           /\ Run(fs, status)
           /\ \/ /\ status = "SAT"
                 /\ Push /\ asserted' = fs /\ preds' = Append(preds, enc.preds)
                 /\ \E m \in Models(fs) : cex' = ReadCex(m, preds')
                 /\ work' = FindOpenCallsInCex(cex', open)
                 /\ pc' = "inline"
                 /\ UNCHANGED <<verdict, bound, top, bottom, skipUnderApprox>>
              \/ /\ status # "SAT" /\ left > 0 /\ bound < maxBound
                 /\ top' = lca[1] /\ bottom' = lca[2]
                 /\ skipUnderApprox' = TRUE
                 /\ bound' = bound + 1
                 /\ pc' = "under"
                 /\ UNCHANGED <<verdict, asserted, marks, preds, work, cex>>
              \/ /\ status # "SAT" /\ (left = 0 \/ bound = maxBound)
                 /\ Push /\ asserted' = fs /\ preds' = Append(preds, enc.preds)
                 /\ Finish(IF left = 0 THEN "Success" ELSE "BoundReached")
                 /\ UNCHANGED <<bound, top, bottom, skipUnderApprox, work, cex>>
              \/ /\ status = "UNKNOWN"
                 /\ Push /\ asserted' = fs /\ preds' = Append(preds, enc.preds)
                 /\ Finish("Abort")
                 /\ UNCHANGED <<bound, top, bottom, skipUnderApprox, work, cex>>
        /\ UNCHANGED <<nodes, edges, nextLoc, nextEdge, origin, topo, locNum, fixedVars, lca>>

\* The calls of the counterexample are inlined from the back of the list,
\* each followed at once by the new calls that the bound still allows.
InlineNext ==
    /\ pc = "inline" /\ work # <<>>
    /\ \E c \in CallEdges :
          LET new == Cheap(calls', bound) \ DOMAIN calls
              copied == [k \in DOMAIN prog[c.callee].edges |-> CopyId(c, k)]
          IN  /\ c.id = work[Len(work)]
              /\ InlineCallIntoRoot(c)
              /\ openCalls' = openCalls \ {c.id}
              /\ work' = ButLast(work) \o Filtered(copied, new)
    /\ UNCHANGED <<pc, verdict, solverVars, fixedVars, bound, top, bottom, lca, unhandled,
                   skipUnderApprox, cex>>

\* The scope of the over-approximation is dropped, the one below it stays.
FinishInlining ==
    /\ pc = "inline" /\ work = <<>>
    /\ asserted' = Popped /\ marks' = ButLast(marks) /\ preds' = ButLast(preds)
    /\ top' = lca[1] /\ bottom' = lca[2]
    /\ pc' = "under"
    /\ UNCHANGED <<verdict, graphVars, unknowns, encodings, fixedVars, openCalls, bound, lca, unhandled,
                   skipUnderApprox, work, cex>>

Done == pc = "done" /\ UNCHANGED vars

Next == \/ InitializeErrorField \/ RemoveIrrelevantLocations \/ CreateTopologicalSorts
        \/ EagerIteration \/ EagerInline
        \/ UnderApproximate \/ SkipUnderApproximation
        \/ SetStartAndTarget \/ OverApproximate \/ InlineNext \/ FinishInlining
        \/ Done

(***************************************************************************)
(* One thread runs check() to its end.  This is weak fairness of Next with *)
(* `pc # "done"' in the place of ENABLED <<Next>>_vars: before the end     *)
(* some step is always possible, which the deadlock check shows.           *)
(***************************************************************************)
Fairness == []<>(pc = "done") \/ []<><<TRUE>>_vars

Spec == Init /\ [][Next]_vars /\ Fairness

-----------------------------------------------------------------------------
(* Properties *)

Sorted == topo # <<>>

\* The state of the engine has the types of its C++ fields, and the solver
\* has one scope less than the predecessor cache, whose root never goes.
TypeOK ==
    /\ pc \in Steps /\ verdict \in Statuses
    /\ (pc = "done") = (verdict # "Running")
    /\ prog \in Programs
    /\ nextLoc \in Nat /\ nextEdge \in Nat
    /\ edges \subseteq Edge
    /\ error \in Nat \cup {Null}
    /\ topo \in Seq(Nat)
    /\ \A i \in DOMAIN calls : calls[i].approx \in BOOLEAN /\ calls[i].chain \in Seq(Procs)
    /\ openCalls \subseteq Nat /\ work \in Seq(Nat)
    /\ encodings \in Nat /\ unknowns \in Nat /\ bound \in Nat /\ unhandled \in Nat
    /\ skipUnderApprox \in BOOLEAN
    /\ Len(preds) = Len(marks) + 1

\* The location numbers and the topological order stay each other's inverse
\* and every transition goes forward in it, however many callees have been
\* spliced in: what encode and the dominator algorithms assert.
OrderIsTopological ==
    Sorted =>
      /\ DOMAIN locNum = nodes
      /\ \A i \in DOMAIN topo : topo[i] \in nodes /\ locNum[topo[i]] = i
      /\ \A l \in nodes : locNum[l] \in DOMAIN topo /\ topo[locNum[l]] = l
      /\ \A e \in edges : /\ e.src \in nodes /\ e.dst \in nodes
                           /\ locNum[e.src] < locNum[e.dst]

\* mCalls has an entry for exactly the call transitions left in the graph, and
\* the last procedure of the entry's chain is the one the transition calls.
CallsAreExact ==
    Sorted => /\ DOMAIN calls = {e.id : e \in CallEdges}
              /\ \A e \in CallEdges : calls[e.id].chain[Len(calls[e.id].chain)] = e.callee

\* Reference: d lies on every path from a to b.
OnEveryPath(d, a, b) ==
    d \in {a, b} \/ b \notin ReachWithin({a}, {e \in edges : d \notin {e.src, e.dst}},
                                       Cardinality(nodes))

\* The new start lies on every path from the old one to a remaining call and
\* the new target on every path from such a call to the old target, and no
\* location between the two does: the comment above findCommonCallAncestor.
RegionIsTight ==
    pc = "over" /\ DOMAIN calls # {} /\ ~noDomPush /\ ~noPostDomPush =>
      LET dom == {l \in nodes : \A c \in CallEdges : OnEveryPath(l, top, c.src)}
          pdom == {l \in nodes : \A c \in CallEdges : OnEveryPath(l, c.dst, bottom)}
      IN  /\ lca[1] \in dom /\ \A l \in dom : locNum[l] <= locNum[lca[1]]
          /\ lca[2] \in pdom /\ \A l \in pdom : locNum[lca[2]] <= locNum[l]

\* A verdict Success means that no input leads the program to an error.
SuccessIsSound == verdict = "Success" => ErrorInputs(prog) = {}

\* A verdict BoundReached means that no input leads to an error without
\* entering some procedure more than maxBound times.
BoundReachedIsHonest ==
    verdict = "BoundReached" /\ eagerUnroll < maxBound => BoundedErrorInputs(prog, maxBound) = {}

\* While the engine runs, no failing input has been lost: it satisfies what
\* is asserted, and the region between top and bottom when every call may return.
NoErrorIsLost ==
    pc = "under" =>
      ErrorInputs(prog) \subseteq
        Satisfying(Append(asserted,
                          Encode(top, bottom, Approximate(calls, DOMAIN calls), 0).formula))

(***************************************************************************)
(* Reference for traces: the call stacks that agree with the source        *)
(* locations q of a trace, read with an interpreter of the program.  A     *)
(* frame is a procedure, its input and the location it is at.              *)
(***************************************************************************)
SourceOf(l) == IF l \in DOMAIN origin THEN origin[l] ELSE <<Main, l>>

Frame(p, l, w) == [proc |-> p, loc |-> l, in |-> w]

StackSteps(st, at) ==
    LET f == st[Len(st)]
        below == ButLast(st)
        Taken == {e \in EdgesOf(prog[f.proc]) : e.src = f.loc /\ f.in \in e.guard}
    IN  {Append(below, Frame(f.proc, at[2], f.in)) :
           e \in {e \in Taken : ~IsCall(e) /\ <<f.proc, e.dst>> = at}}
        \cup {below \o <<Frame(f.proc, e.dst, f.in), Frame(e.callee, Entry, e.arg[f.in])>> :
                e \in {e \in Taken : IsCall(e) /\ <<e.callee, Entry>> = at}}
        \cup (IF Len(st) > 1 /\ f.loc = Exit
              THEN {s \in {below} : <<s[Len(s)].proc, s[Len(s)].loc>> = at} ELSE {})

Runs(q, w) ==
    LET R[k \in 1 .. Len(q)] ==
          IF k = 1 THEN {s \in {<<Frame(Main, Entry, w)>>} : q[1] = <<Main, Entry>>}
          ELSE UNION {StackSteps(st, q[k]) : st \in R[k - 1]}
    IN  R[Len(q)]

\* A verdict Fail comes with a run of the program: from the entry of main,
\* through calls and returns that the input really takes, to an error location.
FailIsReal ==
    verdict = "Fail" =>
      LET n == Len(cex.locs)
          run == [k \in 1 .. n - 1 |-> SourceOf(cex.locs[n + 1 - k])]
      IN  /\ n > 1 /\ cex.locs[1] = error
          /\ \E st \in Runs(run, cex.input) :
                LET f == st[Len(st)] IN f.loc \in prog[f.proc].err

\* The checks check() asserts or believes unreachable are never reached.  With
\* -bmc-no-dom-push this is not so: findCommonCallAncestor then returns a start
\* but no target when no call is left.
NoAssertionFails == ~noDomPush => verdict # "Abort"

\* The engine returns a verdict.
Termination == <>(pc = "done")

=============================================================================
