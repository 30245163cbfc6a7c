# Gazer in TLA+

Gazer is a formal verification front end for C programs. It compiles a program
to LLVM, instruments it with checks, translates it to a system of *control flow
automata* (CFA) that call each other, and hands these to a verification engine:
its own bounded model checker (`gazer-bmc`) or the external model checker Theta
(`gazer-theta`). A Perl script runs several configurations as a *portfolio*.

This directory holds TLA+ modules for the parts of Gazer that carry its own
logic, TLC configurations that check them on small instances, and TLAPS proofs
of what matters most for every instance. Paths below are relative to the
repository.

## The system's parts

| Part | State it keeps | Operations | Talks to |
|---|---|---|---|
| Control flow automata (`Automaton/Cfa`) | locations, transitions, error locations, variables | create, disconnect, clear | everything below |
| Bounded model checker (`tools/gazer-bmc`) | the main automaton being unrolled, its topological order, the open calls, solver scopes, predecessor cache | under-approximate, move start and target, over-approximate, inline | solver, path conditions |
| Path conditions, dominators (`Automaton/CfaUtils`) | a counter for predecessor variables | encode, common dominator, common post-dominator | the BMC engine |
| Scoped cache (`ADT/ScopedCache.h`) | a stack of maps | insert, get, push, pop | the BMC engine, the Z3 translation |
| LLVM to automata (`LLVM/Automaton`) | loop and block maps, variable maps | one automaton per function and loop | memory models, trace builder |
| Recursive to cyclic (`Automaton/RecursiveToCyclicCfa`) | worklist of tail-recursive calls | inline as loops | Theta back end |
| Theta back end (`tools/gazer-theta`) | the model file, the child process, the counterexample | write, execute with a timeout, parse | child process |
| LLVM passes (`LLVM/Transform`, `LLVM/Instrumentation`, `LLVM/Analysis`) | the module | error lifting, slicing, inlining, checks | the pass pipeline |
| Memory models (`LLVM/Memory`) | memory objects, memory SSA | definitions, uses, phi placement | translation |
| Expressions (`Core`) | hash-consed, reference counted expressions and types | build, fold, evaluate, rewrite | everything |
| Solver (`SolverZ3`) | translation caches per scope | add, push, pop, run, model | Z3 |
| Traces (`Trace`, `LLVM/Trace`) | the trace | text, witness, test harness | the portfolio |
| Portfolio (`scripts/portfolio`) | results per configuration, the child, the alarm | run, time out, check the harness, report | verifiers, clang, the test binary |

What is hard here. The engine is sequential, but it edits the very graph, order
and caches that it is reading, over many rounds, and a verdict depends on facts
established several rounds ago: what is asserted in an outer solver scope, which
part of the graph is still to be explored, which calls have been counted. The
translation decides from who uses a value which variable of which automaton
stands for it, and a wrong decision shows only in programs where several such
cases meet. The passes copy bodies, move calls and erase blocks while lists of
call sites made earlier are still in use. The expression storage threads one
pointer through two lists and enters its own destructor again. The portfolio
script has real interleavings: the child writes and exits, the script reads, the
alarm rings, files stay on disk between configurations. What makes
the parts correct: every pass keeps the failures of the program; an expression
keeps its value through folding, rewriting and traversal, and there is one
object per structure; the automata have the errors and the results of the program,
however loops are nested and left; a verdict of the engine is true of the program, whatever the
order in which calls are inlined and whatever model the solver returns; the
result of the portfolio is the verdict of a verifier that has really printed it;
no fault around an external process looks like a verdict.

## Modules

**`CfaSystem`** — automata and what they mean. An automaton is a record of its
size, error locations and transitions. Data is abstract: an automaton has one
input from `World`, a guard is the set of inputs that satisfy it, and a call
passes a function of the input. (Automata are in SSA form, so one valuation
decides all guards of a run.) Returned values are left out: a caller sees
whether the callee returns. `Returns`, `Fails`, `ErrorInputs` and
`BoundedErrorInputs` define, by fixed points and independently of the engine,
which inputs lead to an error, with any recursion or with a bounded one.
`IsCfa` and `IsSystem` state what the translation guarantees of its automata
(`removeIrrelevantLocations` states it in a comment).

**`Bmc`** — the engine, one action per step of
`BoundedModelCheckerImpl::check`: `InitializeErrorField`,
`RemoveIrrelevantLocations`, `CreateTopologicalSorts` (with the initial call
approximations), `EagerIteration`, `EagerInline`, `UnderApproximate`,
`SkipUnderApproximation`, `SetStartAndTarget`, `OverApproximate`, `InlineNext`,
`FinishInlining`. Variables carry the names of the fields they model in their
comments. A path condition is kept by what it means: for every input, the
assignments of the predecessor variables that satisfy it. The solver is
external: an answer is SAT exactly if some input satisfies everything asserted,
any model may be returned, and up to `MaxUnknowns` times it may answer UNKNOWN.
Where the code iterates over a hash map, or `createTopologicalSort` could pick
another order, the model allows every order. An assertion or `llvm_unreachable`
that fires is the verdict `Abort`; in a build without assertions an UNKNOWN
answer to the over-approximation may also take the UNSAT branch.

**`Paths`** — reachability in graphs, shared by `CfaSystem` and `ModuleToCfa`.

**`MCBmc`** — families of small systems: a call that can be bypassed, calls on
both branches, calls in sequence, with loops, mutual recursion and plain
procedures as callees, and guards over all or chosen sets of inputs.

**`BmcProof`**, **`PathsProof`**, **`BmcSoundness`**, **`BmcPrecision`**,
**`BmcTraces`** — proofs about `Bmc`: the graph, reachability, Success, the region
and BoundReached, Fail and types.

**`ModuleToCfa`** — the translation of an LLVM module to automata. A module is a
sequence of functions of blocks of instructions in SSA form; LLVM's own notions
(successors, dominators, natural loops, exit edges) are external and defined
from the control flow graph. `CanonizeExit` and `CanonizeNext` are
`LoopExitCanonizationPass`, in the loop order that it really uses;
`AnalyzeLoops` is the `LoopInfo` that `ModuleToAutomataPass` computes anew;
`DeclareLoop` and `DeclareFunction` are `createAutomata`, one procedure per
step; `BeginProcedure` to `EndProcedure` are `BlocksToCfa::encode`, one
instruction or successor per step (`EncodeCalc`, `EncodeCall`, `EncodeAssume`,
..., `GoToBlock`, `CallSelf`, `CallLoop`, `LeaveLoop`, `Return`, `Unreachable`);
`Connect` is the end of `generate`. `info` is the `CfaGenInfo` of each
procedure, `inlined` is `mInlinedVars`. A variable is named by the value it
stands for and its role, since names are unique per automaton in the code. A
null variable that is followed, or an assertion that fails, ends in `abort`.
Expressions are kept as trees, because elimination substitutes them. The order
of a hash map is any order; the blocks of a loop are taken in layout order,
where LLVM lists them in reverse post-order, the same in the modules checked.
`IsVerified` is what LLVM's verifier guarantees, `IsSimplified` what the
pipeline's LoopSimplify and CFGSimplification leave. Memory objects, error codes and the map for traces are left out.

**`ModuleToCfaProof`** — the proof about `ModuleToCfa`: calls match interfaces.

**`Translation`** — what modules and automata mean: an interpreter of control
flow graphs, and automata read the way the back ends read them, as equations
along a path in which an unassigned variable may have any value. The calls of
automata are solved as a table over (procedure, inputs), so that recursion of
loop automata is exact. It uses recursive operators and is for TLC only.

**`MCTranslation`** — families of modules: a counting loop, a loop with a break,
nested loops, a switch in a loop, straight-line code and calls, with the operands
that decide what crosses a loop's boundary as parameters; and the modules on
which the translation goes wrong.

**`Portfolio`** — the script, its child processes and the alarm. `run_command`
is the actions `RunCommand`, `ReadLine`, `EndOfFile`, `AlarmRings`, `AlarmCloses`
and the operator `Returned`; `execute_configurations` and `check_harness` are
`StartConfiguration`, `GazerReturns`, `ClangReturns`, `TestReturns`,
`NoConfigurationLeft`; `Report` draws the final result. The children's steps
(print the verdict, write the harness, compile, fail the test, exit) interleave
with them; the order of the verdict line and the harness file is that of
`RunVerificationBackendPass::runOnModule`. The alarm does not end the child:
SIGTERM is set to IGNORE (Execute.pm:29) before the command is forked (:37), the
child inherits that, and the handler's `close` (:34) waits for it in the state
`close`. What happens to the child there is its own affair: it goes on, ends,
dies of SIGPIPE when it writes to the closed pipe, or reacts to SIGTERM if it has
set a handler; all but the first are `ChildExits`. A line is kept by what the script
looks for in it, a file by the configuration it comes from. Not modelled: other
values than Yes and No for `finish-all-configurations`, two configurations with
one name.

**`PortfolioProof`** — proofs about `Portfolio`.

**`Exprs`, `ExprEval`, `ExprFold`** — expressions as records (equal exactly when
the pointers are equal, which `ExprStorage` justifies), with the assertions of
the `Create` functions; `ExprEvaluator`, one operator per visit method; and the
plain and the folding builder, where `Fold` and `Plain` are the virtual methods
and the patterns of `Matcher.h` are operators. Bit-vectors have their width,
integers are mathematical, a floating-point literal keeps its class only.
`Abort` is a failed assertion or a crash.

**`InstToExpr`** — the expression of an LLVM instruction, in bit-vectors and in
mathematical integers (`-math-int`): arithmetic, logic, comparisons, selects,
casts, aggregates and the overflow predicates, with `LLVMValue` as the reference
meaning of the instruction. A translation is a tree of builder calls; `Built`
makes them through `Fold`, operands first.

**`ExprWalker`** — a client builds an expression through both builders or from
an instruction (`Build_`) and walks it with `ExprWalker`'s explicit stack on its
slab allocator (`StartWalk`, `Descend`, `VisitStep`, `Skip`), as the evaluator,
as the variable rewriter or with a cache. The reference is the plain recursion.
**`MCExprs`** gives the vocabularies.

**`HashConsing`** — what a `GazerContext` promises: one object per structure, and
an object lives exactly as long as someone can reach it. **`ExprStorage`** — how
`ExprStorage`, `ExprRef` and `destroy` keep the promise: buckets chained through
`mNextPtr`, rehashing, counts, and the deletion list threaded through the same
`mNextPtr`. One step is one iteration of a loop; `stack` holds the activations
of the running call, since an array literal releases its elements from inside
`destroy`. Addresses are numbers, each field of an expression is a function of
them. **`Lists`** says what a walk along `mNextPtr` visits: the smallest set that
is closed under the links, so that a list that ran into a cycle would be seen
(`ListsEnd`). `Promise` is the refinement mapping: what a client can reach of the
heap is the abstract context's objects. **`MCExprStorage`** is an instance.
**`ExprStorageProof`** has the proofs: lists and the parts of the heap a step
touches, then the invariant and the refinement.

**`CyclicCfa`** — `RecursiveToCyclicTransformer`: automata with variables and
transitions in their order, the unique error location, the copy of a tail
recursive automaton and its back edges with temporaries; and `ErrorCodes`, the
meaning of recursive automata. **`ThetaVerifier`** — `gazer-theta`: `Inline`,
`Write` (names made valid and unique), `Execute`, `ParseCex` and `BuildTrace`
(`LLVMTraceBuilder::build`). Theta is external: it decides the file it is given
and may return any counterexample, with locations of its own in between. Around
it a run may meet any fault the code handles: a missing program or file, an
exit code, a timeout, other output, a counterexample that is missing, truncated
or not understood. **`MCTheta`** — programs in the shape of the translation.

**`LlvmIr`** — modules as the passes see them (a PHI node is an assignment at the
end of the predecessor, a promoted slot a variable), the parts of LLVM that the
passes call (call graph, inlining, splitting, cloning, GlobalDCE), and
`Behaviour`: the failures a module can reach, each with the calls that are open,
by the frames and by the marks. **`Pipeline`** — the front end with one action
per pass, in the order the settings give: `BuildFrontend` (checks, Clang and
link, witness settings), `PromoteUndefs`, `NormalizeVerifierCalls`, `RunCheck`,
`MarkFunctionEntries`, the inliner's worklist (`BeginInlining`, `InlineCall`,
`EndInlining`), `DeleteDeadGlobals`, `InlineGlobalVariables`, `LiftErrorCalls`,
and `RunVerificationBackend` with the report. Where the code iterates over a map
keyed by pointers or over strongly connected components, every order is allowed.
An erased instruction that is used again ends the run as undefined. LLVM's
optimizations between the passes keep `Behaviour` and are left out.
**`MCPipeline`** — seven programs: failing callees, chains, recursion, arguments
passed through, overflow traps, static variables, two calls of one function.

The modules meet where the program's parts do: `Pipeline` shows that after error
lifting errors are in main only, which `bmc` assumes and `bmc_hard` does not;
`ModuleToCfa` shows that automata are connected and acyclic, which `CfaSystem`
assumes; `ExprStorage` shows that pointers may be compared instead of
expressions, which `ExprFold` and `ExprWalker` do.

## Runs

| Run | Result | What it shows |
|---|---|---|
| `bmc` | passes | all settings: bookkeeping, verdicts, progress, termination |
| `bmc_hard` | passes | with UNKNOWN answers and errors in callees, reported errors are real |
| `bmc_unknown_sound` | violated | an UNKNOWN under-approximation can end in Success |
| `translation` | passes | well-formed automata with exactly the module's errors and results |
| `translation_multi_level` | violated | a break out of two loops |
| `portfolio` | passes | results, alarms, termination |
| `portfolio_stop` | violated | without `check-harness` an unsafe result is not returned |
| `portfolio_hang` | violated | a timeout does not end a child that hangs |
| `exprs` | passes | folding, rewriting, traversal and instruction translation keep values |
| `storage` | passes | the table refines `HashConsing`, nothing dangles or leaks |
| `theta` | passes | verdicts and traces under every fault of the process |
| `pipeline` | passes | every pass keeps the failures, the report is true |

The properties of `bmc`:

* `TypeOK` also relates the scopes of the solver and of the predecessor cache.
* `OrderIsTopological`, `CallsAreExact` — the graph, its order and the table of
  calls stay consistent while callees are spliced in. Both are proved.
* `RegionIsTight` — the bit-vector dominator algorithms against path
  definitions of (post-)dominance.
* `SuccessIsSound`, `BoundReachedIsHonest`, `FailIsReal` — the three verdicts
  against the reference semantics. `FailIsReal` replays the trace with an
  interpreter that has a call stack.
* `NoErrorIsLost` — the invariant behind soundness: at the start of each round
  every failing input still satisfies what is asserted and the region left.
* `NoAssertionFails`, `Termination` — the assertions of `check` hold, and the
  loop, which has no bound of its own, makes progress.

The properties of `translation`:

* `NoAssertionFails` — every value that is read has a variable where it is read.
* `CfaIsConnected` — transitions stay inside their automaton, and the automata
  are acyclic and connected, which
  `gazer-bmc` relies on (`IsCfa` of `CfaSystem` assumes it).
* `CallsMatchInterfaces` — a call assigns each input of the callee once and
  takes over each output, though callee and caller are declared and encoded at
  different times.
* `TranslationIsExact` — for all arguments, the automata of a function reach an
  error exactly if the function does, and return what it returns.

The properties of `portfolio`: `FinalIsConfirmed` (a final verdict is one that the
last configuration has printed itself; with `check-harness`, a FAILED one has a
harness that failed), `NoneIsJustified`, `AlarmBelongsToCommand` (SIGALRM never
arrives outside the `eval`, nor for a later command), `NothingAfterSuccess` and
`Termination`.

The properties of `exprs`: `FoldingPreservesValue` (same value, same type, no
abort on an expression that has a value), `RewriteIsSubstitution` (rewriting,
which folds again, commutes with evaluation), `WalkIsRecursion` and
`FramesAreStacked` (the explicit stack and its slabs), `InstructionsAreExact`
(bit-vectors always, integers wherever they can be: no wrap-around, no
truncation, no bit operations), and `OverflowIsNeverMissed` (one direction: the
predicates also raise alarms at the extreme values that do not overflow).

The properties of `storage`: `TableIsExact` (each live expression is in exactly
the bucket of its hash, also between rehashes), `NoDanglingPointer` (of clients,
of expressions and of the running call), `CountsAreExact`, `CallsReturn`, and
the refinement `ImplementsHashConsing`.

The properties of `theta`: `VerdictIsSound` and `FaultFreeRunDecides` compare
the verdict with the meaning of the automata before they were made cyclic;
`TraceIsAnExecution` maps the counterexample back to a path of the original
automata, whose blocks give the events of the trace.

The properties of `pipeline`: `FailuresArePreserved` (after each pass: a valid
module, and the same checks fail at the same places with the same open calls),
`ReportIsTrue` (verdict, message, place, witness and harness against the
source), `ErrorsAreInMain`, `MarksAreNested` (marks describe a call stack even
after inlining and lifting) and `InliningEnds`.

What the passing runs do not claim, because the code does not do it (the model
shows each, if the claim or the family of programs is widened):

* with `-bmc-no-dom-push`, `NoAssertionFails` (`assert(lca.second != nullptr)`
  fires once no call is left);
* with `-no-assert-lift`, `SuccessIsSound` (errors that exist in callees only
  are removed with the calls; and the transition from an inlined error location
  to the goal bypasses a target point that has moved, BoundedModelChecker.cpp:561);
* for the translation, breaks out of two loops at once whose condition is not
  always reachable (`translation_multi_level`); values of an inner loop used
  behind the outer one (used in both, only the parent's `_out` variable is
  assigned, ModuleToAutomata.cpp:896; used *only* there,
  `createLoopOutput` gets a null variable); header PHI nodes that read an outer
  value nothing else in the loop reads, which `getVariable` then does not find
  (ModuleToAutomata.cpp:934); loops without
  exit edges behind a branch, whose call leads to a location without a path to
  the exit; and functions laid out so that a use precedes its definition, where
  the use refers to a variable that is then eliminated;
* level `normal` of `-elim-vars` also eliminates values with several uses, in
  contrast to its help text;
* in the portfolio, that a timeout ends a child that hangs (`portfolio_hang`),
  that an unsafe result ends the script and is returned without `check-harness`
  (`portfolio_stop`; a script that did so would keep every property of
  `portfolio`), that a verifier's nonzero exit status is reported as ERROR
  (the condition at Execute.pm:57 assigns TIMEOUT), and that the test binary is
  that of this configuration (a compilation that failed is not noticed,
  Execute.pm:101);
* for folding, the rule for `Select(C1, Select(C2, E1, E2), E1)`: its comment says
  `Select(C1 and not C2, E2, E1)` (FoldingExprBuilder.cpp:496), the code passes E1
  before E2 (line 498), and the value changes (`swapped` notes that the rule was
  used); for integers, truncation (the divisor at InstToExpr.cpp:560
  is one too small); for overflow of bit-vectors, the subtraction of the least
  value (its negation is itself, InstToExpr.cpp:686);
* for Theta, the last block of a trace, which the builder may miss, and what the
  trace says of a caller's variable that a call assigns
  (RecursiveToCyclicCfa.cpp:138 records it as the callee's);
* for the pipeline, globals of a function that is called more than once
  (`Reinitialised`): Passes.h:28 says that globals are inlined into the main
  function, InlineGlobalVariablesPass puts them into the only function that uses
  them, with a store of the initial value at its entry, so that a later call loses
  the value of the earlier one; recursion through several
  functions, or through one that cannot fail itself, under error lifting
  (`OpenRecursion`: the TODO at LiftErrorsPass.cpp:169); inlining of mutual
  recursion with `-inline=all`, which does not end (`isInlineViable` refuses
  only direct recursion); two failing calls in one block, where the second is
  used after it was erased; and error codes beyond 16 bits.

Bounds. Three inputs let a loop run zero times, once and twice, so that it needs
more unrollings than `maxBound` (1 or 2) allows, and also fewer; `eagerUnroll`
ranges over 0, 1 and 2, so it is below, at and above `maxBound`. Both
`-bmc-no-dom-push` and `-bmc-no-postdom-push` take both values. Three
procedures give mutual recursion and a callee that calls another. The
modules translated have values 0 to 2, loops nested at most twice, at most two
exits per loop and two functions: enough for each kind of exit, for values that
cross none, one or two loop boundaries in each direction, and for loops to run
zero times to for ever. Two
portfolio configurations are enough for a result, a harness or an exit status
of one to be mistaken for that of the next; `timed`, `finishAll` and
`checkHarness` take all values. Expressions have up to three builder calls, enough
for every rule (which look two levels deep) to apply to the result of another;
vectors have one and two bits, where all boundary values meet, and instructions
come in pairs, so that each conversion between `i1` and integers occurs. A slab
holds two frames, so walks cross slabs. The storage has three objects besides
`True` and starts with two buckets, so that it rehashes, shares buckets, frees
addresses and uses them again, has one operand twice and an array literal inside
another expression; clients hold up to `MaxHandles` = 4 references. The proofs
need none of these bounds. The programs of `theta` have single and nested loops,
loop variables that are swapped, and names that clash after cleaning;
`MaxTrace` is longer than their longest shortest counterexample, `Depth` than
their deepest recursion. The programs of `pipeline` have values 0 to 2 and at
most four functions; `MaxStack` and `MaxInlines` are above what they need, and
`InliningEnds` says that the latter is never reached.

Fairness. The engine is one thread that runs to its end: it takes a step as long
as it has not finished. In the portfolio the script is fair and an alarm that is
set rings in the end (if nothing else happens); the children are not fair, they
may hang for ever. `Termination` of the portfolio therefore assumes of them
(`ChildrenEnd`) exactly what the script leaves to them: that a configuration
without a timeout ends, since a timeout of 0 sets no alarm, and that a child ends
once its alarm has rung and its pipe is closed. Until then it may hang. A call of the
expression storage that has started runs to its end (`CallsReturn`); its client
may stop at any time. The other modules state no fairness: their runs check
deadlock instead, except `exprs` and `storage`, whose clients may stop.

## Proofs

Assumptions are the named ones on the constants: finite nonempty `World`, `Main`
among finitely many procedures, well-formed systems (`IsSystem`), natural
numbers for the settings; any number of configurations.

`BmcProof` shows `OrderStaysTopological` and `CallsStayExact`. Neither property
is inductive. The invariant `Inv` adds `GraphInv` (locations are below `nextLoc`,
transition identities are unique and at most `nextEdge`, no transition leaves
the exit, no call ends in it), `EarlyInv` (what holds before the graph is
sorted), `ErrorIsLast` (the goal is the last location but the exit, which is why
a transition from an inlined error location to the goal goes forward wherever
the callee was spliced in), `SortsInv` (the callees' orders are topological) and
`CallInv` (chains are nonempty and end in the callee). `InlineOrder` is the heart
of it: splicing a callee in front of the call's target keeps the numbering a
bijection and every transition forward.

`BmcSoundness` shows that the engine loses no error: `SuccessStaysSound`,
`ErrorsAreNeverLost` and `AssertionsHold`, for all systems and settings, any
recursion, any order of inlining and any model the solver returns. Two
hypotheses are needed, and the runs show that neither can go: the solver has
decided every query so far (`unknowns = 0`; otherwise Success may be wrong, the
run `bmc_unknown_sound`), and errors are in the main automaton
(`OnlyMainFails`, what `ErrorsAreInMain` says error lifting achieves; otherwise a
transition to the goal may bypass a target that has moved). `AssertionsHold`
needs the first only. The argument:

* What a system means is restated without recursion. `Leads(a, b, E)` says that
  every set that holds a and is closed under E holds b; `PathsProof` has its laws
  and that it follows from `ReachWithin`, and `ReturnsIs`, `FailsIs`,
  `FailsLead` get from the fixed points to ways through the main automaton.
* `EncodeComplete`: if transitions that hold for an input lead from one location
  to another, the path condition between them is satisfied by the input.
* `LowestCommonDominatorWorks`, `HighestCommonPostDominatorWorks`: the location
  that the dominator algorithm returns lies on every way from the start to the
  targets, also on those that use only some of the transitions.
* `InlineKeepsRuns`: inlining a call keeps every way of an input along
  transitions that pass (whose calls return), because a callee that returns has
  a way from its entry to its exit.
* The invariant `SoundInv` relates solver, region and graph. `RegionInv`: every
  remaining call lies on a way from the start to the target of the region, so
  the dominators exist. `LostInv`: a failing input satisfies what is asserted
  and has a passing way through the region. That alone is not inductive: moving
  start and target asserts the formulas before and after them with calls
  replaced by FALSE, which keeps the input only because its way cannot avoid the
  calls. Hence the conjunct that, once an approximation has failed, the input has no
  way through the region without calls (`AncestorSplits` uses it). It is also why
  skipping the under-approximation after a failed over-approximation is right.

`BmcPrecision` shows `RegionStaysTight`, without any hypothesis on the solver or the
errors: the new start lies on every path from the old one to a remaining call, the
new target on every path from such a call to the old target, and no location
closer to the calls does. `BmcSoundness` needs only that what the dominator
algorithms return works; here their tables are exact. `ReachComplete` says that
`ReachWithin` finds everything there is a way to when it may take as many steps
as there are locations (by the topological order, a way visits none twice);
`ThroughIsOnEveryPath` that the property's own reference, a search that avoids a
location, is the same as a way through it; `DominatorRowsComplete` and
`PostDominatorRowsComplete` that a row of the table holds every common
dominator, by induction along the order; then the last (first) of them is the
one the property asks for.

`BmcPrecision` also shows `BoundReachedStaysHonest`, under the two hypotheses of
`SuccessStaysSound`: when the engine gives up at the largest bound, no input leads
to an error without some procedure being entered more than `maxBound` times along
a chain of calls. `BoundedReturnsLead` and `BoundedFailsLead` restate what a
system does within a bound as ways whose calls return with the count of their
procedure raised by one; `CountingMore` says that a call's chain, extended by the
copy that inlining makes, raises exactly that count, so that inlining keeps ways
within the bound (`InlineKeepsBounded`); `BoundedHolds` that, at the last bound,
every call on such a way is cheap enough to be opened, so that the
over-approximation cannot exclude the input. The invariant `WithinInv` says of
inputs that fail within the bound what `LostInv` says of failing inputs, and that
the verdict is neither Success nor BoundReached. It needs `EagerInv`: the eager
phase ends below `maxBound` (the property asks for `eagerUnroll < maxBound`; a
larger value ends in BoundReached without a query).

`BmcTraces` shows `ReportedErrorsAreReal`: the counterexample of a verdict Fail is a
run of the program from the entry of main to an error location. It needs no
hypothesis: not that errors are in the main automaton, not that the solver has
decided earlier queries, and nothing of the model it returns but that it is one. The
property relates four things that the code never compares: the model, the
scopes of the predecessor cache, the graph after inlining, and the program. The
argument has two halves.

* *The graph is the program.* `StackInv`: there is a map that gives, for each
  location of the graph and each input, the call stack with which the input passes
  the location, so that each transition is a step of an interpreter of the
  program. Inlining extends the map: the stacks of the callee's copies are those
  of the callee on top of the stack of the location behind the call
  (`InlinedStacks`, `StackInline`); assignments of inputs become the call, those of
  outputs the return. `EdgeInv` says what this needs of the graph: nothing leads
  to the entry, no input leaves the error goal and no call touches it. Hence
  `WayIsRun`: a way of the graph that an input takes is a run.
* *What is read is a way.* `EncodeTraces`: every satisfying assignment of a path
  condition is that of one path; where the encoding made a choice variable the model
  says which predecessor is on the path, elsewhere the cache holds the only one, and
  the input takes each step. `CacheInv` carries this through the run: in every
  model of what is asserted for good, the reader gets from the error goal back to the
  target of the region and from its start back to the entry, and each step back is
  one that the input takes. It is not inductive unless scopes and choices are
  also kept apart: scopes mention the entry nowhere, so that the walk ends, and
  choices only of earlier encodings, so that neither a later encoding nor a popped
  scope can change what the cache says of a location that has been left behind (`ReadableKept`, `ReadBefore`, `ReadAfter`). When the middle of
  the region is satisfied as well, `ErrorRead`: the reader gets from the goal to the
  entry. `ReadsBack` adds that its loop, which stops when it knows no predecessor,
  stops at the entry and nowhere else, and after at most as many steps as there are
  locations, because each step goes down in the order.

`EngineTypes` is the type invariant of the engine for all systems. Most of it
follows from the invariants above; `StatusInv`, `ApproxInv`, `ScopesInv` and
`LoopInv` add that `check` returns exactly with a verdict, that the predecessor
cache has one scope more than the solver (push and pop are paired on every path,
also when a query is undecided), and that the calls to inline, which are
read from a counterexample or from the table of calls, are transitions.

Recursive functions are handled with sets: that a function satisfying the
recursive equations exists (`RecursionUp`, `RecursionDown`), and facts about all
its values, follow from the least element of the set of exceptions
(`LeastNatural`), since an induction theorem with an operator parameter is out of
the prover's reach.

`ModuleToCfaProof` shows `InterfacesMatch`: as long as no assertion of the
translation has failed, `CallsMatchInterfaces`, for every module that
`ModulesAssumption` admits (the verifier's and the loop passes' guarantees) and
every `-elim-vars`. The condition is needed because two outputs that both lack a
variable, which is what a failed assertion stands for, are both given the null
variable. Declarations and calls are made far apart, in different orders and
from different loops' points of view, and the invariant `Inv` says what connects
them:

* `ProgInv` — the module stays verified and no block goes back to the entry
  block, also while `CanonizeExit` puts blocks on exits (`ExitBlockExtends`,
  `ExtendsFunction`), and loops have their headers. A function can therefore never
  be called as a loop of its own;
* `Declaring` — while a function is declared, each of its procedures is declared
  or still listed, and the function itself is last (`ProceduresFacts`, which rests
  on `NthFacts`: what a comparison-based enumeration of a finite set lists);
* `InfoInv` — what callers rely on: a function's inputs are its arguments, a
  loop's are the PHI nodes of its header and values defined outside of it. The two
  are different values because names are defined once (`LoopArgsFit`);
* `EncodeInv` — every procedure is declared before the first call is made, the
  place being encoded exists, and the calls made so far fit. That a loop is
  found for a nested block is `LoopForFacts`; that outputs go to different
  variables, the exit selector to one of its own, `LoopOutsFit`.

`PortfolioProof` shows the type invariant, `FinalConfirmed`, `NoneJustified`,
`AlarmOwned` and the action property `StopsAfterSuccess` from one inductive
invariant, which relates the configuration being run to the results so far and
what has been printed to what can still be read from the pipe, and knows that
nothing but TIMEOUT can come of a command whose alarm has rung.

`ExprStorageProof` shows `TableAlwaysExact`, `NeverDangling` and
`CountsAlwaysExact` for any finite set of addresses, any table size, any
structures and any hash function into the natural numbers (`PlacesAssumption`,
`BucketAssumption`, `ExprAssumption`, `HashAssumption`). None is inductive, and
they need each other: a count is only right if the operands that were detached
are known, a list is only right if the expressions on it are in no bucket. The
inductive invariant has eleven parts:

* `TypeInv`; `FreeInv` — freed memory is clean, so a new expression starts with
  null links;
* `KeyInv` — live expressions have all their operands and the hash of their
  structure, and no two have the same structure;
* `CountInv` — for everything alive, also in the middle of a call, the count is
  the handles plus the operand positions that still hold it; whatever is on a
  deletion list has no reference left. This is where an operand that occurs twice
  and the order of `detach` matter;
* `OrderInv` — every nonempty set of objects has one that no other member of it
  refers to: expressions are acyclic, so counts that are positive mean that a
  client can reach the expression;
* `RootInv` — the context goes last;
* `StackInv` — the deletion lists of the activations are disjoint, allocated, end
  at `tail`, and what the scan has passed has no operands left. Without
  disjointness the nested `destroy` of an array literal's element could free
  what the outer one is about to visit;
* `TableInv`, `EntryInv` — buckets hold the live expressions of their hash, and
  there is room for the one that is being inserted;
* `RehashInv` — the new table has what has been moved, the old buckets still
  hold the rest;
* `PendingInv` — the structure that was not found is still absent when it is
  inserted, and its operands are held by the client.

Its first part has what the steps do to lists: taking a member out, putting one in
front or at the end, cutting one off, and that lists that share no member do not
notice.

From it follows `StorageRefines`: the specification implements `HashConsing`. What clients reach is closed and alive (`LiveClosed`); between
two calls it is all there is (`AllReached`, from `CountInv` and `OrderInv`), so a
lookup that fails means that the abstract context has no such object either;
steps inside a rehash or a destruction touch only what nobody reaches
(`HiddenSteps`); the insertion, a successful lookup and the release of a handle
are the abstract actions. Since the mapping forgets an object when its last
reference goes and not when `delete` runs, reuse of an address is a creation.

Only model-checked: liveness (termination, progress, `CallsReturn`); the pipeline,
Theta, the expressions and the exactness of the translation (their references are
RECURSIVE operators, which the prover cannot take); that the translation's
assertions hold for the modules of the run (for others they do not) and that
its automata are connected and acyclic. Of the engine and the portfolio, and of
the storage, every safety property that a passing run checks is proved.

## Plan

Done: the engine with path conditions and dominators, the portfolio, their
proofs; the translation of modules to automata; expressions, their translation,
traversal and storage with its refinement; the Theta back end with its faults;
the pass pipeline from Clang to the report; that the storage refines its promise,
that the engine's Success is right, its BoundReached honest, its Fail real and
its region the tightest, and that the translation's calls match interfaces. Left to
prove: that transitions stay inside their automaton (`ModuleToCfa`). Left to
model: memory SSA.

## Not modelled

* The memory models: pointers, aliasing and memory SSA. The modules checked have
  only globals that are read and written by name.
* Program dependence and slicing: the front end does not run it.
* The Z3 back end: a translation to another library's terms. The engine's solver
  is external, its answers and time limit are in `Bmc`, and the cached walk the
  translation is built on is in `ExprWalker`.
* Clang, LLVM's own passes and Theta: external, by what the code relies on.
* Text: printers of automata, traces, witnesses and harnesses, command lines,
  the portfolio's options and log.
* The tables of types and variables, which only grow.

`components` in `PROJECT.json` lists every part with its status, `hazards` what
is hard to test in it and the property that watches it.
