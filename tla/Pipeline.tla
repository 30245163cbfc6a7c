------------------------------ MODULE Pipeline ------------------------------
(***************************************************************************)
(* The front end: FrontendConfig builds a module and the checks, the pass  *)
(* pipeline of LLVMFrontend instruments, inlines and lifts, and the result *)
(* of the back end is reported through the registry of the checks.  One    *)
(* action per pass; todo holds the passes that are still to run.           *)
(*                                                                         *)
(* LLVM's own passes between them preserve what a module does and are left *)
(* out; GlobalDCE is kept, since the passes around it count references.    *)
(***************************************************************************)
EXTENDS LlvmIr

CONSTANTS Programs,     \* what Clang may give: [funs, globals]
          Settings,     \* the settings of a run
          MaxInlines    \* calls inlined by one run of the inliner

ASSUME MaxInlinesAssumption == MaxInlines \in Nat

VARIABLES source,       \* the module that was built
          settings,     \* LLVMFrontendSettings
          mChecks,      \* the checks enabled, in their order
          module,       \* the module as the passes leave it
          mCheckMap,    \* violations; the code of the i-th is i + 1
          todo,         \* passes that are still to run
          wl,           \* call sites the inliner is going to inline
          inlined,      \* calls it has inlined
          report        \* what the tool printed

vars == <<source, settings, mChecks, module, mCheckMap, todo, wl, inlined, report>>

Factories == {"assertion-fail", "div-by-zero", "signed-overflow"}
Nothing == [status |-> "running", check |-> "", loc |-> "", outputs |-> {}]

---------------------------------------------------------------------------
(* Settings and registration.                                              *)
createChecks(filter) ==
  LET fragments == CASE filter = <<>> -> <<"assertion-fail", "div-by-zero">>
                     [] filter = <<"all">> -> <<"assertion-fail", "div-by-zero", "signed-overflow">>
                     [] OTHER -> filter
  IN SelectSeq(fragments, LAMBDA name : name \in Factories)

(* ClangCompileAndLink: a source file is compiled into the working         *)
(* directory under its own name; llvm-link does not take a file twice.     *)
Bitcode(file) == IF file.ext \in {"bc", "ll"} THEN <<file.dir, file.name, file.ext>>
                 ELSE <<"gazer_workdir", file.name, "bc">>
ClangCompileAndLink(files) ==
  /\ \A i \in DOMAIN files : \/ files[i].ext \in {"bc", "ll"}
                             \/ files[i].ext \in {"c", "i"} /\ files[i].compiles
  /\ \A i, j \in DOMAIN files : i # j => Bitcode(files[i]) # Bitcode(files[j])

registerInlining(s) ==
  IF s.inlineLevel = "Off" THEN <<>>
  ELSE <<"inline", "dce">> \o (IF s.inlineGlobals THEN <<"globals">> ELSE <<>>) \o <<"dce">>

registerVerificationPipeline(s, checks) ==
  IF s.skipPipeline THEN <<"verify">>
  ELSE <<"undefs", "normalize">> \o checks \o <<"mark">> \o registerInlining(s)
       \o (IF s.liftAsserts THEN <<"lift">> ELSE <<>>) \o <<"verify">>

---------------------------------------------------------------------------
EachFunction(m, P(_)) == [m EXCEPT !.funs = [f \in DOMAIN @ |-> P(f)]]
ReplaceInsts(b, P(_)) == FlattenSeq([i \in DOMAIN b.insts |-> P(b.insts[i])])
EachBlock(fn, P(_)) == [fn EXCEPT !.blocks = [b \in DOMAIN @ |-> P(@[b])]]
EachInst(m, P(_)) ==
  EachFunction(m, LAMBDA f : EachBlock(m.funs[f], LAMBDA b : Block(ReplaceInsts(b, P), b.term)))

(* UndefToNondetCallPass: each undef operand becomes the result of a call   *)
(* in front of the instruction.                                            *)
UndefVar(i) == <<"undefv", ToString(i)>>
UndefCalls(args) ==
  LET undefs == SelectSeq([i \in DOMAIN args |-> i], LAMBDA i : args[i] = Undef)
  IN [k \in DOMAIN undefs |-> Inst("call", <<UndefVar(undefs[k])>>, "gazer.undef_value", <<>>, "")]
Promoted(args) == [i \in DOMAIN args |-> IF args[i] = Undef THEN Var(UndefVar(i)) ELSE args[i]]
replaceUndefsWithCalls(fn) ==
  LET Promote(inst) == Append(UndefCalls(inst.args), [inst EXCEPT !.args = Promoted(@)])
      Body(b) == LET ops == <<b.term.c>> \o b.term.v
                 IN Block(ReplaceInsts(b, Promote) \o UndefCalls(ops),
                          [b.term EXCEPT !.c = Promoted(ops)[1], !.v = Tail(Promoted(ops))])
  IN EachBlock(fn, Body)

(* NormalizeVerifierCallsPass *)
NormalizeCall(inst) ==
  IF inst.op = "call" /\ inst.f \in AssumeFunctions
  THEN << Inst("ne", <<<<"cond">>>>, "", <<inst.args[1], Const(0)>>, inst.loc),
          Call("verifier.assume", <<Var(<<"cond">>)>>) >>
  ELSE <<inst>>

---------------------------------------------------------------------------
(* The checks.  A target is the place of an instruction of a function; the *)
(* targets get the next codes of the registry, and an error block each.    *)
AllSites(m) == UNION {{[f |-> f, b |-> s.b, i |-> s.i] : s \in Sites(m.funs[f])} : f \in DOMAIN m.funs}
Site(t) == [b |-> t.b, i |-> t.i]
Matches(check, inst) ==
  CASE check = "div-by-zero" -> inst.op = "div"
    [] check = "assertion-fail" -> inst.op = "call" /\ inst.f \in ErrorFunctions
    [] check = "signed-overflow" -> inst.op = "call" /\ inst.f \in TrapFunctions
Targets(m, check) == {t \in AllSites(m) : Matches(check, InstAt(m.funs[t.f], Site(t)))}

(* The code is a 16 bit integer in the module, and not in the registry. *)
ErrorCodeOf(n) == n % 2^16
\* Mutant: the code is read after the counter has moved on.
createCheckViolationNext(reg, k) == ErrorCodeOf(Len(reg) + 2 + k)
createCheckViolation(reg, k) == ErrorCodeOf(Len(reg) + 1 + k)
ErrorBlock(code) == <<"error", ToString(code)>>
createErrorBlock(code) == Block(<<Call(ErrorCode, <<Const(code)>>)>>, Unreachable)

(* Check::replaceMatchingUnreachableWithError: everything from the match to *)
(* the end of the block is erased.                                         *)
replaceMatchingUnreachableWithError(fn, code) ==
  LET Cut(b) == {s.i : s \in {t \in DOMAIN code : t.b = b}}
      First(b) == CHOOSE i \in Cut(b) : \A j \in Cut(b) : i <= j
  IN [fn EXCEPT !.blocks =
        [b \in DOMAIN @ |->
           IF Cut(b) = {} THEN @[b]
           ELSE Block(SubSeq(@[b].insts, 1, First(b) - 1), Br(ErrorBlock(code[[b |-> b, i |-> First(b)]])))]]

(* DivisionByZeroCheck::mark *)
markDivisions(fn, code) ==
  SplitBlocks(fn, DOMAIN code, "div",
    LAMBDA s, next :
      Block(<<Inst("ne", <<<<"icmp">>>>, "", <<InstAt(fn, s).args[2], Const(0)>>, "")>>,
            CondBr(Var(<<"icmp">>), next, ErrorBlock(code[s]))))

(* SignedIntegerOverflowCheck::mark, up to the trap calls *)
ReplaceOverflow(inst) ==
  IF inst.op = "call" /\ inst.f = WithOverflow
  THEN << Inst("call", <<<<"ovr_check">>>>, NoOverflow, inst.args, ""),
          Inst("not", <<inst.to[2]>>, "", <<Var(<<"ovr_check">>)>>, ""),
          Inst("add", <<inst.to[1]>>, "", inst.args, "") >>
  ELSE <<inst>>

Prepared(m, check) == IF check = "signed-overflow" THEN EachInst(m, ReplaceOverflow) ELSE m
mark(check, fn, code) ==
  IF check = "div-by-zero" THEN markDivisions(fn, code)
  ELSE replaceMatchingUnreachableWithError(fn, code)

(* The instruction of a second match in a block is erased with the first.  *)
ErasedTwice(targets, check) ==
  check # "div-by-zero" /\ \E s, t \in targets : s.f = t.f /\ s.b = t.b /\ s.i < t.i

Instrumented(m, check, code) ==
  EachFunction(m, LAMBDA f :
    LET own == {t \in DOMAIN code : t.f = f}
        marked == mark(check, m.funs[f], [s \in {Site(t) : t \in own} |-> code[[f |-> f] @@ s]])
    IN [marked EXCEPT !.blocks =
          [b \in {ErrorBlock(code[t]) : t \in own} |->
             createErrorBlock(CHOOSE c \in {code[t] : t \in own} : ErrorBlock(c) = b)] @@ @])

---------------------------------------------------------------------------
(* MarkFunctionEntriesPass: only a function with debug information gets    *)
(* marks.                                                                  *)
ReturnMarksOfValues(f, t) ==
  IF t.k # "ret" \/ t.v = <<>> THEN <<>> ELSE <<Mark(ReturnMark, f, t.v)>>
ReturnMarks(f, t) ==
  IF t.k # "ret" THEN <<>>
  ELSE <<Mark(IF t.v = <<>> THEN ReturnVoidMark ELSE ReturnMark, f, t.v)>>

(* A block of its own in front of the entry. *)
MarkFunction(m, f) ==
  LET fn == m.funs[f]
      body == fn.entry \o <<"body">>
      AfterCall(inst) ==
        IF inst.op = "call" /\ inst.f \in DOMAIN m.funs
        THEN <<inst, Mark(CallReturnedMark, f, <<>>)>> ELSE <<inst>>
      Marked(b) == IF fn.dsp THEN Block(ReplaceInsts(b, AfterCall) \o ReturnMarks(f, b.term), b.term) ELSE b
      entry == IF fn.dsp THEN <<Mark(EntryMark, f, [i \in DOMAIN fn.args |-> Var(fn.args[i])])>> ELSE <<>>
  IN [fn EXCEPT !.blocks =
        (fn.entry :> Block(entry, Br(body))) @@ (body :> Marked(@[fn.entry]))
        @@ [b \in DOMAIN @ |-> Marked(@[b])]]

---------------------------------------------------------------------------
(* Inlining.                                                               *)
isRecursive(m, f) ==
  LET calls == CallsTransitively(m)
  IN \E g \in DOMAIN m.funs : (g = f \/ <<f, g>> \in calls) /\ <<g, g>> \in calls

shouldInlineEveryFunction(m, level, f, allowedRefs) ==
  \/ level = "All"
  \/ ~isRecursive(m, f) /\ ~m.funs[f].vararg /\ getNumReferences(m, f) <= allowedRefs
shouldInlineFunction(m, level, f, allowedRefs) ==
  /\ isInlineViable(m, f) \/ ~isRecursive(m, f)
  /\ \/ level = "All"
     \/ ~m.funs[f].vararg /\ getNumReferences(m, f) <= allowedRefs

(* Call sites in blocks of a function that are to be inlined. *)
Chosen(m, fn, level, allowedRefs) ==
  SetToSeq({s \in Sites(fn) : /\ InstAt(fn, s).op = "call" /\ InstAt(fn, s).f \in DOMAIN m.funs
                              /\ shouldInlineFunction(m, level, InstAt(fn, s).f, allowedRefs)})

(* The place of a call site once the one at s has been inlined. *)
MovedBy(s, tag, t) ==
  IF t.b = s.b /\ t.i > s.i THEN [b |-> <<tag, "cont">> \o s.b, i |-> t.i - s.i] ELSE t
InCopy(tag, s) == [s EXCEPT !.b = <<tag>> \o @]

---------------------------------------------------------------------------
(* Global variables.  users tells whether anything but instructions uses   *)
(* the global: constant expressions that instructions use are turned into  *)
(* instructions, another constant prevents the inlining.                   *)
shouldInlineGlobal(m, gv) ==
  {f \in Accessing(m, gv) :
     /\ Accessing(m, gv) = {f}
     /\ ~isRecursive(m, f)
     /\ m.globals[gv].users # "constant"}

Slot(gv) == <<"alloca", gv>>
InlineGlobals(m) ==
  LET gvs == {gv \in DOMAIN m.globals : m.globals[gv].hasInit /\ shouldInlineGlobal(m, gv) # {}}
      Into(f) == SetToSeq({gv \in gvs : f \in shouldInlineGlobal(m, gv)})
      Access(inst) ==
        IF inst.op \notin {"load", "store"} \/ inst.f \notin gvs THEN <<inst>>
        ELSE IF inst.op = "load" THEN <<Set(inst.to, <<Var(Slot(inst.f))>>)>>
        ELSE <<Set(<<Slot(inst.f)>>, inst.args)>>
             \o (IF m.globals[inst.f].di THEN <<Mark(GlobalWriteMark, inst.f, inst.args)>> ELSE <<>>)
      Init(f) == [k \in DOMAIN Into(f) |->
                    Set(<<Slot(Into(f)[k])>>, <<Const(m.globals[Into(f)[k]].init)>>)]
  IN [EachFunction(EachInst(m, Access),
                   LAMBDA f : LET fn == EachInst(m, Access).funs[f]
                              IN [fn EXCEPT !.blocks[fn.entry].insts = Init(f) \o @])
        EXCEPT !.globals = [gv \in DOMAIN @ \ gvs |-> @[gv]]]

---------------------------------------------------------------------------
(* Error lifting.  Functions are visited in the order of the strongly      *)
(* connected components of the call graph, callees first; inside of a      *)
(* component in any order.  late: a recursive call is listed behind the    *)
(* function's other calls that may fail.                                   *)
SccOrders(m) ==
  LET Above(calls, f, g) == <<f, g>> \in calls /\ <<g, f>> \notin calls
      Orders(calls) == {o \in SetToSeqs(DOMAIN m.funs) :
                          \A i, j \in DOMAIN o : i < j => ~Above(calls, o[i], o[j])}
  IN UNION {Orders(calls) : calls \in {CallsTransitively(m)}}

canFail(info) == info.selfFails # {} \/ info.mayFailCalls # {}

FunctionInfo(m, f, late, failing) ==
  LET fn == m.funs[f]
      selfFails == CallSites(fn, ErrorCode)
      others == UNION {CallSites(fn, g) : g \in failing \ {f}}
      again == selfFails # {} \/ (late /\ others # {})
  IN [selfFails |-> selfFails,
      mayFailCalls |-> others \cup (IF again THEN CallSites(fn, f) ELSE {})]

Infos(m, order, late) ==
  FoldLeft(LAMBDA infos, f :
             (f :> FunctionInfo(m, f, late, {g \in DOMAIN infos : canFail(infos[g])})) @@ infos,
           <<>>, order)

UniqueError == <<"error">>
ErrorPhi == <<"error_phi">>
CombinedBlock(fn, info, b) ==
  LET errors == {s.i : s \in {t \in info.selfFails : t.b = b}}
      i == CHOOSE i \in errors : TRUE
      blk == fn.blocks[b]
  IN IF errors = {} THEN blk
     ELSE Block(Append(RemoveAt(blk.insts, i), Set(<<ErrorPhi>>, blk.insts[i].args)), Br(UniqueError))
combineErrorsInFunction(fn, info) ==
  [fn EXCEPT !.blocks =
     (UniqueError :> Block(<<Call(ErrorCode, <<Var(ErrorPhi)>>)>>, Unreachable))
     @@ [b \in DOMAIN @ |-> CombinedBlock(fn, info, b)]]

WithError(fn) == fn
WithoutError(fn) == [fn EXCEPT !.blocks[UniqueError] = Block(<<>>, Unreachable)]

(* The body of a failing function in main: it does not return, and its     *)
(* error is main's.                                                        *)
FailEntry(f) == <<f, "fail">>
FailCopy(f, fn) ==
  LET Body(b) == IF b.term.k # "ret" THEN b
                 ELSE Block(Append(b.insts, Call("gazer.dummy.void", <<>>)), Unreachable)
      copy == CloneBlocks(fn.blocks, f)
  IN (FailEntry(f) :> Block(<<>>, Br(<<f>> \o fn.entry)))
     @@ (<<f>> \o UniqueError :> Block(<<Set(<<ErrorPhi>>, <<Var(<<f>> \o ErrorPhi)>>)>>, Br(UniqueError)))
     @@ [b \in DOMAIN copy |-> Body(copy[b])]

(* Each call in main that may fail: a choice in front of it whether this   *)
(* is the one that does.                                                   *)
BranchToFail(s) == s.b \o <<"failing", ToString(s.i)>>
LiftCalls(m, main, sites) ==
  LET callee(s) == InstAt(main, s).f
      split == SplitBlocks(main, sites, "call",
                 LAMBDA s, next : Block(<<Inst("call", <<<<"dummy">>>>, "gazer.dummy_nondet.i1", <<>>, "")>>,
                                        CondBr(Var(<<"dummy">>), BranchToFail(s), next)))
      Enter(s) == Block(<<Set(RenameVars(m.funs[callee(s)].args, callee(s)), InstAt(main, s).args)>>,
                        Br(FailEntry(callee(s))))
  IN [split EXCEPT !.blocks =
        [b \in {BranchToFail(s) : s \in sites} |-> Enter(CHOOSE s \in sites : BranchToFail(s) = b)] @@ @]

OwnMayFailCalls(m, infos, copied) == infos[m.entry].mayFailCalls
MayFailCallsInMain(m, infos, copied) ==
  infos[m.entry].mayFailCalls
    \cup UNION {{InCopy(f, s) : s \in infos[f].mayFailCalls} : f \in copied}

LiftErrors(m, infos) ==
  LET failing == {f \in DOMAIN m.funs : canFail(infos[f])}
      combined == [f \in failing |-> combineErrorsInFunction(m.funs[f], infos[f])]
      copied == failing \ {m.entry}
      copies == [f \in copied |-> FailCopy(f, combined[f])]
      main == [combined[m.entry] EXCEPT !.blocks =
                 [b \in UNION {DOMAIN copies[f] : f \in copied} |->
                    LET f == CHOOSE f \in copied : b \in DOMAIN copies[f] IN copies[f][b]] @@ @]
      sites == MayFailCallsInMain(m, infos, copied)
  IN IF m.entry \notin failing THEN m
     ELSE [m EXCEPT !.funs =
             (m.entry :> LiftCalls(m, main, sites)) @@ [f \in copied |-> WithoutError(combined[f])] @@ @]

---------------------------------------------------------------------------
HasTraps(p) == \E f \in DOMAIN p.funs : \E s \in Sites(p.funs[f]) :
                 p.funs[f].blocks[s.b].insts[s.i].f \in TrapFunctions

(* The settings come from the command line; the overflow check makes Clang *)
(* put the traps in.                                                       *)
Init ==
  /\ settings \in Settings
  /\ mChecks = createChecks(settings.checks)
  /\ \E p \in Programs :
       /\ HasTraps(p) => "signed-overflow" \in ToSet(mChecks)
       /\ source = [funs |-> p.funs, globals |-> p.globals, entry |-> settings.function]
  /\ module = source
  /\ mCheckMap = <<>>
  /\ todo = <<"build">>
  /\ wl = <<>>
  /\ inlined = 0
  /\ report = Nothing

Now(pass) == todo # <<>> /\ Head(todo) = pass
Done == todo' = Tail(todo)

(* FrontendConfig::buildFrontend: without a module or its entry function    *)
(* no front end; a witness is about a single source file.                  *)
BuildFrontend ==
  /\ Now("build")
  /\ IF ClangCompileAndLink(settings.files) /\ settings.function \in DOMAIN module.funs
     THEN todo' = registerVerificationPipeline(settings, mChecks) /\ report' = report
     ELSE todo' = <<>> /\ report' = [Nothing EXCEPT !.status = "no front end"]
  /\ settings' = IF settings.witness /\ Len(settings.files) # 1
                 THEN [settings EXCEPT !.witness = FALSE, !.hash = FALSE] ELSE settings
  /\ UNCHANGED <<source, mChecks, module, mCheckMap, wl, inlined>>

Transform(m) ==
  /\ module' = m
  /\ Done
  /\ UNCHANGED <<source, settings, mChecks, mCheckMap, wl, inlined, report>>

PromoteUndefs ==
  Now("undefs") /\ Transform(EachFunction(module, LAMBDA f : replaceUndefsWithCalls(module.funs[f])))
NormalizeVerifierCalls == Now("normalize") /\ Transform(EachInst(module, NormalizeCall))

(* Check::runOnModule; a match that is gone when its turn comes is read    *)
(* after it was freed.                                                     *)
RunCheck(check) ==
  /\ Now(check)
  /\ \E m \in {Prepared(module, check)} : \E order \in {SetToSeq(Targets(m, check))} :
       \E code \in {[t \in ToSet(order) |->
                       createCheckViolation(mCheckMap, CHOOSE k \in DOMAIN order : order[k] = t)]} :
         IF ErasedTwice(DOMAIN code, check)
         THEN /\ report' = [Nothing EXCEPT !.status = "undefined"]
              /\ todo' = <<>>
              /\ UNCHANGED <<module, mCheckMap>>
         ELSE /\ module' = Instrumented(m, check, code)
              /\ mCheckMap' = mCheckMap \o
                   [k \in DOMAIN order |->
                      [check |-> check, loc |-> InstAt(m.funs[order[k].f], Site(order[k])).loc]]
              /\ Done
              /\ report' = report
  /\ UNCHANGED <<source, settings, mChecks, wl, inlined>>

MarkFunctionEntries ==
  Now("mark") /\ Transform(EachFunction(module, LAMBDA f : MarkFunction(module, f)))

BeginInlining ==
  /\ Now("inline")
  /\ wl' = Chosen(module, module.funs[module.entry], settings.inlineLevel, 1)
  /\ todo' = <<"inlining">> \o Tail(todo)
  /\ UNCHANGED <<source, settings, mChecks, module, mCheckMap, inlined, report>>

InlineCall ==
  /\ Now("inlining")
  /\ wl # <<>>
  /\ inlined < MaxInlines
  /\ \E site \in {Last(wl)} : \E tag \in {ToString(inlined)} :
       \E f \in {InstAt(module.funs[module.entry], site).f} :
       \E m \in {[module EXCEPT !.funs[module.entry] = InlineFunction(@, site, module.funs[f], tag)]} :
       \E calls \in {Chosen(m, m.funs[f], settings.inlineLevel, 2)} :
         /\ module' = m
         /\ wl' = [k \in 1 .. Len(wl) - 1 |-> MovedBy(site, tag, wl[k])]
                  \o [k \in DOMAIN calls |-> InCopy(tag, calls[k])]
  /\ inlined' = inlined + 1
  /\ UNCHANGED <<source, settings, mChecks, mCheckMap, todo, report>>

EndInlining ==
  /\ Now("inlining")
  /\ wl = <<>>
  /\ Done
  /\ UNCHANGED <<source, settings, mChecks, module, mCheckMap, wl, inlined, report>>

DeleteDeadGlobals == Now("dce") /\ Transform(GlobalDCE(module))
InlineGlobalVariables == Now("globals") /\ Transform(InlineGlobals(module))

LiftErrorCalls ==
  /\ Now("lift")
  /\ \E infos \in {Infos(module, order, late) : order \in SccOrders(module), late \in BOOLEAN} :
       Transform(LiftErrors(module, infos))

(* RunVerificationBackendPass: the back end is taken to be right when it   *)
(* decides; it may find a failure and no trace, and it may give up.        *)
GeneralFailureCode == 1
messageForCode(reg, code) ==
  IF code = GeneralFailureCode THEN [Nothing EXCEPT !.status = "FAILED", !.check = "unknown"]
  ELSE IF code - 1 \in DOMAIN reg
  THEN [Nothing EXCEPT !.status = "FAILED", !.check = reg[code - 1].check, !.loc = reg[code - 1].loc]
  ELSE [Nothing EXCEPT !.status = "assertion"]
FailOutputs(s, code) ==
  IF code = GeneralFailureCode THEN {}
  ELSE (IF s.witness /\ s.hash THEN {"violation witness"} ELSE {})
       \cup (IF s.testHarness THEN {"test harness"} ELSE {})

ReachedCodes(m) == {b.code : b \in {c \in Behaviour(m) : c.kind = "code"}}
RunVerificationBackend ==
  /\ Now("verify")
  /\ Done
  /\ \E codes \in {ReachedCodes(module)} :
       \/ \E code \in codes \cup (IF codes = {} THEN {} ELSE {GeneralFailureCode}) :
            report' = [messageForCode(mCheckMap, code) EXCEPT !.outputs = FailOutputs(settings, code)]
       \/ /\ codes = {}
          /\ report' = [Nothing EXCEPT !.status = "SUCCESSFUL",
                          !.outputs = IF settings.witness /\ settings.hash
                                      THEN {"correctness witness"} ELSE {}]
       \/ report' = [Nothing EXCEPT !.status = "UNKNOWN"]
  /\ UNCHANGED <<source, settings, mChecks, module, mCheckMap, wl, inlined>>

(* The process has ended, or the inliner is beyond its bound. *)
Ended == (todo = <<>> \/ (Now("inlining") /\ inlined = MaxInlines /\ wl # <<>>)) /\ UNCHANGED vars

Next ==
  \/ BuildFrontend \/ PromoteUndefs \/ NormalizeVerifierCalls
  \/ \E check \in Factories : RunCheck(check)
  \/ MarkFunctionEntries
  \/ BeginInlining \/ InlineCall \/ EndInlining
  \/ DeleteDeadGlobals \/ InlineGlobalVariables
  \/ LiftErrorCalls
  \/ RunVerificationBackend
  \/ Ended

Spec == Init /\ [][Next]_vars

---------------------------------------------------------------------------
(* What the passes do not keep, and the properties leave out.              *)

(* Recursion that the error lifting does not follow: through more than one *)
(* function, or through one that has no error of its own.                  *)
OpenRecursion(m, checks) ==
  LET calls == CallsTransitively(m)
  IN \E f \in DOMAIN m.funs :
       /\ <<f, f>> \in calls
       /\ \/ \E g \in DOMAIN m.funs \ {f} : <<f, g>> \in calls /\ <<g, f>> \in calls
          \/ \A check \in checks : \A t \in Targets(m, check) : t.f # f
MutualRecursion(m) ==
  \E f, g \in DOMAIN m.funs : f # g /\ {<<f, g>>, <<g, f>>} \subseteq CallsTransitively(m)

(* A global that became a variable of a function called more than once is  *)
(* initialised again by every call.                                        *)
InlinedInto(m, f) ==
  {gv \in DOMAIN source.globals : \E s \in Sites(m.funs[f]) : Slot(gv) \in ToSet(InstAt(m.funs[f], s).to)}
InLoop(fn, b) ==
  LET succ == {e \in (DOMAIN fn.blocks) \X (DOMAIN fn.blocks) : e[2] \in ToSet(fn.blocks[e[1]].term.t)}
  IN <<b, b>> \in Closure(succ, DOMAIN fn.blocks)
CalledOnce(m, f) ==
  \A calls \in {CallsTransitively(m)} : \A g \in DOMAIN m.funs \ {m.entry} :
    g = f \/ <<g, f>> \in calls =>
      /\ getNumReferences(m, g) <= 1
      /\ \A h \in DOMAIN m.funs : \A s \in CallSites(m.funs[h], g) : ~InLoop(m.funs[h], s.b)
Reinitialised ==
  \E f \in DOMAIN module.funs \ {module.entry} : InlinedInto(module, f) # {} /\ ~CalledOnce(source, f)

---------------------------------------------------------------------------
SourceBehaviours ==
  {<<p, Behaviour([funs |-> p.funs, globals |-> p.globals, entry |-> "main"])>> : p \in Programs}

(* The failures of the source that the enabled checks are about, and those *)
(* of the module: by the codes of the checks that have run, and as in the  *)
(* source for the others.  The open calls are told by the marks.           *)
SourceFailures ==
  LET b == (CHOOSE t \in SourceBehaviours : /\ t[1].funs = source.funs
                                             /\ t[1].globals = source.globals)[2]
  IN {[check |-> f.kind, loc |-> f.loc, calls |-> f.frames] : f \in {g \in b : g.kind \in ToSet(mChecks)}}
ModuleFailures ==
  LET Calling(f) == IF "mark" \in ToSet(todo) THEN f.frames ELSE f.marks
      Violation(f) == IF f.kind # "code" THEN [check |-> f.kind, loc |-> f.loc]
                      ELSE LET r == messageForCode(mCheckMap, f.code) IN [check |-> r.check, loc |-> r.loc]
  IN {Violation(f) @@ [calls |-> Calling(f)] :
        f \in {g \in Behaviour(module) : g.kind \in {"code"} \cup ToSet(todo)}}

Analysed ==
  /\ report.status \in {"running", "FAILED", "SUCCESSFUL", "UNKNOWN"}
  /\ todo # <<"build">>
  /\ ~settings.skipPipeline
Exact == Analysed /\ ~Reinitialised /\ (settings.liftAsserts => ~OpenRecursion(source, ToSet(mChecks)))

WellFormed(m) ==
  \A f \in DOMAIN m.funs : LET fn == m.funs[f] IN
    /\ fn.entry \in DOMAIN fn.blocks
    /\ \A b \in DOMAIN fn.blocks :
         /\ ToSet(fn.blocks[b].term.t) \subseteq DOMAIN fn.blocks
         /\ fn.entry \notin ToSet(fn.blocks[b].term.t)
         /\ \A i \in DOMAIN fn.blocks[b].insts : LET inst == fn.blocks[b].insts[i] IN
              /\ inst.op = "set" => Len(inst.to) = Len(inst.args)
              /\ inst.f \in DOMAIN m.funs => Len(inst.args) = Len(m.funs[inst.f].args)
              /\ inst.op \in {"load", "store"} => inst.f \in DOMAIN m.globals

(* Every pass leaves a valid module and, as far as Exact goes, keeps the   *)
(* failures of the program: the same checks fail at the same places, in    *)
(* the same calls with the same arguments, whichever of the checks have    *)
(* been turned into error codes, functions inlined, globals made local and *)
(* errors lifted into main.                                                *)
FailuresArePreserved == WellFormed(module) /\ (Exact => ModuleFailures = SourceFailures)

(* What is printed is true of the program: a failed check with the place   *)
(* of a failure, SUCCESSFUL only for a program without one; the code of a  *)
(* failure is always found in the registry, and a witness is only written  *)
(* for a single file and a verdict that names what it shows.               *)
ReportIsTrue ==
  /\ report.status # "assertion"
  /\ Exact /\ report.status = "FAILED" =>
       \E f \in SourceFailures :
         report.check = "unknown" \/ (f.check = report.check /\ f.loc = report.loc)
  /\ Exact /\ report.status = "SUCCESSFUL" => SourceFailures = {}
  /\ "violation witness" \in report.outputs => report.loc # "" /\ Len(settings.files) = 1
  /\ "correctness witness" \in report.outputs => Len(settings.files) = 1

(* After LiftErrorsPass the entry function holds the only error call, or   *)
(* it calls no function that has one.                                      *)
ErrorsAreInMain ==
  Exact /\ settings.liftAsserts /\ "lift" \notin ToSet(todo) =>
    LET own == CallSites(module.funs[module.entry], ErrorCode)
        with == {f \in DOMAIN module.funs \ {module.entry} : CallSites(module.funs[f], ErrorCode) # {}}
    IN IF own # {} THEN Cardinality(own) = 1 /\ with = {}
       ELSE \A f \in with : <<module.entry, f>> \notin CallsTransitively(module)

(* On every run of the instrumented module the marks are nested as the     *)
(* calls are: a return closes the call that was entered last, and after a  *)
(* call the caller is the one that is open.                                *)
MarksAreNested == Analysed => \A f \in Behaviour(module) : f.kind # "marks"

(* The worklist of the inliner runs empty within the bound.  (Inlining all *)
(* calls does not end for functions that call each other: isInlineViable   *)
(* takes them for viable.)                                                 *)
InliningEnds ==
  inlined = MaxInlines /\ wl # <<>> => settings.inlineLevel = "All" /\ MutualRecursion(source)
=============================================================================
