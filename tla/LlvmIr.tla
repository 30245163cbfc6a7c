------------------------------- MODULE LlvmIr -------------------------------
(***************************************************************************)
(* The LLVM modules the front end works on, and the parts of LLVM its      *)
(* passes call.  A PHI node is an assignment at the end of the predecessor *)
(* block, a slot on the stack that mem2reg promotes is a variable.  A name *)
(* of a variable or of a block is a sequence of strings, so that a copy    *)
(* gets names of its own.                                                  *)
(*                                                                         *)
(* Behaviour(m) is what a module does: the failures it can reach, each     *)
(* with the calls that were open, by the frames and by the marks.          *)
(***************************************************************************)
EXTENDS Integers, Sequences, FiniteSets, TLC, SequencesExt, Relation

CONSTANTS MaxValue,     \* integers are 0..MaxValue
          MaxStack      \* frames of a run

ASSUME BoundsAssumption == MaxValue \in Nat \ {0} /\ MaxStack \in Nat \ {0}

Values == 0 .. MaxValue
Wrap(n) == n % (MaxValue + 1)

Const(n) == [k |-> "const", c |-> n, x |-> <<>>]
Var(x) == [k |-> "var", c |-> 0, x |-> x]
Undef == [k |-> "undef", c |-> 0, x |-> <<>>]

(* An instruction: f is the function called or the global accessed, md the *)
(* metadata argument of a mark (the function or the global it is about).   *)
Inst(op, to, f, args, loc) == [op |-> op, to |-> to, f |-> f, md |-> "", args |-> args, loc |-> loc]
Set(to, args) == Inst("set", to, "", args, "")
Call(f, args) == Inst("call", <<>>, f, args, "")
Mark(f, md, args) == [Call(f, args) EXCEPT !.md = md]

Term(k, c, t, v) == [k |-> k, c |-> c, t |-> t, v |-> v]
Br(b) == Term("br", Const(1), <<b>>, <<>>)
CondBr(c, b1, b2) == Term("cond", c, <<b1, b2>>, <<>>)
Ret(v) == Term("ret", Const(1), <<>>, v)
Unreachable == Term("unreachable", Const(1), <<>>, <<>>)
Block(insts, term) == [insts |-> insts, term |-> term]

---------------------------------------------------------------------------
(* Names of functions that are declared only.                              *)
ErrorCode == "gazer.error_code"
EntryMark == "gazer.function.entry"
ReturnMark == "gazer.function.return_value"
ReturnVoidMark == "gazer.function.return_void"
CallReturnedMark == "gazer.function.call_returned"
GlobalWriteMark == "gazer.inlined_global.write"
ErrorFunctions == {"__VERIFIER_error", "__assert_fail", "__gazer_error", "reach_error"}
TrapFunctions == {"__ubsan_handle_add_overflow_abort", "__ubsan_handle_sub_overflow_abort",
                  "__ubsan_handle_mul_overflow_abort"}
AssumeFunctions == {"__VERIFIER_assume", "klee_assume", "__llbmc_assume"}
WithOverflow == "llvm.sadd.with.overflow"
NoOverflow == "gazer.no_overflow.sadd"

---------------------------------------------------------------------------
(* Where things are.                                                       *)
Sites(fn) == UNION {{[b |-> b, i |-> i] : i \in DOMAIN fn.blocks[b].insts} : b \in DOMAIN fn.blocks}
InstAt(fn, s) == fn.blocks[s.b].insts[s.i]
CallSites(fn, f) == {s \in Sites(fn) : InstAt(fn, s).op = "call" /\ InstAt(fn, s).f = f}
Calls(m, f) == {g \in DOMAIN m.funs : CallSites(m.funs[f], g) # {}}
CallGraph(m) == {e \in (DOMAIN m.funs) \X (DOMAIN m.funs) : e[2] \in Calls(m, e[1])}
Closure(R, S) ==
  LET closed == TransitiveClosure([e \in S \X S |-> e \in R], S) IN {e \in S \X S : closed[e]}
CallsTransitively(m) == Closure(CallGraph(m), DOMAIN m.funs)
getNumReferences(m, f) ==
  Cardinality(UNION {{<<g, s>> : s \in CallSites(m.funs[g], f)} : g \in DOMAIN m.funs})
Accessing(m, gv) ==
  {f \in DOMAIN m.funs :
     \E s \in Sites(m.funs[f]) : InstAt(m.funs[f], s).op \in {"load", "store"} /\ InstAt(m.funs[f], s).f = gv}

---------------------------------------------------------------------------
(* LLVM's utilities.                                                       *)
RenameOperand(o, tag) == IF o.k = "var" THEN [o EXCEPT !.x = <<tag>> \o @] ELSE o
RenameArgs(a, tag) == [i \in DOMAIN a |-> RenameOperand(a[i], tag)]
RenameVars(to, tag) == [i \in DOMAIN to |-> <<tag>> \o to[i]]
RenameBlock(b, tag) ==
  Block([i \in DOMAIN b.insts |->
           [b.insts[i] EXCEPT !.to = RenameVars(@, tag), !.args = RenameArgs(@, tag)]],
        Term(b.term.k, RenameOperand(b.term.c, tag), RenameVars(b.term.t, tag),
             RenameArgs(b.term.v, tag)))
CloneBlocks(blocks, tag) ==
  [n \in {<<tag>> \o b : b \in DOMAIN blocks} |-> RenameBlock(blocks[Tail(n)], tag)]

(* Every block cut in front of the instructions at sites; the piece that   *)
(* ends in front of s goes on with Rest(s, the name of the next piece).    *)
SplitBlocks(fn, sites, tag, Rest(_, _)) ==
  LET pieces == {[b |-> b, i |-> 0] : b \in DOMAIN fn.blocks} \cup sites
      Piece(p) == IF p.i = 0 THEN p.b ELSE p.b \o <<tag, ToString(p.i)>>
      Behind(p) == {s \in sites : s.b = p.b /\ s.i > p.i}
      Insts(p, j) == SubSeq(fn.blocks[p.b].insts, IF p.i = 0 THEN 1 ELSE p.i, j)
      Body(p) ==
        IF Behind(p) = {} THEN Block(Insts(p, Len(fn.blocks[p.b].insts)), fn.blocks[p.b].term)
        ELSE LET s == CHOOSE s \in Behind(p) : \A t \in Behind(p) : s.i <= t.i
                 r == Rest(s, Piece(s))
             IN Block(Insts(p, s.i - 1) \o r.insts, r.term)
  IN [fn EXCEPT !.blocks =
        [n \in {Piece(p) : p \in pieces} |-> Body(CHOOSE p \in pieces : Piece(p) = n)]]

InlineFunction(fn, site, callee, tag) ==
  LET blk == fn.blocks[site.b]
      call == blk.insts[site.i]
      cont == <<tag, "cont">> \o site.b
      Body(b) == IF b.term.k # "ret" THEN b
                 ELSE Block(IF call.to = <<>> THEN b.insts ELSE Append(b.insts, Set(call.to, b.term.v)),
                            Br(cont))
      copy == CloneBlocks(callee.blocks, tag)
  IN [fn EXCEPT !.blocks =
        (site.b :> Block(Append(SubSeq(blk.insts, 1, site.i - 1),
                                Set(RenameVars(callee.args, tag), call.args)),
                         Br(<<tag>> \o callee.entry)))
        @@ (cont :> Block(SubSeq(blk.insts, site.i + 1, Len(blk.insts)), blk.term))
        @@ [n \in DOMAIN copy |-> Body(copy[n])]
        @@ @]

isInlineViable(m, f) == f \notin Calls(m, f)

(* GlobalDCE, with every function but the entry internal. *)
GlobalDCE(m) ==
  LET live == {m.entry} \cup {f \in DOMAIN m.funs : <<m.entry, f>> \in CallsTransitively(m)}
      kept == [m EXCEPT !.funs = [f \in live |-> @[f]]]
  IN [kept EXCEPT !.globals = [g \in {h \in DOMAIN @ : Accessing(kept, h) # {}} |-> @[g]]]

---------------------------------------------------------------------------
(* Runs of a module.                                                       *)
OperandValues(o, env) ==
  CASE o.k = "const" -> {o.c}
    [] o.k = "var" -> {env[o.x]}
    [] o.k = "undef" -> Values
ArgValues(args, env) ==
  {s \in [DOMAIN args -> UNION {OperandValues(args[i], env) : i \in DOMAIN args}] :
     \A i \in DOMAIN args : s[i] \in OperandValues(args[i], env)}
Bind(env, xs, vs) ==
  [x \in ToSet(xs) |-> vs[CHOOSE i \in DOMAIN xs : xs[i] = x]] @@ env

Frame(m, f, vs) ==
  [f |-> f, b |-> m.funs[f].entry, i |-> 1, vs |-> vs, env |-> Bind(<<>>, m.funs[f].args, vs)]
Start(m) ==
  [frames |-> <<Frame(m, m.entry, <<>>)>>, marks |-> <<>>, fail |-> <<>>,
   g |-> [h \in DOMAIN m.globals |-> m.globals[h].init]]

Top(c) == Last(c.frames)
SetTop(c, fr) == [c EXCEPT !.frames = Append(Front(@), fr)]
Assigned(c, xs, vs) == SetTop(c, [Top(c) EXCEPT !.i = @ + 1, !.env = Bind(@, xs, vs)])
Skip(c) == Assigned(c, <<>>, <<>>)
Failed(c, kind, loc, code) == [c EXCEPT !.fail = <<kind, loc, code>>]

(* The marks: an entry opens a call, a return closes the call it names,    *)
(* and after a call the one that is open is the caller's.                  *)
MarkStep(c, inst, vs) ==
  CASE inst.f = EntryMark -> {Skip([c EXCEPT !.marks = Append(@, <<inst.md, vs>>)])}
    [] inst.f \in {ReturnMark, ReturnVoidMark} ->
         IF c.marks # <<>> /\ Last(c.marks)[1] = inst.md
         THEN {Skip([c EXCEPT !.marks = Front(@)])} ELSE {Failed(c, "marks", inst.md, 0)}
    [] inst.f = CallReturnedMark ->
         IF c.marks # <<>> /\ Last(c.marks)[1] = inst.md
         THEN {Skip(c)} ELSE {Failed(c, "marks", inst.md, 0)}
    [] inst.f = GlobalWriteMark -> {Skip(c)}

IsMark(f) == f \in {EntryMark, ReturnMark, ReturnVoidMark, CallReturnedMark, GlobalWriteMark}

ExternalStep(c, inst, vs) ==
  CASE IsMark(inst.f) -> MarkStep(c, inst, vs)
    [] inst.f = ErrorCode -> {Failed(c, "code", "", vs[1])}
    [] inst.f \in ErrorFunctions -> {Failed(c, "assertion-fail", inst.loc, 0)}
    [] inst.f \in TrapFunctions -> {Failed(c, "signed-overflow", inst.loc, 0)}
    [] inst.f \in AssumeFunctions \cup {"verifier.assume"} -> IF vs[1] = 0 THEN {} ELSE {Skip(c)}
    [] inst.f = WithOverflow ->
         {Assigned(c, inst.to, <<Wrap(vs[1] + vs[2]), IF vs[1] + vs[2] > MaxValue THEN 1 ELSE 0>>)}
    [] inst.f = NoOverflow -> {Assigned(c, inst.to, <<IF vs[1] + vs[2] > MaxValue THEN 0 ELSE 1>>)}
    [] inst.f = "gazer.dummy_nondet.i1" -> {Assigned(c, inst.to, <<v>>) : v \in {0, 1}}
    [] inst.f = "gazer.dummy.void" -> {Skip(c)}
    [] inst.f \in {"gazer.undef_value", "__VERIFIER_nondet_int"} ->
         {Assigned(c, inst.to, <<v>>) : v \in Values}

InstStep(m, c, inst, vs) ==
  CASE inst.op = "set" -> {Assigned(c, inst.to, vs)}
    [] inst.op = "add" -> {Assigned(c, inst.to, <<Wrap(vs[1] + vs[2])>>)}
    [] inst.op = "ne" -> {Assigned(c, inst.to, <<IF vs[1] # vs[2] THEN 1 ELSE 0>>)}
    [] inst.op = "not" -> {Assigned(c, inst.to, <<1 - vs[1]>>)}
    [] inst.op = "div" -> IF vs[2] = 0 THEN {Failed(c, "div-by-zero", inst.loc, 0)}
                          ELSE {Assigned(c, inst.to, <<vs[1] \div vs[2]>>)}
    [] inst.op = "load" -> {Assigned(c, inst.to, <<c.g[inst.f]>>)}
    [] inst.op = "store" -> {Skip([c EXCEPT !.g[inst.f] = vs[1]])}
    [] inst.op = "call" /\ inst.f \in DOMAIN m.funs ->
         IF Len(c.frames) = MaxStack THEN {}
         ELSE {[c EXCEPT !.frames = Append(@, Frame(m, inst.f, vs))]}
    [] OTHER -> ExternalStep(c, inst, vs)

Goto(c, b) == SetTop(c, [Top(c) EXCEPT !.b = b, !.i = 1])
Returned(m, c, vs) ==
  LET caller == c.frames[Len(c.frames) - 1]
      call == m.funs[caller.f].blocks[caller.b].insts[caller.i]
  IN Assigned([c EXCEPT !.frames = Front(@)], call.to, IF call.to = <<>> THEN <<>> ELSE vs)

RunStep(m, c) ==
  LET fr == Top(c)
      blk == m.funs[fr.f].blocks[fr.b]
      t == blk.term
  IN IF c.fail # <<>> THEN {}
     ELSE IF fr.i <= Len(blk.insts)
     THEN UNION {InstStep(m, c, blk.insts[fr.i], vs) : vs \in ArgValues(blk.insts[fr.i].args, fr.env)}
     ELSE CASE t.k = "unreachable" -> {}
            [] t.k = "br" -> {Goto(c, t.t[1])}
            [] t.k = "cond" -> {Goto(c, t.t[IF v = 0 THEN 2 ELSE 1]) : v \in OperandValues(t.c, fr.env)}
            [] t.k = "ret" -> IF Len(c.frames) = 1 THEN {}
                              ELSE {Returned(m, c, vs) : vs \in ArgValues(t.v, fr.env)}

RECURSIVE Explore(_, _, _)
Explore(m, frontier, seen) ==
  IF frontier = {} THEN seen
  ELSE LET next == UNION {RunStep(m, c) : c \in frontier}
       IN Explore(m, next \ (seen \cup frontier), seen \cup frontier)

(* The failures a module reaches, with the calls that are open then: the    *)
(* frames of the functions with debug information, and the open marks.     *)
OpenCalls(m, c) ==
  LET known == SelectSeq(c.frames, LAMBDA fr : m.funs[fr.f].dsp)
  IN [i \in DOMAIN known |-> <<known[i].f, known[i].vs>>]
Behaviour(m) ==
  {[kind |-> c.fail[1], loc |-> c.fail[2], code |-> c.fail[3],
    frames |-> OpenCalls(m, c), marks |-> c.marks] :
     c \in {d \in Explore(m, {Start(m)}, {}) : d.fail # <<>>}}
=============================================================================
