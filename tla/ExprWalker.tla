----------------------------- MODULE ExprWalker -----------------------------
(***************************************************************************)
(* Expressions at work.  A client builds an expression bottom-up, once     *)
(* through the plain and once through the folding builder, or as the       *)
(* translation of an LLVM instruction, and then walks the folded one: with *)
(* the evaluator, with the variable rewriter, or with a caching visitor    *)
(* such as the solver's translator.                                        *)
(*                                                                         *)
(* ExprWalker keeps its frames on a heap-allocated stack instead of the    *)
(* call stack.  A frame is [e, idx, state, ops, addr]: expression, index   *)
(* in the parent, operands started, operand results, place in the          *)
(* allocator.  The frame below is its mParent; the last one is mTop.       *)
(***************************************************************************)
EXTENDS InstToExpr

CONSTANTS
  Families,   \* the vocabularies a client builds from, see FamilyAssumption
  SlabSize,   \* frames per slab of the GrowingStackAllocator
  Visitors,   \* the visitors used: "eval", "rewrite", "cached"
  WalkSteps   \* a walk starts after this many builder calls

(* A family has atoms, unary and binary kinds, the types of casts, whether *)
(* Select is used, the number of builder calls, the valuations and the     *)
(* substitutions of its variables, and the valuations of its walks.        *)
FamilyAssumption ==
  \A name \in DOMAIN Families : LET f == Families[name] IN
    /\ f.max \in Nat /\ f.walks \subseteq f.vals /\ f.select \in BOOLEAN
    /\ f.unary \subseteq {"Not", "FIsNan", "FIsInf"}
    /\ f.binary \subseteq Arithmetic \cup Compare \cup FpArith \cup FpCompare
                          \cup {"And", "Or", "Imply", "BvConcat", "ArrayRead"}
ASSUME FamilyAssumption
ASSUME SlabAssumption == SlabSize \in Nat \ {0}

VARIABLES
  family,   \* the name of the vocabulary in use
  steps,    \* builder calls made
  plain,    \* what ExprBuilder built
  folded,   \* what FoldingExprBuilder built from the same calls
  inst,     \* the LLVM instruction that folded translates, or NoInst
  swapped,  \* a call was Select(C1, Select(C2, E1, E2), E1)
  visitor,  \* "none", or the visitor of the walk
  val,      \* its valuation, or its substitution for "rewrite"
  frames,   \* the stack of frames, top last
  offs,     \* frames in use in each slab (Slab::Current)
  cur,      \* mCurrentSlab
  cache,    \* what handleResult stored
  result    \* what walk() returned, None before it does

built == <<family, steps, plain, folded, inst, swapped>>
walk == <<visitor, val, frames, offs, cur, cache, result>>
vars == <<built, walk>>

voc == Families[family]
NoInst == [op |-> "none"]
None == [k |-> "None", t |-> [id |-> "None"]]

Init ==
  /\ family \in DOMAIN Families
  /\ steps = 0
  /\ plain \in voc.atoms
  /\ folded = plain
  /\ inst = NoInst
  /\ swapped = FALSE
  /\ visitor = "none" /\ val = <<>> /\ frames = <<>>
  /\ offs = <<0>> /\ cur = 1 /\ cache = {} /\ result = None

---------------------------------------------------------------------------
(* The client's calls.  The operand built so far is used once, the others  *)
(* are atoms.                                                              *)

MayBuild == visitor = "none" /\ steps < voc.max /\ folded # Abort

Build(k, ops, arg) ==
  /\ steps' = steps + 1
  /\ plain' = Plain(k, [i \in DOMAIN ops |-> IF ops[i] = None THEN plain ELSE ops[i]], arg)
  /\ plain' # Abort
  /\ folded' = Fold(k, [i \in DOMAIN ops |-> IF ops[i] = None THEN folded ELSE ops[i]], arg)
  /\ UNCHANGED <<family, inst, walk>>

UnaryCalls == {<<k, None>> : k \in voc.unary} \cup voc.casts \cup {<<"Extract", x>> : x \in voc.extracts}
BuildUnary ==
  /\ MayBuild /\ voc.insts = {}
  /\ \E c \in UnaryCalls : Build(c[1], <<None>>, c[2])
  /\ UNCHANGED swapped

BuildBinary ==
  /\ MayBuild /\ voc.insts = {}
  /\ \E k \in voc.binary, o \in voc.atoms : \E ops \in {<<None, o>>, <<o, None>>} : Build(k, ops, None)
  /\ UNCHANGED swapped

BuildSelect ==
  /\ MayBuild /\ voc.insts = {} /\ voc.select
  /\ \E a, b \in voc.atoms : \E ops \in {<<None, a, b>>, <<a, None, b>>, <<a, b, None>>} :
       /\ Build("Select", ops, None)
       /\ swapped' = (swapped \/ (ops[2] = None /\ NestedThenOfElse(folded, b)))

BuildWrite ==
  /\ MayBuild /\ voc.insts = {}
  /\ \E i, v \in voc.atoms : Build("ArrayWrite", <<None, i, v>>, None)
  /\ UNCHANGED swapped

(* The front end translates an instruction.  Its operands are arguments,   *)
(* constants and, as [op |-> "prev"], the instruction translated before,   *)
(* whose expression is inlined: tryToEliminate inlines everything but      *)
(* undefs and calls.                                                       *)
Usable(o) ==
  o.op = "prev" => inst.op \notin DOMAIN OverflowOp \cup {"none"} /\ inst.ty = o.ty /\ folded.k # "Undef"

Translate ==
  /\ MayBuild
  /\ \E i \in voc.insts :
       LET Operand(o) == IF o.op = "prev" THEN folded ELSE OperandValue(o, voc.ints)
           full == [i EXCEPT !.a = [n \in DOMAIN i.a |-> IF i.a[n].op = "prev" THEN inst ELSE i.a[n]]]
       IN /\ \A n \in DOMAIN i.a : Usable(i.a[n])
          /\ steps > 0 => \E n \in DOMAIN i.a : i.a[n].op = "prev"
          /\ inst' = full
          /\ folded' = Transform(i, [n \in DOMAIN i.a |-> Operand(i.a[n])], voc.ints)
  /\ steps' = steps + 1
  /\ UNCHANGED <<family, plain, swapped, walk>>

---------------------------------------------------------------------------
(* GrowingStackAllocator: unit-size frames, SlabSize to a slab.            *)

Full == offs[cur] + 1 > SlabSize
SlabsAfterStart == IF Full /\ cur = Len(offs) THEN Append(offs, 0) ELSE offs
SlabAfterStart == IF Full THEN cur + 1 ELSE cur

CreateFrame(e, idx) ==
  LET s == SlabAfterStart
  IN /\ cur' = s
     /\ offs' = [SlabsAfterStart EXCEPT ![s] = @ + 1]
     /\ frames' = Append(
          IF frames = <<>> THEN <<>> ELSE [frames EXCEPT ![Len(frames)].state = @ + 1],
          [e |-> e, idx |-> idx, state |-> 0, ops |-> <<>>,
           addr |-> <<s, SlabsAfterStart[s]>>])

(* Deallocate: the frame ends the current slab or, by assertion, the       *)
(* previous one.                                                           *)
AtEnd(addr, s) == addr[1] = s /\ addr[2] + 1 = offs[s]
DeallocateOk(addr) == AtEnd(addr, cur) \/ (cur > 1 /\ AtEnd(addr, cur - 1))

\* Mutant: the slab's offset is not reset.
DeallocateNothing(addr) ==
  /\ cur' = IF AtEnd(addr, cur) THEN cur ELSE cur - 1
  /\ UNCHANGED offs

Deallocate(addr) ==
  LET s == IF AtEnd(addr, cur) THEN cur ELSE cur - 1
  IN /\ cur' = s
     /\ offs' = [offs EXCEPT ![s] = addr[2]]

---------------------------------------------------------------------------
(* ExprWalker::walk, one iteration of its loop at a time.                  *)

Top == frames[Len(frames)]
Walking == visitor # "none" /\ result = None

StartWalk(v) ==
  /\ visitor = "none" /\ steps = WalkSteps /\ folded # Abort /\ voc.walks # {}
  /\ visitor' = v
  /\ \E c \in IF v = "rewrite" THEN voc.subs ELSE voc.walks : val' = c
  /\ CreateFrame(folded, 0)
  /\ UNCHANGED <<built, cache, result>>

IsFinished(f) == f.state = IF IsNullary(f.e) THEN 0 ELSE Len(f.e.a)
\* Mutant: looked up by kind.
HitsByKind(e) == {p \in cache : p[1].k = e.k}
Hits(e) == {p \in cache : p[1] = e}
ShouldSkip(e) == visitor = "cached" /\ Hits(e) # {}

(* doVisit, for the three visitors. *)
DoVisit(f) ==
  IF visitor = "rewrite" THEN VisitRewrite(f.e, f.ops, val) ELSE Visit(f.e, f.ops, val)

Descend ==
  /\ Walking
  /\ ~IsFinished(Top) /\ ~ShouldSkip(Top.e)
  /\ CreateFrame(Top.e.a[Top.state + 1], Top.state + 1)
  /\ UNCHANGED <<built, visitor, val, cache, result>>

(* The visited operand is stored at the frame's index in its parent. *)
Finish(ret) ==
  LET rest == SubSeq(frames, 1, Len(frames) - 1)
      SetOp(ops, i) == [j \in 1 .. Len(ops) + 1 |-> IF j = i THEN ret ELSE ops[j]]
  IN /\ Deallocate(Top.addr)
     /\ IF rest = <<>>
        THEN frames' = <<>> /\ result' = ret
        ELSE /\ frames' = [rest EXCEPT ![Len(rest)].ops = SetOp(@, Top.idx)]
             /\ UNCHANGED result
     /\ UNCHANGED <<built, visitor, val>>

HandleResult(ret) ==
  /\ cache' = IF visitor = "cached" THEN cache \cup {<<Top.e, ret>>} ELSE cache
  /\ Finish(ret)

VisitStep ==
  /\ Walking
  /\ IsFinished(Top) /\ ~ShouldSkip(Top.e)
  /\ HandleResult(DoVisit(Top))

Skip ==
  /\ Walking
  /\ ShouldSkip(Top.e)
  /\ Finish((CHOOSE p \in Hits(Top.e) : TRUE)[2])
  /\ UNCHANGED cache

(* The client is done: nothing else happens. *)
Stop ==
  /\ \/ result # None
     \/ visitor = "none" /\ (steps = voc.max \/ folded = Abort)
  /\ UNCHANGED vars

Build_ == BuildUnary \/ BuildBinary \/ BuildSelect \/ BuildWrite \/ Translate
WalkNext == Descend \/ VisitStep \/ Skip
Next == Build_ \/ (\E v \in Visitors : StartWalk(v)) \/ WalkNext \/ Stop

Spec == Init /\ [][Next]_vars

---------------------------------------------------------------------------
(* Folding never changes a value.  Under every valuation for which the     *)
(* plain expression has one (no division by zero, no shift beyond the      *)
(* width), the folded expression evaluates to the same literal, of the     *)
(* same type; the builder aborts only on an expression that no valuation   *)
(* can evaluate.  Only the rule for Select(C1, Select(C2, E1, E2), E1) is  *)
(* left out.                                                               *)
FoldingPreservesValue ==
  inst = NoInst =>
    /\ folded = Abort => \A v \in voc.vals : Eval(plain, v) = Abort
    /\ folded # Abort => folded.t = plain.t
    /\ folded # Abort /\ ~swapped /\ visitor = "none" =>
         \A v \in voc.vals :
           LET p == Eval(plain, v) IN p # Abort => Eval(folded, v) = p

(* Rewriting variables (as the model checker does for the arguments of an  *)
(* inlined call) commutes with evaluation: the rewritten expression has    *)
(* the value that the original has once the variables are replaced by the  *)
(* values of what they are rewritten to.                                   *)
RewriteIsSubstitution ==
  folded # Abort /\ ~swapped /\ visitor = "none" =>
    \A sub \in voc.subs :
      LET new == Rewrite(folded, sub)
      IN new # Abort =>
           \A v \in voc.vals :
             LET image == [x \in DOMAIN v |-> IF x \in DOMAIN sub THEN Eval(sub[x], v) ELSE v[x]]
                 expected == Eval(folded, image)
             IN expected # Abort => Eval(new, v) = expected

(* In the bit-vector representation the expression of an instruction       *)
(* evaluates to the instruction's value wherever LLVM defines it and no    *)
(* truncation to i1 meets a value above 1; the translation never fails on  *)
(* one of these instructions.                                              *)
ArgValue(v) == [x \in DOMAIN v |-> IF IsBoolLit(v[x]) THEN BitOf(v[x].b) ELSE v[x].n % 2^voc.width]
IsPredicate == inst.op \in DOMAIN OverflowOp
BitVectorsAreExact ==
  inst # NoInst /\ ~IsPredicate /\ voc.ints = "bv" =>
    /\ folded # Abort
    /\ \A v \in voc.vals :
         LET n == LLVMValue(inst, ArgValue(v))
         IN n # Poison /\ BooleansAreBits(inst, ArgValue(v)) =>
              Eval(folded, v) = Represent(n, inst.ty, "bv")

(* In the integer representation it does, or is undef, wherever the        *)
(* representation covers the instruction.                                  *)
IntegersAreExactWhereCovered ==
  inst # NoInst /\ ~IsPredicate /\ voc.ints = "int" =>
    /\ folded # Abort
    /\ \A v \in voc.vals :
         LET n == LLVMValue(inst, ArgValue(v))
         IN n # Poison /\ Covered(inst, ArgValue(v)) =>
              Eval(folded, v) \in {Represent(n, inst.ty, "int"), Undef(folded.t)}

(* The expression of an instruction has the instruction's value: always in *)
(* the bit-vector representation, and where the integers cover it.         *)
InstructionsAreExact == BitVectorsAreExact /\ IntegersAreExactWhereCovered

(* gazer.no_overflow never misses an overflow: where it holds, the         *)
(* operation's exact result fits.  Left out is the bit-vector subtraction  *)
(* of the least value, whose negation is itself.                           *)
OverflowIsNeverMissed ==
  IsPredicate =>
    \A v \in voc.vals :
      LET n == LLVMValue(inst, ArgValue(v))
          least == LLVMValue(inst.a[2], ArgValue(v)) = 2^(voc.width - 1)
          covered == voc.ints = "bv" \/ Covered(inst, ArgValue(v))
      IN n # Poison /\ covered /\ Eval(folded, v) = True =>
           n = 1 \/ (voc.ints = "bv" /\ inst.op = "ssubno" /\ least)

(* The explicit stack computes what the recursion computes, with and       *)
(* without the cache.                                                      *)
WalkIsRecursion ==
  result # None =>
    result = IF visitor = "rewrite" THEN Rewrite(folded, val) ELSE Eval(folded, val)

(* Frames are freed in the order the allocator can undo: each live frame   *)
(* has its own slot, and the top one ends the current or previous slab.    *)
FramesAreStacked ==
  /\ \A i, j \in DOMAIN frames : i < j =>
       \/ frames[i].addr[1] < frames[j].addr[1]
       \/ frames[i].addr[1] = frames[j].addr[1] /\ frames[i].addr[2] < frames[j].addr[2]
  /\ frames # <<>> => DeallocateOk(Top.addr)
  /\ frames = <<>> => \A s \in DOMAIN offs : offs[s] = 0

===========================================================================
