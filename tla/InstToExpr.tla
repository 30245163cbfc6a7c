----------------------------- MODULE InstToExpr -----------------------------
(***************************************************************************)
(* InstToExpr: the expression of an LLVM instruction, in the two integer   *)
(* representations: "bv" (bit-vectors) and "int" (mathematical integers,   *)
(* option -math-int), with the folding builder.                            *)
(*                                                                         *)
(* An instruction is [op, ty, a]: opcode, LLVM type and operands, which    *)
(* are instructions that the translation inlines, arguments [op |-> "arg", *)
(* ty, x] or constants [op |-> "const", ty, n] (n unsigned).  LLVM's types *)
(* are [id |-> "i", w], [id |-> "f", w] and [id |-> "s", ts].  Loads,      *)
(* stores, pointers and calls belong to other modules; a call appears here *)
(* for the gazer.no_overflow intrinsics.                                   *)
(***************************************************************************)
EXTENDS ExprFold

ITy(w) == [id |-> "i", w |-> w]
FTy(w) == [id |-> "f", w |-> w]
STy(ts) == [id |-> "s", ts |-> ts]

(* LLVMTypeTranslator::get for the types without pointers. *)
RECURSIVE TranslateType(_, _)
TranslateType(ty, ints) ==
  CASE ty = ITy(1) -> BoolT
    [] ty.id = "i" -> IF ints = "bv" THEN BvT(ty.w) ELSE IntT
    [] ty.id = "f" -> FloatT(ty.w)
    [] OTHER -> TupleT([i \in DOMAIN ty.ts |-> TranslateType(ty.ts[i], ints)])

IsLogicInstruction(op) == op \in {"and", "or", "xor"}
IsFloatInstruction(op) == op \in {"fadd", "fsub", "fmul", "fdiv"}

(* The calls of the builder that a translation makes: a tree, whose leaves *)
(* are expressions, and which Built makes, operands first.                 *)
Call(k, ops, arg) == [call |-> k, ops |-> ops, arg |-> arg]
B(k, l, r) == Call(k, <<l, r>>, <<>>)
Sel(c, l, r) == Call("Select", <<c, l, r>>, <<>>)
And(ops) == Call("And", ops, <<>>)
Or(ops) == Call("Or", ops, <<>>)
Not(op) == Call("Not", <<op>>, <<>>)
Trunc(op, w) == Call("Extract", <<op>>, <<0, w>>)

RECURSIVE Built(_)
Built(c) ==
  IF "call" \in DOMAIN c THEN Fold(c.call, [i \in DOMAIN c.ops |-> Built(c.ops[i])], c.arg)
  ELSE c

---------------------------------------------------------------------------
(* The conversions between the representations of a value.                 *)

Zero(t) == IF IsBv(t) THEN BvLit(0, t.w) ELSE IntLit(0)

AsBool(e) ==
  CASE e.t = BoolT -> e
    [] IsBv(e.t) \/ e.t = IntT -> Sel(B("Eq", e, Zero(e.t)), False, True)
    [] OTHER -> Abort

AsBv(e, w) ==
  CASE e.t = BoolT -> Sel(e, BvLit(1, w), BvLit(0, w))
    [] IsBv(e.t) -> e
    [] OTHER -> Abort

AsInt(e) ==
  CASE e.t = BoolT -> Sel(e, IntLit(1), IntLit(0))
    [] e.t = IntT -> e
    [] OTHER -> Abort

CastResult(e, t) ==
  CASE e.t = t -> e
    [] t = BoolT -> AsBool(e)
    [] IsBv(t) -> AsBv(e, t.w)
    [] t = IntT -> AsInt(e)
    [] OTHER -> Abort

---------------------------------------------------------------------------
BvOpcode ==
  [add |-> "Add", sub |-> "Sub", mul |-> "Mul", sdiv |-> "BvSDiv", udiv |-> "BvUDiv",
   srem |-> "BvSRem", urem |-> "BvURem", shl |-> "Shl", lshr |-> "LShr", ashr |-> "AShr",
   and |-> "BvAnd", or |-> "BvOr", xor |-> "BvXor"]
IntOpcode ==
  [add |-> "Add", sub |-> "Sub", mul |-> "Mul", sdiv |-> "Div", udiv |-> "Div",
   srem |-> "Rem", urem |-> "Rem"]
FpOpcode == [fadd |-> "FAdd", fsub |-> "FSub", fmul |-> "FMul", fdiv |-> "FDiv"]

(* Literals are computed on w bits; x op 0 and 0 op x, -1 op x have cases; *)
(* everything else is undef.                                               *)
TryToRepresentBitOperator(op, l, r, w) ==
  LET k == BvOpcode[op]
      lits == FoldBvLits(k, BvLit(l.n, w), BvLit(r.n, w))
      shift == op \in {"shl", "lshr", "ashr"}
  IN CASE IsIntLit(l) /\ IsIntLit(r) -> IntLit(Signed(lits.n, w))
       [] IsIntLit(r) /\ r.n = 0 /\ (shift \/ op = "or") -> l
       [] IsIntLit(r) /\ r.n = 0 /\ op = "and" -> r
       [] IsIntLit(r) -> Undef(IntT)
       [] IsIntLit(l) /\ l.n = 0 /\ op = "or" -> r
       [] IsIntLit(l) /\ l.n = 0 /\ op = "and" -> l
       [] IsIntLit(l) /\ l.n % 2^w = 2^w - 1 /\ op = "or" -> l
       [] IsIntLit(l) /\ l.n % 2^w = 2^w - 1 /\ op = "and" -> r
       [] OTHER -> Undef(IntT)

(* The builder's Xor is a NotEq. *)
VisitLogicInst(op, l, r) ==
  CASE op = "and" -> And(<<l, r>>)
    [] op = "or" -> Or(<<l, r>>)
    [] OTHER -> B("NotEq", l, r)

VisitIntBinary(inst, l, r) ==
  IF inst.op \in DOMAIN IntOpcode THEN B(IntOpcode[inst.op], AsInt(l), AsInt(r))
  ELSE TryToRepresentBitOperator(inst.op, Built(AsInt(l)), Built(AsInt(r)), inst.ty.w)

VisitBinaryOperator(inst, l, r, t) ==
  CASE IsLogicInstruction(inst.op) /\ inst.ty = ITy(1) ->
         VisitLogicInst(inst.op, AsBool(l), AsBool(r))
    [] IsFloatInstruction(inst.op) -> B(FpOpcode[inst.op], l, r)
    [] IsBv(t) -> B(BvOpcode[inst.op], AsBv(l, t.w), AsBv(r, t.w))
    [] t = IntT -> VisitIntBinary(inst, l, r)
    [] OTHER -> Abort

VisitSelectInst(c, then, elze, t) == Sel(AsBool(c), CastResult(then, t), CastResult(elze, t))

---------------------------------------------------------------------------
(* Comparisons.  On integers an unsigned comparison looks at the signs.    *)

UnsignedLessThan(l, r) ==
  LET zero == IntLit(0)
  IN Sel(B("GtEq", l, zero),
         Sel(B("GtEq", r, zero), B("Lt", l, r), True),
         Sel(B("Lt", r, zero), B("Lt", l, r), False))

BvPredicate ==
  [ugt |-> "BvUGt", uge |-> "BvUGtEq", ult |-> "BvULt", ule |-> "BvULtEq",
   sgt |-> "BvSGt", sge |-> "BvSGtEq", slt |-> "BvSLt", sle |-> "BvSLtEq"]

VisitIntICmp(pred, l, r) ==
  CASE pred = "ugt" -> UnsignedLessThan(r, l)
    [] pred = "sgt" -> B("Gt", l, r)
    [] pred = "uge" -> Or(<<B("Eq", l, r), UnsignedLessThan(r, l)>>)
    [] pred = "sge" -> B("GtEq", l, r)
    [] pred = "ult" -> UnsignedLessThan(l, r)
    [] pred = "slt" -> B("Lt", l, r)
    [] pred = "ule" -> Or(<<B("Eq", l, r), UnsignedLessThan(l, r)>>)
    [] OTHER -> B("LtEq", l, r)

VisitICmpInst(pred, l, r) ==
  CASE pred = "eq" -> B("Eq", l, r)
    [] pred = "ne" -> B("NotEq", l, r)
    [] IsBv(l.t) -> B(BvPredicate[pred], l, r)
    [] l.t = IntT -> VisitIntICmp(pred, l, r)
    [] OTHER -> Abort

FpPredicate ==
  [oeq |-> "FEq", ueq |-> "FEq", ogt |-> "FGt", ugt |-> "FGt", oge |-> "FGtEq",
   uge |-> "FGtEq", olt |-> "FLt", ult |-> "FLt", ole |-> "FLtEq", ule |-> "FLtEq",
   one |-> "FEq", une |-> "FEq"]
Ordered == {"oeq", "ogt", "oge", "olt", "ole", "one"}

(* An unordered comparison also holds when an operand is not a number. *)
VisitFCmpInst(pred, l, r) ==
  LET IsNan(e) == Call("FIsNan", <<e>>, <<>>)
      base == B(FpPredicate[pred], l, r)
      cmp == IF pred \in {"one", "une"} THEN Not(base) ELSE base
  IN CASE pred = "false" -> False
       [] pred = "true" -> True
       [] pred = "ord" -> And(<<Not(IsNan(l)), Not(IsNan(r))>>)
       [] pred = "uno" -> Or(<<IsNan(l), IsNan(r)>>)
       [] pred \in Ordered -> cmp
       [] OTHER -> Or(<<IsNan(l), IsNan(r), cmp>>)

---------------------------------------------------------------------------
(* Casts.                                                                  *)

(* The lower w bits of an integer, made negative when the operand divided  *)
(* by 2^(w-1) - 1 is odd.                                                  *)
TruncInt(e, w) ==
  LET modVal == B("Mod", e, IntLit(2^w))
      half == B("Mod", B("Div", e, IntLit(2^(w - 1) - 1)), IntLit(2))
  IN Sel(B("Eq", half, IntLit(0)), modVal, B("Sub", modVal, IntLit(2^w)))

IntegerCast(inst, e, t) ==
  CASE IsBv(t) /\ inst.op = "zext" -> Call("ZExt", <<AsBv(e, t.w)>>, t)
    [] IsBv(t) /\ inst.op = "sext" -> Call("SExt", <<AsBv(e, t.w)>>, t)
    [] IsBv(t) /\ inst.op = "trunc" -> Trunc(AsBv(e, t.w), t.w)
    [] t = IntT /\ inst.op \in {"zext", "sext"} -> e
    [] t = IntT /\ inst.op = "trunc" -> TruncInt(e, inst.ty.w)
    [] OTHER -> Abort

\* Mutant: sign extension of a boolean is zero extension.
BoolToIntCastZero(inst, e, t) ==
  IF IsBv(t) THEN Sel(e, BvLit(1, t.w), BvLit(0, t.w)) ELSE Sel(e, IntLit(1), IntLit(0))

(* For the sign extension of a boolean to an integer the code has -2. *)
BoolToIntCast(inst, e, t) ==
  CASE IsBv(t) /\ inst.op = "zext" -> Sel(e, BvLit(1, t.w), BvLit(0, t.w))
    [] IsBv(t) /\ inst.op = "sext" -> Sel(e, BvLit(-1, t.w), BvLit(0, t.w))
    [] t = IntT /\ inst.op = "zext" -> Sel(e, IntLit(1), IntLit(0))
    [] t = IntT /\ inst.op = "sext" -> Sel(e, IntLit(-1), IntLit(-2))
    [] OTHER -> Abort

BitCastInst(e, t) ==
  CASE e.t.id = "Float" /\ IsBv(t) -> IF e.t.w = t.w THEN FpCastCreate("FpToBv", e, t) ELSE Abort
    [] IsBv(e.t) /\ t.id = "Float" -> IF e.t.w = t.w THEN FpCastCreate("BvToFp", e, t) ELSE Abort
    [] OTHER -> Abort

FpCastOpcode == [fpext |-> "FCast", fptrunc |-> "FCast", sitofp |-> "SignedToFp", uitofp |-> "UnsignedToFp"]

(* FPToSI and FPToUI cast the translated type to a bit-vector type, which  *)
(* fails for integers.                                                     *)
VisitCastInst(inst, e, t) ==
  CASE inst.ty.id = "f" /\ inst.op \in DOMAIN FpCastOpcode ->
         Call(FpCastOpcode[inst.op], <<e>>, FloatT(inst.ty.w))
    [] inst.op = "fptosi" -> IF IsBv(t) THEN Call("FpToSigned", <<e>>, t) ELSE Abort
    [] inst.op = "fptoui" -> IF IsBv(t) THEN Call("FpToUnsigned", <<e>>, t) ELSE Abort
    [] e.t = BoolT -> BoolToIntCast(inst, e, t)
    [] inst.ty = ITy(1) /\ inst.op = "trunc" /\ t = BoolT -> AsBool(e)
    [] inst.op = "bitcast" -> BitCastInst(e, t)
    [] IsBv(e.t) \/ e.t = IntT -> IntegerCast(inst, e, t)
    [] OTHER -> Abort

---------------------------------------------------------------------------
(* gazer.no_overflow: the predicate that no overflow happens.              *)

SMax(w) == 2^(w - 1) - 1
SMin(w) == -(2^(w - 1))

(* The result on wide bits lies strictly between the extreme values. *)
InRangeBv(result, w, wide) ==
  And(<<B("BvSLt", result, BvLit(SMax(w), wide)), B("BvSGt", result, BvLit(SMin(w), wide))>>)

\* Mutant: the sum is computed on the operands' width.
SAddOverflowNarrow(l, r) == InRangeBv(B("Add", l, r), l.t.w, l.t.w)
HandleSAddOverflow(l, r) ==
  LET w == l.t.w
      Wide(e) == Call("SExt", <<e>>, BvT(w + 1))
  IN InRangeBv(B("Add", Wide(l), Wide(r)), w, w + 1)

HandleSSubOverflow(l, r) == HandleSAddOverflow(l, B("Mul", BvLit(-1, l.t.w), r))

HandleSMulOverflow(l, r) ==
  LET w == l.t.w
      Wide(e) == Call("SExt", <<e>>, BvT(2 * w))
  IN InRangeBv(B("Mul", Wide(l), Wide(r)), w, 2 * w)

InRangeInt(e, w) == <<B("GtEq", e, IntLit(SMin(w))), B("LtEq", e, IntLit(SMax(w)))>>

OverflowOp == [saddno |-> "Add", ssubno |-> "Sub", smulno |-> "Mul"]

HandleOverflowPredicate(op, l, r, w) ==
  CASE l.t = IntT -> B("Imply", And(InRangeInt(l, w) \o InRangeInt(r, w)),
                       And(InRangeInt(B(OverflowOp[op], l, r), w)))
    [] ~IsBv(l.t) -> Abort
    [] op = "saddno" -> HandleSAddOverflow(l, r)
    [] op = "ssubno" -> HandleSSubOverflow(l, r)
    [] op = "smulno" -> HandleSMulOverflow(l, r)
    [] OTHER -> Abort

(* A call of anything else has no value. *)
VisitCallInst(inst, ops, ints) ==
  IF inst.op \in DOMAIN OverflowOp
  THEN HandleOverflowPredicate(inst.op, ops[1], ops[2], inst.a[1].ty.w)
  ELSE Undef(TranslateType(inst.ty, ints))

---------------------------------------------------------------------------
CastOps == {"zext", "sext", "trunc", "bitcast", "fptosi", "fptoui"} \cup DOMAIN FpCastOpcode
BinaryOps == DOMAIN BvOpcode \cup DOMAIN FpOpcode

(* operandValue, for constants, undef and what has a variable. *)
OperandValue(v, ints) ==
  LET t == TranslateType(v.ty, ints)
  IN CASE v.op = "arg" -> VarRef(v.x, t)
       [] v.op = "undef" -> Undef(t)
       [] t = BoolT -> BoolLit(v.n = 1)
       [] IsBv(t) -> BvLit(v.n, t.w)
       [] t = IntT -> IntLit(Signed(v.n, v.ty.w))
       [] OTHER -> FloatLit(v.n, v.ty.w)

(* doTransform, given the operands' expressions. *)
DoTransform(inst, ops, ints) ==
  LET t == TranslateType(inst.ty, ints)
  IN CASE inst.op \in BinaryOps -> VisitBinaryOperator(inst, ops[1], ops[2], t)
       [] inst.op \in CastOps -> VisitCastInst(inst, ops[1], t)
       [] inst.op = "select" -> VisitSelectInst(ops[1], ops[2], ops[3], t)
       [] inst.op = "icmp" -> VisitICmpInst(inst.pred, ops[1], ops[2])
       [] inst.op = "fcmp" -> VisitFCmpInst(inst.pred, ops[1], ops[2])
       [] inst.op = "insertvalue" -> TupleInsert(ops[1], ops[2], inst.ix)
       [] inst.op = "extractvalue" -> TupSelCreate(ops[1], inst.ix)
       [] OTHER -> VisitCallInst(inst, ops, ints)

(* transform asserts that the result has the expected type. *)
Transform(inst, ops, ints) ==
  LET Checked(e) == IF e.t = TranslateType(inst.ty, ints) THEN e ELSE Abort
  IN IF \E i \in DOMAIN ops : ops[i] = Abort THEN Abort
     ELSE Checked(Built(DoTransform(inst, ops, ints)))

---------------------------------------------------------------------------
(* The reference: LLVM's value of an instruction under arguments v, as an  *)
(* unsigned number; Poison where the language leaves it undefined.         *)

Poison == -1
InRange(n, w) == n \in SMin(w) .. SMax(w)

ReferenceBinary(op, l, r, w) ==
  CASE op \in {"sdiv", "udiv", "srem", "urem"} /\ r = 0 -> Poison
    [] op \in {"sdiv", "srem"} /\ Signed(l, w) = SMin(w) /\ Signed(r, w) = -1 -> Poison
    [] op \in {"shl", "lshr", "ashr"} /\ r >= w -> Poison
    [] OTHER -> FoldBvLits(BvOpcode[op], BvLit(l, w), BvLit(r, w)).n

(* One bit tells whether an operation, or a comparison, succeeds. *)
BitOf(b) == IF b THEN 1 ELSE 0
ExactResult(op, l, r) ==
  CASE op \in {"add", "saddno"} -> l + r
    [] op \in {"sub", "ssubno"} -> l - r
    [] OTHER -> l * r

ReferenceCompare(pred, l, r, w) ==
  CASE pred = "eq" -> l = r
    [] pred = "ne" -> l # r
    [] OTHER -> BvCompareLits(BvPredicate[pred], BvLit(l, w), BvLit(r, w)).b

Reference(inst, ops) ==
  LET w == inst.a[1].ty.w
  IN CASE inst.op \in DOMAIN BvOpcode -> ReferenceBinary(inst.op, ops[1], ops[2], w)
       [] inst.op = "zext" -> ops[1]
       [] inst.op = "sext" -> Signed(ops[1], w) % 2^inst.ty.w
       [] inst.op = "trunc" -> ops[1] % 2^inst.ty.w
       [] inst.op = "select" -> IF ops[1] = 1 THEN ops[2] ELSE ops[3]
       [] inst.op = "icmp" -> BitOf(ReferenceCompare(inst.pred, ops[1], ops[2], w))
       [] OTHER -> BitOf(InRange(ExactResult(inst.op, Signed(ops[1], w), Signed(ops[2], w)), w))

RECURSIVE LLVMValue(_, _)
LLVMValue(inst, v) ==
  CASE inst.op = "arg" -> v[inst.x]
    [] inst.op = "const" -> inst.n
    [] OTHER -> LET ops == [i \in DOMAIN inst.a |-> LLVMValue(inst.a[i], v)]
                IN IF \E i \in DOMAIN ops : ops[i] = Poison THEN Poison ELSE Reference(inst, ops)

(* The literal that stands for a value of an LLVM type. *)
Represent(n, ty, ints) ==
  CASE ty = ITy(1) -> BoolLit(n = 1)
    [] ints = "bv" -> BvLit(n, ty.w)
    [] OTHER -> IntLit(Signed(n, ty.w))

(* A truncation to i1 is a test against zero, which is the lowest bit for  *)
(* a value of 0 or 1, as a loaded C boolean has.                           *)
RECURSIVE BooleansAreBits(_, _)
BooleansAreBits(inst, v) ==
  inst.op \notin {"arg", "const"} =>
    /\ \A i \in DOMAIN inst.a : BooleansAreBits(inst.a[i], v)
    /\ inst.op = "trunc" /\ inst.ty = ITy(1) => LLVMValue(inst.a[1], v) \in {0, 1}

(* What the integer representation covers: no wrap-around, no unsigned     *)
(* division and no zero extension of a negative value, no truncation, no   *)
(* sign extension of a boolean.                                            *)
RECURSIVE Covered(_, _)
Covered(inst, v) ==
  inst.op \notin {"arg", "const"} =>
    LET w == inst.a[1].ty.w
        S(i) == Signed(LLVMValue(inst.a[i], v), w)
    IN /\ \A i \in DOMAIN inst.a : Covered(inst.a[i], v)
       /\ inst.op \in {"add", "sub", "mul"} => InRange(ExactResult(inst.op, S(1), S(2)), w)
       /\ inst.op \in {"udiv", "urem"} => S(1) >= 0 /\ S(2) >= 0
       /\ inst.op = "zext" /\ w > 1 => S(1) >= 0
       /\ inst.op # "trunc"
       /\ inst.op = "sext" => w > 1

===========================================================================
