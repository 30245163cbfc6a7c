------------------------------ MODULE ExprEval ------------------------------
(***************************************************************************)
(* ExprEvaluator: the value of an expression, one visit method per kind.   *)
(* Visit(e, ops, val) is what the walker calls with the values of the      *)
(* operands; module ExprWalker walks, Eval is the recursion it stands for. *)
(* A value is a literal, an undef, or Abort where the code asserts,        *)
(* dereferences null or divides by zero.                                   *)
(***************************************************************************)
EXTENDS Exprs

(* llvm::APInt, as far as the evaluator and the builder use it. *)
Abs(a) == IF a < 0 THEN -a ELSE a
Signed(n, w) == IF n >= 2^(w - 1) THEN n - 2^w ELSE n
Quot(a, b) == IF (a >= 0) = (b > 0) THEN Abs(a) \div Abs(b) ELSE -(Abs(a) \div Abs(b))
Remnd(a, b) == a - b * Quot(a, b)
Bit(n, i) == (n \div 2^i) % 2
BitOp(f(_, _), a, b, w) ==
  MapThenSumSet(LAMBDA i : f(Bit(a, i), Bit(b, i)) * 2^i, 0 .. w - 1)
AShr(n, s, w) == (Signed(n, w) \div 2^s) % 2^w

BvDiv(k, l, r, w) ==
  IF r = 0 THEN Abort
  ELSE CASE k = "BvUDiv" -> BvLit(l \div r, w)
         [] k = "BvURem" -> BvLit(l % r, w)
         [] k = "BvSDiv" -> BvLit(Quot(Signed(l, w), Signed(r, w)), w)
         [] OTHER -> BvLit(Remnd(Signed(l, w), Signed(r, w)), w)

BvRing(k, l, r, w) ==
  CASE k = "Add" -> BvLit(l + r, w)
    [] k = "Sub" -> BvLit(l - r, w)
    [] k = "Mul" -> BvLit(l * r, w)
    [] k = "BvAnd" -> BvLit(BitOp(LAMBDA x, y : x * y, l, r, w), w)
    [] k = "BvOr" -> BvLit(BitOp(LAMBDA x, y : x + y - x * y, l, r, w), w)
    [] OTHER -> BvLit(BitOp(LAMBDA x, y : (x + y) % 2, l, r, w), w)

(* APInt's shifts by an APInt stop at the width ... *)
BvShift(k, l, r, w) ==
  LET s == Min({r, w})
  IN CASE k = "Shl" -> BvLit(l * 2^s, w)
       [] k = "LShr" -> BvLit(l \div 2^s, w)
       [] OTHER -> BvLit(AShr(l, s, w), w)

(* ... while the evaluator shifts right by getLimitedValue(), an unsigned  *)
(* that APInt asserts to be at most the width.                             *)
EvalShift(k, l, r, w) ==
  IF k # "Shl" /\ r > w THEN Abort ELSE BvShift(k, l, r, w)

IntArith(k, l, r) ==
  IF k \in {"Div", "Mod", "Rem"} /\ r = 0 THEN Abort
  ELSE CASE k = "Add" -> IntLit(l + r)
         [] k = "Sub" -> IntLit(l - r)
         [] k = "Mul" -> IntLit(l * r)
         [] k = "Div" -> IntLit(Quot(l, r))
         [] k = "Mod" -> IntLit(IF Remnd(l, r) < 0 THEN Remnd(l, r) + Abs(r) ELSE Remnd(l, r))
         [] k = "Rem" -> IntLit(Remnd(l, r))
         [] OTHER -> Abort

EvalBinaryArithmetic(k, l, r) ==
  CASE l.k = "Undef" \/ r.k = "Undef" -> Undef(l.t)
    [] IsBv(l.t) /\ k \in {"Div", "Mod", "Rem"} -> Abort
    [] IsBv(l.t) /\ k \in {"BvUDiv", "BvURem", "BvSDiv", "BvSRem"} -> BvDiv(k, l.n, r.n, l.t.w)
    [] IsBv(l.t) /\ k \in {"Shl", "LShr", "AShr"} -> EvalShift(k, l.n, r.n, l.t.w)
    [] IsBv(l.t) -> BvRing(k, l.n, r.n, l.t.w)
    [] l.t = IntT -> IntArith(k, l.n, r.n)
    [] OTHER -> Abort

Less(k, l, r) ==
  CASE k \in {"Lt", "BvSLt", "BvULt"} -> l < r
    [] k \in {"LtEq", "BvSLtEq", "BvULtEq"} -> l <= r
    [] k \in {"Gt", "BvSGt", "BvUGt"} -> l > r
    [] k \in {"GtEq", "BvSGtEq", "BvUGtEq"} -> l >= r
    [] k = "Eq" -> l = r
    [] OTHER -> l # r

BvCompareLits(k, l, r) ==
  IF k \in {"BvSLt", "BvSLtEq", "BvSGt", "BvSGtEq"}
  THEN BoolLit(Less(k, Signed(l.n, l.t.w), Signed(r.n, r.t.w)))
  ELSE BoolLit(Less(k, l.n, r.n))

(* For booleans both Eq and NotEq answer whether the values are equal. *)
EvalBinaryCompare(k, l, r) ==
  CASE l.k = "Undef" \/ r.k = "Undef" -> Undef(BoolT)
    [] IsBv(l.t) /\ k \in BvCompare \cup {"Eq", "NotEq"} -> BvCompareLits(k, l, r)
    [] l.t = BoolT /\ k \in {"Eq", "NotEq"} -> BoolLit(l.b = r.b)
    [] l.t = IntT /\ k \notin BvCompare -> BoolLit(Less(k, l.n, r.n))
    [] OTHER -> Abort

(* visitNot, visitZExt, visitSExt and visitExtract cast to a literal. *)
VisitUnary(e, op) ==
  CASE op.k = "Undef" -> Abort
    [] e.k = "Not" -> BoolLit(~op.b)
    [] e.k = "ZExt" -> BvLit(op.n, e.t.w)
    [] e.k = "SExt" -> BvLit(Signed(op.n, op.t.w), e.t.w)
    [] e.k = "Extract" -> BvLit(op.n \div 2^e.off, e.t.w)
    [] e.k = "FIsNan" -> BoolLit(op.c = "nan")
    [] OTHER -> BoolLit(op.c = "inf")

(* And (Or) stops at the first false (true) operand; an undef operand      *)
(* before it fails the cast to a boolean literal.                          *)
VisitLogic(dominant, ops) ==
  LET stop == {i \in DOMAIN ops : ops[i].k = "Undef" \/ ops[i].b = dominant}
  IN IF stop = {} THEN BoolLit(~dominant)
     ELSE IF ops[Min(stop)].k = "Undef" THEN Abort ELSE BoolLit(dominant)

VisitImply(l, r) ==
  CASE l.k = "Undef" -> IF r = True THEN True ELSE l
    [] r.k = "Undef" -> IF l = False THEN True ELSE r
    [] OTHER -> BoolLit(l.b => r.b)

VisitConcat(l, r) ==
  IF l.k = "Undef" \/ r.k = "Undef" THEN Undef(BvT(l.t.w + r.t.w))
  ELSE BvLit(l.n * 2^r.t.w + r.n, l.t.w + r.t.w)

(* EvalSelect casts the condition and the branch it takes. *)
VisitSelect(c, then, elze) ==
  IF c.k = "Undef" THEN Abort
  ELSE LET taken == IF c.b THEN then ELSE elze
       IN IF taken.k = "Undef" \/ taken.t.id \in {"Array", "Tuple"} THEN Abort ELSE taken

VisitArrayRead(arr, ix) ==
  CASE arr.k = "Undef" -> Undef(arr.t.el)
    [] ix.k = "Undef" -> arr.e
    [] OTHER -> IF \E p \in arr.m : p[1] = ix
                THEN (CHOOSE p \in arr.m : p[1] = ix)[2] ELSE arr.e

(* The visit methods.  The floating-point operations, ArrayWrite and the   *)
(* tuples go to visitExpr, which is unreachable by assertion.              *)
Visit(e, ops, val) ==
  CASE \E i \in DOMAIN ops : ops[i] = Abort -> Abort
    [] e.k \in {"Undef", "Literal"} -> e
    [] e.k = "VarRef" -> IF e.x \in DOMAIN val THEN val[e.x] ELSE Undef(e.t)
    [] e.k \in {"Not", "ZExt", "SExt", "Extract"} \cup FpQuery -> VisitUnary(e, ops[1])
    [] e.k \in Arithmetic -> EvalBinaryArithmetic(e.k, ops[1], ops[2])
    [] e.k \in Compare -> EvalBinaryCompare(e.k, ops[1], ops[2])
    [] e.k = "BvConcat" -> VisitConcat(ops[1], ops[2])
    [] e.k = "And" -> VisitLogic(FALSE, ops)
    [] e.k = "Or" -> VisitLogic(TRUE, ops)
    [] e.k = "Imply" -> VisitImply(ops[1], ops[2])
    [] e.k = "Select" -> VisitSelect(ops[1], ops[2], ops[3])
    [] e.k = "ArrayRead" -> VisitArrayRead(ops[1], ops[2])
    [] OTHER -> Abort

RECURSIVE Eval(_, _)
Eval(e, val) ==
  Visit(e, IF IsNullary(e) THEN <<>> ELSE [i \in DOMAIN e.a |-> Eval(e.a[i], val)], val)

===========================================================================
