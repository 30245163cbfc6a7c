------------------------------ MODULE ExprFold ------------------------------
(***************************************************************************)
(* The two expression builders: ExprBuilder only creates, and              *)
(* FoldingExprBuilder folds constants and simplifies on the way.  Fold and *)
(* Plain are the virtual methods, told apart by the kind they build;       *)
(* Matcher.h's patterns appear as the conditions of the rewrite rules.     *)
(***************************************************************************)
EXTENDS ExprEval

IsOne(e) == e.n = 1
IsZero(e) == e.n = 0
IsAllOnes(e) == e.n = 2^e.t.w - 1

(* The patterns of the matcher, by their names.  A binary pattern answers  *)
(* the operands that its left and its right part bind, or <<>>; a          *)
(* commutative one tries the operands in order and then swapped.           *)
LeafMatch(p, e) == [m_Expr |-> TRUE, m_Literal |-> IsLiteral(e), m_Int |-> IsIntLit(e)][p]
UnaryMatch(p, k, e) == e.k = k /\ LeafMatch(p, e.a[1])
Match(p, e) == IF p = "m_Not" THEN UnaryMatch("m_Expr", "Not", e) ELSE LeafMatch(p, e)

Commutable == {"Add", "Mul", "BvAnd", "BvOr", "BvXor", "And", "Or", "Eq", "NotEq"}
BinaryMatch(l, r, k, e) ==
  CASE e.k # k -> <<>>
    [] Len(e.a) # 2 -> <<>>
    [] Match(l, e.a[1]) /\ Match(r, e.a[2]) -> e.a
    [] k \in Commutable /\ Match(l, e.a[2]) /\ Match(r, e.a[1]) -> <<e.a[2], e.a[1]>>
    [] OTHER -> <<>>

SelectMatch(c, t, f, e) ==
  e.k = "Select" /\ Match(c, e.a[1]) /\ Match(t, e.a[2]) /\ Match(f, e.a[3])

(* And (Or): literals are dropped or decide, nested operands flattened. *)
FoldLogic(k, dominant, ops) ==
  LET Flatten(e) == CASE IsBoolLit(e) -> <<>>
                      [] e.k = k -> e.a
                      [] OTHER -> <<e>>
      flat[i \in 0 .. Len(ops)] == IF i = 0 THEN <<>> ELSE flat[i - 1] \o Flatten(ops[i])
      Of(newOps) == CASE newOps = <<>> -> BoolLit(~dominant)
                      [] Len(newOps) = 1 -> newOps[1]
                      [] OTHER -> MultiaryCreate(k, newOps)
  IN CASE \E i \in DOMAIN ops : ops[i] = Abort -> Abort
       [] \E i \in DOMAIN ops : ops[i] = BoolLit(dominant) -> BoolLit(dominant)
       [] OTHER -> Of(flat[Len(ops)])

FoldAnd(ops) == FoldLogic("And", FALSE, ops)
FoldOr(ops) == FoldLogic("Or", TRUE, ops)

(* Not(Or(Not(x), y)) becomes And(x, Not(y)). *)
RECURSIVE FoldNot(_)
FoldNot(op) ==
  LET DeMorgan(m) == IF m = <<>> THEN NotCreate(op) ELSE FoldAnd(<<m[1].a[1], FoldNot(m[2])>>)
  IN IF IsBoolLit(op) THEN BoolLit(~op.b)
     ELSE DeMorgan(BinaryMatch("m_Not", "m_Expr", "Or", op))

(* A zext or sext of a literal asserts as the cast itself does. *)
FoldExt(k, op, t) ==
  IF IsBvLit(op)
  THEN IF t.w <= op.t.w THEN Abort
       ELSE BvLit(IF k = "ZExt" THEN op.n ELSE Signed(op.n, op.t.w), t.w)
  ELSE ExtCastCreate(k, op, t)

FoldExtract(op, offset, width) ==
  CASE IsBvLit(op) -> IF offset + width > op.t.w \/ width = 0 THEN Abort
                      ELSE BvLit(op.n \div 2^offset, width)
    [] op.k = "Undef" -> Undef(BvT(width))
    [] OTHER -> ExtractCreate(op, offset, width)

FoldConcat(l, r) ==
  CASE IsBvLit(l) /\ IsBvLit(r) -> BvLit(l.n * 2^r.t.w + r.n, l.t.w + r.t.w)
    [] l.k = "Undef" /\ r.k = "Undef" -> Undef(BvT(l.t.w + r.t.w))
    [] OTHER -> BvConcatCreate(l, r)

---------------------------------------------------------------------------
(* foldBinaryExpr.  NoFold is its null pointer. *)

NoFold == [k |-> "NoFold", t |-> [id |-> "None"]]
OrElse(e, other) == IF e # NoFold THEN e ELSE other

FoldRightInt(k, l, r) ==
  CASE k \in {"Add", "Sub"} /\ IsZero(r) -> l
    [] k = "Mul" /\ IsZero(r) -> r
    [] k \in {"Mul", "Div"} /\ IsOne(r) -> l
    [] k \in {"Mod", "Rem"} /\ IsOne(r) -> IntLit(0)
    [] OTHER -> NoFold

(* The case of BvOr falls through to BvXor's, which changes nothing. *)
FoldRightBv(k, l, r) ==
  CASE k \in {"Add", "Sub", "BvOr", "BvXor"} /\ IsZero(r) -> l
    [] k \in {"Mul", "BvAnd"} /\ IsZero(r) -> r
    [] k \in {"Mul", "BvUDiv", "BvSDiv"} /\ IsOne(r) -> l
    [] k \in {"BvURem", "BvSRem"} /\ IsOne(r) -> BvLit(0, r.t.w)
    [] k = "BvAnd" /\ IsAllOnes(r) -> l
    [] k = "BvOr" /\ IsAllOnes(r) -> r
    [] OTHER -> NoFold

(* Both operands are bit-vector literals. *)
FoldBvLits(k, l, r) ==
  CASE k \in {"BvUDiv", "BvSDiv", "BvURem", "BvSRem"} -> BvDiv(k, l.n, r.n, l.t.w)
    [] k \in {"Shl", "LShr", "AShr"} -> BvShift(k, l.n, r.n, l.t.w)
    [] k \in {"Div", "Mod", "Rem"} -> Abort
    [] OTHER -> BvRing(k, l.n, r.n, l.t.w)

FoldLeft(k, l, r) ==
  CASE IsIntLit(l) /\ IsIntLit(r) /\ k \in {"Add", "Sub", "Mul"} -> IntArith(k, l.n, r.n)
    [] IsBvLit(l) /\ IsBvLit(r) -> FoldBvLits(k, l, r)
    [] IsBvLit(l) /\ IsZero(l)
         /\ k \in {"BvSDiv", "BvUDiv", "BvSRem", "BvURem", "LShr", "AShr", "Shl"} -> l
    [] OTHER -> NoFold

(* A literal on the left of a commutative operator is moved to the right   *)
(* and the folding starts again.                                           *)
FoldBinaryExpr(k, left, right) ==
  LET swap == /\ ~IsIntLit(right) /\ ~IsBvLit(right)
              /\ IsLiteral(left) /\ IsCommutative(k)
      l == IF swap THEN right ELSE left
      r == IF swap THEN left ELSE right
  IN OrElse(CASE IsIntLit(r) -> FoldRightInt(k, l, r)
              [] IsBvLit(r) -> FoldRightBv(k, l, r)
              [] OTHER -> NoFold,
            FoldLeft(k, l, r))

FoldArith(k, l, r) == OrElse(FoldBinaryExpr(k, l, r), ArithCreate(k, l, r))

FoldImply(l, r) ==
  CASE IsBoolLit(l) -> IF l.b THEN r ELSE True
    [] IsBoolLit(r) -> IF r.b THEN True ELSE FoldNot(l)
    [] OTHER -> ImplyCreate(l, r)

(* foldBinaryCompare for the kinds the builder calls it with. *)
FoldBinaryCompare(k, l, r) ==
  CASE k = "Eq" /\ IsBoolLit(r) -> IF r.b THEN l ELSE FoldNot(l)
    [] k = "Eq" /\ IsBoolLit(l) -> IF l.b THEN r ELSE FoldNot(r)
    [] IsBvLit(l) /\ IsBvLit(r) ->
         IF k \in {"Eq", "NotEq"} \cup BvCompare THEN BvCompareLits(k, l, r) ELSE Abort
    [] IsIntLit(l) /\ IsIntLit(r) -> BoolLit(Less(k, l.n, r.n))
    [] OTHER -> NoFold

(* Eq(Select(C, L1, L2), L2) becomes Not(C).  The rule above it in the     *)
(* code, for L1, never applies: m_Specific(l1) converts a null             *)
(* ExprRef<LiteralExpr> to a temporary ExprPtr before anything is bound,   *)
(* and the failed attempt binds l2 for the second rule.                    *)
FoldEq(l, r) ==
  LET Rule(e, lit) == SelectMatch("m_Expr", "m_Literal", "m_Literal", e) /\ e.a[3] = lit
  IN CASE l = Abort \/ r = Abort -> Abort
       [] l = r -> True
       [] IsLiteral(l) /\ IsLiteral(r) -> False
       [] OTHER -> OrElse(FoldBinaryCompare("Eq", l, r),
                          CASE Rule(l, r) -> FoldNot(l.a[1])
                            [] Rule(r, l) -> FoldNot(r.a[1])
                            [] OTHER -> CompareCreate("Eq", l, r))

(* A constant is moved over to the literal; onLeft tells the literal's side. *)
SimplifySum(other, c2, onLeft) ==
  LET Result(x, n) == IF onLeft THEN CompareCreate("LtEq", IntLit(n), x)
                      ELSE CompareCreate("LtEq", x, IntLit(n))
      OfSub(sub) == IF sub = <<>> THEN Result(other, c2) ELSE Result(sub[1], c2 + sub[2].n)
      OfAdd(add) == IF add # <<>> THEN Result(add[2], c2 - add[1].n)
                    ELSE OfSub(BinaryMatch("m_Expr", "m_Int", "Sub", other))
  IN OfAdd(BinaryMatch("m_Int", "m_Expr", "Add", other))

SimplifyLtEq(l, r) ==
  CASE IsIntLit(r) -> SimplifySum(l, r.n, FALSE)
    [] IsIntLit(l) -> SimplifySum(r, l.n, TRUE)
    [] OTHER -> CompareCreate("LtEq", l, r)

FoldLtEq(l, r) == OrElse(FoldBinaryCompare("LtEq", l, r), SimplifyLtEq(l, r))

\* Mutant: C > x becomes x <= C.
FoldGtEqual(l, r) ==
  OrElse(FoldBinaryCompare("Gt", l, r),
         IF IsIntLit(l) THEN CompareCreate("LtEq", r, l) ELSE FoldNot(FoldLtEq(l, r)))

FoldGt(l, r) ==
  OrElse(FoldBinaryCompare("Gt", l, r),
         IF IsIntLit(l) THEN CompareCreate("LtEq", r, IntLit(l.n - 1))
         ELSE FoldNot(FoldLtEq(l, r)))

(* Everything else is normalized to LtEq. *)
FoldCompare(k, l, r) ==
  CASE k = "Eq" -> FoldEq(l, r)
    [] k = "NotEq" -> FoldNot(FoldEq(l, r))
    [] k = "Lt" -> FoldNot(FoldLtEq(r, l))
    [] k = "LtEq" -> FoldLtEq(l, r)
    [] k = "Gt" -> FoldGt(l, r)
    [] k = "GtEq" -> FoldLtEq(r, l)
    [] OTHER -> CompareCreate(k, l, r)

(* The first rules of Select: those that leave a boolean expression. *)
FoldBoolSelect(c, then, elze) ==
  CASE elze = False -> FoldAnd(<<c, then>>)
    [] elze = True -> FoldOr(<<FoldNot(c), then>>)
    [] then = True -> FoldOr(<<c, elze>>)
    [] then = False -> FoldAnd(<<FoldNot(c), elze>>)
    [] OTHER -> NoFold

(* Select(C1, Select(C2, E1, E2), E1): the comment above the rule says     *)
(* Select(C1 and not C2, E2, E1); the code passes e1 before e2.            *)
NestedThenOfElse(then, elze) == then.k = "Select" /\ then.a[2] = elze

FoldNestedSelect(c, then, elze) ==
  CASE c.k = "Not" -> SelectCreate(c.a[1], elze, then)
    [] then.k = "Select" /\ then.a[1] = c -> SelectCreate(c, then.a[2], elze)
    [] elze.k = "Select" /\ elze.a[1] = c -> SelectCreate(c, then, elze.a[3])
    [] NestedThenOfElse(then, elze) ->
         SelectCreate(FoldAnd(<<c, FoldNot(then.a[1])>>), then.a[2], then.a[3])
    [] then.k = "Select" /\ then.a[3] = elze ->
         SelectCreate(MultiaryCreate("And", <<c, then.a[1]>>), then.a[2], elze)
    [] elze.k = "Select" /\ elze.a[2] = then ->
         SelectCreate(MultiaryCreate("Or", <<c, elze.a[1]>>), then, elze.a[3])
    [] OTHER -> SelectCreate(c, then, elze)

FoldSelect(c, then, elze) ==
  CASE c = Abort \/ then = Abort \/ elze = Abort -> Abort
    [] IsBoolLit(c) -> IF c.b THEN then ELSE elze
    [] then = elze -> then
    [] OTHER -> OrElse(FoldBoolSelect(c, then, elze), FoldNestedSelect(c, then, elze))

FoldFpQuery(k, op) ==
  IF IsFloatLit(op) THEN BoolLit(op.c = IF k = "FIsNan" THEN "nan" ELSE "inf")
  ELSE FpCreate(k, <<op>>)

FoldWrite(arr, ix, v) ==
  IF IsArrayLit(arr) /\ arr.m = {} /\ arr.e = v THEN arr ELSE WriteCreate(arr, ix, v)

FoldRead(arr, ix) ==
  IF IsArrayLit(arr) /\ arr.m = {} THEN arr.e ELSE ReadCreate(arr, ix)

---------------------------------------------------------------------------
(* The interface both builders have.  Div, Mod and Rem are not overridden; *)
(* arg is the type of a cast, the offset and width of an Extract.          *)

Fold(k, ops, arg) ==
  CASE \E i \in DOMAIN ops : ops[i] = Abort -> Abort
    [] k = "Not" -> FoldNot(ops[1])
    [] k \in {"ZExt", "SExt"} -> FoldExt(k, ops[1], arg)
    [] k = "Extract" -> FoldExtract(ops[1], arg[1], arg[2])
    [] k \in {"Div", "Mod", "Rem"} -> ArithCreate(k, ops[1], ops[2])
    [] k \in Arithmetic -> FoldArith(k, ops[1], ops[2])
    [] k = "BvConcat" -> FoldConcat(ops[1], ops[2])
    [] k = "And" -> FoldAnd(ops)
    [] k = "Or" -> FoldOr(ops)
    [] k = "Imply" -> FoldImply(ops[1], ops[2])
    [] k \in Compare -> FoldCompare(k, ops[1], ops[2])
    [] k = "Select" -> FoldSelect(ops[1], ops[2], ops[3])
    [] k \in FpQuery -> FoldFpQuery(k, ops[1])
    [] k \in FpArith \cup FpCompare -> FpCreate(k, ops)
    [] k \in FpCast -> FpCastCreate(k, ops[1], arg)
    [] k = "ArrayRead" -> FoldRead(ops[1], ops[2])
    [] OTHER -> FoldWrite(ops[1], ops[2], ops[3])

(* TupleInsert: the members of the tuple with one replaced. *)
TupleInsert(tup, v, index) ==
  LET Member(i) == CASE i = index + 1 -> v
                     [] tup.k = "TupleConstruct" -> tup.a[i]
                     [] OTHER -> TupSelCreate(tup, i - 1)
  IN IF tup.t.id # "Tuple" \/ index >= Len(tup.t.ts) THEN Abort
     ELSE IF tup.t.ts[index + 1] # v.t THEN Abort
     ELSE TupleCreate(tup.t, [i \in DOMAIN tup.t.ts |-> Member(i)])

(* NotEq is the one method of the plain builder that does not just create. *)
Plain(k, ops, arg) ==
  CASE \E i \in DOMAIN ops : ops[i] = Abort -> Abort
    [] k = "Not" -> NotCreate(ops[1])
    [] k \in {"ZExt", "SExt"} -> ExtCastCreate(k, ops[1], arg)
    [] k = "Extract" -> ExtractCreate(ops[1], arg[1], arg[2])
    [] k \in Arithmetic -> ArithCreate(k, ops[1], ops[2])
    [] k = "BvConcat" -> BvConcatCreate(ops[1], ops[2])
    [] k \in {"And", "Or"} -> MultiaryCreate(k, ops)
    [] k = "Imply" -> ImplyCreate(ops[1], ops[2])
    [] k = "NotEq" -> NotCreate(CompareCreate("Eq", ops[1], ops[2]))
    [] k \in Compare -> CompareCreate(k, ops[1], ops[2])
    [] k = "Select" -> SelectCreate(ops[1], ops[2], ops[3])
    [] k \in FpQuery \cup FpArith \cup FpCompare -> FpCreate(k, ops)
    [] k \in FpCast -> FpCastCreate(k, ops[1], arg)
    [] k = "ArrayRead" -> ReadCreate(ops[1], ops[2])
    [] OTHER -> WriteCreate(ops[1], ops[2], ops[3])

CreateArg(e) == IF e.k = "Extract" THEN <<e.off, e.t.w>> ELSE e.t

\* Mutant: the operands of a subtraction are swapped.
RewriteSwapped(e, ops) ==
  Fold(e.k, IF e.k = "Sub" THEN <<ops[2], ops[1]>> ELSE ops, CreateArg(e))

(* ExprRewriteBase::rewriteNonNullary: the builder's method for the kind;  *)
(* the tuples are not among its cases.                                     *)
RewriteNonNullary(e, ops) ==
  IF e.k \in {"TupleSelect", "TupleConstruct"} THEN Abort ELSE Fold(e.k, ops, CreateArg(e))

(* VariableExprRewrite: the walker's visit method. *)
VisitRewrite(e, ops, sub) ==
  CASE e.k = "VarRef" -> IF e.x \in DOMAIN sub THEN sub[e.x] ELSE e
    [] IsNullary(e) -> e
    [] OTHER -> RewriteNonNullary(e, ops)

RECURSIVE Rewrite(_, _)
Rewrite(e, sub) ==
  VisitRewrite(e, IF IsNullary(e) THEN <<>> ELSE [i \in DOMAIN e.a |-> Rewrite(e.a[i], sub)], sub)

===========================================================================
