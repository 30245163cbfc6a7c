------------------------------- MODULE Exprs -------------------------------
(***************************************************************************)
(* The expressions of gazer: types, atoms, and the Create functions of the *)
(* expression classes with the assertions they make.  An expression is a   *)
(* record, so two expressions are equal exactly when their pointers are:   *)
(* the context keeps one object per structure (module ExprStorage).        *)
(*                                                                         *)
(* Integers are mathematical (the code's long long is wide enough for the  *)
(* literals of a program); a bit-vector literal of width w is its unsigned *)
(* value.  A floating-point literal keeps only its class.  Abort stands    *)
(* for a failed assertion, an llvm_unreachable or a crash.                 *)
(***************************************************************************)
EXTENDS Integers, Sequences, FiniteSetsExt

BoolT == [id |-> "Bool"]
IntT == [id |-> "Int"]
RealT == [id |-> "Real"]
BvT(w) == [id |-> "Bv", w |-> w]
FloatT(w) == [id |-> "Float", w |-> w]
ArrayT(ix, el) == [id |-> "Array", ix |-> ix, el |-> el]
TupleT(ts) == [id |-> "Tuple", ts |-> ts]

IsBv(t) == t.id = "Bv"
IsArithmetic(t) == t.id \in {"Int", "Real"}

Abort == [k |-> "Abort", t |-> [id |-> "None"]]
Undef(t) == [k |-> "Undef", t |-> t]
VarRef(x, t) == [k |-> "VarRef", t |-> t, x |-> x]
BoolLit(b) == [k |-> "Literal", t |-> BoolT, b |-> b]
IntLit(n) == [k |-> "Literal", t |-> IntT, n |-> n]
BvLit(n, w) == [k |-> "Literal", t |-> BvT(w), n |-> n % 2^w]
FloatLit(c, w) == [k |-> "Literal", t |-> FloatT(w), c |-> c]
ArrayLit(t, map, elze) == [k |-> "Literal", t |-> t, m |-> map, e |-> elze]
True == BoolLit(TRUE)
False == BoolLit(FALSE)

IsLiteral(e) == e.k = "Literal"
IsBoolLit(e) == IsLiteral(e) /\ e.t = BoolT
IsIntLit(e) == IsLiteral(e) /\ e.t = IntT
IsBvLit(e) == IsLiteral(e) /\ e.t.id = "Bv"
IsFloatLit(e) == IsLiteral(e) /\ e.t.id = "Float"
IsArrayLit(e) == IsLiteral(e) /\ e.t.id = "Array"
IsNullary(e) == e.k \in {"Abort", "Undef", "VarRef", "Literal"}

---------------------------------------------------------------------------
(* The kinds, in the groups that Expr's predicates and Create use.         *)

BvOnlyArith == {"BvSDiv", "BvUDiv", "BvSRem", "BvURem", "Shl", "LShr", "AShr",
                "BvAnd", "BvOr", "BvXor"}
OverloadedArith == {"Add", "Sub", "Mul", "Mod", "Rem"}
Arithmetic == BvOnlyArith \cup OverloadedArith \cup {"Div"}
BvCompare == {"BvSLt", "BvSLtEq", "BvSGt", "BvSGtEq",
              "BvULt", "BvULtEq", "BvUGt", "BvUGtEq"}
Compare == BvCompare \cup {"Eq", "NotEq", "Lt", "LtEq", "Gt", "GtEq"}
FpArith == {"FAdd", "FSub", "FMul", "FDiv"}
FpCompare == {"FEq", "FGt", "FGtEq", "FLt", "FLtEq"}
FpQuery == {"FIsNan", "FIsInf"}
BvToFpCast == {"SignedToFp", "UnsignedToFp", "BvToFp"}
FpToBvCast == {"FpToSigned", "FpToUnsigned", "FpToBv"}
FpCast == BvToFpCast \cup FpToBvCast \cup {"FCast"}

IsCommutative(k) ==
  k \in {"Add", "Mul", "BvAnd", "BvOr", "BvXor", "Eq", "NotEq", "FAdd", "FMul"}

---------------------------------------------------------------------------
(* Create: the assertions, the type of the result, the new expression.     *)

Node(k, t, ops) ==
  IF \E i \in DOMAIN ops : ops[i] = Abort THEN Abort
  ELSE [k |-> k, t |-> t, a |-> ops]

NotCreate(op) == IF op.t = BoolT THEN Node("Not", BoolT, <<op>>) ELSE Abort

ExtCastCreate(k, op, t) ==
  IF IsBv(op.t) /\ IsBv(t) /\ t.w > op.t.w THEN Node(k, t, <<op>>) ELSE Abort

ExtractCreate(op, offset, width) ==
  IF IsBv(op.t) /\ width > 0 /\ op.t.w >= width + offset
  THEN [k |-> "Extract", t |-> BvT(width), a |-> <<op>>, off |-> offset]
  ELSE Abort

ArithCreate(k, l, r) ==
  IF /\ l.t = r.t
     /\ CASE k \in BvOnlyArith -> IsBv(l.t)
          [] k = "Div" -> IsArithmetic(l.t)
          [] OTHER -> IsBv(l.t) \/ IsArithmetic(l.t)
  THEN Node(k, l.t, <<l, r>>) ELSE Abort

BvConcatCreate(l, r) ==
  IF IsBv(l.t) /\ IsBv(r.t) THEN Node("BvConcat", BvT(l.t.w + r.t.w), <<l, r>>)
  ELSE Abort

CompareCreate(k, l, r) ==
  IF l.t = r.t /\ (k \in BvCompare => IsBv(l.t)) THEN Node(k, BoolT, <<l, r>>)
  ELSE Abort

MultiaryCreate(k, ops) ==
  IF ops # <<>> /\ \A i \in DOMAIN ops : ops[i].t = BoolT
  THEN Node(k, BoolT, ops) ELSE Abort

ImplyCreate(l, r) ==
  IF l.t = BoolT /\ r.t = BoolT THEN Node("Imply", BoolT, <<l, r>>) ELSE Abort

(* A comparison does not assert that its operands have one type. *)
FpCreate(k, ops) ==
  IF \A i \in DOMAIN ops : ops[i].t.id = "Float" /\ (k \in FpArith => ops[i].t = ops[1].t)
  THEN Node(k, IF k \in FpArith THEN ops[1].t ELSE BoolT, ops) ELSE Abort

FpCastCreate(k, op, t) ==
  IF /\ op.t # t
     /\ IF k \in BvToFpCast THEN IsBv(op.t) ELSE op.t.id = "Float"
     /\ IF k \in FpToBvCast THEN IsBv(t) ELSE t.id = "Float"
  THEN Node(k, t, <<op>>) ELSE Abort

SelectCreate(c, then, elze) ==
  IF then.t = elze.t /\ c.t = BoolT THEN Node("Select", then.t, <<c, then, elze>>)
  ELSE Abort

ReadCreate(arr, ix) ==
  IF arr.t.id = "Array" /\ arr.t.ix = ix.t THEN Node("ArrayRead", arr.t.el, <<arr, ix>>)
  ELSE Abort

(* The element's type is not asserted. *)
WriteCreate(arr, ix, v) ==
  IF arr.t.id = "Array" /\ arr.t.ix = ix.t THEN Node("ArrayWrite", arr.t, <<arr, ix, v>>)
  ELSE Abort

TupleCreate(t, ops) ==
  IF Len(ops) = Len(t.ts) THEN Node("TupleConstruct", t, ops) ELSE Abort

TupSelCreate(tup, index) ==
  IF tup.t.id = "Tuple" /\ index < Len(tup.t.ts)
  THEN [k |-> "TupleSelect", t |-> tup.t.ts[index + 1], a |-> <<tup>>, ix |-> index]
  ELSE Abort

===========================================================================
