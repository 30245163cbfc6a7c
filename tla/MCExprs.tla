------------------------------ MODULE MCExprs ------------------------------
(***************************************************************************)
(* The vocabularies of the expression run.                                 *)
(***************************************************************************)
EXTENDS ExprWalker, Functions

Family(atoms, unary, binary, select, max, vals, subs, walks) ==
  [atoms |-> atoms, unary |-> unary, binary |-> binary, select |-> select, max |-> max,
   vals |-> vals, subs |-> subs, walks |-> walks, casts |-> {}, extracts |-> {},
   insts |-> {}, ints |-> "bv", width |-> 1]

Bools == {True, False}
P == VarRef("p", BoolT)
Q == VarRef("q", BoolT)

BoolFamily ==
  Family({False, P, Q}, {"Not"}, {"And", "Or", "Imply", "Eq"}, FALSE, 3,
         [{"p", "q"} -> Bools], {[x \in {"p"} |-> True], [x \in {"p"} |-> Q]}, {})

N == VarRef("n", IntT)
IntVals == [{"n"} -> {IntLit(i) : i \in {-3, -1, 0, 2}}]
IntFamily ==
  Family({N, IntLit(-1), IntLit(0), IntLit(1), IntLit(2)}, {"Not"},
         {"Add", "Sub", "Mul", "Div", "Mod", "Rem", "Eq", "NotEq", "Lt", "LtEq", "Gt", "GtEq"},
         FALSE, 2, IntVals, {[x \in {"n"} |-> IntLit(1)], [x \in {"n"} |-> ArithCreate("Sub", N, IntLit(1))]}, {})

MixedVals == {[x \in {"p", "q", "n"} |-> IF x = "n" THEN i ELSE IF x = "p" THEN b ELSE c] :
                b, c \in Bools, i \in {IntLit(-1), IntLit(2)}}
SelectFamily ==
  Family({P, Q, N, IntLit(0), IntLit(1)}, {}, {"Eq", "LtEq"},
         TRUE, 2, MixedVals, {[x \in {"p"} |-> NotCreate(Q)], [x \in {"p", "n"} |-> IF x = "p" THEN False ELSE IntLit(1)]}, {})

(* Small, and walked. *)
WalkVals == {[x \in {"p", "n"} |-> IF x = "n" THEN i ELSE True] : i \in {IntLit(0), IntLit(2)}}
WalkFamily ==
  Family({P, N, IntLit(0)}, {"Not"}, {"Or", "Eq", "Add", "LtEq"}, TRUE, 2, WalkVals,
         {[x \in {"p"} |-> NotCreate(P)], [x \in {"n"} |-> IntLit(0)]}, WalkVals)

BvFamily(w, kinds) ==
  [Family({VarRef("x", BvT(w)), BvLit(0, w), BvLit(1, w), BvLit(2^w - 1, w)}, {},
          kinds, FALSE, 2, [{"x"} -> {BvLit(i, w) : i \in 0 .. 2^w - 1}],
          {[x \in {"x"} |-> BvLit(1, w)]}, {})
   EXCEPT !.casts = {<<"ZExt", BvT(w + 1)>>, <<"SExt", BvT(w + 1)>>}, !.extracts = {<<0, 1>>, <<1, 1>>, <<w - 1, 1>>}]

BvKinds == (BvOnlyArith \ {"BvXor"}) \cup {"Add", "Mul", "Eq", "BvConcat", "BvSLt", "BvUGtEq"}
OneBitKinds == {"BvSDiv", "BvSRem", "Shl", "AShr", "Sub", "BvXor"} \cup BvCompare

Arr == VarRef("arr", ArrayT(IntT, BoolT))
Empty == ArrayLit(ArrayT(IntT, BoolT), {}, True)
ArrVal == ArrayLit(ArrayT(IntT, BoolT), {<<IntLit(0), False>>}, True)
ArrayFamily ==
  Family({Arr, Empty, ArrVal, IntLit(0), IntLit(1), True}, {"Not"}, {"ArrayRead", "Eq"}, FALSE, 2,
         {[x \in {"arr"} |-> ArrVal], [x \in {"arr"} |-> Empty]}, {[x \in {"arr"} |-> Empty]}, {})

FloatFamily ==
  [Family({VarRef("f", FloatT(16)), FloatLit("nan", 16), FloatLit("num", 16)},
         {"Not", "FIsNan", "FIsInf"}, {"FAdd", "FEq"}, FALSE, 2,
         [{"f"} -> {FloatLit(c, 16) : c \in {"nan", "inf", "num"}}], {[x \in {"f"} |-> FloatLit("inf", 16)]}, {})
   EXCEPT !.casts = {<<"FCast", FloatT(32)>>, <<"FpToSigned", BvT(2)>>, <<"SignedToFp", FloatT(16)>>}]

(* Instructions over two arguments of two bits. *)
Arg(x, w) == [op |-> "arg", ty |-> ITy(w), x |-> x]
Const(n, w) == [op |-> "const", ty |-> ITy(w), n |-> n]
Prev(w) == [op |-> "prev", ty |-> ITy(w)]
Inst(op, w, a) == [op |-> op, ty |-> ITy(w), a |-> a]
ICmp(pred, a) == [op |-> "icmp", ty |-> ITy(1), a |-> a, pred |-> pred]

Binary(w, xs, ys) ==
  {Inst(op, w, <<x, y>>) : op \in DOMAIN BvOpcode, x \in xs, y \in ys}
    \cup {ICmp(p, <<x, y>>) : p \in DOMAIN BvPredicate \cup {"eq", "ne"}, x \in xs, y \in ys}
    \cup {Inst(op, 1, <<x, y>>) : op \in DOMAIN OverflowOp, x \in xs, y \in ys}

Insts ==
  LET w == 2 x == Arg("x", w) y == Arg("y", w) c == Const(2^w - 1, w)
  IN Binary(w, {x}, {y, c}) \cup Binary(w, {c}, {x})
       \cup {Inst(op, w, <<Prev(w), x>>) : op \in {"add", "and", "sdiv", "ashr"}}
       \cup {ICmp(p, <<Prev(w), x>>) : p \in {"eq", "slt", "ult"}}
       \cup {Inst(op, w + 1, <<o>>) : op \in {"zext", "sext"}, o \in {x, Prev(w), Prev(1)}}
       \cup {Inst("zext", w, <<Prev(1)>>), Inst("sext", w, <<Prev(1)>>), Inst("xor", 1, <<Prev(1), Const(1, 1)>>)}
       \cup {Inst("trunc", n, <<o>>) : n \in 1 .. w - 1, o \in {x, Prev(w), Prev(w + 1)}}
       \cup {Inst("select", w, <<Prev(1), x, y>>)}
       \cup {Inst(op, 1, <<Prev(1), b>>) : op \in {"and", "or"}, b \in {Const(0, 1), Const(1, 1), Prev(1)}}

InstFamily(insts, w, ints, vals) ==
  [Family({True}, {}, {}, FALSE, 2, vals, {}, {})
   EXCEPT !.insts = insts, !.ints = ints, !.width = w]

MCFamilies ==
  [bool |-> BoolFamily, int |-> IntFamily, select |-> SelectFamily, bv1 |-> BvFamily(1, OneBitKinds),
   bv2 |-> BvFamily(2, BvKinds), array |-> ArrayFamily, walk |-> WalkFamily, float |-> FloatFamily,
   instbv |-> InstFamily(Insts, 2, "bv", [{"x", "y"} -> {BvLit(n, 2) : n \in 0 .. 3}]),
   instint |-> InstFamily(Insts, 2, "int", [{"x", "y"} -> {IntLit(n) : n \in -2 .. 1}])]

===========================================================================
