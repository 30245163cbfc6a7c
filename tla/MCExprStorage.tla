--------------------------- MODULE MCExprStorage ---------------------------
(* A small instance of ExprStorage: two literals with one value and two    *)
(* types, which have the same hash; a binary expression, and an array      *)
(* literal given by its default.                                           *)
EXTENDS ExprStorage

Atom(kind, type, data) == [kind |-> kind, type |-> type, data |-> data]
MCLeafExprs == {Atom("Literal", "Int", 1), Atom("Literal", "Bv", 1)}
MCShapes == {[expr |-> Atom("Add", "Int", 0), arity |-> 2],
             [expr |-> Atom("Array", "Array", 2), arity |-> 1]}
MCHashCombine(list, n) == n + MapThenSumSet(LAMBDA i : i * list[i], DOMAIN list)

============================================================================
