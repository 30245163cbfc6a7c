------------------------------- MODULE Lists -------------------------------
(***************************************************************************)
(* Singly linked lists through a pointer nx[a] of every object a, as       *)
(* ExprStorage builds them of the mNextPtr of its expressions.             *)
(***************************************************************************)
EXTENDS Naturals

Nil == 0        \* the null pointer, which is no object

(* The objects that a walk from p along nx visits until it meets nullptr:  *)
(* the smallest set that has p and, with an object, its successor.         *)
ListFrom(nx, p) ==
  {a \in DOMAIN nx :
     \A T \in SUBSET DOMAIN nx :
       (p \in T \cup {Nil} /\ \A q \in T : nx[q] \in T \cup {Nil}) => a \in T}

(* No walk along nx comes back to where it was. *)
ListsEnd(nx) == \A a \in DOMAIN nx : a \notin ListFrom(nx, nx[a])

=============================================================================
