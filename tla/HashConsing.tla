---------------------------- MODULE HashConsing ----------------------------
(***************************************************************************)
(* What a GazerContext promises of its expressions: there is one object    *)
(* per structure, so that pointers can be compared instead of structures,  *)
(* and an object lives exactly as long as someone can reach it.            *)
(***************************************************************************)
EXTENDS Naturals

CONSTANTS
  Addr,       \* identities of expression objects
  Root,       \* the object the context holds itself
  RootKey,    \* its structure
  Keys(_)     \* the structures over a set of objects: [expr, ops]

VARIABLES
  nodes,      \* the structure of every object that exists
  held,       \* references held from outside, for every identity
  got         \* the latest answer: the structure asked for and the object

avars == <<nodes, held, got>>
Nothing == [key |-> RootKey, obj |-> Root]

Holding(h) == {a \in Addr : h[a] > 0}

(* The objects of n that can be reached from the objects in S: the ones in *)
(* every set that has S and, with an object, its operands.                 *)
ClosedSets(n, S) ==
  {T \in SUBSET DOMAIN n :
     S \subseteq T /\ \A a \in T : \A i \in DOMAIN n[a].ops : n[a].ops[i] \in T}
Reachable(n, S) == {a \in DOMAIN n : \A T \in ClosedSets(n, S) : a \in T}

AInit ==
  /\ nodes = [a \in {Root} |-> RootKey]
  /\ held = [a \in Addr |-> IF a = Root THEN 1 ELSE 0]
  /\ got = Nothing

(* A reference to the one object with this structure is handed out; the    *)
(* object is new if there was none.                                        *)
ACreate(a) ==
  /\ held' = [held EXCEPT ![a] = @ + 1]
  /\ got' = [key |-> nodes'[a], obj |-> a]
  /\ LET old == nodes
         new == nodes'
         same == {b \in DOMAIN old : old[b] = new[a]}
     IN  /\ a \in DOMAIN new
         /\ new[a] \in Keys(Holding(held)) \cup {RootKey}
         /\ a \in (IF same # {} THEN same ELSE Addr \ DOMAIN old)
         /\ new = [b \in DOMAIN old \cup {a} |-> IF b = a THEN new[a] ELSE old[b]]

(* A reference is dropped; what it alone kept alive is gone. *)
ARelease(a) ==
  /\ held[a] > 0
  /\ held' = [held EXCEPT ![a] = @ - 1]
  /\ got' = Nothing
  /\ nodes' = [b \in Reachable(nodes, Holding(held')) |-> nodes[b]]

ANext == \E a \in Addr : ACreate(a) \/ ARelease(a)

ASpec == AInit /\ [][ANext]_avars

===========================================================================
