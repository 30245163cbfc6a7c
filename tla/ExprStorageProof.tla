-------------------------- MODULE ExprStorageProof --------------------------
(***************************************************************************)
(* The storage of expressions keeps its table exact, follows no dangling   *)
(* pointer, counts references exactly and implements HashConsing, for      *)
(* every set of addresses, every hash function, every table size and every *)
(* set of structures.                                                      *)
(*                                                                         *)
(* The first part has facts about what the state consists of, for values   *)
(* of the variables rather than for behaviours: linked lists, activations  *)
(* of destroy(), references and their counts, and the buckets.             *)
(***************************************************************************)
EXTENDS ExprStorage, FiniteSetTheorems, SequenceTheorems, TLAPS

-----------------------------------------------------------------------------
(***************************************************************************)
(* What walks along linked lists visit when links change: the facts that   *)
(* removeFromList(), rehashTable() and destroy() rely on.                  *)
(***************************************************************************)
Links(nx, D) == nx \in [D -> D \cup {Nil}] /\ Nil \notin D

(* A walk stays in every set that has its start and follows the links. *)
LEMMA ListMinimal ==
  ASSUME NEW D, NEW nx, Links(nx, D), NEW p, NEW T \in SUBSET D,
         p \in T \cup {Nil}, \A q \in T : nx[q] \in T \cup {Nil}
  PROVE  ListFrom(nx, p) \subseteq T
BY DEF ListFrom, Links

(* The list consists of objects, starts at p and follows the links. *)
LEMMA ListClosed ==
  ASSUME NEW D, NEW nx, Links(nx, D), NEW p \in D \cup {Nil}
  PROVE  /\ ListFrom(nx, p) \subseteq D
         /\ p \in ListFrom(nx, p) \cup {Nil}
         /\ \A q \in ListFrom(nx, p) : nx[q] \in ListFrom(nx, p) \cup {Nil}
BY DEF ListFrom, Links

(* The list that starts at the null pointer is empty. *)
LEMMA ListNil ==
  ASSUME NEW D, NEW nx, Links(nx, D)
  PROVE  ListFrom(nx, Nil) = {}
<1> DEFINE T == {}
<1>1. Links(nx, D) /\ T \in SUBSET D /\ Nil \in T \cup {Nil} /\ \A q \in T : nx[q] \in T \cup {Nil}
  OBVIOUS
<1> HIDE DEF T
<1>2. ListFrom(nx, Nil) \subseteq T
  BY ONLY <1>1, ListMinimal, ZenonT(30)
<1> QED BY <1>2 DEF T

(* The members of a list have their own lists in it. *)
LEMMA ListSub ==
  ASSUME NEW D, NEW nx, Links(nx, D), NEW p \in D \cup {Nil},
         NEW q \in ListFrom(nx, p) \cup {Nil}
  PROVE  ListFrom(nx, q) \subseteq ListFrom(nx, p)
BY ListClosed, ListMinimal

(* The first object, and the list of its successor. *)
LEMMA ListUnfold ==
  ASSUME NEW D, NEW nx, Links(nx, D), NEW p \in D
  PROVE  ListFrom(nx, p) = {p} \cup ListFrom(nx, nx[p])
<1> DEFINE L == ListFrom(nx, p)
           M == ListFrom(nx, nx[p])
<1>1. nx[p] \in D \cup {Nil} /\ p # Nil
  BY DEF Links
<1>2. /\ L \subseteq D /\ p \in L
      /\ nx[p] \in L \cup {Nil}
      /\ M \subseteq D /\ nx[p] \in M \cup {Nil}
      /\ \A q \in M : nx[q] \in M \cup {Nil}
  BY <1>1, ListClosed
<1>3. M \subseteq L
  BY <1>2, ListSub
<1>4. L \subseteq {p} \cup M
  <2> HIDE DEF L, M
  <2> DEFINE T == {p} \cup M
  <2>1. T \in SUBSET D /\ p \in T \cup {Nil}
    BY <1>2
  <2>2. \A q \in T : nx[q] \in T \cup {Nil}
    BY <1>2
  <2> HIDE DEF T
  <2>3. ListFrom(nx, p) \subseteq T
    BY <2>1, <2>2, ListMinimal
  <2> QED BY <2>3 DEF L, T
<1> QED BY <1>2, <1>3, <1>4

(* A list depends on the links of its own members only. *)
LEMMA ListSame ==
  ASSUME NEW D, NEW nx, Links(nx, D), NEW ny, Links(ny, D),
         NEW p \in D \cup {Nil}, \A q \in ListFrom(nx, p) : ny[q] = nx[q]
  PROVE  ListFrom(ny, p) = ListFrom(nx, p)
<1> DEFINE L == ListFrom(nx, p)
           M == ListFrom(ny, p)
<1>1. L \subseteq D /\ p \in L \cup {Nil} /\ \A q \in L : nx[q] \in L \cup {Nil}
  BY ListClosed
<1>2. M \subseteq D /\ p \in M \cup {Nil} /\ \A q \in M : ny[q] \in M \cup {Nil}
  BY ListClosed
<1>3. \A q \in L : ny[q] = nx[q]
  OBVIOUS
<1> HIDE DEF L, M
<1>4. M \subseteq L
  BY <1>1, <1>3, ListMinimal DEF M
<1>5. L \subseteq M
  <2> DEFINE T == L \cap M
  <2>1. \A q \in T : nx[q] \in T \cup {Nil}
    BY <1>1, <1>2, <1>3
  <2>2. p \in T \cup {Nil} /\ T \in SUBSET D
    BY <1>1, <1>2
  <2> HIDE DEF T
  <2>3. L \subseteq T
    BY <2>1, <2>2, ListMinimal DEF L
  <2> QED BY <2>3 DEF T
<1> QED BY <1>4, <1>5 DEF L, M

(* removeFromList(): a is taken out of the list from p. *)
Unlinks(D, nx, ny, p, a) ==
  /\ ny[a] = Nil
  /\ \A q \in D \ {a} : ny[q] = IF q \in ListFrom(nx, p) /\ nx[q] = a THEN nx[a] ELSE nx[q]

(* Taking an object out of its list, as removeFromList() does, leaves that *)
(* list without it.                                                        *)
LEMMA ListUnlink ==
  ASSUME NEW D, NEW nx, Links(nx, D), ListsEnd(nx),
         NEW p \in D \cup {Nil}, NEW a \in ListFrom(nx, p),
         NEW ny, Links(ny, D), Unlinks(D, nx, ny, p, a)
  PROVE  /\ ListsEnd(ny)
         /\ p = a => ListFrom(ny, nx[a]) = ListFrom(nx, p) \ {a}
         /\ p # a => ListFrom(ny, p) = ListFrom(nx, p) \ {a}
<1> DEFINE p2 == IF p = a THEN nx[a] ELSE p
<1>l. Links(nx, D)
  OBVIOUS
<1>0. (p = a => p2 = nx[a]) /\ (p # a => p2 = p)
  OBVIOUS
<1> HIDE DEF p2
<1> DEFINE L == ListFrom(nx, p)
<1>1. L \subseteq D /\ p \in L \cup {Nil} /\ \A q \in L : nx[q] \in L \cup {Nil}
  BY ListClosed
<1>a. a \in L /\ a \in D
  BY <1>1
<1>2. DOMAIN nx = D /\ Nil \notin D /\ \A q \in D : nx[q] \in D \cup {Nil}
  BY DEF Links
<1>3. /\ DOMAIN ny = D
      /\ ny[a] = Nil
      /\ \A q \in D : q # a => ny[q] = IF q \in L /\ nx[q] = a THEN nx[a] ELSE nx[q]
  BY <1>1, <1>2 DEF Links, Unlinks
<1>4. Links(ny, D)
  OBVIOUS
<1>5. \A q \in D : nx[q] # q
  BY <1>2, ListClosed DEF ListsEnd
<1> HIDE DEF L
<1>6. ListsEnd(ny)
  <2> SUFFICES ASSUME NEW x \in D PROVE x \notin ListFrom(ny, ny[x])
    BY <1>3 DEF ListsEnd
  <2>1. CASE x = a
    BY <2>1, <1>3, <1>4, ListNil
  <2>2. CASE x # a
    <3> DEFINE M == ListFrom(nx, nx[x])
    <3>1. M \subseteq D /\ nx[x] \in M \cup {Nil} /\ \A q \in M : nx[q] \in M \cup {Nil}
      BY <1>2, ListClosed
    <3>2. x \notin M
      BY <1>2 DEF ListsEnd
    <3> HIDE DEF M
    <3>3. ASSUME NEW q \in M PROVE ny[q] \in M \cup {Nil}
      <4>1. q \in D /\ nx[q] \in M \cup {Nil}
        BY <3>1
      <4>2. nx[q] = a => nx[a] \in M \cup {Nil}
        BY <4>1, <3>1, <1>a, <1>2
      <4> QED BY <4>1, <4>2, <1>3
    <3>4. ny[x] \in M \cup {Nil}
      <4>1. nx[x] = a => nx[a] \in M \cup {Nil}
        BY <3>1, <1>a, <1>2
      <4> QED BY <4>1, <3>1, <1>3, <2>2
    <3>5. PICK z : z = ny[x]
      OBVIOUS
    <3>6. z \in M \cup {Nil} /\ M \in SUBSET D
      BY <3>1, <3>4, <3>5
    <3>7. ListFrom(ny, z) \subseteq M
      BY ONLY <1>4, <3>3, <3>6, ListMinimal
    <3> QED BY <3>2, <3>5, <3>7
  <2> QED BY <2>1, <2>2
<1>7. p2 \in D \cup {Nil}
  BY <1>0, <1>a, <1>2
<1>8. ListFrom(ny, p2) \subseteq L \ {a}
  <2> DEFINE T == L \ {a}
  <2>1. p2 \in T \cup {Nil} /\ T \in SUBSET D
    BY <1>0, <1>a, <1>1, <1>2, <1>5
  <2>2. ASSUME NEW q \in T PROVE ny[q] \in T \cup {Nil}
    <3>1. q \in L /\ q \in D /\ q # a /\ nx[q] \in L \cup {Nil} /\ nx[a] \in L \cup {Nil}
      BY <1>a, <1>1
    <3> QED BY <3>1, <1>a, <1>2, <1>3, <1>5
  <2> HIDE DEF T
  <2>3. ListFrom(ny, p2) \subseteq T
    BY ONLY <2>1, <2>2, <1>4, ListMinimal
  <2> QED BY <2>3 DEF T
<1>9. L \ {a} \subseteq ListFrom(ny, p2)
  <2> DEFINE T == ListFrom(ny, p2)
             U == {q \in L : q \in T \/ (q = a /\ nx[a] \in T \cup {Nil})}
  <2>1. T \subseteq D /\ p2 \in T \cup {Nil} /\ \A q \in T : ny[q] \in T \cup {Nil}
    BY <1>4, <1>7, ListClosed
  <2>a. a \notin T
    BY <1>8
  <2> HIDE DEF T
  <2>2. p \in U \cup {Nil}
    BY <1>0, <2>1, <1>1, <1>2
  <2>3. ASSUME NEW q \in U PROVE nx[q] \in U \cup {Nil}
    <3>1. q \in L /\ nx[q] \in L \cup {Nil}
      BY <1>1
    <3>2. CASE q = a
      BY <3>1, <3>2, <2>a
    <3>3. CASE q # a /\ nx[q] = a
      BY <3>1, <3>3, <2>1, <1>3, <1>1
    <3>4. CASE q # a /\ nx[q] # a
      BY <3>1, <3>4, <2>1, <1>3, <1>1
    <3> QED BY <3>2, <3>3, <3>4
  <2>4. U \in SUBSET D
    BY <1>1
  <2> HIDE DEF U
  <2>5. ListFrom(nx, p) \subseteq U
    BY ONLY <1>l, <2>2, <2>3, <2>4, ListMinimal
  <2> QED BY <2>5 DEF L, U, T
<1> QED BY <1>0, <1>6, <1>8, <1>9 DEF L

(* Every member of a list leads to the last one. *)
LEMMA ListLast ==
  ASSUME NEW D, NEW nx, Links(nx, D), NEW p \in D \cup {Nil},
         NEW t \in ListFrom(nx, p), nx[t] = Nil, NEW q \in ListFrom(nx, p)
  PROVE  t \in ListFrom(nx, q)
<1> DEFINE T == {x \in ListFrom(nx, p) : t \in ListFrom(nx, x)}
<1>1. /\ ListFrom(nx, p) \subseteq D /\ p \in ListFrom(nx, p) \cup {Nil}
      /\ \A x \in ListFrom(nx, p) : nx[x] \in ListFrom(nx, p) \cup {Nil}
  BY ListClosed
<1>2. p \in T \cup {Nil} /\ T \in SUBSET D
  BY <1>1
<1>3. ASSUME NEW x \in T PROVE nx[x] \in T \cup {Nil}
  <2>1. x \in D /\ t \in ListFrom(nx, x) /\ nx[x] \in ListFrom(nx, p) \cup {Nil}
    BY <1>1
  <2>2. ListFrom(nx, x) = {x} \cup ListFrom(nx, nx[x])
    BY <2>1, ListUnfold
  <2> QED BY <2>1, <2>2
<1> HIDE DEF T
<1>4. ListFrom(nx, p) \subseteq T
  BY <1>2, <1>3, ListMinimal
<1> QED BY <1>4 DEF T

(* destroy(): an object with no successor goes after the last one. *)
LEMMA ListAppend ==
  ASSUME NEW D, NEW nx, Links(nx, D), ListsEnd(nx),
         NEW t \in D, nx[t] = Nil, NEW c \in D, nx[c] = Nil, c # t,
         NEW ny, Links(ny, D), ny[t] = c, \A q \in D \ {t} : ny[q] = nx[q]
  PROVE  /\ ListsEnd(ny)
         /\ \A p \in D \cup {Nil} :
              ListFrom(ny, p)
                = IF t \in ListFrom(nx, p) THEN ListFrom(nx, p) \cup {c}
                  ELSE ListFrom(nx, p)
<1>1. /\ DOMAIN nx = D /\ DOMAIN ny = D /\ Nil \notin D
      /\ \A q \in D : nx[q] \in D \cup {Nil}
      /\ \A q \in D : ny[q] = IF q = t THEN c ELSE nx[q]
  BY DEF Links
<1>2. Links(ny, D)
  BY DEF Links
<1>3. ASSUME NEW p \in D \cup {Nil}
      PROVE  ListFrom(ny, p) = IF t \in ListFrom(nx, p) THEN ListFrom(nx, p) \cup {c}
                               ELSE ListFrom(nx, p)
  <2> DEFINE L == ListFrom(nx, p)
             M == ListFrom(ny, p)
  <2>1. L \subseteq D /\ p \in L \cup {Nil} /\ \A q \in L : nx[q] \in L \cup {Nil}
    BY ListClosed
  <2>2. M \subseteq D /\ p \in M \cup {Nil} /\ \A q \in M : ny[q] \in M \cup {Nil}
    BY <1>2, ListClosed
  <2> HIDE DEF L, M
  <2>3. CASE t \notin L
    <3>1. \A q \in L : ny[q] = nx[q]
      BY <2>1, <2>3, <1>1
    <3> QED BY <3>1, <2>3, <1>2, ListSame DEF L, M
  <2>4. CASE t \in L
    <3>1. M \subseteq L \cup {c}
      <4> DEFINE T == L \cup {c}
      <4>1. \A q \in T : ny[q] \in T \cup {Nil}
        BY <2>1, <1>1
      <4>2. p \in T \cup {Nil} /\ T \in SUBSET D
        BY <2>1
      <4> HIDE DEF T
      <4>3. ListFrom(ny, p) \subseteq T
        BY ONLY <4>1, <4>2, <1>2, ListMinimal
      <4> QED BY <4>3 DEF M, T
    <3>2. L \subseteq M
      <4> DEFINE T == L \cap M
      <4>1. \A q \in T : nx[q] \in T \cup {Nil}
        BY <2>1, <2>2, <1>1
      <4>2. p \in T \cup {Nil} /\ T \in SUBSET D
        BY <2>1, <2>2
      <4> HIDE DEF T
      <4>3. L \subseteq T
        BY <4>1, <4>2, ListMinimal DEF L
      <4> QED BY <4>3 DEF T
    <3>3. c \in M
      BY <3>2, <2>4, <2>2, <1>1
    <3> QED BY <3>1, <3>2, <3>3, <2>4 DEF L, M
  <2> QED BY <2>3, <2>4 DEF L, M
<1>4. ListsEnd(ny)
  <2> SUFFICES ASSUME NEW x \in D PROVE x \notin ListFrom(ny, ny[x])
    BY <1>1 DEF ListsEnd
  <2>1. x \notin ListFrom(nx, nx[x])
    BY <1>1 DEF ListsEnd
  <2>2. CASE x = c
    BY <2>2, <1>1, <1>2, ListNil
  <2>3. CASE x = t
    <3>1. ListFrom(nx, c) = {c}
      BY ListUnfold, ListNil
    <3> QED BY <3>1, <2>3, <1>1, <1>3
  <2>4. CASE x # t /\ x # c
    BY <2>1, <2>4, <1>1, <1>3
  <2> QED BY <2>2, <2>3, <2>4
<1> QED BY <1>2, <1>3, <1>4

(* An object that no list of another one has becomes the first of a list   *)
(* that it is not on: insertion into a bucket.                             *)
LEMMA ListPrepend ==
  ASSUME NEW D, NEW nx, Links(nx, D), ListsEnd(nx),
         NEW a \in D, NEW p \in D \cup {Nil}, a \notin ListFrom(nx, p),
         \A x \in D \ {a} : a \notin ListFrom(nx, nx[x]),
         NEW ny, Links(ny, D), ny[a] = p, \A q \in D \ {a} : ny[q] = nx[q]
  PROVE  /\ ListsEnd(ny)
         /\ ListFrom(ny, a) = {a} \cup ListFrom(nx, p)
         /\ \A q \in D \cup {Nil} :
              a \notin ListFrom(nx, q) => ListFrom(ny, q) = ListFrom(nx, q)
<1>1. /\ DOMAIN nx = D /\ DOMAIN ny = D /\ Nil \notin D
      /\ \A q \in D : nx[q] \in D \cup {Nil}
      /\ \A q \in D : ny[q] = IF q = a THEN p ELSE nx[q]
  BY DEF Links
<1>2. Links(ny, D)
  BY DEF Links
<1>3. ASSUME NEW q \in D \cup {Nil}, a \notin ListFrom(nx, q)
      PROVE  ListFrom(ny, q) = ListFrom(nx, q)
  <2>1. \A x \in ListFrom(nx, q) : ny[x] = nx[x]
    BY <1>1, <1>3, ListClosed
  <2> QED BY <2>1, <1>2, ListSame
<1>4. ListFrom(ny, a) = {a} \cup ListFrom(nx, p)
  BY <1>1, <1>2, <1>3, ListUnfold
<1>5. ListsEnd(ny)
  <2> SUFFICES ASSUME NEW x \in D PROVE x \notin ListFrom(ny, ny[x])
    BY <1>1 DEF ListsEnd
  <2>1. x \notin ListFrom(nx, nx[x])
    BY <1>1 DEF ListsEnd
  <2>2. CASE x = a
    BY <2>2, <1>1, <1>3
  <2>3. CASE x # a
    BY <2>1, <2>3, <1>1, <1>3
  <2> QED BY <2>2, <2>3
<1> QED BY <1>2, <1>3, <1>4, <1>5

(* The link of an object is cut: lists without the object stay. *)
LEMMA ListCut ==
  ASSUME NEW D, NEW nx, Links(nx, D), ListsEnd(nx), NEW a \in D,
         NEW ny, Links(ny, D), ny[a] = Nil, \A q \in D \ {a} : ny[q] = nx[q]
  PROVE  ListsEnd(ny)
<1>1. DOMAIN ny = D /\ DOMAIN nx = D
  BY DEF Links
<1>2. ASSUME NEW x \in D, x \in ListFrom(ny, ny[x]) PROVE FALSE
  <2>1. x # a
    BY <1>2, ListNil
  <2>2. ny[x] = nx[x] /\ nx[x] \in D \cup {Nil}
    BY <2>1 DEF Links
  <2> DEFINE T == ListFrom(nx, nx[x])
  <2>3. T \subseteq D /\ nx[x] \in T \cup {Nil} /\ \A q \in T : nx[q] \in T \cup {Nil}
    BY <2>2, ListClosed
  <2>4. x \notin T
    BY <1>1 DEF ListsEnd
  <2> HIDE DEF T
  <2>5. T \in SUBSET D /\ \A q \in T : ny[q] \in T \cup {Nil}
    BY <2>3
  <2>6. ListFrom(ny, nx[x]) \subseteq T
    BY <2>3, <2>5, ListMinimal
  <2> QED BY <2>2, <2>4, <2>6, <1>2
<1> QED BY <1>1, <1>2 DEF ListsEnd

-----------------------------------------------------------------------------
(***************************************************************************)
(* The activations of destroy() and of deletes.  An activation owns the    *)
(* list from its root: what is before `last` on it has lost its operands,  *)
(* what is after it has all of them, and `last` has them from `i` on.      *)
(* Different activations own different expressions.                        *)
(***************************************************************************)
Whole(list) == \A j \in DOMAIN list : list[j] \in Addr
Emptied(list) == \A j \in DOMAIN list : list[j] = Nil

Operands == [Addr -> Seq(Addr \cup {Nil})]
Frames == [op : {"delete", "scan", "sweep"},
           root : Addr, last : Addr, tail : Addr, i : Nat \ {0}]

FrameOK(f, nx, oo, al) ==
  /\ ListFrom(nx, f.root) \subseteq al
  /\ f.op = "sweep" => \A a \in ListFrom(nx, f.root) : Emptied(oo[a])
  /\ f.op # "sweep" =>
       /\ f.last \in ListFrom(nx, f.root)
       /\ f.tail \in ListFrom(nx, f.root) /\ nx[f.tail] = Nil
       /\ \A a \in ListFrom(nx, f.root) \ ListFrom(nx, f.last) : Emptied(oo[a])
       /\ f.i <= Len(oo[f.last]) + 1
       /\ \A j \in DOMAIN oo[f.last] :
            /\ j < f.i => oo[f.last][j] = Nil
            /\ j >= f.i => oo[f.last][j] \in Addr
       /\ \A a \in ListFrom(nx, nx[f.last]) : Whole(oo[a])
  /\ f.op = "delete" => f.last = f.root /\ f.tail = f.root
DoomedBy(st, nx) == UNION {ListFrom(nx, st[k].root) : k \in DOMAIN st}
StackOK(st, nx, oo, al) ==
  /\ \A k \in DOMAIN st : FrameOK(st[k], nx, oo, al)
  /\ \A k, m \in DOMAIN st :
       k # m => ListFrom(nx, st[k].root) \cap ListFrom(nx, st[m].root) = {}

(* What the activations below the innermost one own, and that a step of    *)
(* the innermost one leaves a set of expressions alone.                    *)
DoomedBelow(st, nx) == DoomedBy(st, nx) \ ListFrom(nx, st[Len(st)].root)
Untouched(S, nx, ny, oo, o2, al2) ==
  \A q \in S : ny[q] = nx[q] /\ o2[q] = oo[q] /\ q \in al2

(* What the assumptions say of addresses. *)
LEMMA AddrFacts ==
  /\ Nil \notin Addr /\ True \in Addr /\ Places \subseteq Addr /\ True \notin Places
  /\ IsFiniteSet(Addr) /\ Addr \subseteq Nat
<1>1. IsFiniteSet(Places \cup {True})
  BY PlacesAssumption, FS_AddElement
<1> QED BY <1>1, PlacesAssumption DEF Addr, Nil, True

(* What is right of an activation stays so while its own list is left      *)
(* alone.                                                                  *)
LEMMA FrameSame ==
  ASSUME NEW nx, Links(nx, Addr), NEW ny, Links(ny, Addr), NEW oo, NEW o2, NEW al, NEW al2,
         NEW f \in Frames, FrameOK(f, nx, oo, al),
         Untouched(ListFrom(nx, f.root), nx, ny, oo, o2, al2)
  PROVE  /\ FrameOK(f, ny, o2, al2)
         /\ ListFrom(ny, f.root) = ListFrom(nx, f.root)
<1> USE DEF Untouched
<1> DEFINE L == ListFrom(nx, f.root)
<1>1. f.root \in Addr /\ f.last \in Addr /\ f.tail \in Addr
  BY DEF Frames
<1>2. ListFrom(ny, f.root) = L
  BY <1>1, ListSame
<1>3. ASSUME f.op # "sweep"
      PROVE  /\ ListFrom(ny, f.last) = ListFrom(nx, f.last)
             /\ ListFrom(ny, ny[f.last]) = ListFrom(nx, nx[f.last])
             /\ ListFrom(nx, nx[f.last]) \subseteq L
  <2>1. f.last \in L
    BY <1>3 DEF FrameOK
  <2>2. nx[f.last] \in L \cup {Nil} /\ nx[f.last] \in Addr \cup {Nil}
    BY <1>1, <2>1, ListClosed
  <2>3. ListFrom(nx, f.last) \subseteq L /\ ListFrom(nx, nx[f.last]) \subseteq L
    BY <1>1, <2>1, <2>2, ListSub
  <2>4. ListFrom(ny, f.last) = ListFrom(nx, f.last)
    BY <1>1, <2>3, ListSame
  <2>5. ListFrom(ny, nx[f.last]) = ListFrom(nx, nx[f.last])
    BY <2>2, <2>3, ListSame
  <2> QED BY <2>1, <2>3, <2>4, <2>5
<1>4. L \subseteq al2
  OBVIOUS
<1>5. f.op = "sweep" => \A a \in L : Emptied(o2[a])
  BY DEF FrameOK
<1>6. ASSUME f.op # "sweep"
      PROVE  /\ f.last \in L /\ f.tail \in L /\ ny[f.tail] = Nil
             /\ \A a \in L \ ListFrom(nx, f.last) : Emptied(o2[a])
             /\ o2[f.last] = oo[f.last]
             /\ \A a \in ListFrom(nx, nx[f.last]) : Whole(o2[a])
  BY <1>3, <1>6 DEF FrameOK
<1> QED BY <1>2, <1>3, <1>4, <1>5, <1>6 DEF FrameOK

(* A stack that is not touched keeps its lists when their links are kept. *)
LEMMA StackSame ==
  ASSUME NEW nx, Links(nx, Addr), NEW ny, Links(ny, Addr), NEW oo, NEW o2, NEW al, NEW al2,
         NEW st \in Seq(Frames), StackOK(st, nx, oo, al),
         Untouched(DoomedBy(st, nx), nx, ny, oo, o2, al2)
  PROVE  StackOK(st, ny, o2, al2) /\ DoomedBy(st, ny) = DoomedBy(st, nx)
<1>1. ASSUME NEW k \in DOMAIN st
      PROVE  /\ FrameOK(st[k], ny, o2, al2)
             /\ ListFrom(ny, st[k].root) = ListFrom(nx, st[k].root)
  <2>1. st[k] \in Frames
    OBVIOUS
  <2>2. FrameOK(st[k], nx, oo, al)
    BY DEF StackOK
  <2>3. ListFrom(nx, st[k].root) \subseteq DoomedBy(st, nx)
    BY DEF DoomedBy
  <2>4. Untouched(ListFrom(nx, st[k].root), nx, ny, oo, o2, al2)
    BY <2>3 DEF Untouched
  <2> QED BY <2>1, <2>2, <2>4, FrameSame
<1> QED BY <1>1 DEF StackOK, DoomedBy

(* The last element of a sequence is replaced, or dropped, or one is added. *)
LEMMA SeqSetLast ==
  ASSUME NEW S, NEW s \in Seq(S), s # <<>>, NEW e \in S
  PROVE  /\ Len(s) \in Nat /\ Len(s) > 0 /\ DOMAIN s = 1 .. Len(s)
         /\ [s EXCEPT ![Len(s)] = e] \in Seq(S)
         /\ Len([s EXCEPT ![Len(s)] = e]) = Len(s)
         /\ DOMAIN [s EXCEPT ![Len(s)] = e] = DOMAIN s
         /\ Len(s) \in DOMAIN s
         /\ [s EXCEPT ![Len(s)] = e][Len(s)] = e
         /\ \A k \in DOMAIN s : k # Len(s) => [s EXCEPT ![Len(s)] = e][k] = s[k]
<1>1. Len(s) \in Nat /\ Len(s) > 0 /\ DOMAIN s = 1 .. Len(s) /\ Len(s) \in 1 .. Len(s)
  OBVIOUS
<1> QED BY <1>1, ExceptSeq

(* Return takes the innermost activation off. *)
LEMMA SeqFront ==
  ASSUME NEW S, NEW s \in Seq(S), s # <<>>
  PROVE  /\ Len(s) \in DOMAIN s
         /\ SubSeq(s, 1, Len(s) - 1) \in Seq(S)
         /\ DOMAIN SubSeq(s, 1, Len(s) - 1) = DOMAIN s \ {Len(s)}
         /\ \A k \in DOMAIN s \ {Len(s)} : SubSeq(s, 1, Len(s) - 1)[k] = s[k]
<1> DEFINE n == Len(s) - 1
           t == SubSeq(s, 1, n)
<1>1. Len(s) \in Nat /\ Len(s) > 0 /\ DOMAIN s = 1 .. Len(s) /\ n \in Nat
  OBVIOUS
<1>2. \A k \in 1 .. n : s[k] \in S
  BY <1>1
<1> HIDE DEF n
<1>3. /\ t \in Seq(S)
      /\ Len(t) = IF 1 <= n THEN n - 1 + 1 ELSE 0
      /\ \A k \in 1 .. n - 1 + 1 : t[k] = s[1 + k - 1]
  BY <1>1, <1>2, SubSeqProperties
<1> HIDE DEF t
<1>4. Len(t) = n /\ DOMAIN t = 1 .. n /\ \A k \in 1 .. n : t[k] = s[k]
  BY <1>1, <1>3
<1>5. 1 .. n = DOMAIN s \ {Len(s)}
  BY <1>1 DEF n
<1> QED BY <1>1, <1>3, <1>4, <1>5 DEF n, t

(* A call appends an activation. *)
LEMMA SeqAppend ==
  ASSUME NEW S, NEW s \in Seq(S), NEW e \in S
  PROVE  /\ Append(s, e) \in Seq(S)
         /\ DOMAIN Append(s, e) = DOMAIN s \cup {Len(s) + 1}
         /\ Len(s) + 1 \notin DOMAIN s
         /\ Append(s, e)[Len(s) + 1] = e
         /\ \A k \in DOMAIN s : Append(s, e)[k] = s[k]
         /\ Len(Append(s, e)) = Len(s) + 1
OBVIOUS

(* The other activations own other expressions than the innermost one. *)
LEMMA StackRest ==
  ASSUME NEW nx, Links(nx, Addr), NEW ny, Links(ny, Addr), NEW oo, NEW o2, NEW al, NEW al2,
         NEW st \in Seq(Frames), StackOK(st, nx, oo, al), st # <<>>,
         Untouched(DoomedBelow(st, nx), nx, ny, oo, o2, al2)
  PROVE  /\ \A k \in DOMAIN st \ {Len(st)} :
              /\ ListFrom(nx, st[k].root) \subseteq DoomedBelow(st, nx)
              /\ FrameOK(st[k], ny, o2, al2)
              /\ ListFrom(ny, st[k].root) = ListFrom(nx, st[k].root)
         /\ \A x \in DoomedBelow(st, nx) :
              \E k \in DOMAIN st \ {Len(st)} : x \in ListFrom(nx, st[k].root)
<1> DEFINE n == Len(st)
           rest == DoomedBelow(st, nx)
<1>a. n \in DOMAIN st
  OBVIOUS
<1>b. rest = DoomedBy(st, nx) \ ListFrom(nx, st[n].root)
  BY DEF DoomedBelow
<1> HIDE DEF n, rest
<1>1. ASSUME NEW k \in DOMAIN st, k # n
      PROVE  /\ ListFrom(nx, st[k].root) \subseteq rest
             /\ FrameOK(st[k], ny, o2, al2)
             /\ ListFrom(ny, st[k].root) = ListFrom(nx, st[k].root)
  <2>1. st[k] \in Frames
    OBVIOUS
  <2>2. FrameOK(st[k], nx, oo, al)
    BY DEF StackOK
  <2>3. ListFrom(nx, st[k].root) \cap ListFrom(nx, st[n].root) = {}
    BY <1>1, <1>a DEF StackOK
  <2>4. ListFrom(nx, st[k].root) \subseteq rest
    BY <2>3, <1>b DEF DoomedBy
  <2>5. Untouched(ListFrom(nx, st[k].root), nx, ny, oo, o2, al2)
    BY <2>4 DEF Untouched, rest
  <2>6. FrameOK(st[k], ny, o2, al2) /\ ListFrom(ny, st[k].root) = ListFrom(nx, st[k].root)
    BY <2>1, <2>2, <2>5, FrameSame
  <2> QED BY <2>4, <2>6
<1>2. \A x \in rest : \E k \in DOMAIN st \ {n} : x \in ListFrom(nx, st[k].root)
  BY <1>b DEF DoomedBy
<1> QED BY <1>1, <1>2 DEF n, rest

(* The innermost activation changes, and what it owns with it. *)
SetLast(s, e) == [s EXCEPT ![Len(s)] = e]

(* Changing the innermost activation keeps the others in order. *)
LEMMA StackSet ==
  ASSUME NEW nx, Links(nx, Addr), NEW ny, Links(ny, Addr), NEW oo, NEW o2, NEW al, NEW al2,
         NEW st \in Seq(Frames), StackOK(st, nx, oo, al), st # <<>>,
         NEW g \in Frames, FrameOK(g, ny, o2, al2),
         Untouched(DoomedBelow(st, nx), nx, ny, oo, o2, al2),
         DoomedBelow(st, nx) \cap ListFrom(ny, g.root) = {}
  PROVE  /\ SetLast(st, g) \in Seq(Frames)
         /\ StackOK(SetLast(st, g), ny, o2, al2)
         /\ DoomedBy(SetLast(st, g), ny) = DoomedBelow(st, nx) \cup ListFrom(ny, g.root)
<1> DEFINE rest == DoomedBelow(st, nx)
           n == Len(st)
           s2 == [st EXCEPT ![n] = g]
<1>1. /\ n \in DOMAIN st /\ s2 \in Seq(Frames) /\ DOMAIN s2 = DOMAIN st
      /\ s2[n] = g
      /\ \A k \in DOMAIN st : k # n => s2[k] = st[k]
  BY SeqSetLast
<1>3. /\ \A k \in DOMAIN st \ {n} :
           /\ ListFrom(nx, st[k].root) \subseteq rest
           /\ FrameOK(st[k], ny, o2, al2)
           /\ ListFrom(ny, st[k].root) = ListFrom(nx, st[k].root)
      /\ \A x \in rest : \E k \in DOMAIN st \ {n} : x \in ListFrom(nx, st[k].root)
  BY StackRest
<1> HIDE DEF n, s2, rest
<1>4. \A k \in DOMAIN st : FrameOK(s2[k], ny, o2, al2)
  BY <1>1, <1>3
<1>5. ASSUME NEW k \in DOMAIN st, NEW m \in DOMAIN st, k # m
      PROVE  ListFrom(ny, s2[k].root) \cap ListFrom(ny, s2[m].root) = {}
  <2>1. CASE k = n
    BY <2>1, <1>1, <1>3, <1>5 DEF rest
  <2>2. CASE m = n
    BY <2>2, <1>1, <1>3, <1>5 DEF rest
  <2>3. CASE k # n /\ m # n
    <3>1. ListFrom(nx, st[k].root) \cap ListFrom(nx, st[m].root) = {}
      BY <1>5 DEF StackOK
    <3> QED BY <2>3, <3>1, <1>1, <1>3
  <2> QED BY <2>1, <2>2, <2>3
<1>6. DoomedBy(s2, ny) = rest \cup ListFrom(ny, g.root)
  <2>1. \A x : x \in rest => x \in DoomedBy(s2, ny)
    BY <1>1, <1>3 DEF DoomedBy
  <2>2. ListFrom(ny, g.root) \subseteq DoomedBy(s2, ny)
    BY <1>1 DEF DoomedBy
  <2>3. \A x : x \in DoomedBy(s2, ny) => x \in rest \cup ListFrom(ny, g.root)
    BY <1>1, <1>3 DEF DoomedBy
  <2> QED BY <2>1, <2>2, <2>3
<1>7. StackOK(s2, ny, o2, al2)
  BY <1>1, <1>4, <1>5 DEF StackOK
<1> QED BY <1>1, <1>6, <1>7 DEF n, s2, rest, SetLast

(* A call begins: it owns the one expression that it is given. *)
LEMMA StackPush ==
  ASSUME NEW nx, Links(nx, Addr), NEW oo \in Operands, NEW al,
         NEW st \in Seq(Frames), StackOK(st, nx, oo, al),
         NEW c \in Addr, c \in al, c \notin DoomedBy(st, nx), nx[c] = Nil, Whole(oo[c]),
         NEW op \in {"delete", "scan"}
  PROVE  /\ Append(st, Frame(op, c)) \in Seq(Frames)
         /\ StackOK(Append(st, Frame(op, c)), nx, oo, al)
         /\ DoomedBy(Append(st, Frame(op, c)), nx) = DoomedBy(st, nx) \cup {c}
<1> DEFINE n == Len(st) + 1
           g == Frame(op, c)
           s2 == Append(st, g)
<1>1. g \in Frames /\ g.root = c /\ g.last = c /\ g.tail = c /\ g.i = 1 /\ g.op = op
  BY DEF Frame, Frames
<1> HIDE DEF g
<1>2. /\ Len(st) \in Nat /\ n \in Nat /\ DOMAIN st = 1 .. Len(st)
      /\ s2 \in Seq(Frames) /\ DOMAIN s2 = 1 .. n /\ s2[n] = g
      /\ \A k \in 1 .. Len(st) : s2[k] = st[k]
      /\ \A k \in 1 .. n : k = n \/ k \in 1 .. Len(st)
      /\ \A k \in 1 .. Len(st) : k # n /\ k \in 1 .. n
      /\ n \in 1 .. n
  BY <1>1
<1> HIDE DEF n, s2
<1>3. ListFrom(nx, c) = {c} /\ ListFrom(nx, nx[c]) = {}
  BY ListUnfold, ListNil
<1>4. FrameOK(g, nx, oo, al)
  <2>1. oo[c] \in Seq(Addr \cup {Nil})
    BY DEF Operands
  <2>2. Len(oo[c]) \in Nat /\ DOMAIN oo[c] = 1 .. Len(oo[c])
    BY <2>1
  <2> QED BY <1>1, <1>3, <2>2 DEF FrameOK, Whole
<1>5. \A k \in 1 .. Len(st) : /\ FrameOK(st[k], nx, oo, al)
                             /\ c \notin ListFrom(nx, st[k].root)
  BY <1>2 DEF StackOK, DoomedBy
<1>6. ASSUME NEW k \in 1 .. n, NEW m \in 1 .. n, k # m
      PROVE  ListFrom(nx, s2[k].root) \cap ListFrom(nx, s2[m].root) = {}
  <2>1. CASE k = n
    BY <2>1, <1>1, <1>2, <1>3, <1>5, <1>6
  <2>2. CASE m = n
    BY <2>2, <1>1, <1>2, <1>3, <1>5, <1>6
  <2>3. CASE k # n /\ m # n
    BY <2>3, <1>2, <1>6 DEF StackOK
  <2> QED BY <2>1, <2>2, <2>3
<1>7. StackOK(s2, nx, oo, al)
  BY <1>2, <1>4, <1>5, <1>6 DEF StackOK
<1>8. DoomedBy(s2, nx) = DoomedBy(st, nx) \cup {c}
  <2>1. \A x : x \in DoomedBy(s2, nx) => x \in DoomedBy(st, nx) \cup {c}
    BY <1>1, <1>2, <1>3 DEF DoomedBy
  <2>2. \A x : x \in DoomedBy(st, nx) \cup {c} => x \in DoomedBy(s2, nx)
    BY <1>1, <1>2, <1>3 DEF DoomedBy
  <2> QED BY <2>1, <2>2
<1> QED BY <1>2, <1>7, <1>8 DEF n, s2, g

(* The innermost call returns. *)
Popped(s) == SubSeq(s, 1, Len(s) - 1)

(* A return keeps the other activations in order. *)
LEMMA StackPop ==
  ASSUME NEW nx, Links(nx, Addr), NEW ny, Links(ny, Addr), NEW oo, NEW o2, NEW al, NEW al2,
         NEW st \in Seq(Frames), StackOK(st, nx, oo, al), st # <<>>,
         Untouched(DoomedBelow(st, nx), nx, ny, oo, o2, al2)
  PROVE  /\ Popped(st) \in Seq(Frames)
         /\ StackOK(Popped(st), ny, o2, al2)
         /\ DoomedBy(Popped(st), ny) = DoomedBelow(st, nx)
<1> DEFINE rest == DoomedBelow(st, nx)
           n == Len(st)
           s2 == SubSeq(st, 1, n - 1)
<1>1. /\ n \in DOMAIN st /\ s2 \in Seq(Frames) /\ DOMAIN s2 = DOMAIN st \ {n}
      /\ \A k \in DOMAIN st \ {n} : s2[k] = st[k]
  BY SeqFront
<1>3. /\ \A k \in DOMAIN st \ {n} :
           /\ ListFrom(nx, st[k].root) \subseteq rest
           /\ FrameOK(st[k], ny, o2, al2)
           /\ ListFrom(ny, st[k].root) = ListFrom(nx, st[k].root)
      /\ \A x \in rest : \E k \in DOMAIN st \ {n} : x \in ListFrom(nx, st[k].root)
  BY StackRest
<1> HIDE DEF n, s2, rest
<1>4. \A k, m \in DOMAIN st : k # m => ListFrom(nx, st[k].root) \cap ListFrom(nx, st[m].root) = {}
  BY DEF StackOK
<1>5. StackOK(s2, ny, o2, al2)
  <2>1. \A k \in DOMAIN s2 : FrameOK(s2[k], ny, o2, al2)
    BY <1>1, <1>3
  <2>2. \A k \in DOMAIN s2 : k \in DOMAIN st /\ ListFrom(ny, s2[k].root) = ListFrom(nx, st[k].root)
    BY <1>1, <1>3
  <2>3. \A k, m \in DOMAIN s2 : k # m => ListFrom(ny, s2[k].root) \cap ListFrom(ny, s2[m].root) = {}
    BY <2>2, <1>4
  <2> QED BY <2>1, <2>3 DEF StackOK
<1>6. DoomedBy(s2, ny) = rest
  <2>1. \A x : x \in rest => x \in DoomedBy(s2, ny)
    BY <1>1, <1>3 DEF DoomedBy
  <2>2. \A x : x \in DoomedBy(s2, ny) => x \in rest
    BY <1>1, <1>3 DEF DoomedBy
  <2> QED BY <2>1, <2>2
<1> QED BY <1>1, <1>5, <1>6 DEF n, s2, rest, Popped

(* An operand is detached. *)
Detaches(oo, o2, p, i) ==
  /\ o2 \in Operands /\ \A a \in Addr : a # p => o2[a] = oo[a]
  /\ DOMAIN o2[p] = DOMAIN oo[p] /\ o2[p][i] = Nil
  /\ \A j \in DOMAIN oo[p] : j # i => o2[p][j] = oo[p][j]

(* An operand that was detached is the null pointer, the other operands    *)
(* are the same.                                                           *)
LEMMA DetachFacts ==
  ASSUME NEW oo \in Operands, NEW p \in Addr, NEW i \in DOMAIN oo[p]
  PROVE  Detaches(oo, [oo EXCEPT ![p] = [@ EXCEPT ![i] = Nil]], p, i)
<1> DEFINE old == oo[p]
           new == [old EXCEPT ![i] = Nil]
<1>1. old \in Seq(Addr \cup {Nil}) /\ Nil \in Addr \cup {Nil}
  BY DEF Operands
<1>2. Len(old) \in Nat /\ DOMAIN old = 1 .. Len(old) /\ i \in 1 .. Len(old)
  BY <1>1
<1> HIDE DEF old
<1>3. /\ new \in Seq(Addr \cup {Nil}) /\ Len(new) = Len(old)
      /\ \A j \in 1 .. Len(old) : new[j] = IF j = i THEN Nil ELSE old[j]
  BY <1>1, <1>2, ExceptSeq
<1> HIDE DEF new
<1>4. DOMAIN new = 1 .. Len(old)
  BY <1>3
<1> DEFINE o2 == [oo EXCEPT ![p] = new]
<1>5. /\ o2 \in Operands /\ o2[p] = new
      /\ \A a \in Addr : a # p => o2[a] = oo[a]
  BY <1>3 DEF Operands
<1> HIDE DEF o2
<1>6. Detaches(oo, o2, p, i)
  BY <1>2, <1>3, <1>4, <1>5 DEF Detaches, old
<1> QED BY <1>6 DEF o2, new, old

(* The steps of one activation: it detaches an operand; *)
LEMMA FrameAdvance ==
  ASSUME NEW nx, Links(nx, Addr), ListsEnd(nx), NEW oo \in Operands, NEW al,
         NEW f \in Frames, f.op # "sweep", FrameOK(f, nx, oo, al), f.i \in DOMAIN oo[f.last],
         NEW o2, Detaches(oo, o2, f.last, f.i),
         NEW g, g.root = f.root, g.tail = f.tail, g.op = f.op, g.last = f.last, g.i = f.i + 1
  PROVE  FrameOK(g, nx, o2, al)
<1>1. f.root \in Addr /\ f.last \in Addr /\ f.i \in Nat \ {0}
  BY DEF Frames
<1> DEFINE old == oo[f.last]
           new == o2[f.last]
<1>2. /\ old \in Seq(Addr \cup {Nil}) /\ new \in Seq(Addr \cup {Nil})
      /\ DOMAIN new = DOMAIN old /\ new[f.i] = Nil
      /\ \A j \in DOMAIN old : j # f.i => new[j] = old[j]
      /\ \A a \in Addr : a # f.last => o2[a] = oo[a]
  BY <1>1 DEF Operands, Detaches
<1>3. f.i \in DOMAIN old
  OBVIOUS
<1> HIDE DEF old, new
<1>4. Len(new) \in Nat /\ DOMAIN new = 1 .. Len(new) /\ f.i \in 1 .. Len(new)
  BY <1>2, <1>3
<1> DEFINE L == ListFrom(nx, f.root)
           M == ListFrom(nx, f.last)
           N == ListFrom(nx, nx[f.last])
<1>5. nx[f.last] \in Addr \cup {Nil}
  BY <1>1 DEF Links
<1>6. L \subseteq Addr /\ N \subseteq Addr /\ f.last \in M /\ f.last \notin N
  <2>1. L \subseteq Addr /\ N \subseteq Addr
    BY <1>1, <1>5, ListClosed
  <2>2. f.last \in M
    BY <1>1, ListUnfold
  <2>3. f.last \notin N
    BY <1>1 DEF ListsEnd, Links
  <2> QED BY <2>1, <2>2, <2>3
<1>7. /\ L \subseteq al /\ f.last \in L /\ f.tail \in L /\ nx[f.tail] = Nil
      /\ \A a \in L \ M : Emptied(oo[a])
      /\ \A a \in N : Whole(oo[a])
      /\ \A j \in DOMAIN old : (j < f.i => old[j] = Nil) /\ (j >= f.i => old[j] \in Addr)
      /\ f.op = "delete" => f.last = f.root /\ f.tail = f.root
  BY DEF FrameOK, old
<1> HIDE DEF L, M, N
<1>8. /\ \A a \in L \ M : Emptied(o2[a])
      /\ \A a \in N : Whole(o2[a])
  BY <1>2, <1>6, <1>7
<1>9. /\ f.i + 1 <= Len(new) + 1
      /\ \A j \in DOMAIN new : (j < f.i + 1 => new[j] = Nil) /\ (j >= f.i + 1 => new[j] \in Addr)
  BY <1>1, <1>2, <1>4, <1>7
<1> QED BY <1>7, <1>8, <1>9 DEF FrameOK, L, M, N, new

(* it puts an operand at the end of its list; *)
LEMMA FrameGrow ==
  ASSUME NEW nx, Links(nx, Addr), ListsEnd(nx), NEW oo, NEW al,
         NEW f \in Frames, f.op = "scan", FrameOK(f, nx, oo, al),
         NEW c \in Addr, c \in al, c \notin ListFrom(nx, f.root), nx[c] = Nil, Whole(oo[c]),
         NEW ny, Links(ny, Addr), ny[f.tail] = c, \A q \in Addr \ {f.tail} : ny[q] = nx[q],
         NEW g, g.root = f.root, g.tail = c, g.op = f.op, g.last = f.last, g.i = f.i
  PROVE  /\ ListsEnd(ny)
         /\ FrameOK(g, ny, oo, al)
         /\ ListFrom(ny, f.root) = ListFrom(nx, f.root) \cup {c}
         /\ \A p \in Addr \cup {Nil} : f.tail \notin ListFrom(nx, p) => ListFrom(ny, p) = ListFrom(nx, p)
<1>1. f.root \in Addr /\ f.last \in Addr /\ f.tail \in Addr
  BY DEF Frames
<1>2. g.root = f.root /\ g.tail = c /\ g.op = f.op /\ g.last = f.last /\ g.i = f.i
  OBVIOUS
<1> DEFINE L == ListFrom(nx, f.root)
           M == ListFrom(nx, f.last)
           N == ListFrom(nx, nx[f.last])
<1>3. /\ L \subseteq al /\ f.last \in L /\ f.tail \in L /\ nx[f.tail] = Nil
      /\ \A a \in L \ M : Emptied(oo[a])
      /\ \A a \in N : Whole(oo[a])
      /\ f.i <= Len(oo[f.last]) + 1
      /\ \A j \in DOMAIN oo[f.last] : /\ j < f.i => oo[f.last][j] = Nil
                                     /\ j >= f.i => oo[f.last][j] \in Addr
  BY DEF FrameOK
<1>4. c # f.tail
  BY <1>3
<1>5. /\ ListsEnd(ny)
      /\ \A p \in Addr \cup {Nil} :
           ListFrom(ny, p) = IF f.tail \in ListFrom(nx, p) THEN ListFrom(nx, p) \cup {c}
                             ELSE ListFrom(nx, p)
  BY <1>1, <1>3, <1>4, ListAppend
<1>6. /\ ny[c] = Nil /\ nx[f.last] \in Addr \cup {Nil} /\ ny[f.last] \in Addr \cup {Nil}
      /\ \A a \in Addr : a # f.tail => ny[a] = nx[a]
      /\ ny[f.tail] = c
  BY <1>1, <1>4, AddrFacts DEF Links
<1>7. ListFrom(ny, f.root) = L \cup {c}
  BY <1>1, <1>3, <1>5
<1>8. M \subseteq ListFrom(ny, f.last)
  BY <1>1, <1>5
<1>9. ListFrom(ny, ny[f.last]) \subseteq N \cup {c}
  <2>1. CASE f.last = f.tail
    <3>1. ListFrom(ny, c) = {c} \cup ListFrom(ny, Nil) /\ ListFrom(ny, Nil) = {}
      BY <1>5, <1>6, ListUnfold, ListNil
    <3> QED BY <2>1, <3>1, <1>6
  <2>2. CASE f.last # f.tail
    BY <2>2, <1>1, <1>5, <1>6
  <2> QED BY <2>1, <2>2
<1>10. c \in ListFrom(ny, f.last)
  <2>1. f.tail \in M
    BY <1>1, <1>3, ListLast
  <2> QED BY <2>1, <1>1, <1>5
<1>11. FrameOK(g, ny, oo, al)
  <2>1. \A a \in (L \cup {c}) \ ListFrom(ny, f.last) : Emptied(oo[a])
    BY <1>3, <1>8, <1>10
  <2>2. \A a \in ListFrom(ny, ny[f.last]) : Whole(oo[a])
    BY <1>3, <1>9
  <2> HIDE DEF L
  <2> QED BY <2>1, <2>2, <1>2, <1>3, <1>6, <1>7 DEF FrameOK
<1> QED BY <1>1, <1>2, <1>5, <1>6, <1>7, <1>11

(* it goes on to the next expression of its list; *)
LEMMA FrameNext ==
  ASSUME NEW nx, Links(nx, Addr), ListsEnd(nx), NEW oo \in Operands, NEW al,
         NEW f \in Frames, f.op = "scan", FrameOK(f, nx, oo, al), f.i \notin DOMAIN oo[f.last],
         nx[f.last] # Nil,
         NEW g, g.root = f.root, g.tail = f.tail, g.op = f.op, g.last = nx[f.last], g.i = 1
  PROVE  FrameOK(g, nx, oo, al)
<1> DEFINE L == ListFrom(nx, f.root)
           M == ListFrom(nx, f.last)
           N == ListFrom(nx, nx[f.last])
           K == ListFrom(nx, nx[nx[f.last]])
<1>1. /\ f.root \in Addr /\ f.last \in Addr /\ f.i \in Nat \ {0}
      /\ nx[f.last] \in Addr /\ Len(oo[f.last]) \in Nat /\ Len(oo[nx[f.last]]) \in Nat
      /\ DOMAIN oo[f.last] = 1 .. Len(oo[f.last])
      /\ DOMAIN oo[nx[f.last]] = 1 .. Len(oo[nx[f.last]])
  BY DEF Frames, Links, Operands
<1>2. /\ L \subseteq al /\ f.last \in L /\ f.tail \in L /\ nx[f.tail] = Nil
      /\ \A a \in L \ M : Emptied(oo[a])
      /\ \A a \in N : Whole(oo[a])
      /\ f.i <= Len(oo[f.last]) + 1
      /\ \A j \in DOMAIN oo[f.last] : j < f.i => oo[f.last][j] = Nil
  BY DEF FrameOK
<1>3. Emptied(oo[f.last])
  BY <1>1, <1>2 DEF Emptied
<1>4. M = {f.last} \cup N /\ N = {nx[f.last]} \cup K
  BY <1>1, ListUnfold
<1>5. nx[f.last] \in L
  BY <1>1, <1>2, ListClosed
<1>6. Whole(oo[nx[f.last]])
  BY <1>2, <1>4
<1> HIDE DEF L, M, N, K
<1>7. (\A a \in L \ N : Emptied(oo[a])) /\ (\A a \in K : Whole(oo[a]))
  BY <1>2, <1>3, <1>4
<1> QED BY <1>1, <1>2, <1>5, <1>6, <1>7 DEF FrameOK, Whole, L, M, N, K

(* it has scanned its whole list and begins to sweep it; *)
LEMMA FrameScanned ==
  ASSUME NEW nx, Links(nx, Addr), NEW oo \in Operands, NEW al,
         NEW f \in Frames, f.op # "sweep", FrameOK(f, nx, oo, al), f.i \notin DOMAIN oo[f.last],
         nx[f.last] = Nil
  PROVE  \A a \in ListFrom(nx, f.root) : Emptied(oo[a])
<1> DEFINE L == ListFrom(nx, f.root)
           M == ListFrom(nx, f.last)
<1>1. /\ f.root \in Addr /\ f.last \in Addr /\ f.i \in Nat \ {0}
      /\ Len(oo[f.last]) \in Nat /\ DOMAIN oo[f.last] = 1 .. Len(oo[f.last])
  BY DEF Frames, Operands
<1>2. /\ \A a \in L \ M : Emptied(oo[a])
      /\ f.i <= Len(oo[f.last]) + 1
      /\ \A j \in DOMAIN oo[f.last] : j < f.i => oo[f.last][j] = Nil
  BY DEF FrameOK
<1>3. Emptied(oo[f.last])
  BY <1>1, <1>2 DEF Emptied
<1>4. M = {f.last}
  BY <1>1, ListUnfold, ListNil
<1> QED BY <1>2, <1>3, <1>4

(* it frees the first expression of its list. *)
FreesOne(nx, ny, oo, o2, al, al2, a) ==
  /\ Links(ny, Addr) /\ al2 = al \ {a}
  /\ \A q \in Addr \ {a} : ny[q] = nx[q] /\ o2[q] = oo[q]

(* destroy() frees the first expression of its list and goes on with the   *)
(* next.                                                                   *)
LEMMA FrameSwept ==
  ASSUME NEW nx, Links(nx, Addr), ListsEnd(nx), NEW oo, NEW al,
         NEW f \in Frames, f.op = "sweep", FrameOK(f, nx, oo, al), nx[f.root] # Nil,
         NEW ny, NEW o2, NEW al2, FreesOne(nx, ny, oo, o2, al, al2, f.root),
         NEW g, g.root = nx[f.root], g.op = f.op
  PROVE  /\ FrameOK(g, ny, o2, al2)
         /\ ListFrom(ny, g.root) = ListFrom(nx, f.root) \ {f.root}
<1> DEFINE L == ListFrom(nx, f.root)
           N == ListFrom(nx, nx[f.root])
<1>0. Links(ny, Addr) /\ al2 = al \ {f.root}
      /\ \A q \in Addr \ {f.root} : ny[q] = nx[q] /\ o2[q] = oo[q]
  BY DEF FreesOne
<1>1. f.root \in Addr /\ nx[f.root] \in Addr
  BY DEF Frames, Links
<1>2. L = {f.root} \cup N /\ f.root \notin N /\ N \subseteq Addr
  BY <1>1, ListUnfold, ListClosed DEF ListsEnd, Links
<1>3. ListFrom(ny, nx[f.root]) = N
  BY <1>0, <1>1, <1>2, ListSame
<1>4. L \subseteq al /\ \A a \in L : Emptied(oo[a])
  BY DEF FrameOK
<1> HIDE DEF L, N
<1>5. N \subseteq al2 /\ \A a \in N : Emptied(o2[a])
  BY <1>0, <1>2, <1>4
<1>6. ListFrom(ny, g.root) = N /\ g.op = "sweep"
  BY <1>3
<1>7. FrameOK(g, ny, o2, al2)
  BY <1>5, <1>6 DEF FrameOK
<1> QED BY <1>2, <1>6, <1>7 DEF L

-----------------------------------------------------------------------------
(***************************************************************************)
(* References and counts.  RefsIn(oo, a) are the operand slots that refer  *)
(* to a; a live expression is counted exactly, and there is no reference   *)
(* to any other.  No set of expressions consists of operands of its own    *)
(* members: an expression is made of older ones.                           *)
(***************************************************************************)
RefsIn(oo, a) == UNION {{<<p, i>> : i \in {j \in DOMAIN oo[p] : oo[p][j] = a}} : p \in Addr}
CountOK(r, h, oo, live) ==
  /\ \A a \in Addr : IsFiniteSet(RefsIn(oo, a))
  /\ \A a \in live : r[a] > 0 /\ r[a] = h[a] + Cardinality(RefsIn(oo, a))
  /\ \A a \in Addr \ live : h[a] = 0 /\ RefsIn(oo, a) = {}
OrderOK(oo) ==
  \A U \in SUBSET Addr :
    (\A a \in U : \E p \in U : \E j \in DOMAIN oo[p] : oo[p][j] = a) => U = {}

(* A reference from an operand is one of the references counted. *)
LEMMA RefsInMember ==
  ASSUME NEW oo, NEW a
  PROVE  \A x : x \in RefsIn(oo, a) <=>
                \E p \in Addr : \E j \in DOMAIN oo[p] : x = <<p, j>> /\ oo[p][j] = a
BY DEF RefsIn

(* One reference to c less, and c is counted down or no longer live. *)
OneLess(h, h2, oo, o2, c) ==
  /\ \A a \in Addr : IsFiniteSet(RefsIn(o2, a))
  /\ \A a \in Addr \ {c} : h2[a] = h[a] /\ RefsIn(o2, a) = RefsIn(oo, a)
  /\ h2[c] \in Nat
  /\ h2[c] + Cardinality(RefsIn(o2, c)) = h[c] + Cardinality(RefsIn(oo, c)) - 1

(* Detaching an operand takes away one reference, to that operand. *)
LEMMA OneSlotLess ==
  ASSUME NEW oo, NEW o2, NEW p \in Addr, NEW i \in DOMAIN oo[p], oo[p][i] \in Addr,
         Detaches(oo, o2, p, i), NEW h \in [Addr -> Nat],
         \A a \in Addr : IsFiniteSet(RefsIn(oo, a))
  PROVE  OneLess(h, h, oo, o2, oo[p][i])
<1> DEFINE c == oo[p][i]
<1>1. ASSUME NEW a \in Addr, a # c PROVE RefsIn(o2, a) = RefsIn(oo, a)
  <2>1. ASSUME NEW q \in Addr, NEW j
        PROVE  (j \in DOMAIN o2[q] /\ o2[q][j] = a) <=> (j \in DOMAIN oo[q] /\ oo[q][j] = a)
    BY <1>1, AddrFacts DEF Detaches
  <2>2. \A x : x \in RefsIn(o2, a) <=> x \in RefsIn(oo, a)
    BY <2>1, RefsInMember
  <2> QED BY <2>2
<1>2. RefsIn(o2, c) = RefsIn(oo, c) \ {<<p, i>>} /\ <<p, i>> \in RefsIn(oo, c)
  <2>1. ASSUME NEW q \in Addr, NEW j
        PROVE  (j \in DOMAIN o2[q] /\ o2[q][j] = c) <=>
                 (j \in DOMAIN oo[q] /\ oo[q][j] = c /\ <<q, j>> # <<p, i>>)
    BY AddrFacts DEF Detaches
  <2>2. \A x : x \in RefsIn(o2, c) <=> x \in RefsIn(oo, c) /\ x # <<p, i>>
    BY <2>1, RefsInMember
  <2>3. <<p, i>> \in RefsIn(oo, c)
    BY RefsInMember
  <2> QED BY <2>2, <2>3
<1>3. /\ IsFiniteSet(RefsIn(o2, c))
      /\ Cardinality(RefsIn(o2, c)) = Cardinality(RefsIn(oo, c)) - 1
  <2> DEFINE S == RefsIn(oo, c)
             T == RefsIn(o2, c)
             x == <<p, i>>
  <2>1. IsFiniteSet(S) /\ T = S \ {x} /\ x \in S
    BY <1>2
  <2> HIDE DEF S, T, x
  <2>2. IsFiniteSet(T) /\ Cardinality(T) = Cardinality(S) - 1
    BY <2>1, FS_RemoveElement
  <2> QED BY <2>2 DEF S, T
<1>4. Cardinality(RefsIn(oo, c)) \in Nat
  BY FS_CardinalityType
<1>5. h[c] \in Nat
  OBVIOUS
<1>6. h[c] + Cardinality(RefsIn(o2, c)) = h[c] + Cardinality(RefsIn(oo, c)) - 1
  BY <1>3, <1>4, <1>5
<1>7. \A a \in Addr : IsFiniteSet(RefsIn(o2, a))
  BY <1>1, <1>3
<1> QED BY <1>1, <1>5, <1>6, <1>7 DEF OneLess

(* Releasing a handle takes away one reference of a client. *)
LEMMA OneHandleLess ==
  ASSUME NEW oo, NEW h \in [Addr -> Nat], NEW h2, NEW c \in Addr, h[c] > 0,
         h2 = [h EXCEPT ![c] = @ - 1],
         \A a \in Addr : IsFiniteSet(RefsIn(oo, a))
  PROVE  OneLess(h, h2, oo, oo, c)
<1>1. h2[c] = h[c] - 1 /\ h[c] \in Nat /\ \A a \in Addr \ {c} : h2[a] = h[a]
  OBVIOUS
<1>2. Cardinality(RefsIn(oo, c)) \in Nat
  BY FS_CardinalityType
<1>3. h2[c] \in Nat /\ h2[c] + Cardinality(RefsIn(oo, c)) = h[c] + Cardinality(RefsIn(oo, c)) - 1
  BY <1>1, <1>2
<1> QED BY <1>1, <1>3 DEF OneLess

CountsDown(r, r2, live, live2, c) ==
  /\ \A a \in Addr \ {c} : r2[a] = r[a]
  /\ \/ r[c] # 1 /\ r2[c] = r[c] - 1 /\ live2 = live
     \/ r[c] = 1 /\ live2 = live \ {c}

(* A decrement that comes with the loss of one reference keeps the count   *)
(* exact.                                                                  *)
LEMMA CountLess ==
  ASSUME NEW r \in [Addr -> Nat], NEW r2, NEW h \in [Addr -> Nat], NEW h2, NEW oo, NEW o2,
         NEW live \in SUBSET Addr, NEW live2, CountOK(r, h, oo, live), NEW c \in live,
         OneLess(h, h2, oo, o2, c), CountsDown(r, r2, live, live2, c)
  PROVE  CountOK(r2, h2, o2, live2)
<1>0. CountsDown(r, r2, live, live2, c)
  OBVIOUS
<1> USE <1>0 DEF CountsDown
<1>1. \A a \in Addr : IsFiniteSet(RefsIn(o2, a))
  BY DEF OneLess
<1>2. /\ Cardinality(RefsIn(o2, c)) \in Nat /\ h2[c] \in Nat /\ r[c] \in Nat /\ r[c] > 0
      /\ h2[c] + Cardinality(RefsIn(o2, c)) = r[c] - 1
  <2>1. Cardinality(RefsIn(o2, c)) \in Nat
    BY <1>1, FS_CardinalityType
  <2>2. Cardinality(RefsIn(oo, c)) \in Nat
    BY FS_CardinalityType DEF CountOK
  <2>3. /\ h2[c] \in Nat
        /\ h2[c] + Cardinality(RefsIn(o2, c)) = h[c] + Cardinality(RefsIn(oo, c)) - 1
    BY DEF OneLess
  <2>4. r[c] > 0 /\ r[c] = h[c] + Cardinality(RefsIn(oo, c)) /\ r[c] \in Nat /\ h[c] \in Nat
    BY DEF CountOK
  <2> QED BY <2>1, <2>2, <2>3, <2>4
<1>3. \A a \in Addr \ {c} : h2[a] = h[a] /\ RefsIn(o2, a) = RefsIn(oo, a)
  BY DEF OneLess
<1>4. CASE r[c] # 1 /\ r2[c] = r[c] - 1 /\ live2 = live
  <2>1. r2[c] > 0 /\ r2[c] = h2[c] + Cardinality(RefsIn(o2, c))
    BY <1>2, <1>4
  <2>2. ASSUME NEW a \in live, a # c
        PROVE  r2[a] > 0 /\ r2[a] = h2[a] + Cardinality(RefsIn(o2, a))
    BY <1>3, <2>2 DEF CountOK
  <2>3. \A a \in Addr \ live : h2[a] = 0 /\ RefsIn(o2, a) = {}
    BY <1>3 DEF CountOK
  <2> QED BY <1>1, <1>4, <2>1, <2>2, <2>3 DEF CountOK
<1>5. CASE r[c] = 1 /\ live2 = live \ {c}
  <2>1. h2[c] = 0 /\ Cardinality(RefsIn(o2, c)) = 0
    BY <1>2, <1>5
  <2>2. RefsIn(o2, c) = {}
    BY <2>1, <1>1, FS_EmptySet
  <2>3. ASSUME NEW a \in live2
        PROVE  r2[a] > 0 /\ r2[a] = h2[a] + Cardinality(RefsIn(o2, a))
    BY <1>3, <1>5, <2>3 DEF CountOK
  <2>4. \A a \in Addr \ live2 : h2[a] = 0 /\ RefsIn(o2, a) = {}
    BY <1>3, <1>5, <2>1, <2>2 DEF CountOK
  <2> QED BY <1>1, <2>3, <2>4 DEF CountOK
<1> QED BY <1>4, <1>5

(* Operands that go do not bring a cycle. *)
LEMMA OrderFewer ==
  ASSUME NEW oo, NEW o2, OrderOK(oo),
         \A p \in Addr : \A j \in DOMAIN o2[p] :
           o2[p][j] \in Addr => j \in DOMAIN oo[p] /\ oo[p][j] = o2[p][j]
  PROVE  OrderOK(o2)
<1> SUFFICES ASSUME NEW U \in SUBSET Addr,
                    \A a \in U : \E p \in U : \E j \in DOMAIN o2[p] : o2[p][j] = a
             PROVE  U = {}
  BY DEF OrderOK
<1>1. ASSUME NEW a \in U PROVE \E p \in U : \E j \in DOMAIN oo[p] : oo[p][j] = a
  <2>1. PICK p \in U : \E j \in DOMAIN o2[p] : o2[p][j] = a
    OBVIOUS
  <2>2. PICK j \in DOMAIN o2[p] : o2[p][j] = a
    BY <2>1
  <2>3. j \in DOMAIN oo[p] /\ oo[p][j] = a
    BY <2>2
  <2> QED BY <2>3
<1> QED BY <1>1 DEF OrderOK

-----------------------------------------------------------------------------
(***************************************************************************)
(* The buckets: each has the stored expressions of its slot.               *)
(***************************************************************************)
TableOK(bk, n, hs, nx, stored) ==
  \A b \in 0 .. n - 1 : ListFrom(nx, bk[b]) = {a \in stored : Slot(hs[a], n) = b}

(* Every hash has a bucket. *)
LEMMA SlotRange ==
  ASSUME NEW h \in Nat, NEW n \in Nat \ {0}
  PROVE  Slot(h, n) \in 0 .. n - 1
BY DEF Slot

(* removeFromList(): the expression leaves its bucket and nothing else     *)
(* changes.                                                                *)
TableState(nx, n, hs, bk, stored) ==
  /\ Links(nx, Addr) /\ n \in Nat \ {0} /\ hs \in [Addr -> Nat]
  /\ bk \in [0 .. n - 1 -> Addr \cup {Nil}] /\ stored \in SUBSET Addr
  /\ TableOK(bk, n, hs, nx, stored)
TakenOut(stored, stored2, c) == stored2 = stored \ {c}
Removes(nx, ny, bk, b2, hs, n, s, c) ==
  /\ s \in 0 .. n - 1 /\ Slot(hs[c], n) = s /\ Unlinks(Addr, nx, ny, bk[s], c)
  /\ \A b \in 0 .. n - 1 : b # s => b2[b] = bk[b]
  /\ bk[s] = c => b2[s] = nx[c]
  /\ bk[s] # c => b2[s] = bk[s]

(* removeFromList() keeps the table exact for the remaining expressions. *)
LEMMA UnlinkOK ==
  ASSUME NEW nx, NEW n, NEW hs, NEW bk, NEW stored, NEW c, c \in stored,
         TableState(nx, n, hs, bk, stored), ListsEnd(nx),
         NEW s, NEW ny, Links(ny, Addr), NEW b2, Removes(nx, ny, bk, b2, hs, n, s, c),
         NEW stored2, TakenOut(stored, stored2, c)
  PROVE  /\ ListsEnd(ny) /\ TableOK(b2, n, hs, ny, stored2)
         /\ \A q \in Addr \ stored : ny[q] = nx[q]
<1>a. TableState(nx, n, hs, bk, stored)
  OBVIOUS
<1> USE <1>a DEF TableState
<1>0. Removes(nx, ny, bk, b2, hs, n, s, c)
  OBVIOUS
<1> USE <1>0 DEF Removes
<1>1. s \in 0 .. n - 1 /\ bk[s] \in Addr \cup {Nil} /\ c \in Addr
  OBVIOUS
<1>2. c \in ListFrom(nx, bk[s]) /\ ListFrom(nx, bk[s]) \subseteq stored
  BY <1>1 DEF TableOK
<1>3. ListsEnd(ny) /\ ListFrom(ny, b2[s]) = ListFrom(nx, bk[s]) \ {c}
  <2> DEFINE p == bk[s]
  <2>1. p \in Addr \cup {Nil} /\ c \in ListFrom(nx, p) /\ Unlinks(Addr, nx, ny, p, c)
    BY <1>1, <1>2
  <2> HIDE DEF p
  <2>2. /\ ListsEnd(ny)
        /\ p = c => ListFrom(ny, nx[c]) = ListFrom(nx, p) \ {c}
        /\ p # c => ListFrom(ny, p) = ListFrom(nx, p) \ {c}
    BY <2>1, ListUnlink
  <2> QED BY <2>2 DEF p
<1>4. \A q \in Addr : q \notin ListFrom(nx, bk[s]) => ny[q] = nx[q]
  BY <1>2 DEF Unlinks
<1>5. ASSUME NEW b \in 0 .. n - 1
      PROVE  ListFrom(ny, b2[b]) = {a \in stored \ {c} : Slot(hs[a], n) = b}
  <2>1. ListFrom(nx, bk[b]) = {a \in stored : Slot(hs[a], n) = b}
    BY DEF TableOK
  <2>2. CASE b = s
    BY <2>1, <2>2, <1>3
  <2>3. CASE b # s
    <3>1. \A q \in ListFrom(nx, bk[b]) : q \in Addr /\ q \notin ListFrom(nx, bk[s])
      BY <2>1, <2>3, <1>1 DEF TableOK
    <3>2. ListFrom(ny, bk[b]) = ListFrom(nx, bk[b])
      BY <3>1, <1>4, ListSame
    <3> QED BY <2>1, <2>3, <3>2
  <2> QED BY <2>2, <2>3
<1> QED BY <1>2, <1>3, <1>4, <1>5 DEF TableOK, TakenOut

-----------------------------------------------------------------------------
(* The inductive invariant. *)
StoredExprs == LeafExprs \cup {s.expr : s \in Shapes}
TypeInv ==
  /\ expr \in [Addr -> StoredExprs \cup {TrueExpr, NoExpr}]
  /\ ops \in Operands
  /\ hash \in [Addr -> Nat]
  /\ rc \in [Addr -> Nat]
  /\ Links(next, Addr)
  /\ bucketCount \in Nat \ {0}
  /\ buckets \in [0 .. bucketCount - 1 -> Addr \cup {Nil}]
  /\ entries \in Nat
  /\ handles \in [Addr -> Nat]
  /\ pending.op \in {"none", "insert", "rehash"}
  /\ stack \in Seq(Frames)

(* Free memory is clean, and TrueLit has no operands and no successor. *)
FreeOK(ex, oo, nx) ==
  /\ \A a \in Addr : ex[a] = NoExpr => oo[a] = <<>> /\ nx[a] = Nil
  /\ nx[True] = Nil /\ oo[True] = <<>> /\ ex[True] \in {TrueExpr, NoExpr}
FreeInv == FreeOK(expr, ops, next)

(* Live expressions are complete, the stored ones have the hash of their   *)
(* structure, and no two have the same structure.                          *)
KeysOK(ex, oo, hs, live) ==
  /\ \A a \in live : Whole(oo[a])
  /\ \A a \in live \ {True} :
       ex[a] # TrueExpr /\ hs[a] = HashValue([expr |-> ex[a], ops |-> oo[a]])
  /\ \A a, b \in live : ex[a] = ex[b] /\ oo[a] = oo[b] => a = b
KeyInv == KeysOK(expr, ops, hash, Live)

CountInv == CountOK(rc, handles, ops, Live)
OrderInv == OrderOK(ops)

(* The context goes last. *)
RootInv == handles[True] = 0 => \A a \in Places : expr[a] = NoExpr

StackInv == StackOK(stack, next, ops, Allocated)

TableInv ==
  /\ ListsEnd(next)
  /\ pending.op # "rehash" => TableOK(buckets, bucketCount, hash, next, Stored)
EntryInv ==
  /\ entries = Cardinality(Stored)
  /\ entries * 4 < bucketCount * 3
  /\ pending.op = "insert" => (entries + 1) * 4 < bucketCount * 3

(* In the middle of a rehash: the buckets after the current one are as     *)
(* they were, and the new table has what the others had and the part of    *)
(* the current one that has been moved.                                    *)
Moved(hs, n, stored, i, rest) ==
  {a \in stored : Slot(hs[a], n) < i \/ (Slot(hs[a], n) = i /\ a \notin rest)}
RehashOK(mv, bk, n, hs, nx, stored) ==
  /\ mv.i \in 0 .. n - 1 /\ mv.cur \in Addr \cup {Nil}
  /\ mv.to \in [0 .. 2 * n - 1 -> Addr \cup {Nil}]
  /\ \A b \in mv.i + 1 .. n - 1 : ListFrom(nx, bk[b]) = {a \in stored : Slot(hs[a], n) = b}
  /\ ListFrom(nx, mv.cur) \subseteq {a \in stored : Slot(hs[a], n) = mv.i}
  /\ \A b \in 0 .. 2 * n - 1 :
       ListFrom(nx, mv.to[b])
         = {a \in Moved(hs, n, stored, mv.i, ListFrom(nx, mv.cur)) : Slot(hs[a], 2 * n) = b}
RehashInv ==
  /\ pending.op = "rehash" => RehashOK(moving, buckets, bucketCount, hash, next, Stored)
  /\ pending.op # "rehash" => moving.cur = Nil

(* A structure that was not found is still absent when it is inserted. *)
PendingOK(pn, h, ex, oo, live) ==
  /\ h[True] > 0
  /\ pn.key \in KeysOver({a \in Addr : h[a] > 0})
  /\ pn.hash = HashValue(pn.key)
  /\ \A a \in live : ~(ex[a] = pn.key.expr /\ oo[a] = pn.key.ops)
PendingInv ==
  pending.op # "none" => stack = <<>> /\ PendingOK(pending, handles, expr, ops, Live)

Inv ==
  /\ TypeInv /\ FreeInv /\ KeyInv /\ CountInv /\ OrderInv /\ RootInv /\ StackInv
  /\ TableInv /\ EntryInv /\ RehashInv /\ PendingInv

-----------------------------------------------------------------------------
(* The expressions on deletion lists are allocated, what clients hold is   *)
(* alive, and what is neither is free.                                     *)
LEMMA DoomedFacts ==
  ASSUME Inv
  PROVE  /\ Doomed = DoomedBy(stack, next) /\ Doomed \subseteq Allocated
         /\ Allocated \subseteq Addr /\ Live \subseteq Addr /\ Stored \subseteq Addr
         /\ IsFiniteSet(Stored) /\ Cardinality(Stored) \in Nat
         /\ Holding \subseteq Live
         /\ stack = <<>> => Doomed = {}
         /\ \A a \in Addr : a \notin Live /\ a \notin Doomed => expr[a] = NoExpr
         /\ \A a \in Live : expr[a] # NoExpr
<1>1. Doomed = DoomedBy(stack, next)
  BY DEF Doomed, DoomedBy, Chain
<1>2. Doomed \subseteq Allocated
  BY <1>1 DEF Inv, StackInv, StackOK, FrameOK, DoomedBy
<1>3. Allocated \subseteq Addr /\ Live \subseteq Addr /\ Stored \subseteq Addr
  BY DEF Allocated, Live, Stored
<1>4. IsFiniteSet(Stored) /\ Cardinality(Stored) \in Nat
  BY <1>3, AddrFacts, FS_Subset, FS_CardinalityType
<1>5. Holding \subseteq Live
  BY DEF Inv, CountInv, CountOK, Holding, TypeInv
<1>6. stack = <<>> => Doomed = {}
  BY DEF Doomed
<1> QED BY <1>1, <1>2, <1>3, <1>4, <1>5, <1>6 DEF Live, Allocated

(* What a client can ask for. *)
LEMMA KeyFacts ==
  ASSUME NEW S, NEW key \in KeysOver(S)
  PROVE  /\ key = [expr |-> key.expr, ops |-> key.ops]
         /\ key.expr \in StoredExprs \ {TrueExpr, NoExpr}
         /\ key.ops \in Seq(S)
         /\ \A T : S \subseteq T => key \in KeysOver(T)
<1>1. CASE \E e \in LeafExprs : key = [expr |-> e, ops |-> <<>>]
  BY <1>1, ExprAssumption DEF StoredExprs, KeysOver
<1>2. CASE \E s \in Shapes : \E o \in [1 .. s.arity -> S] : key = [expr |-> s.expr, ops |-> o]
  <2>1. PICK s \in Shapes : \E o \in [1 .. s.arity -> S] : key = [expr |-> s.expr, ops |-> o]
    BY <1>2
  <2>2. PICK o \in [1 .. s.arity -> S] : key = [expr |-> s.expr, ops |-> o]
    BY <2>1
  <2>3. s.arity \in Nat /\ s.expr \in ExprData \ {NoExpr, TrueExpr}
    BY ExprAssumption
  <2>4. o \in Seq(S)
    BY <2>3 DEF Seq
  <2>5. ASSUME NEW T, S \subseteq T PROVE key \in KeysOver(T)
    <3>1. o \in [1 .. s.arity -> T]
      BY <2>5
    <3>2. key \in {[expr |-> s.expr, ops |-> q] : q \in [1 .. s.arity -> T]}
      BY <2>2, <3>1
    <3> QED BY <3>2 DEF KeysOver
  <2> QED BY <2>2, <2>3, <2>4, <2>5 DEF StoredExprs
<1> QED BY <1>1, <1>2 DEF KeysOver

(* A new context satisfies the invariant. *)
LEMMA InvInit == Init => Inv
<1> SUFFICES ASSUME Init PROVE Inv
  OBVIOUS
<1> USE DEF Init
<1>1. Allocated = {True} /\ Doomed = {} /\ Live = {True} /\ Stored = {}
  <2>1. Allocated = {True}
    BY AddrFacts DEF Allocated, TrueExpr, NoExpr
  <2>2. Doomed = {}
    BY DEF Doomed
  <2> QED BY <2>1, <2>2 DEF Live, Stored
<1>2. TypeInv
  <2>2. /\ expr \in [Addr -> StoredExprs \cup {TrueExpr, NoExpr}] /\ hash \in [Addr -> Nat] /\ rc \in [Addr -> Nat]
        /\ handles \in [Addr -> Nat]
    BY DEF True
  <2>3. ops \in Operands /\ Links(next, Addr) /\ stack \in Seq(Frames)
    BY AddrFacts DEF Operands, Links
  <2>4. /\ bucketCount \in Nat \ {0} /\ entries \in Nat
        /\ buckets \in [0 .. bucketCount - 1 -> Addr \cup {Nil}]
    BY BucketAssumption
  <2>5. pending.op = "none"
    BY DEF NoCreation, Creation
  <2> QED BY <2>2, <2>3, <2>4, <2>5 DEF TypeInv
<1>3. FreeInv
  BY AddrFacts DEF FreeInv, FreeOK
<1>4. KeyInv
  BY <1>1, AddrFacts DEF KeyInv, KeysOK, Whole
<1>5. \A a \in Addr : RefsIn(ops, a) = {}
  BY DEF RefsIn
<1>6. CountInv
  <2>1. IsFiniteSet({}) /\ Cardinality({}) = 0
    BY FS_EmptySet
  <2>2. \A a \in Addr : IsFiniteSet(RefsIn(ops, a)) /\ Cardinality(RefsIn(ops, a)) = 0
    BY <2>1, <1>5
  <2>3. \A a \in Live : rc[a] = 1 /\ handles[a] = 1 /\ a \in Addr
    BY <1>1, AddrFacts
  <2>4. \A a \in Addr \ Live : handles[a] = 0
    BY <1>1
  <2> QED BY <2>2, <2>3, <2>4, <1>5 DEF CountInv, CountOK
<1>7. OrderInv
  BY DEF OrderInv, OrderOK
<1>8. RootInv
  BY AddrFacts DEF RootInv
<1>9. StackInv
  BY DEF StackInv, StackOK
<1>10. ListsEnd(next) /\ \A b \in 0 .. bucketCount - 1 : ListFrom(next, buckets[b]) = {}
  BY <1>2, ListNil, BucketAssumption DEF TypeInv, ListsEnd, Links
<1>11. TableInv
  BY <1>1, <1>10 DEF TableInv, TableOK
<1>12. EntryInv
  BY <1>1, FS_EmptySet, BucketAssumption DEF EntryInv, NoCreation, Creation
<1>13. RehashInv /\ PendingInv
  BY DEF RehashInv, PendingInv, NoCreation, Creation, NoRehash
<1> QED BY <1>2, <1>3, <1>4, <1>6, <1>7, <1>8, <1>9, <1>11, <1>12, <1>13 DEF Inv

-----------------------------------------------------------------------------
(* Steps that change no expression, no link and no activation. *)
LEMMA SameSets ==
  ASSUME expr' = expr, next' = next, stack' = stack
  PROVE  Allocated' = Allocated /\ Doomed' = Doomed /\ Live' = Live /\ Stored' = Stored
<1>1. Allocated' = Allocated
  BY DEF Allocated
<1>2. Doomed' = Doomed
  BY DEF Doomed, Chain
<1> QED BY <1>1, <1>2 DEF Live, Stored

(* The invariant only depends on the variables. *)
LEMMA InvStutter == Inv /\ UNCHANGED vars => Inv'
<1> SUFFICES ASSUME Inv, UNCHANGED vars PROVE Inv'
  OBVIOUS
<1> USE DEF vars, objects, table, client, creation
<1>1. Allocated' = Allocated /\ Live' = Live /\ Stored' = Stored
  BY SameSets
<1>2. TypeInv' /\ FreeInv' /\ KeyInv' /\ CountInv' /\ OrderInv' /\ RootInv' /\ StackInv'
  BY <1>1 DEF Inv, TypeInv, FreeInv, KeyInv, CountInv, OrderInv, RootInv, StackInv
<1>3. TableInv' /\ EntryInv' /\ RehashInv' /\ PendingInv'
  BY <1>1 DEF Inv, TableInv, EntryInv, RehashInv, PendingInv
<1> QED BY <1>2, <1>3 DEF Inv

(* A live expression gets one more reference from outside. *)
LEMMA CountMore ==
  ASSUME NEW r \in [Addr -> Nat], NEW h \in [Addr -> Nat], NEW oo,
         NEW live \in SUBSET Addr, CountOK(r, h, oo, live), NEW c \in live
  PROVE  CountOK([r EXCEPT ![c] = @ + 1], [h EXCEPT ![c] = @ + 1], oo, live)
<1>1. /\ r[c] > 0 /\ r[c] = h[c] + Cardinality(RefsIn(oo, c))
      /\ r[c] \in Nat /\ h[c] \in Nat /\ Cardinality(RefsIn(oo, c)) \in Nat
  BY FS_CardinalityType DEF CountOK
<1>2. r[c] + 1 > 0 /\ r[c] + 1 = (h[c] + 1) + Cardinality(RefsIn(oo, c))
  BY <1>1
<1> QED BY <1>2 DEF CountOK

(* Handing an expression that is alive to a client keeps the invariant. *)
LEMMA AnswerStep ==
  ASSUME Inv, NEW a \in Live, NEW key, Answer(key, a), pending.op = "none",
         UNCHANGED <<expr, ops, hash, next, table, creation, stack>>
  PROVE  Inv'
<1> USE DEF Answer, table, creation
<1>1. Allocated' = Allocated /\ Live' = Live /\ Stored' = Stored
  BY SameSets
<1>2. a \in Addr
  BY DoomedFacts
<1>3. TypeInv'
  BY <1>2 DEF Inv, TypeInv
<1>4. CountInv'
  BY <1>1, DoomedFacts, CountMore DEF Inv, TypeInv, CountInv
<1>5. RootInv'
  <2>1. handles[True] \in Nat /\ (handles'[True] = 0 => handles[True] = 0)
    BY <1>2, AddrFacts DEF Inv, TypeInv
  <2> QED BY <2>1 DEF Inv, RootInv
<1>6. FreeInv' /\ KeyInv' /\ OrderInv' /\ StackInv'
  BY <1>1 DEF Inv, FreeInv, KeyInv, OrderInv, StackInv
<1>7. TableInv' /\ EntryInv' /\ RehashInv' /\ PendingInv'
  BY <1>1 DEF Inv, TableInv, EntryInv, RehashInv, PendingInv
<1> QED BY <1>3, <1>4, <1>5, <1>6, <1>7 DEF Inv

(* What a lookup finds is alive. *)
LEMMA FoundLive ==
  ASSUME Inv, pending.op = "none", NEW key \in KeysOver(Holding)
  PROVE  /\ Found(key) \subseteq Stored
         /\ \A a \in Found(key) : expr[a].kind = key.expr.kind
         /\ \A a \in Live : expr[a] = key.expr /\ ops[a] = key.ops => a \in Found(key)
         /\ HashValue(key) \in Nat
<1> DEFINE b == BucketForHash(HashValue(key))
<1>1. Holding \subseteq Addr
  BY DEF Holding
<1>2. HashValue(key) \in Nat
  BY <1>1, KeyFacts, HashAssumption
<1>3. b \in 0 .. bucketCount - 1
  BY <1>2, SlotRange DEF BucketForHash, Inv, TypeInv
<1>4. Chain(buckets[b]) = {a \in Stored : Slot(hash[a], bucketCount) = b}
  BY <1>3 DEF Inv, TableInv, TableOK, Chain
<1>5. Found(key) = {a \in Chain(buckets[b]) : Equals(a, key)}
  BY DEF Found
<1> HIDE DEF b
<1>6. ASSUME NEW a \in Live, expr[a] = key.expr, ops[a] = key.ops
      PROVE  a \in Found(key)
  <2>1. a \in Stored
    <3>1. key.expr \notin {TrueExpr, NoExpr}
      BY KeyFacts
    <3> QED BY <3>1, <1>6 DEF Inv, FreeInv, FreeOK, Stored
  <2>2. key = [expr |-> expr[a], ops |-> ops[a]]
    BY <1>6, KeyFacts
  <2>3. hash[a] = HashValue(key)
    BY <2>1, <2>2 DEF Inv, KeyInv, KeysOK, Stored
  <2>4. Slot(hash[a], bucketCount) = b
    BY <2>3 DEF b, BucketForHash
  <2>5. Equals(a, key)
    BY <1>6 DEF Equals
  <2> QED BY <2>1, <2>4, <2>5, <1>4, <1>5
<1>7. Found(key) \subseteq Stored /\ \A a \in Found(key) : expr[a].kind = key.expr.kind
  BY <1>4, <1>5 DEF Equals
<1> QED BY <1>2, <1>6, <1>7

(* createIfNotExists() that finds the expression. *)
LEMMA InvCreateFound ==
  ASSUME Inv, NEW key \in KeysOver(Holding), CreateFound(key)
  PROVE  Inv'
<1>1. pending.op = "none"
  BY DEF CreateFound, CanAsk, Idle
<1>2. PICK a \in Found(key) : Answer(key, a)
  BY DEF CreateFound
<1>3. a \in Live
  BY <1>1, FoundLive DEF Stored
<1> QED BY <1>1, <1>2, <1>3, AnswerStep DEF CreateFound

(* BoolLiteralExpr::True(), which looks nothing up. *)
LEMMA InvGetTrue ==
  ASSUME Inv, GetTrue
  PROVE  Inv'
<1>1. pending.op = "none" /\ True \in Live
  BY DoomedFacts, AddrFacts DEF GetTrue, Idle, CanHoldMore, Holding
<1> QED BY <1>1, AnswerStep DEF GetTrue

(* createIfNotExists() that finds nothing and starts a rehash or goes on   *)
(* to the insertion.                                                       *)
LEMMA InvCreateNew ==
  ASSUME Inv, NEW key \in KeysOver(Holding), CreateNew(key)
  PROVE  Inv'
<1> USE DEF CreateNew, objects, table, client
<1>1. Allocated' = Allocated /\ Live' = Live /\ Stored' = Stored
  BY SameSets
<1>2. /\ pending.op = "none" /\ stack = <<>> /\ handles[True] > 0 /\ moving.cur = Nil
      /\ TableOK(buckets, bucketCount, hash, next, Stored)
  BY DEF CanAsk, Idle, CanHoldMore, Inv, RehashInv, TableInv
<1>3. /\ pending'.op \in {"insert", "rehash"} /\ pending'.key = key
      /\ pending'.hash = HashValue(key)
      /\ pending'.op = "insert" => ~NeedsRehash(entries + 1) /\ moving' = moving
      /\ pending'.op = "rehash" =>
           moving' = [i |-> 0, cur |-> buckets[0],
                      to |-> [b \in 0 .. 2 * bucketCount - 1 |-> Nil]]
  BY DEF Creation
<1>4. TypeInv'
  BY <1>3 DEF Inv, TypeInv
<1>5. FreeInv' /\ KeyInv' /\ CountInv' /\ OrderInv' /\ RootInv' /\ StackInv'
  BY <1>1 DEF Inv, FreeInv, KeyInv, CountInv, OrderInv, RootInv, StackInv
<1>6. TableInv'
  BY <1>1, <1>2 DEF Inv, TableInv
<1>7. EntryInv'
  <2>1. pending'.op = "insert" => (entries + 1) * 4 < bucketCount * 3
    BY <1>3 DEF NeedsRehash, Inv, TypeInv
  <2> QED BY <2>1, <1>1 DEF Inv, EntryInv
<1>8. ASSUME pending'.op = "rehash"
      PROVE  RehashOK(moving', buckets, bucketCount, hash, next, Stored)
  <2>1. moving'.i = 0 /\ moving'.cur = buckets[0]
        /\ moving'.to = [b \in 0 .. 2 * bucketCount - 1 |-> Nil]
    BY <1>3, <1>8
  <2>2. /\ bucketCount \in Nat \ {0} /\ buckets \in [0 .. bucketCount - 1 -> Addr \cup {Nil}]
        /\ hash \in [Addr -> Nat] /\ Links(next, Addr) /\ Stored \subseteq Addr
    BY DoomedFacts DEF Inv, TypeInv
  <2>3. ListFrom(next, Nil) = {}
    BY <2>2, ListNil
  <2>4. ListFrom(next, buckets[0]) = {a \in Stored : Slot(hash[a], bucketCount) = 0}
    BY <1>2, <2>2 DEF TableOK
  <2>5. \A a \in Stored : Slot(hash[a], bucketCount) \in 0 .. bucketCount - 1
    BY <2>2, SlotRange
  <2>6. Moved(hash, bucketCount, Stored, 0, ListFrom(next, buckets[0])) = {}
    BY <2>2, <2>4, <2>5 DEF Moved
  <2>7. \A b \in 1 .. bucketCount - 1 :
          ListFrom(next, buckets[b]) = {a \in Stored : Slot(hash[a], bucketCount) = b}
    BY <1>2, <2>2 DEF TableOK
  <2>8. \A b \in 0 .. 2 * bucketCount - 1 : ListFrom(next, moving'.to[b]) = {}
    BY <2>1, <2>3
  <2>9. moving'.to \in [0 .. 2 * bucketCount - 1 -> Addr \cup {Nil}]
    BY <2>1
  <2>10. moving'.i \in 0 .. bucketCount - 1 /\ moving'.cur \in Addr \cup {Nil}
    BY <2>1, <2>2
  <2> QED BY <2>1, <2>4, <2>6, <2>7, <2>8, <2>9, <2>10 DEF RehashOK
<1>9. RehashInv'
  BY <1>1, <1>2, <1>3, <1>8 DEF RehashInv
<1>10. PendingInv'
  <2>1. \A a \in Live : ~(expr[a] = key.expr /\ ops[a] = key.ops)
    BY <1>2, FoundLive
  <2>2. PendingOK(pending', handles, expr, ops, Live)
    BY <2>1, <1>2, <1>3 DEF PendingOK, Holding
  <2> QED BY <2>2, <1>1, <1>2 DEF PendingInv
<1> QED BY <1>4, <1>5, <1>6, <1>7, <1>9, <1>10 DEF Inv

-----------------------------------------------------------------------------
(* rehashTable(): the node goes to the front of its new bucket, and the    *)
(* walk along the old bucket has its successor.                            *)
Moves(mv, m2, nx, ny, n, c, b) ==
  /\ mv.cur = c /\ m2.i = mv.i /\ m2.cur = nx[c]
  /\ ny[c] = mv.to[b] /\ \A q \in Addr \ {c} : ny[q] = nx[q]
  /\ m2.to \in [0 .. 2 * n - 1 -> Addr \cup {Nil}] /\ m2.to[b] = c
  /\ \A d \in 0 .. 2 * n - 1 : d # b => m2.to[d] = mv.to[d]

(* Moving one node from an old bucket to a new one: every expression is in *)
(* the rest of the old table or in the new one.                            *)
LEMMA MoveOK ==
  ASSUME NEW nx, Links(nx, Addr), ListsEnd(nx), NEW n \in Nat \ {0}, NEW hs \in [Addr -> Nat],
         NEW bk \in [0 .. n - 1 -> Addr \cup {Nil}], NEW stored \in SUBSET Addr,
         \A x \in Addr \ stored : nx[x] = Nil,
         NEW mv, RehashOK(mv, bk, n, hs, nx, stored),
         NEW c \in Addr, NEW b \in 0 .. 2 * n - 1, Slot(hs[c], 2 * n) = b,
         NEW ny, Links(ny, Addr), NEW m2, Moves(mv, m2, nx, ny, n, c, b)
  PROVE  ListsEnd(ny) /\ RehashOK(m2, bk, n, hs, ny, stored)
<1> DEFINE L == ListFrom(nx, c)
           N == ListFrom(nx, nx[c])
           M == Moved(hs, n, stored, mv.i, L)
           i == mv.i
           p == mv.to[b]
           To(d) == {a \in M : Slot(hs[a], 2 * n) = d}
           Old(d) == {a \in stored : Slot(hs[a], n) = d}
<1>0. Moves(mv, m2, nx, ny, n, c, b)
  OBVIOUS
<1> USE <1>0 DEF Moves
<1>1. /\ i \in 0 .. n - 1 /\ mv.to \in [0 .. 2 * n - 1 -> Addr \cup {Nil}]
      /\ \A d \in i + 1 .. n - 1 : ListFrom(nx, bk[d]) = Old(d)
      /\ L \subseteq Old(i)
      /\ \A d \in 0 .. 2 * n - 1 : ListFrom(nx, mv.to[d]) = To(d)
  BY ZenonT(30) DEF RehashOK
<1>2. p \in Addr \cup {Nil} /\ nx[c] \in Addr \cup {Nil}
  BY <1>1 DEF Links
<1>3. L = {c} \cup N /\ c \notin N
  <2>1. L = {c} \cup N
    BY ListUnfold
  <2>2. c \notin N
    BY DEF ListsEnd, Links
  <2> QED BY <2>1, <2>2
<1>4. \A a \in stored : Slot(hs[a], n) \in 0 .. n - 1
  BY SlotRange
<1>5. c \in stored /\ Slot(hs[c], n) = i
  BY <1>1, <1>3
<1>6. M = {a \in stored : Slot(hs[a], n) < i \/ (Slot(hs[a], n) = i /\ a \notin L)}
  BY DEF Moved
<1>7. \A d \in 0 .. 2 * n - 1 : c \notin ListFrom(nx, mv.to[d])
  <2>1. i \in Int /\ c \in L
    BY <1>1, <1>3
  <2> HIDE DEF M, L, i
  <2>2. c \notin M
    BY <2>1, <1>5, <1>6
  <2> QED BY <2>2, <1>1
<1>8. \A d \in i + 1 .. n - 1 : c \notin ListFrom(nx, bk[d])
  BY <1>1, <1>5
<1>9. ASSUME NEW x \in Addr, x # c PROVE c \notin ListFrom(nx, nx[x])
  <2>1. CASE x \notin stored
    BY <2>1, ListNil
  <2>2. CASE x \in L
    <3>1. x \in N
      BY <2>2, <1>3, <1>9
    <3>2. nx[x] \in N \cup {Nil}
      BY <3>1, <1>2, ListClosed
    <3>3. ListFrom(nx, nx[x]) \subseteq N
      BY <3>2, <1>2, ListSub
    <3> QED BY <3>3, <1>3
  <2>3. CASE x \in M
    <3> DEFINE d == Slot(hs[x], 2 * n)
               q == mv.to[d]
    <3>1. d \in 0 .. 2 * n - 1
      <4>1. 2 * n \in Nat \ {0} /\ hs[x] \in Nat
        OBVIOUS
      <4> QED BY ONLY <4>1, SlotRange
    <3>2. x \in ListFrom(nx, q) /\ q \in Addr \cup {Nil} /\ c \notin ListFrom(nx, q)
      BY <3>1, <2>3, <1>1, <1>7
    <3> HIDE DEF d, q
    <3>3. nx[x] \in ListFrom(nx, q) \cup {Nil}
      BY <3>2, ListClosed
    <3>4. ListFrom(nx, nx[x]) \subseteq ListFrom(nx, q)
      BY <3>2, <3>3, ListSub
    <3> QED BY <3>2, <3>4
  <2>4. CASE x \in stored /\ Slot(hs[x], n) > i
    <3> DEFINE d == Slot(hs[x], n)
               q == bk[d]
    <3>1. d \in i + 1 .. n - 1
      BY <2>4, <1>1, <1>4
    <3>2. x \in ListFrom(nx, q) /\ q \in Addr \cup {Nil} /\ c \notin ListFrom(nx, q)
      BY <3>1, <2>4, <1>1, <1>8
    <3> HIDE DEF d, q
    <3>3. nx[x] \in ListFrom(nx, q) \cup {Nil}
      BY <3>2, ListClosed
    <3>4. ListFrom(nx, nx[x]) \subseteq ListFrom(nx, q)
      BY <3>2, <3>3, ListSub
    <3> QED BY <3>2, <3>4
  <2> QED BY <2>1, <2>2, <2>3, <2>4, <1>1, <1>4, <1>6
<1>10. /\ ListsEnd(ny)
       /\ ListFrom(ny, c) = {c} \cup ListFrom(nx, p)
       /\ \A q \in Addr \cup {Nil} : c \notin ListFrom(nx, q) => ListFrom(ny, q) = ListFrom(nx, q)
  <2>1. ny[c] = p /\ c \notin ListFrom(nx, p)
    BY <1>7
  <2> HIDE DEF p
  <2> QED BY <2>1, <1>2, <1>9, ListPrepend
<1>11. ListFrom(ny, nx[c]) = N
  BY <1>2, <1>3, <1>10
<1>12. \A d \in i + 1 .. n - 1 : ListFrom(ny, bk[d]) = Old(d)
  BY <1>1, <1>8, <1>10
<1>13. \A a : a \in Moved(hs, n, stored, i, N) <=> a \in M \cup {c}
  BY <1>3, <1>4, <1>5, <1>6, <1>1 DEF Moved
<1> HIDE DEF M
<1>14. ASSUME NEW d \in 0 .. 2 * n - 1
       PROVE  ListFrom(ny, m2.to[d])
                = {a \in Moved(hs, n, stored, i, N) : Slot(hs[a], 2 * n) = d}
  <2>1. CASE d = b
    <3>1. ListFrom(ny, m2.to[d]) = {c} \cup To(b)
      BY <2>1, <1>1, <1>10
    <3> QED BY <3>1, <2>1, <1>13
  <2>2. CASE d # b
    <3>1. ListFrom(ny, m2.to[d]) = To(d)
      BY <2>2, <1>1, <1>7, <1>10
    <3> QED BY <3>1, <2>2, <1>13
  <2> QED BY <2>1, <2>2
<1> QED BY <1>1, <1>2, <1>3, <1>10, <1>11, <1>12, <1>14 DEF RehashOK

(* What holds in the middle of a rehash. *)
LEMMA RehashFacts ==
  ASSUME Inv, pending.op = "rehash"
  PROVE  /\ RehashOK(moving, buckets, bucketCount, hash, next, Stored)
         /\ stack = <<>> /\ Doomed = {} /\ PendingOK(pending, handles, expr, ops, Live)
         /\ bucketCount \in Nat \ {0} /\ buckets \in [0 .. bucketCount - 1 -> Addr \cup {Nil}]
         /\ hash \in [Addr -> Nat] /\ Links(next, Addr) /\ Stored \subseteq Addr
         /\ ListsEnd(next)
         /\ \A x \in Addr \ Stored : next[x] = Nil
         /\ \A x \in Addr : expr[x] = NoExpr => next[x] = Nil
<1>1. stack = <<>> /\ Doomed = {} /\ PendingOK(pending, handles, expr, ops, Live)
  BY DoomedFacts DEF Inv, PendingInv
<1>2. \A x \in Addr \ Stored : next[x] = Nil
  BY <1>1, DoomedFacts DEF Inv, FreeInv, FreeOK, Stored
<1>3. \A x \in Addr : expr[x] = NoExpr => next[x] = Nil
  BY DEF Inv, FreeInv, FreeOK
<1> QED BY <1>1, <1>2, <1>3, DoomedFacts DEF Inv, RehashInv, TableInv, TypeInv

(* rehashTable(): one node moves. *)
LEMMA InvMoveNode ==
  ASSUME Inv, MoveNode
  PROVE  Inv'
<1> DEFINE c == moving.cur
           b == Slot(hash[c], 2 * bucketCount)
<1>1. /\ pending.op = "rehash" /\ c # Nil /\ pending' = pending /\ stack' = stack
      /\ UNCHANGED <<expr, ops, hash, rc, buckets, bucketCount, entries, handles>>
  BY DEF MoveNode, table, client
<1>2. /\ next' = [next EXCEPT ![c] = moving.to[b]]
      /\ moving' = [i |-> moving.i, cur |-> next[c], to |-> [moving.to EXCEPT ![b] = c]]
  BY DEF MoveNode
<1>3. c \in Addr /\ moving.to \in [0 .. 2 * bucketCount - 1 -> Addr \cup {Nil}]
      /\ b \in 0 .. 2 * bucketCount - 1
  <2>1. c \in Addr /\ moving.to \in [0 .. 2 * bucketCount - 1 -> Addr \cup {Nil}]
    BY <1>1, RehashFacts DEF RehashOK
  <2>2. 2 * bucketCount \in Nat \ {0} /\ hash[c] \in Nat
    BY <2>1, <1>1, RehashFacts
  <2> QED BY <2>1, <2>2, SlotRange
<1> HIDE DEF c, b
<1>4. /\ Links(next', Addr)
      /\ next'[c] = moving.to[b]
      /\ \A q \in Addr \ {c} : next'[q] = next[q]
  BY <1>1, <1>2, <1>3, RehashFacts DEF Links
<1>5. /\ moving'.i = moving.i /\ moving'.cur = next[c]
      /\ moving'.to \in [0 .. 2 * bucketCount - 1 -> Addr \cup {Nil}] /\ moving'.to[b] = c
      /\ \A d \in 0 .. 2 * bucketCount - 1 : d # b => moving'.to[d] = moving.to[d]
  BY <1>2, <1>3
<1>6. moving.cur = c /\ Slot(hash[c], 2 * bucketCount) = b
  BY DEF c, b
<1>7. ListsEnd(next') /\ RehashOK(moving', buckets, bucketCount, hash, next', Stored)
  <2>1. Moves(moving, moving', next, next', bucketCount, c, b)
    BY <1>4, <1>5, <1>6 DEF Moves
  <2> QED BY <2>1, <1>1, <1>3, <1>4, <1>6, RehashFacts, MoveOK
<1>8. Doomed' = {} /\ Doomed = {} /\ stack = <<>>
  BY <1>1, RehashFacts DEF Doomed
<1>9. Allocated' = Allocated /\ Live' = Live /\ Stored' = Stored
  BY <1>1, <1>8 DEF Allocated, Live, Stored
<1>10. c \in Stored /\ c # True /\ expr[c] # NoExpr
  <2>1. c \in ListFrom(next, c)
    BY <1>1, <1>3, RehashFacts, ListUnfold
  <2>2. c \in Stored
    BY <1>1, <1>6, <2>1, RehashFacts DEF RehashOK
  <2> QED BY <2>2 DEF Stored, Live, Allocated
<1>11. TypeInv'
  BY <1>1, <1>4 DEF Inv, TypeInv
<1>12. FreeInv'
  BY <1>1, <1>4, <1>10, AddrFacts DEF Inv, FreeInv, FreeOK
<1>13. KeyInv' /\ CountInv' /\ OrderInv' /\ RootInv'
  BY <1>1, <1>9 DEF Inv, KeyInv, CountInv, OrderInv, RootInv
<1>14. StackInv'
  BY <1>1, <1>8 DEF StackInv, StackOK
<1>15. TableInv' /\ EntryInv' /\ RehashInv' /\ PendingInv'
  BY <1>1, <1>7, <1>9 DEF Inv, TableInv, EntryInv, RehashInv, PendingInv
<1> QED BY <1>11, <1>12, <1>13, <1>14, <1>15 DEF Inv

(* rehashTable(): the next bucket. *)
LEMMA InvNextBucket ==
  ASSUME Inv, NextBucket
  PROVE  Inv'
<1> USE DEF NextBucket, objects, table, client
<1>1. Allocated' = Allocated /\ Live' = Live /\ Stored' = Stored
  BY SameSets
<1> DEFINE n == bucketCount
           i == moving.i
           L == ListFrom(next, buckets[i + 1])
<1>2. pending.op = "rehash" /\ ListFrom(next, moving.cur) = {} /\ i + 1 < n
  BY RehashFacts, ListNil
<1>3. moving'.i = i + 1 /\ moving'.cur = buckets[i + 1] /\ moving'.to = moving.to
  OBVIOUS
<1>4. /\ i \in 0 .. n - 1 /\ n \in Nat \ {0}
      /\ moving.to \in [0 .. 2 * n - 1 -> Addr \cup {Nil}]
      /\ \A d \in i + 1 .. n - 1 :
           ListFrom(next, buckets[d]) = {a \in Stored : Slot(hash[a], n) = d}
      /\ \A d \in 0 .. 2 * n - 1 :
           ListFrom(next, moving.to[d])
             = {a \in Moved(hash, n, Stored, i, {}) : Slot(hash[a], 2 * n) = d}
  BY <1>2, RehashFacts DEF RehashOK
<1>5. i + 1 \in i + 1 .. n - 1 /\ i + 1 \in 0 .. n - 1 /\ buckets[i + 1] \in Addr \cup {Nil}
  BY <1>2, <1>4, RehashFacts
<1>6. L = {a \in Stored : Slot(hash[a], n) = i + 1}
  BY <1>4, <1>5
<1>7. \A a \in Stored : Slot(hash[a], n) \in 0 .. n - 1
  BY <1>2, RehashFacts, SlotRange
<1>8. \A a : a \in Moved(hash, n, Stored, i + 1, L) <=> a \in Moved(hash, n, Stored, i, {})
  BY <1>4, <1>6, <1>7 DEF Moved
<1>9. Moved(hash, n, Stored, i + 1, L) = Moved(hash, n, Stored, i, {})
  BY <1>8
<1>10. \A d \in i + 1 + 1 .. n - 1 :
         ListFrom(next, buckets[d]) = {a \in Stored : Slot(hash[a], n) = d}
  BY <1>4
<1>11. RehashOK(moving', buckets, n, hash, next, Stored)
  BY <1>3, <1>4, <1>5, <1>6, <1>9, <1>10 DEF RehashOK
<1>12. TypeInv' /\ FreeInv' /\ KeyInv' /\ CountInv' /\ OrderInv' /\ RootInv' /\ StackInv'
  BY <1>1 DEF Inv, TypeInv, FreeInv, KeyInv, CountInv, OrderInv, RootInv, StackInv
<1>13. TableInv' /\ EntryInv' /\ RehashInv' /\ PendingInv'
  BY <1>1, <1>2, <1>11 DEF Inv, TableInv, EntryInv, RehashInv, PendingInv
<1> QED BY <1>12, <1>13 DEF Inv

(* rehashTable(): the new table has every expression when the old one is   *)
(* used up.                                                                *)
LEMMA InvInstallTable ==
  ASSUME Inv, InstallTable
  PROVE  Inv'
<1> USE DEF InstallTable, objects, table, client
<1>1. Allocated' = Allocated /\ Live' = Live /\ Stored' = Stored
  BY SameSets
<1> DEFINE n == bucketCount
           i == moving.i
<1>2. pending.op = "rehash" /\ ListFrom(next, moving.cur) = {} /\ i + 1 = n
  BY RehashFacts, ListNil
<1>3. /\ buckets' = moving.to /\ bucketCount' = 2 * n /\ pending'.op = "insert"
      /\ pending'.key = pending.key /\ pending'.hash = pending.hash /\ moving'.cur = Nil
  BY DEF NoRehash
<1>4. /\ i \in 0 .. n - 1 /\ n \in Nat \ {0}
      /\ moving.to \in [0 .. 2 * n - 1 -> Addr \cup {Nil}]
      /\ \A d \in 0 .. 2 * n - 1 :
           ListFrom(next, moving.to[d])
             = {a \in Moved(hash, n, Stored, i, {}) : Slot(hash[a], 2 * n) = d}
  BY <1>2, RehashFacts DEF RehashOK
<1>5. \A a \in Stored : Slot(hash[a], n) \in 0 .. n - 1
  BY <1>2, RehashFacts, SlotRange
<1>6. \A a : a \in Moved(hash, n, Stored, i, {}) <=> a \in Stored
  BY <1>2, <1>4, <1>5 DEF Moved
<1>7. Moved(hash, n, Stored, i, {}) = Stored
  BY <1>6
<1>8. TableOK(buckets', 2 * n, hash, next, Stored)
  BY <1>3, <1>4, <1>7 DEF TableOK
<1>9. 2 * n \in Nat \ {0} /\ entries \in Nat /\ entries * 4 < n * 3
  BY <1>4 DEF Inv, TypeInv, EntryInv
<1>10. entries * 4 < (2 * n) * 3 /\ (entries + 1) * 4 < (2 * n) * 3
  BY <1>4, <1>9
<1>11. TypeInv'
  BY <1>3, <1>4, <1>9 DEF Inv, TypeInv
<1>12. FreeInv' /\ KeyInv' /\ CountInv' /\ OrderInv' /\ RootInv' /\ StackInv'
  BY <1>1 DEF Inv, FreeInv, KeyInv, CountInv, OrderInv, RootInv, StackInv
<1>13. TableInv' /\ RehashInv'
  BY <1>1, <1>3, <1>8, RehashFacts DEF TableInv, RehashInv
<1>14. EntryInv'
  BY <1>1, <1>3, <1>10 DEF Inv, EntryInv
<1>15. PendingInv'
  <2>1. PendingOK(pending', handles, expr, ops, Live)
    BY <1>2, <1>3, RehashFacts DEF PendingOK
  <2> QED BY <2>1, <1>1, <1>2, RehashFacts DEF PendingInv
<1> QED BY <1>11, <1>12, <1>13, <1>14, <1>15 DEF Inv

-----------------------------------------------------------------------------
(* A new expression takes one reference per operand slot. *)
UseRefs(p, o, a) == {<<p, i>> : i \in {j \in DOMAIN o : o[j] = a}}

(* The references a constructor takes to an operand are as many as the     *)
(* positions where it has it.                                              *)
LEMMA UsesCount ==
  ASSUME NEW S, NEW o \in Seq(S), NEW a, NEW p
  PROVE  /\ IsFiniteSet(UseRefs(p, o, a)) /\ Uses(o, a) \in Nat
         /\ Cardinality(UseRefs(p, o, a)) = Uses(o, a)
<1> DEFINE T == UseRefs(p, o, a)
<1>0. \A x : x \in T <=> \E i \in DOMAIN o : o[i] = a /\ x = <<p, i>>
  BY DEF UseRefs
<1> HIDE DEF T
<1> DEFINE I == {i \in DOMAIN o : o[i] = a}
           f == [i \in I |-> <<p, i>>]
<1>1. Len(o) \in Nat /\ DOMAIN o = 1 .. Len(o)
  OBVIOUS
<1>2. IsFiniteSet(1 .. Len(o)) /\ I \in SUBSET (1 .. Len(o))
  BY <1>1, FS_Interval
<1>3. IsFiniteSet(I) /\ Cardinality(I) \in Nat
  <2> HIDE DEF I
  <2>1. IsFiniteSet(I)
    BY <1>2, FS_Subset
  <2> QED BY <2>1, FS_CardinalityType
<1>4. f \in [I -> T] /\ \A i, j \in I : f[i] = f[j] => i = j
  BY <1>0
<1>5. \A x \in T : \E i \in I : f[i] = x
  BY <1>0
<1> HIDE DEF I, f
<1>6. f \in Bijection(I, T)
  BY <1>4, <1>5 DEF Bijection, Injection, Surjection, IsInjective
<1>7. ExistsBijection(I, T)
  BY <1>6 DEF ExistsBijection
<1>8. IsFiniteSet(T) /\ Cardinality(T) = Cardinality(I)
  BY <1>3, <1>7, FS_Bijection
<1>9. Uses(o, a) = Cardinality(I)
  BY DEF Uses, I
<1> QED BY <1>3, <1>8, <1>9 DEF T

Constructs(r, r2, h, h2, oo, o2, new, o) ==
  /\ oo[new] = <<>> /\ o2[new] = o /\ \A a \in Addr \ {new} : o2[a] = oo[a]
  /\ r2[new] = 1 /\ \A a \in Addr \ {new} : r2[a] = r[a] + Uses(o, a)
  /\ h2[new] = 1 /\ \A a \in Addr \ {new} : h2[a] = h[a]

(* Counts stay exact when the constructor takes its references. *)
LEMMA CountInsert ==
  ASSUME NEW r \in [Addr -> Nat], NEW r2, NEW h \in [Addr -> Nat], NEW h2,
         NEW oo \in Operands, NEW o2, NEW live \in SUBSET Addr, CountOK(r, h, oo, live),
         NEW new \in Addr, new \notin live,
         NEW o \in Seq(live), Constructs(r, r2, h, h2, oo, o2, new, o)
  PROVE  CountOK(r2, h2, o2, live \cup {new})
<1>0. Constructs(r, r2, h, h2, oo, o2, new, o)
  OBVIOUS
<1> USE <1>0 DEF Constructs
<1> DEFINE live2 == live \cup {new}
<1> DEFINE N(a) == UseRefs(new, o, a)
<1>1. ASSUME NEW a \in Addr PROVE RefsIn(o2, a) = RefsIn(oo, a) \cup N(a)
  <2>1. ASSUME NEW x PROVE x \in RefsIn(o2, a) <=> x \in RefsIn(oo, a) \/ x \in N(a)
    <3>1. x \in RefsIn(o2, a) <=>
            \E p \in Addr : \E j \in DOMAIN o2[p] : x = <<p, j>> /\ o2[p][j] = a
      BY RefsInMember
    <3>2. x \in RefsIn(oo, a) <=>
            \E p \in Addr : \E j \in DOMAIN oo[p] : x = <<p, j>> /\ oo[p][j] = a
      BY RefsInMember
    <3>3. DOMAIN oo[new] = {}
      OBVIOUS
    <3>4. x \in N(a) <=> \E j \in DOMAIN o : x = <<new, j>> /\ o[j] = a
      BY DEF UseRefs
    <3> HIDE DEF N
    <3>5. ASSUME NEW p \in Addr, p # new
          PROVE  (\E j \in DOMAIN o2[p] : x = <<p, j>> /\ o2[p][j] = a) <=>
                   (\E j \in DOMAIN oo[p] : x = <<p, j>> /\ oo[p][j] = a)
      BY <3>5
    <3> QED BY <3>1, <3>2, <3>3, <3>4, <3>5
  <2> QED BY <2>1
<1>2. ASSUME NEW a \in Addr
      PROVE  IsFiniteSet(N(a)) /\ Uses(o, a) \in Nat /\ Cardinality(N(a)) = Uses(o, a)
  BY UsesCount
<1>3. ASSUME NEW a \in Addr PROVE RefsIn(oo, a) \cap N(a) = {}
  <2>1. \A j : <<new, j>> \notin RefsIn(oo, a)
    BY RefsInMember
  <2> QED BY <2>1 DEF UseRefs
<1>4. \A a \in Addr \ live : N(a) = {}
  BY DEF UseRefs
<1> HIDE DEF N
<1>5. ASSUME NEW a \in Addr
      PROVE  /\ IsFiniteSet(RefsIn(o2, a)) /\ Cardinality(RefsIn(oo, a)) \in Nat
             /\ Cardinality(RefsIn(o2, a)) = Cardinality(RefsIn(oo, a)) + Uses(o, a)
  <2> DEFINE A == RefsIn(oo, a)
             B == N(a)
  <2>1. IsFiniteSet(A) /\ IsFiniteSet(B) /\ A \cap B = {} /\ Cardinality(B) = Uses(o, a)
        /\ Uses(o, a) \in Nat
    BY <1>2, <1>3 DEF CountOK
  <2>2. RefsIn(o2, a) = A \cup B
    BY <1>1
  <2> HIDE DEF A, B
  <2>3. IsFiniteSet(A \cup B) /\ Cardinality(A) \in Nat
        /\ Cardinality(A \cup B) = Cardinality(A) + Cardinality(B) - Cardinality(A \cap B)
    BY <2>1, FS_Union, FS_CardinalityType
  <2>4. Cardinality(A \cap B) = 0
    BY <2>1, FS_EmptySet
  <2> QED BY <2>1, <2>2, <2>3, <2>4 DEF A
<1>6. RefsIn(o2, new) = {} /\ Cardinality(RefsIn(o2, new)) = 0
  BY <1>1, <1>4, FS_EmptySet DEF CountOK
<1>7. ASSUME NEW a \in live
      PROVE  r2[a] > 0 /\ r2[a] = h2[a] + Cardinality(RefsIn(o2, a))
  <2>1. a \in Addr /\ a # new /\ r[a] > 0 /\ r[a] = h[a] + Cardinality(RefsIn(oo, a))
    BY DEF CountOK
  <2>2. r2[a] = r[a] + Uses(o, a) /\ h2[a] = h[a] /\ Uses(o, a) \in Nat
        /\ r[a] \in Nat /\ h[a] \in Nat
    BY <2>1, <1>2
  <2> QED BY <2>1, <2>2, <1>5
<1>8. \A a \in Addr \ live2 : h2[a] = 0 /\ RefsIn(o2, a) = {}
  BY <1>1, <1>4 DEF CountOK
<1>9. \A a \in live2 : r2[a] > 0 /\ r2[a] = h2[a] + Cardinality(RefsIn(o2, a))
  <2>1. r2[new] > 0 /\ r2[new] = h2[new] + Cardinality(RefsIn(o2, new))
    BY <1>6
  <2>2. \A a \in live2 : a = new \/ a \in live
    OBVIOUS
  <2> QED BY ONLY <2>1, <2>2, <1>7
<1> QED BY <1>5, <1>8, <1>9 DEF CountOK

(* Structures stay acyclic: nothing refers to the new expression.          *)
LEMMA OrderInsert ==
  ASSUME NEW oo, NEW o2, OrderOK(oo), NEW new \in Addr,
         \A a \in Addr \ {new} : o2[a] = oo[a], RefsIn(o2, new) = {}
  PROVE  OrderOK(o2)
<1> SUFFICES ASSUME NEW U \in SUBSET Addr,
                    \A a \in U : \E p \in U : \E j \in DOMAIN o2[p] : o2[p][j] = a
             PROVE  U = {}
  BY DEF OrderOK
<1>1. ASSUME new \in U PROVE FALSE
  <2>1. PICK p \in U : \E j \in DOMAIN o2[p] : o2[p][j] = new
    BY <1>1
  <2>2. PICK j \in DOMAIN o2[p] : o2[p][j] = new
    BY <2>1
  <2>3. <<p, j>> \in RefsIn(o2, new)
    BY <2>2, RefsInMember
  <2> QED BY <2>3
<1>2. \A a \in U : \E p \in U : \E j \in DOMAIN oo[p] : oo[p][j] = a
  BY <1>1
<1> QED BY <1>2 DEF OrderOK

(* It becomes the first of its bucket. *)
PutsFirst(nx, ny, bk, b2, hs, h2, n, new, s) ==
  /\ Slot(h2[new], n) = s /\ \A a \in Addr \ {new} : h2[a] = hs[a]
  /\ ny[new] = bk[s] /\ \A q \in Addr \ {new} : ny[q] = nx[q]
  /\ b2[s] = new /\ \A d \in 0 .. n - 1 : d # s => b2[d] = bk[d]

(* The new expression is in its bucket, the others are where they were. *)
LEMMA TableInsert ==
  ASSUME NEW nx, Links(nx, Addr), ListsEnd(nx), NEW n \in Nat \ {0},
         NEW hs \in [Addr -> Nat], NEW h2 \in [Addr -> Nat],
         NEW bk \in [0 .. n - 1 -> Addr \cup {Nil}], NEW b2, NEW stored \in SUBSET Addr,
         TableOK(bk, n, hs, nx, stored), \A x \in Addr \ stored : nx[x] = Nil,
         NEW new \in Addr, new \notin stored, NEW s \in 0 .. n - 1,
         NEW ny, Links(ny, Addr), PutsFirst(nx, ny, bk, b2, hs, h2, n, new, s)
  PROVE  ListsEnd(ny) /\ TableOK(b2, n, h2, ny, stored \cup {new})
<1>0. PutsFirst(nx, ny, bk, b2, hs, h2, n, new, s)
  OBVIOUS
<1> USE <1>0 DEF PutsFirst
<1>1. ASSUME NEW d \in 0 .. n - 1
      PROVE  /\ ListFrom(nx, bk[d]) = {a \in stored : Slot(hs[a], n) = d}
             /\ bk[d] \in Addr \cup {Nil} /\ new \notin ListFrom(nx, bk[d])
  BY DEF TableOK
<1>2. ASSUME NEW x \in Addr, x # new PROVE new \notin ListFrom(nx, nx[x])
  <2>1. CASE x \notin stored
    BY <2>1, ListNil
  <2>2. CASE x \in stored
    <3> DEFINE d == Slot(hs[x], n)
               q == bk[d]
    <3>1. d \in 0 .. n - 1
      BY SlotRange
    <3>2. x \in ListFrom(nx, q) /\ q \in Addr \cup {Nil} /\ new \notin ListFrom(nx, q)
      BY <3>1, <2>2, <1>1
    <3> HIDE DEF d, q
    <3>3. nx[x] \in ListFrom(nx, q) \cup {Nil}
      BY <3>2, ListClosed
    <3>4. ListFrom(nx, nx[x]) \subseteq ListFrom(nx, q)
      BY <3>2, <3>3, ListSub
    <3> QED BY <3>2, <3>4
  <2> QED BY <2>1, <2>2
<1>3. /\ ListsEnd(ny)
      /\ ListFrom(ny, new) = {new} \cup ListFrom(nx, bk[s])
      /\ \A q \in Addr \cup {Nil} : new \notin ListFrom(nx, q) => ListFrom(ny, q) = ListFrom(nx, q)
  <2> DEFINE p == bk[s]
  <2>1. p \in Addr \cup {Nil} /\ new \notin ListFrom(nx, p) /\ ny[new] = p
    BY <1>1
  <2> HIDE DEF p
  <2>2. /\ ListsEnd(ny)
        /\ ListFrom(ny, new) = {new} \cup ListFrom(nx, p)
        /\ \A q \in Addr \cup {Nil} : new \notin ListFrom(nx, q) => ListFrom(ny, q) = ListFrom(nx, q)
    BY <2>1, <1>2, ListPrepend
  <2> QED BY <2>2 DEF p
<1>4. ASSUME NEW d \in 0 .. n - 1
      PROVE  ListFrom(ny, b2[d]) = {a \in stored \cup {new} : Slot(h2[a], n) = d}
  <2>1. ListFrom(nx, bk[d]) = {a \in stored : Slot(hs[a], n) = d}
    BY <1>1
  <2>2. CASE d = s
    BY <2>1, <2>2, <1>3
  <2>3. CASE d # s
    <3>1. ListFrom(ny, b2[d]) = ListFrom(nx, bk[d])
      BY <2>3, <1>1, <1>3
    <3> QED BY <3>1, <2>1, <2>3
  <2> QED BY <2>2, <2>3
<1> QED BY <1>3, <1>4 DEF TableOK

(* The insertion of createIfNotExists(). *)
LEMMA InvInsert ==
  ASSUME Inv, Insert
  PROVE  Inv'
<1> DEFINE key == pending.key
           b == BucketForHash(pending.hash)
<1>1. /\ pending.op = "insert" /\ entries' = entries + 1 /\ pending' = NoCreation
      /\ UNCHANGED <<bucketCount, moving, stack>>
  BY DEF Insert
<1>2. PICK new \in Places \ Allocated :
        /\ expr' = [expr EXCEPT ![new] = key.expr]
        /\ ops' = [ops EXCEPT ![new] = key.ops]
        /\ hash' = [hash EXCEPT ![new] = pending.hash]
        /\ rc' = [a \in Addr |-> IF a = new THEN 1 ELSE rc[a] + Uses(key.ops, a)]
        /\ next' = [next EXCEPT ![new] = buckets[b]]
        /\ buckets' = [buckets EXCEPT ![b] = new]
        /\ handles' = [handles EXCEPT ![new] = 1]
  BY DEF Insert
<1>3. /\ new \in Addr /\ new # True /\ expr[new] = NoExpr
      /\ new \notin Allocated /\ new \notin Live /\ new \notin Stored
  BY AddrFacts DEF Allocated, Live, Stored
<1>4. /\ stack = <<>> /\ Doomed = {} /\ handles[True] > 0 /\ key \in KeysOver(Holding)
      /\ pending.hash = HashValue(key)
      /\ \A a \in Live : ~(expr[a] = key.expr /\ ops[a] = key.ops)
  BY <1>1, DoomedFacts DEF Inv, PendingInv, PendingOK, Holding
<1>5. /\ key = [expr |-> key.expr, ops |-> key.ops]
      /\ key.expr \in StoredExprs \ {TrueExpr, NoExpr} /\ key.ops \in Seq(Holding)
      /\ key \in KeysOver(Addr)
  <2>1. Holding \subseteq Addr
    BY DEF Holding
  <2> QED BY <2>1, <1>4, KeyFacts
<1>6. pending.hash \in Nat
  BY <1>4, <1>5, HashAssumption
<1> DEFINE o == key.ops
           e == key.expr
           hv == pending.hash
           n == bucketCount
<1>7. /\ Live \subseteq Addr /\ Stored \subseteq Addr /\ IsFiniteSet(Stored)
      /\ o \in Seq(Live) /\ o \in Seq(Addr \cup {Nil}) /\ Whole(o)
      /\ \A i \in DOMAIN o : o[i] \in Live
  <2>1. Holding \subseteq Live /\ Live \subseteq Addr /\ Stored \subseteq Addr /\ IsFiniteSet(Stored)
    BY DoomedFacts
  <2>2. \A i \in DOMAIN o : o[i] \in Live
    BY <1>5, <2>1
  <2>3. o \in Seq(Live) /\ o \in Seq(Addr \cup {Nil})
    BY <1>5, <2>1
  <2> QED BY <2>1, <2>2, <2>3 DEF Whole
<1>8. b \in 0 .. n - 1 /\ Slot(hv, n) = b /\ n \in Nat \ {0}
  <2>1. n \in Nat \ {0}
    BY DEF Inv, TypeInv
  <2> QED BY <2>1, <1>6, SlotRange DEF BucketForHash
<1> HIDE DEF b, o, e, hv, n, key
<1>9. /\ expr' \in [Addr -> StoredExprs \cup {TrueExpr, NoExpr}]
      /\ expr'[new] = e /\ \A a \in Addr \ {new} : expr'[a] = expr[a]
  BY <1>2, <1>3, <1>5 DEF Inv, TypeInv, e
<1>10. ops' \in Operands /\ ops'[new] = o /\ \A a \in Addr \ {new} : ops'[a] = ops[a]
  BY <1>2, <1>3, <1>7 DEF Inv, TypeInv, Operands, o
<1>11. hash' \in [Addr -> Nat] /\ hash'[new] = hv /\ \A a \in Addr \ {new} : hash'[a] = hash[a]
  BY <1>2, <1>3, <1>6 DEF Inv, TypeInv, hv
<1>12. /\ handles' \in [Addr -> Nat] /\ handles'[new] = 1
       /\ \A a \in Addr \ {new} : handles'[a] = handles[a]
  BY <1>2, <1>3 DEF Inv, TypeInv
<1>13. rc' \in [Addr -> Nat] /\ rc'[new] = 1
       /\ \A a \in Addr \ {new} : rc'[a] = rc[a] + Uses(o, a)
  <2>1. \A a \in Addr : Uses(o, a) \in Nat /\ rc[a] \in Nat
    BY <1>7, UsesCount DEF Inv, TypeInv
  <2> QED BY <2>1, <1>2, <1>3 DEF o
<1>14. /\ Links(next', Addr) /\ next'[new] = buckets[b]
       /\ \A a \in Addr \ {new} : next'[a] = next[a]
       /\ buckets' \in [0 .. n - 1 -> Addr \cup {Nil}] /\ buckets'[b] = new
       /\ \A d \in 0 .. n - 1 : d # b => buckets'[d] = buckets[d]
  BY <1>2, <1>3, <1>8 DEF Inv, TypeInv, Links, n
<1>15. Doomed' = {}
  BY <1>1, <1>4 DEF Doomed
<1>16. /\ Allocated' = Allocated \cup {new} /\ Live' = Live \cup {new}
       /\ Stored' = Stored \cup {new}
  <2>1. e # NoExpr
    BY <1>5 DEF e
  <2>2. \A a : a \in Allocated' <=> a \in Allocated \cup {new}
    BY <2>1, <1>3, <1>9 DEF Allocated
  <2>3. Allocated' = Allocated \cup {new}
    BY <2>2
  <2> QED BY <2>3, <1>3, <1>4, <1>15 DEF Live, Stored
<1>17. TypeInv'
  BY <1>1, <1>9, <1>10, <1>11, <1>12, <1>13, <1>14
  DEF Inv, TypeInv, NoCreation, Creation, n
<1>18. FreeInv'
  <2>1. expr'[new] # NoExpr
    BY <1>9, <1>5 DEF e
  <2> QED BY <2>1, <1>3, <1>9, <1>10, <1>14, AddrFacts DEF Inv, FreeInv, FreeOK
<1>19. KeyInv'
  <2>1. ASSUME NEW a \in Live
        PROVE  a \in Addr /\ a # new /\ expr'[a] = expr[a] /\ ops'[a] = ops[a] /\ hash'[a] = hash[a]
               /\ ~(expr[a] = e /\ ops[a] = o)
    BY <1>3, <1>4, <1>7, <1>9, <1>10, <1>11 DEF e, o
  <2>2. \A a \in Live' : Whole(ops'[a])
    BY <2>1, <1>7, <1>10, <1>16 DEF Inv, KeyInv, KeysOK
  <2>3. ASSUME NEW a \in Live', a # True
        PROVE  expr'[a] # TrueExpr /\ hash'[a] = HashValue([expr |-> expr'[a], ops |-> ops'[a]])
    <3>1. CASE a = new
      <4>1. hv = HashValue([expr |-> e, ops |-> o]) /\ e # TrueExpr
        BY <1>4, <1>5 DEF hv, e, o
      <4> QED BY <4>1, <3>1, <1>9, <1>10, <1>11
    <3>2. CASE a \in Live
      BY <3>2, <2>1, <2>3 DEF Inv, KeyInv, KeysOK
    <3> QED BY <3>1, <3>2, <1>16
  <2>4. ASSUME NEW a \in Live', NEW c \in Live', expr'[a] = expr'[c], ops'[a] = ops'[c]
        PROVE  a = c
    <3>1. CASE a \in Live /\ c \in Live
      BY <3>1, <2>1, <2>4 DEF Inv, KeyInv, KeysOK
    <3>2. CASE a = new /\ c \in Live
      BY <3>2, <2>1, <2>4, <1>9, <1>10
    <3>3. CASE a \in Live /\ c = new
      BY <3>3, <2>1, <2>4, <1>9, <1>10
    <3> QED BY <3>1, <3>2, <3>3, <1>16
  <2> QED BY <2>2, <2>3, <2>4 DEF KeyInv, KeysOK
<1>20. CountInv'
  <2>1. ops[new] = <<>>
    BY <1>3 DEF Inv, FreeInv, FreeOK
  <2>2. CountOK(rc, handles, ops, Live) /\ ops \in Operands /\ rc \in [Addr -> Nat]
        /\ handles \in [Addr -> Nat]
    BY DEF Inv, CountInv, TypeInv
  <2>3. Constructs(rc, rc', handles, handles', ops, ops', new, o)
    BY <2>1, <1>10, <1>12, <1>13 DEF Constructs
  <2>4. CountOK(rc', handles', ops', Live \cup {new})
    BY <2>2, <2>3, <1>3, <1>7, CountInsert
  <2> QED BY <2>4, <1>16 DEF CountInv
<1>21. OrderInv'
  <2>1. RefsIn(ops', new) = {}
    <3>1. RefsIn(ops, new) = {}
      BY <1>3 DEF Inv, CountInv, CountOK
    <3>2. ASSUME NEW p \in Addr, NEW j \in DOMAIN ops'[p] PROVE ops'[p][j] # new
      <4>1. CASE p = new
        BY <4>1, <1>3, <1>7, <1>10
      <4>2. CASE p # new
        <5>1. j \in DOMAIN ops[p] /\ ops'[p][j] = ops[p][j]
          BY <4>2, <1>10
        <5>2. ops[p][j] = new => <<p, j>> \in RefsIn(ops, new)
          BY <5>1, RefsInMember
        <5> QED BY <5>1, <5>2, <3>1
      <4> QED BY <4>1, <4>2
    <3> QED BY <3>2, RefsInMember
  <2> QED BY <2>1, <1>3, <1>10, OrderInsert DEF Inv, OrderInv
<1>22. RootInv'
  <2>1. handles'[True] = handles[True] /\ handles[True] # 0
    BY <1>3, <1>4, <1>12, AddrFacts DEF Inv, TypeInv
  <2> QED BY <2>1 DEF RootInv
<1>23. StackInv'
  BY <1>1, <1>4 DEF StackInv, StackOK
<1>24. TableInv'
  <2>1. /\ Links(next, Addr) /\ ListsEnd(next) /\ hash \in [Addr -> Nat]
        /\ buckets \in [0 .. n - 1 -> Addr \cup {Nil}] /\ TableOK(buckets, n, hash, next, Stored)
    BY <1>1 DEF Inv, TypeInv, TableInv, n
  <2>2. \A x \in Addr \ Stored : next[x] = Nil
    BY <1>4, DoomedFacts DEF Inv, FreeInv, FreeOK, Stored
  <2>3. PutsFirst(next, next', buckets, buckets', hash, hash', n, new, b)
    BY <1>8, <1>11, <1>14 DEF PutsFirst
  <2>4. ListsEnd(next') /\ TableOK(buckets', n, hash', next', Stored \cup {new})
    BY <2>1, <2>2, <2>3, <1>3, <1>7, <1>8, <1>11, <1>14, TableInsert
  <2> QED BY <2>4, <1>1, <1>16 DEF TableInv, n
<1>25. EntryInv'
  <2>1. Cardinality(Stored \cup {new}) = Cardinality(Stored) + 1
    BY <1>3, <1>7, FS_AddElement
  <2> QED BY <2>1, <1>1, <1>16 DEF Inv, EntryInv, NoCreation, Creation
<1>26. RehashInv' /\ PendingInv'
  BY <1>1 DEF Inv, RehashInv, PendingInv, NoCreation, Creation
<1> QED BY <1>17, <1>18, <1>19, <1>20, <1>21, <1>22, <1>23, <1>24, <1>25, <1>26 DEF Inv

-----------------------------------------------------------------------------
(* Releases.  A live expression loses a reference, from outside or from an *)
(* operand slot of a doomed one, and if that was the last it is doomed.    *)
Fewer(oo, o2, live) ==
  /\ o2 \in Operands
  /\ \A a \in live : o2[a] = oo[a]
  /\ \A a \in Addr : oo[a] = <<>> => o2[a] = <<>>
  /\ \A p \in Addr : \A j \in DOMAIN o2[p] :
       o2[p][j] \in Addr => j \in DOMAIN oo[p] /\ oo[p][j] = o2[p][j]

(* Giving up a reference that is not the last one. *)
LEMMA KeepParts ==
  ASSUME Inv, pending.op = "none", UNCHANGED <<expr, hash, next, table, creation>>,
         NEW c \in Live, rc[c] # 1, rc' = [rc EXCEPT ![c] = @ - 1],
         handles' \in [Addr -> Nat], handles'[True] = 0 => handles[True] = 0,
         OneLess(handles, handles', ops, ops', c), Fewer(ops, ops', Live),
         stack' \in Seq(Frames), StackOK(stack', next, ops', Allocated),
         DoomedBy(stack', next) = Doomed
  PROVE  Inv'
<1> USE DEF table, creation
<1>1. Allocated' = Allocated /\ Doomed' = Doomed
  BY DEF Allocated, Doomed, DoomedBy, Chain
<1>2. Live' = Live /\ Stored' = Stored
  BY <1>1 DEF Live, Stored
<1>3. c \in Addr /\ rc[c] \in Nat /\ rc[c] > 0 /\ rc \in [Addr -> Nat]
  BY DoomedFacts DEF Inv, CountInv, CountOK, TypeInv
<1>4. rc' \in [Addr -> Nat] /\ rc'[c] = rc[c] - 1 /\ \A a \in Addr \ {c} : rc'[a] = rc[a]
  BY <1>3
<1>5. TypeInv'
  BY <1>4 DEF Inv, TypeInv, Fewer
<1>6. FreeInv'
  BY AddrFacts DEF Inv, FreeInv, FreeOK, Fewer
<1>7. KeyInv'
  <2>1. \A a \in Live : expr'[a] = expr[a] /\ ops'[a] = ops[a] /\ hash'[a] = hash[a]
    BY DEF Fewer
  <2>2. KeysOK(expr', ops', hash', Live)
    BY <2>1 DEF Inv, KeyInv, KeysOK
  <2> QED BY <2>2, <1>2 DEF KeyInv
<1>8. CountInv'
  <2>1. CountOK(rc, handles, ops, Live) /\ handles \in [Addr -> Nat] /\ Live \subseteq Addr
    BY DoomedFacts DEF Inv, CountInv, TypeInv
  <2>2. CountsDown(rc, rc', Live, Live, c)
    BY <1>4 DEF CountsDown
  <2>3. CountOK(rc', handles', ops', Live)
    BY <2>1, <2>2, <1>3, CountLess
  <2> QED BY <2>3, <1>2 DEF CountInv
<1>9. OrderInv'
  BY OrderFewer DEF Inv, OrderInv, Fewer
<1>10. RootInv'
  BY DEF Inv, RootInv
<1>11. StackInv'
  BY <1>1 DEF StackInv
<1>12. TableInv' /\ EntryInv' /\ RehashInv' /\ PendingInv'
  BY <1>2 DEF Inv, TableInv, EntryInv, RehashInv, PendingInv
<1> QED BY <1>5, <1>6, <1>7, <1>8, <1>9, <1>10, <1>11, <1>12 DEF Inv

(* Giving up the last reference: the expression leaves the table for a     *)
(* deletion list.                                                          *)
LEMMA LastParts ==
  ASSUME Inv, pending.op = "none", UNCHANGED <<expr, hash, bucketCount, creation>>,
         NEW c \in Stored, rc[c] = 1, rc' \in [Addr -> Nat], \A a \in Addr \ {c} : rc'[a] = rc[a],
         handles' \in [Addr -> Nat], handles'[True] = 0 => handles[True] = 0,
         OneLess(handles, handles', ops, ops', c), Fewer(ops, ops', Live),
         Links(next', Addr), ListsEnd(next'), FreeOK(expr, ops, next'),
         buckets' \in [0 .. bucketCount - 1 -> Addr \cup {Nil}],
         TableOK(buckets', bucketCount, hash, next', Stored \ {c}), entries' = entries - 1,
         stack' \in Seq(Frames), StackOK(stack', next', ops', Allocated),
         DoomedBy(stack', next') = Doomed \cup {c}
  PROVE  Inv'
<1> USE DEF creation
<1>1. Allocated' = Allocated /\ Doomed' = Doomed \cup {c}
  BY DEF Allocated, Doomed, DoomedBy, Chain
<1>2. Live' = Live \ {c} /\ Stored' = Stored \ {c} /\ c \in Live
  BY <1>1 DEF Live, Stored
<1>3. entries \in Nat /\ entries = Cardinality(Stored) /\ entries * 4 < bucketCount * 3
      /\ bucketCount \in Nat
  BY DEF Inv, EntryInv, TypeInv
<1>4. Cardinality(Stored \ {c}) = entries - 1 /\ entries - 1 \in Nat
  <2>1. Cardinality(Stored \ {c}) = Cardinality(Stored) - 1 /\ IsFiniteSet(Stored \ {c})
    BY DoomedFacts, FS_RemoveElement
  <2>2. Cardinality(Stored \ {c}) \in Nat
    BY <2>1, FS_CardinalityType
  <2> QED BY <2>1, <2>2, <1>3
<1>5. TypeInv'
  BY <1>4 DEF Inv, TypeInv, Fewer
<1>6. FreeInv'
  BY AddrFacts DEF FreeInv, FreeOK, Fewer
<1>7. KeyInv'
  <2>1. \A a \in Live \ {c} : expr'[a] = expr[a] /\ ops'[a] = ops[a] /\ hash'[a] = hash[a]
    BY DEF Fewer
  <2>2. KeysOK(expr', ops', hash', Live \ {c})
    BY <2>1 DEF Inv, KeyInv, KeysOK
  <2> QED BY <2>2, <1>2 DEF KeyInv
<1>8. CountInv'
  <2>1. CountOK(rc, handles, ops, Live) /\ handles \in [Addr -> Nat] /\ Live \subseteq Addr
        /\ rc \in [Addr -> Nat]
    BY DoomedFacts DEF Inv, CountInv, TypeInv
  <2>2. CountsDown(rc, rc', Live, Live \ {c}, c)
    BY DEF CountsDown
  <2>3. CountOK(rc', handles', ops', Live \ {c})
    BY <2>1, <2>2, <1>2, CountLess
  <2> QED BY <2>3, <1>2 DEF CountInv
<1>9. OrderInv'
  BY OrderFewer DEF Inv, OrderInv, Fewer
<1>10. RootInv'
  BY DEF Inv, RootInv
<1>11. StackInv'
  BY <1>1 DEF StackInv
<1>12. TableInv' /\ RehashInv' /\ PendingInv'
  BY <1>2 DEF Inv, TableInv, RehashInv, PendingInv
<1>13. EntryInv'
  BY <1>2, <1>3, <1>4 DEF EntryInv
<1> QED BY <1>5, <1>6, <1>7, <1>8, <1>9, <1>10, <1>11, <1>12, <1>13 DEF Inv

(* removeFromList() for a stored expression. *)
LEMMA RemoveFacts ==
  ASSUME Inv, pending.op = "none", NEW c \in Stored
  PROVE  /\ Links(NextWithout(c), Addr) /\ ListsEnd(NextWithout(c)) /\ NextWithout(c)[c] = Nil
         /\ TableWithout(c) \in [0 .. bucketCount - 1 -> Addr \cup {Nil}]
         /\ TableOK(TableWithout(c), bucketCount, hash, NextWithout(c), Stored \ {c})
         /\ \A q \in Addr \ Stored : NextWithout(c)[q] = next[q]
         /\ FreeOK(expr, ops, NextWithout(c))
         /\ StackOK(stack, NextWithout(c), ops, Allocated)
         /\ DoomedBy(stack, NextWithout(c)) = Doomed
<1> DEFINE n == bucketCount
           s == BucketForHash(hash[c])
           ny == NextWithout(c)
           b2 == TableWithout(c)
<1>1. /\ Links(next, Addr) /\ ListsEnd(next) /\ n \in Nat \ {0} /\ hash \in [Addr -> Nat]
      /\ buckets \in [0 .. n - 1 -> Addr \cup {Nil}] /\ stack \in Seq(Frames)
      /\ TableOK(buckets, n, hash, next, Stored) /\ Stored \in SUBSET Addr /\ c \in Addr
      /\ StackOK(stack, next, ops, Allocated) /\ Doomed = DoomedBy(stack, next)
      /\ Doomed \subseteq Allocated /\ Allocated \subseteq Addr
  BY DoomedFacts DEF Inv, TypeInv, TableInv, StackInv
<1>2. s = Slot(hash[c], n) /\ s \in 0 .. n - 1
  BY <1>1, SlotRange DEF BucketForHash
<1>3. ny = [p \in Addr |-> IF p = c THEN Nil
                           ELSE IF p \in ListFrom(next, buckets[s]) /\ next[p] = c
                                THEN next[c] ELSE next[p]]
  BY DEF NextWithout, Chain
<1>4. b2 = [buckets EXCEPT ![s] = IF @ = c THEN next[c] ELSE @]
  BY DEF TableWithout
<1> HIDE DEF n, s, ny, b2
<1>5. Links(ny, Addr) /\ Unlinks(Addr, next, ny, buckets[s], c)
  BY <1>1, <1>3 DEF Links, Unlinks
<1>6. /\ b2 \in [0 .. n - 1 -> Addr \cup {Nil}]
      /\ Removes(next, ny, buckets, b2, hash, n, s, c)
  BY <1>1, <1>2, <1>4, <1>5 DEF Links, Removes
<1>7. /\ ListsEnd(ny) /\ TableOK(b2, n, hash, ny, Stored \ {c})
      /\ \A q \in Addr \ Stored : ny[q] = next[q]
  <2> DEFINE stored2 == Stored \ {c}
  <2>1. TableState(next, n, hash, buckets, Stored) /\ TakenOut(Stored, stored2, c)
    BY <1>1 DEF TableState, TakenOut
  <2> HIDE DEF stored2
  <2>2. /\ ListsEnd(ny) /\ TableOK(b2, n, hash, ny, stored2)
        /\ \A q \in Addr \ Stored : ny[q] = next[q]
    <3>1. c \in Stored /\ ListsEnd(next)
      BY <1>1
    <3>2. Links(ny, Addr) /\ Removes(next, ny, buckets, b2, hash, n, s, c)
      BY <1>5, <1>6
    <3>3. ListsEnd(ny)
      BY ONLY <2>1, <3>1, <3>2, UnlinkOK
    <3>4. TableOK(b2, n, hash, ny, stored2)
      BY ONLY <2>1, <3>1, <3>2, UnlinkOK
    <3>5. \A q \in Addr \ Stored : ny[q] = next[q]
      BY ONLY <2>1, <3>1, <3>2, UnlinkOK
    <3> QED BY <3>3, <3>4, <3>5
  <2> QED BY <2>2 DEF stored2
<1>8. ny[c] = Nil
  BY <1>5 DEF Unlinks
<1>9. FreeOK(expr, ops, ny)
  <2>1. True \notin Stored /\ \A a \in Addr : expr[a] = NoExpr => a \notin Stored
    BY DEF Stored, Live, Allocated
  <2> QED BY <2>1, <1>7, AddrFacts DEF Inv, FreeInv, FreeOK
<1>10. Untouched(DoomedBy(stack, next), next, ny, ops, ops, Allocated)
  <2>1. Doomed \cap Stored = {}
    BY DEF Stored, Live
  <2> QED BY <2>1, <1>1, <1>7 DEF Untouched
<1>11. StackOK(stack, ny, ops, Allocated) /\ DoomedBy(stack, ny) = DoomedBy(stack, next)
  BY <1>1, <1>5, <1>10, StackSame
<1> QED BY <1>1, <1>5, <1>6, <1>7, <1>8, <1>9, <1>11 DEF n, ny, b2

(* What the references from outside and from operand slots tell. *)
LEMMA ReleaseFacts ==
  ASSUME Inv, stack # <<>> \/ pending.op = "none"
  PROVE  /\ pending.op = "none"
         /\ \A c \in Addr : handles[c] > 0 => c \in Live
         /\ \A p \in Addr : \A j \in DOMAIN ops[p] : ops[p][j] \in Addr => ops[p][j] \in Live
         /\ \A c \in Live : rc[c] \in Nat /\ rc[c] > 0
<1>1. pending.op = "none"
  BY DEF Inv, PendingInv
<1>2. \A c \in Addr : handles[c] > 0 => c \in Live
  BY DEF Inv, CountInv, CountOK, TypeInv
<1>3. ASSUME NEW p \in Addr, NEW j \in DOMAIN ops[p], ops[p][j] \in Addr
      PROVE  ops[p][j] \in Live
  <2>1. <<p, j>> \in RefsIn(ops, ops[p][j])
    BY RefsInMember
  <2> QED BY <2>1, <1>3 DEF Inv, CountInv, CountOK
<1>4. \A c \in Live : rc[c] \in Nat /\ rc[c] > 0
  BY DoomedFacts DEF Inv, CountInv, CountOK, TypeInv
<1> QED BY <1>1, <1>2, <1>3, <1>4

(* The context is not released while an expression has operands. *)
LEMMA NotTheRoot ==
  ASSUME Inv, NEW p \in Addr, NEW j \in DOMAIN ops[p], ops[p][j] \in Addr, rc[ops[p][j]] = 1
  PROVE  ops[p][j] \in Stored /\ p # True /\ p \in Allocated
<1> DEFINE c == ops[p][j]
<1>1. p # True /\ p \in Allocated
  BY AddrFacts DEF Inv, FreeInv, FreeOK, Allocated
<1>2. handles[True] # 0
  BY <1>1 DEF Inv, RootInv, Addr, Allocated
<1>3. <<p, j>> \in RefsIn(ops, c)
  BY RefsInMember
<1>4. c \in Live
  BY <1>3 DEF Inv, CountInv, CountOK
<1>5. ASSUME c = True PROVE FALSE
  <2>1. IsFiniteSet(RefsIn(ops, True)) /\ RefsIn(ops, True) # {}
    BY <1>3, <1>5, AddrFacts DEF Inv, CountInv, CountOK
  <2>2. Cardinality(RefsIn(ops, True)) \in Nat /\ Cardinality(RefsIn(ops, True)) # 0
    BY <2>1, FS_CardinalityType, FS_EmptySet
  <2>3. rc[True] = handles[True] + Cardinality(RefsIn(ops, True))
    BY <1>4, <1>5 DEF Inv, CountInv, CountOK
  <2>4. handles[True] \in Nat /\ rc[True] = 1
    BY <1>5, AddrFacts DEF Inv, TypeInv
  <2> QED BY <2>2, <2>3, <2>4, <1>2
<1> QED BY <1>1, <1>4, <1>5 DEF Stored

(* References do not change when the operands do not. *)
LEMMA SameOperands ==
  ASSUME Inv
  PROVE  Fewer(ops, ops, Live)
BY DEF Inv, TypeInv, Fewer

(* A client releases a reference. *)
LEMMA InvRelease ==
  ASSUME Inv, NEW a \in Addr, Release(a)
  PROVE  Inv'
<1>1. /\ Idle /\ handles[a] > (IF a = True THEN 1 ELSE 0)
      /\ handles' = [handles EXCEPT ![a] = @ - 1] /\ ReleaseRef(a, stack)
      /\ UNCHANGED <<expr, ops, hash, bucketCount, creation>>
  BY DEF Release
<1>2. pending.op = "none" /\ stack = <<>> /\ handles \in [Addr -> Nat] /\ rc \in [Addr -> Nat]
  BY <1>1 DEF Idle, Inv, TypeInv
<1>3. handles[a] \in Nat /\ handles[a] > 0
  BY <1>1, <1>2
<1>4. a \in Live /\ rc[a] \in Nat /\ rc[a] > 0
  BY <1>2, <1>3, ReleaseFacts
<1>5. handles' \in [Addr -> Nat] /\ (handles'[True] = 0 => handles[True] = 0)
  BY <1>1, <1>2, <1>3, AddrFacts
<1>6. OneLess(handles, handles', ops, ops', a)
  <2>1. \A x \in Addr : IsFiniteSet(RefsIn(ops, x))
    BY DEF Inv, CountInv, CountOK
  <2>2. OneLess(handles, handles', ops, ops, a)
    BY <2>1, <1>1, <1>2, <1>3, OneHandleLess
  <2> QED BY <2>2, <1>1
<1>7. Fewer(ops, ops', Live)
  BY <1>1, SameOperands
<1>8. /\ stack \in Seq(Frames) /\ StackOK(stack, next, ops, Allocated)
      /\ Doomed = DoomedBy(stack, next) /\ Doomed = {}
  BY <1>2, DoomedFacts DEF Inv, TypeInv, StackInv
<1>9. CASE rc[a] > 1
  <2>1. /\ rc' = [rc EXCEPT ![a] = @ - 1] /\ stack' = stack
        /\ UNCHANGED <<expr, hash, next, table, creation>>
    BY <1>1, <1>9, <1>4 DEF ReleaseRef, table
  <2>2. rc[a] # 1
    BY <1>9
  <2> QED BY <2>1, <2>2, <1>1, <1>2, <1>4, <1>5, <1>6, <1>7, <1>8, KeepParts
<1>10. CASE rc[a] = 1 /\ a # True
  <2>1. a \in Stored
    BY <1>4, <1>10 DEF Stored
  <2> DEFINE op == IF IsNonNullary(expr[a]) THEN "scan" ELSE "delete"
  <2>2. /\ rc' = [rc EXCEPT ![a] = @ - 1] /\ next' = NextWithout(a)
        /\ buckets' = TableWithout(a) /\ entries' = entries - 1
        /\ stack' = Append(stack, Frame(op, a))
    BY <1>1, <1>10 DEF ReleaseRef
  <2>3. op \in {"scan", "delete"}
    OBVIOUS
  <2> HIDE DEF op
  <2>4. rc' \in [Addr -> Nat] /\ \A x \in Addr \ {a} : rc'[x] = rc[x]
    BY <2>2, <1>2, <1>10
  <2>5. /\ Links(next', Addr) /\ ListsEnd(next') /\ next'[a] = Nil
        /\ buckets' \in [0 .. bucketCount - 1 -> Addr \cup {Nil}]
        /\ TableOK(buckets', bucketCount, hash, next', Stored \ {a})
        /\ FreeOK(expr, ops, next')
        /\ StackOK(stack, next', ops, Allocated) /\ DoomedBy(stack, next') = Doomed
    BY <2>1, <2>2, <1>2, RemoveFacts
  <2>6. a \in Allocated /\ Whole(ops[a]) /\ a \notin Doomed /\ ops \in Operands
    BY <1>4 DEF Live, Inv, KeyInv, KeysOK, TypeInv
  <2>7. /\ stack' \in Seq(Frames) /\ StackOK(stack', next', ops, Allocated)
        /\ DoomedBy(stack', next') = Doomed \cup {a}
    BY <2>2, <2>3, <2>5, <2>6, <1>8, StackPush
  <2>8. ops' = ops /\ UNCHANGED <<expr, hash, bucketCount, creation>>
    BY <1>1
  <2>9. StackOK(stack', next', ops', Allocated) /\ rc[a] = 1 /\ entries' = entries - 1
    BY <2>2, <2>7, <2>8, <1>10
  <2> QED BY <2>1, <2>4, <2>5, <2>7, <2>8, <2>9, <1>2, <1>5, <1>6, <1>7, LastParts
<1>11. CASE rc[a] = 1 /\ a = True
  <2>1. rc[True] = handles[True] + Cardinality(RefsIn(ops, True))
        /\ Cardinality(RefsIn(ops, True)) \in Nat
    BY <1>4, <1>11, FS_CardinalityType, AddrFacts DEF Inv, CountInv, CountOK
  <2> QED BY <2>1, <1>1, <1>3, <1>11
<1> QED BY <1>4, <1>9, <1>10, <1>11

-----------------------------------------------------------------------------
(* The innermost activation detaches the operand it has come to. *)
IsTop(st, f) == st \in Seq(Frames) /\ st # <<>> /\ st[Len(st)] = f
Advances(f, g) ==
  /\ g \in Frames /\ g.root = f.root /\ g.tail = f.tail /\ g.op = f.op /\ g.last = f.last
  /\ g.i = f.i + 1

(* The innermost activation goes on to its next operand. *)
LEMMA AdvancesFrame ==
  ASSUME NEW f \in Frames
  PROVE  Advances(f, [f EXCEPT !.i = @ + 1])
BY DEF Advances, Frames

(* Going on to the next operand keeps the activations in order. *)
LEMMA AdvanceStack ==
  ASSUME NEW nx, Links(nx, Addr), ListsEnd(nx), NEW oo, oo \in Operands, NEW al,
         NEW st, StackOK(st, nx, oo, al), NEW f, IsTop(st, f),
         f.op # "sweep", f.i \in DOMAIN oo[f.last],
         NEW o2, Detaches(oo, o2, f.last, f.i), NEW g, Advances(f, g)
  PROVE  /\ SetLast(st, g) \in Seq(Frames)
         /\ StackOK(SetLast(st, g), nx, o2, al)
         /\ DoomedBy(SetLast(st, g), nx) = DoomedBy(st, nx)
<1>0. Links(nx, Addr) /\ ListsEnd(nx) /\ oo \in Operands /\ StackOK(st, nx, oo, al)
  OBVIOUS
<1>1. /\ st \in Seq(Frames) /\ st # <<>> /\ st[Len(st)] = f
      /\ Len(st) \in DOMAIN st /\ f \in Frames
  BY SeqFront DEF IsTop
<1>2. g \in Frames /\ g.root = f.root /\ g.tail = f.tail /\ g.op = f.op /\ g.last = f.last
      /\ g.i = f.i + 1
  BY DEF Advances
<1>3. FrameOK(f, nx, oo, al) /\ f.op # "sweep" /\ f.i \in DOMAIN oo[f.last]
      /\ Detaches(oo, o2, f.last, f.i)
  BY <1>1 DEF StackOK
<1>4. FrameOK(g, nx, o2, al)
  BY ONLY <1>0, <1>1, <1>2, <1>3, FrameAdvance
<1>5. DoomedBelow(st, nx) = DoomedBy(st, nx) \ ListFrom(nx, f.root)
  BY <1>1 DEF DoomedBelow
<1>6. f.last \in ListFrom(nx, f.root) /\ ListFrom(nx, f.root) \subseteq al
  BY <1>3 DEF FrameOK
<1>7. DoomedBy(st, nx) \subseteq al /\ DoomedBy(st, nx) \subseteq Addr
      /\ ListFrom(nx, f.root) \subseteq DoomedBy(st, nx)
  <2>1. \A k \in DOMAIN st : st[k] \in Frames
    BY <1>1
  <2>2. \A h \in Frames : h.root \in Addr
    BY DEF Frames
  <2>3. \A k \in DOMAIN st : ListFrom(nx, st[k].root) \subseteq Addr
    BY <2>1, <2>2, ListClosed
  <2> QED BY <2>3, <1>1, <1>3 DEF StackOK, FrameOK, DoomedBy
<1>8. Untouched(DoomedBelow(st, nx), nx, nx, oo, o2, al)
  BY <1>3, <1>5, <1>6, <1>7 DEF Untouched, Detaches
<1>9. DoomedBelow(st, nx) \cap ListFrom(nx, g.root) = {}
  BY <1>2, <1>5
<1>10. /\ SetLast(st, g) \in Seq(Frames)
       /\ StackOK(SetLast(st, g), nx, o2, al)
       /\ DoomedBy(SetLast(st, g), nx) = DoomedBelow(st, nx) \cup ListFrom(nx, g.root)
  BY ONLY <1>0, <1>1, <1>2, <1>4, <1>8, <1>9, StackSet
<1> QED BY <1>2, <1>5, <1>7, <1>10

(* What the innermost activation finds at its operand. *)
LEMMA TopFacts ==
  ASSUME Inv, stack # <<>>
  PROVE  /\ IsTop(stack, top) /\ top \in Frames /\ pending.op = "none"
         /\ FrameOK(top, next, ops, Allocated) /\ ListFrom(next, top.root) \subseteq Doomed
         /\ DoomedBelow(stack, next) = Doomed \ ListFrom(next, top.root)
         /\ top.root \in ListFrom(next, top.root)
         /\ top.op # "sweep" => top.last \in Doomed /\ top.last \in Addr
<1>1. stack \in Seq(Frames) /\ Links(next, Addr)
  BY DEF Inv, TypeInv
<1>2. Len(stack) \in DOMAIN stack /\ top \in Frames /\ IsTop(stack, top)
  BY <1>1, SeqFront DEF top, IsTop
<1>3. FrameOK(top, next, ops, Allocated)
  BY <1>2 DEF Inv, StackInv, StackOK, top
<1>4. Doomed = DoomedBy(stack, next)
  BY DoomedFacts
<1>5. ListFrom(next, top.root) \subseteq Doomed
  BY <1>2, <1>4 DEF DoomedBy, top
<1>6. DoomedBelow(stack, next) = Doomed \ ListFrom(next, top.root)
  BY <1>4 DEF DoomedBelow, top
<1>7. top.root \in Addr /\ top.last \in Addr
  BY <1>2 DEF Frames
<1>8. top.root \in ListFrom(next, top.root)
  BY <1>1, <1>7, ListUnfold
<1>9. top.op # "sweep" => top.last \in Doomed
  BY <1>3, <1>5 DEF FrameOK
<1> QED BY <1>2, <1>3, <1>5, <1>6, <1>7, <1>8, <1>9, ReleaseFacts

(* The parts of the invariant that detaching an operand can disturb. *)
LEMMA DetachStep ==
  ASSUME Inv, stack # <<>>, top.op # "sweep", top.i \in DOMAIN ops[top.last], DetachOperand,
         handles' = handles
  PROVE  /\ child \in Live /\ rc[child] \in Nat /\ rc[child] > 0
         /\ rc[child] = 1 => child \in Stored /\ handles[True] # 0
         /\ Detaches(ops, ops', top.last, top.i) /\ Advances(top, Advanced)
         /\ OneLess(handles, handles', ops, ops', child) /\ Fewer(ops, ops', Live)
         /\ handles' \in [Addr -> Nat] /\ rc \in [Addr -> Nat] /\ ops \in Operands
<1> DEFINE p == top.last
           i == top.i
<1>1. /\ p \in Doomed /\ p \in Addr /\ top \in Frames /\ FrameOK(top, next, ops, Allocated)
      /\ ops \in Operands /\ rc \in [Addr -> Nat] /\ handles \in [Addr -> Nat]
  BY TopFacts DEF Inv, TypeInv
<1>2. i \in DOMAIN ops[p] /\ i \in Nat
  BY <1>1 DEF Frames
<1>3. ops[p][i] \in Addr
  <2>1. \A j \in DOMAIN ops[top.last] : j >= top.i => ops[top.last][j] \in Addr
    BY <1>1 DEF FrameOK
  <2> QED BY <2>1, <1>2
<1>4. Detaches(ops, ops', p, i)
  <2>1. ops' = [ops EXCEPT ![p] = [@ EXCEPT ![i] = Nil]]
    BY DEF DetachOperand
  <2> HIDE DEF p, i
  <2>2. Detaches(ops, [ops EXCEPT ![p] = [@ EXCEPT ![i] = Nil]], p, i)
    BY <1>1, <1>2, DetachFacts
  <2> QED BY <2>1, <2>2
<1>5. child = ops[p][i]
  BY DEF child
<1> HIDE DEF p, i
<1>6. child \in Live /\ rc[child] \in Nat /\ rc[child] > 0
  BY <1>1, <1>2, <1>3, <1>5, ReleaseFacts
<1>7. rc[child] = 1 => child \in Stored /\ handles[True] # 0
  <2>1. ASSUME rc[child] = 1 PROVE child \in Stored /\ p # True /\ p \in Allocated
    BY <2>1, <1>1, <1>2, <1>3, <1>5, NotTheRoot
  <2> QED BY <2>1, <1>1 DEF Inv, RootInv, Addr, Allocated
<1>8. OneLess(handles, handles, ops, ops', child)
  <2>1. \A a \in Addr : IsFiniteSet(RefsIn(ops, a))
    BY DEF Inv, CountInv, CountOK
  <2> QED BY <2>1, <1>1, <1>2, <1>3, <1>4, <1>5, OneSlotLess
<1>9. Fewer(ops, ops', Live)
  <2>1. p \notin Live /\ Live \subseteq Addr
    BY <1>1, DoomedFacts DEF Live
  <2>2. \A a \in Live : ops'[a] = ops[a]
    BY <2>1, <1>4 DEF Detaches
  <2>3. ASSUME NEW a \in Addr, ops[a] = <<>> PROVE ops'[a] = <<>>
    <3>1. a # p
      BY <2>3, <1>2
    <3> QED BY <3>1, <2>3, <1>4 DEF Detaches
  <2>4. ASSUME NEW q \in Addr, NEW j \in DOMAIN ops'[q], ops'[q][j] \in Addr
        PROVE  j \in DOMAIN ops[q] /\ ops[q][j] = ops'[q][j]
    BY <2>4, <1>4, AddrFacts DEF Detaches
  <2> QED BY <2>2, <2>3, <2>4, <1>4 DEF Fewer, Detaches
<1>10. Advances(top, Advanced)
  <2>1. Advanced = [top EXCEPT !.i = @ + 1]
    BY DEF Advanced
  <2>2. top \in Frames
    BY <1>1
  <2> QED BY ONLY <2>1, <2>2, AdvancesFrame
<1> QED BY <1>1, <1>4, <1>6, <1>7, <1>8, <1>9, <1>10 DEF p, i

(* An operand that others use too is given up. *)
LEMMA InvKeepStep ==
  ASSUME Inv, stack # <<>>, top.op # "sweep", top.i \in DOMAIN ops[top.last], DetachOperand,
         rc[child] # 1, rc' = [rc EXCEPT ![child] = @ - 1], stack' = SetTop(Advanced),
         UNCHANGED <<expr, hash, next, table, client, creation>>
  PROVE  Inv'
<1>1. handles' = handles /\ UNCHANGED <<expr, hash, next, table, creation>>
  BY DEF client
<1>2. /\ child \in Live /\ Detaches(ops, ops', top.last, top.i) /\ Advances(top, Advanced)
      /\ OneLess(handles, handles', ops, ops', child) /\ Fewer(ops, ops', Live)
      /\ handles' \in [Addr -> Nat] /\ ops \in Operands
  BY <1>1, DetachStep
<1>3. pending.op = "none" /\ IsTop(stack, top) /\ Links(next, Addr) /\ ListsEnd(next)
      /\ StackOK(stack, next, ops, Allocated) /\ Doomed = DoomedBy(stack, next)
  BY TopFacts, DoomedFacts DEF Inv, TypeInv, TableInv, StackInv
<1>4. top.op # "sweep" /\ top.i \in DOMAIN ops[top.last]
  OBVIOUS
<1>5. stack' = SetLast(stack, Advanced)
  BY DEF SetTop, SetLast
<1>6. /\ stack' \in Seq(Frames) /\ StackOK(stack', next, ops', Allocated)
      /\ DoomedBy(stack', next) = Doomed
  BY ONLY <1>2, <1>3, <1>4, <1>5, AdvanceStack
<1> QED BY <1>1, <1>2, <1>3, <1>6, KeepParts

(* An atom or a member goes with its last reference: a delete begins. *)
LEMMA InvDeleteStep ==
  ASSUME Inv, stack # <<>>, top.op # "sweep", top.i \in DOMAIN ops[top.last], DetachOperand,
         rc[child] = 1, rc' \in [Addr -> Nat], \A a \in Addr \ {child} : rc'[a] = rc[a],
         next' = NextWithout(child), buckets' = TableWithout(child), entries' = entries - 1,
         NEW op \in {"delete", "scan"}, stack' = Append(SetTop(Advanced), Frame(op, child)),
         UNCHANGED <<expr, hash, bucketCount, client, creation>>
  PROVE  Inv'
<1>1. handles' = handles /\ UNCHANGED <<expr, hash, bucketCount, creation>>
  BY DEF client
<1>2. /\ child \in Stored /\ Detaches(ops, ops', top.last, top.i) /\ Advances(top, Advanced)
      /\ OneLess(handles, handles', ops, ops', child) /\ Fewer(ops, ops', Live)
      /\ handles' \in [Addr -> Nat] /\ ops \in Operands
  BY <1>1, DetachStep
<1>3. pending.op = "none" /\ IsTop(stack, top)
  BY TopFacts
<1>4. /\ Links(next', Addr) /\ ListsEnd(next') /\ next'[child] = Nil
      /\ buckets' \in [0 .. bucketCount - 1 -> Addr \cup {Nil}]
      /\ TableOK(buckets', bucketCount, hash, next', Stored \ {child})
      /\ FreeOK(expr, ops, next')
      /\ StackOK(stack, next', ops, Allocated) /\ DoomedBy(stack, next') = Doomed
  BY <1>2, <1>3, RemoveFacts
<1>5. top.op # "sweep" /\ top.i \in DOMAIN ops[top.last]
  OBVIOUS
<1>a. /\ SetLast(stack, Advanced) \in Seq(Frames)
      /\ StackOK(SetLast(stack, Advanced), next', ops', Allocated)
      /\ DoomedBy(SetLast(stack, Advanced), next') = Doomed
  <2>1. Links(next', Addr) /\ ListsEnd(next') /\ ops \in Operands
        /\ StackOK(stack, next', ops, Allocated) /\ IsTop(stack, top)
        /\ Detaches(ops, ops', top.last, top.i) /\ Advances(top, Advanced)
    BY <1>2, <1>3, <1>4
  <2>2. DoomedBy(stack, next') = Doomed
    BY <1>4
  <2>3. SetLast(stack, Advanced) \in Seq(Frames)
    BY ONLY <2>1, <1>5, AdvanceStack
  <2>4. StackOK(SetLast(stack, Advanced), next', ops', Allocated)
    BY ONLY <2>1, <1>5, AdvanceStack
  <2>5. DoomedBy(SetLast(stack, Advanced), next') = DoomedBy(stack, next')
    BY ONLY <2>1, <2>4, <1>5, AdvanceStack
  <2> QED BY <2>2, <2>3, <2>4, <2>5
<1> DEFINE st == SetLast(stack, Advanced)
           c == child
<1>6. st \in Seq(Frames) /\ StackOK(st, next', ops', Allocated) /\ DoomedBy(st, next') = Doomed
  BY <1>a
<1>7. stack' = Append(st, Frame(op, c))
  BY DEF SetTop, SetLast
<1>8. /\ c \in Addr /\ c \in Allocated /\ c \notin Doomed /\ Whole(ops'[c])
      /\ ops' \in Operands /\ next'[c] = Nil
  <2>1. c \in Live
    BY <1>2 DEF Stored
  <2>2. ops'[c] = ops[c] /\ ops' \in Operands
    BY <2>1, <1>2 DEF Fewer
  <2> QED BY <2>1, <2>2, <1>4 DEF Live, Allocated, Inv, KeyInv, KeysOK
<1>9. op \in {"delete", "scan"}
  OBVIOUS
<1>10. Links(next', Addr)
  BY <1>4
<1> HIDE DEF st, c
<1>11. /\ stack' \in Seq(Frames) /\ StackOK(stack', next', ops', Allocated)
       /\ DoomedBy(stack', next') = Doomed \cup {c}
  BY ONLY <1>6, <1>7, <1>8, <1>9, <1>10, StackPush
<1>12. /\ stack' \in Seq(Frames) /\ StackOK(stack', next', ops', Allocated)
       /\ DoomedBy(stack', next') = Doomed \cup {child} /\ rc[child] = 1
  BY <1>11 DEF c
<1> QED BY <1>1, <1>2, <1>3, <1>4, <1>12, LastParts

(* destroy(): an operand that others use too. *)
LEMMA InvKeepOperand ==
  ASSUME Inv, KeepOperand
  PROVE  Inv'
<1>1. stack # <<>> /\ top.op # "sweep" /\ top.i \in DOMAIN ops[top.last] /\ DetachOperand
  BY DEF KeepOperand, Scanning, Running, top
<1>2. /\ rc[child] # 1 /\ rc' = [rc EXCEPT ![child] = @ - 1] /\ stack' = SetTop(Advanced)
      /\ UNCHANGED <<expr, hash, next, table, client, creation>>
  BY DEF KeepOperand
<1> QED BY ONLY Inv, <1>1, <1>2, InvKeepStep

(* destroy(): an atom nobody else uses, deleted at once. *)
LEMMA InvDropLeaf ==
  ASSUME Inv, DropLeaf
  PROVE  Inv'
<1>1. stack # <<>> /\ top.op # "sweep" /\ top.i \in DOMAIN ops[top.last] /\ DetachOperand
  BY DEF DropLeaf, Scanning, Running, top
<1>2. /\ rc[child] = 1 /\ rc' = rc /\ next' = NextWithout(child)
      /\ buckets' = TableWithout(child) /\ entries' = entries - 1
      /\ stack' = Append(SetTop(Advanced), Frame("delete", child))
      /\ UNCHANGED <<expr, hash, bucketCount, client, creation>>
  BY DEF DropLeaf
<1>3. rc' \in [Addr -> Nat] /\ \A a \in Addr \ {child} : rc'[a] = rc[a]
  BY <1>2 DEF Inv, TypeInv
<1> QED BY ONLY Inv, <1>1, <1>2, <1>3, InvDeleteStep

(* The members of an array literal are released one by one. *)
LEMMA InvDeleteMember ==
  ASSUME Inv, DeleteMember
  PROVE  Inv'
<1>1. stack # <<>> /\ top.op # "sweep" /\ top.i \in DOMAIN ops[top.last] /\ DetachOperand
  BY DEF DeleteMember, Running, top
<1>2. /\ ReleaseRef(child, SetTop(Advanced)) /\ rc' = [rc EXCEPT ![child] = @ - 1]
      /\ UNCHANGED <<expr, hash, bucketCount, client, creation>>
  BY DEF DeleteMember, child, ReleaseRef
<1>3. /\ child \in Live /\ rc[child] \in Nat /\ rc[child] > 0 /\ rc \in [Addr -> Nat]
      /\ rc[child] = 1 => child \in Stored
  BY <1>1, <1>2, DetachStep DEF client
<1>4. CASE rc[child] > 1
  <2>1. /\ rc[child] # 1 /\ stack' = SetTop(Advanced)
        /\ UNCHANGED <<expr, hash, next, table, client, creation>>
    BY <1>2, <1>3, <1>4 DEF ReleaseRef, table
  <2> QED BY ONLY Inv, <1>1, <1>2, <2>1, InvKeepStep
<1>5. CASE rc[child] = 1
  <2> DEFINE op == IF IsNonNullary(expr[child]) THEN "scan" ELSE "delete"
  <2>1. child # True
    BY <1>3, <1>5 DEF Stored
  <2>2. /\ next' = NextWithout(child) /\ buckets' = TableWithout(child)
        /\ entries' = entries - 1 /\ stack' = Append(SetTop(Advanced), Frame(op, child))
    BY <1>2, <1>5, <2>1 DEF ReleaseRef
  <2>3. op \in {"delete", "scan"}
    OBVIOUS
  <2> HIDE DEF op
  <2>4. rc' \in [Addr -> Nat] /\ \A a \in Addr \ {child} : rc'[a] = rc[a]
    BY <1>2, <1>3, <1>5, DoomedFacts
  <2> QED BY ONLY Inv, <1>1, <1>2, <1>5, <2>2, <2>3, <2>4, InvDeleteStep
<1> QED BY <1>3, <1>4, <1>5

(* The innermost activation puts an expression at the end of its list. *)
Extends(f, g, c) ==
  /\ g \in Frames /\ g.root = f.root /\ g.tail = c /\ g.op = f.op /\ g.last = f.last
  /\ g.i = f.i
Grows(nx, ny, t, c) ==
  /\ Links(ny, Addr) /\ ny[t] = c /\ \A q \in Addr \ {t} : ny[q] = nx[q]

(* The innermost activation puts an expression at the end of its list. *)
LEMMA ExtendsFrame ==
  ASSUME NEW f \in Frames, NEW c \in Addr
  PROVE  Extends(f, [f EXCEPT !.tail = c], c)
BY DEF Extends, Frames

Grown(st, s2, nx, ny, oo, al, t, c) ==
  /\ s2 \in Seq(Frames) /\ StackOK(s2, ny, oo, al)
  /\ DoomedBy(s2, ny) = DoomedBy(st, nx) \cup {c}
  /\ ListsEnd(ny) /\ t \in DoomedBy(st, nx)
  /\ \A p \in Addr \cup {Nil} : t \notin ListFrom(nx, p) => ListFrom(ny, p) = ListFrom(nx, p)

(* Extending the innermost list keeps the activations in order and their   *)
(* lists apart.                                                            *)
LEMMA GrowStack ==
  ASSUME NEW nx, Links(nx, Addr), ListsEnd(nx), NEW oo, NEW al,
         NEW st, StackOK(st, nx, oo, al), NEW f, IsTop(st, f), f.op = "scan",
         NEW c, c \in Addr, c \in al, c \notin DoomedBy(st, nx), nx[c] = Nil, Whole(oo[c]),
         NEW ny, Grows(nx, ny, f.tail, c), NEW g, Extends(f, g, c)
  PROVE  Grown(st, SetLast(st, g), nx, ny, oo, al, f.tail, c)
<1>0. /\ Links(nx, Addr) /\ ListsEnd(nx) /\ StackOK(st, nx, oo, al) /\ f.op = "scan"
      /\ c \in Addr /\ c \in al /\ nx[c] = Nil /\ Whole(oo[c])
  OBVIOUS
<1>1. /\ st \in Seq(Frames) /\ st # <<>> /\ st[Len(st)] = f
      /\ Len(st) \in DOMAIN st /\ f \in Frames
  BY SeqFront DEF IsTop
<1>2. g \in Frames /\ g.root = f.root /\ g.tail = c /\ g.op = f.op /\ g.last = f.last
      /\ g.i = f.i
  BY DEF Extends
<1>3. Links(ny, Addr) /\ ny[f.tail] = c /\ \A q \in Addr \ {f.tail} : ny[q] = nx[q]
  BY DEF Grows
<1>4. FrameOK(f, nx, oo, al)
  BY <1>1 DEF StackOK
<1>5. DoomedBelow(st, nx) = DoomedBy(st, nx) \ ListFrom(nx, f.root)
  BY <1>1 DEF DoomedBelow
<1>6. f.tail \in ListFrom(nx, f.root)
  BY <1>4 DEF FrameOK
<1>7. DoomedBy(st, nx) \subseteq al /\ DoomedBy(st, nx) \subseteq Addr
      /\ ListFrom(nx, f.root) \subseteq DoomedBy(st, nx)
  <2>1. \A k \in DOMAIN st : st[k] \in Frames
    BY <1>1
  <2>2. \A h \in Frames : h.root \in Addr
    BY DEF Frames
  <2>3. \A k \in DOMAIN st : ListFrom(nx, st[k].root) \subseteq Addr
    BY <2>1, <2>2, ListClosed
  <2> QED BY <2>3, <1>1, <1>4 DEF StackOK, FrameOK, DoomedBy
<1>8. c \notin ListFrom(nx, f.root)
  BY <1>7
<1>9. /\ ListsEnd(ny) /\ FrameOK(g, ny, oo, al)
      /\ ListFrom(ny, f.root) = ListFrom(nx, f.root) \cup {c}
      /\ \A p \in Addr \cup {Nil} : f.tail \notin ListFrom(nx, p) => ListFrom(ny, p) = ListFrom(nx, p)
  BY ONLY <1>0, <1>1, <1>2, <1>3, <1>4, <1>8, FrameGrow
<1>10. Untouched(DoomedBelow(st, nx), nx, ny, oo, oo, al)
  BY <1>3, <1>5, <1>6, <1>7 DEF Untouched
<1>11. DoomedBelow(st, nx) \cap ListFrom(ny, g.root) = {}
  BY <1>2, <1>5, <1>9
<1>12. /\ SetLast(st, g) \in Seq(Frames)
       /\ StackOK(SetLast(st, g), ny, oo, al)
       /\ DoomedBy(SetLast(st, g), ny) = DoomedBelow(st, nx) \cup ListFrom(ny, g.root)
  BY ONLY <1>0, <1>1, <1>2, <1>3, <1>9, <1>10, <1>11, StackSet
<1> QED BY <1>2, <1>5, <1>6, <1>7, <1>9, <1>12 DEF Grown

(* Two updates of the innermost activation, one after the other. *)
LEMMA SetTwice ==
  ASSUME NEW st \in Seq(Frames), st # <<>>, NEW f \in Frames, NEW g \in Frames
  PROVE  SetLast(SetLast(st, f), g) = SetLast(st, g) /\ IsTop(SetLast(st, f), f)
<1> DEFINE n == Len(st)
           s1 == [st EXCEPT ![n] = f]
<1>1. /\ n \in DOMAIN st /\ n > 0 /\ Len(s1) = n /\ s1 \in Seq(Frames)
      /\ DOMAIN s1 = DOMAIN st /\ s1[n] = f /\ \A k \in DOMAIN st : k # n => s1[k] = st[k]
  BY SeqSetLast
<1>2. s1 # <<>>
  BY <1>1
<1>3. [s1 EXCEPT ![n] = g] = [st EXCEPT ![n] = g]
  OBVIOUS
<1> HIDE DEF s1, n
<1>4. IsTop(s1, f) /\ [s1 EXCEPT ![Len(s1)] = g] = [st EXCEPT ![n] = g]
  BY <1>1, <1>2, <1>3 DEF IsTop
<1>5. s1 = SetLast(st, f) /\ SetLast(s1, g) = [s1 EXCEPT ![Len(s1)] = g]
      /\ SetLast(st, g) = [st EXCEPT ![n] = g]
  BY DEF SetLast, s1, n
<1> QED BY <1>4, <1>5

(* An operand with operands goes with its last reference: its taking apart *)
(* is put off.                                                             *)
LEMMA InvDropSubtree ==
  ASSUME Inv, DropSubtree
  PROVE  Inv'
<1>1. /\ stack # <<>> /\ top.op = "scan" /\ top.op # "sweep"
      /\ top.i \in DOMAIN ops[top.last] /\ DetachOperand
  BY DEF DropSubtree, Scanning, Running, top
<1>2. /\ rc[child] = 1 /\ rc' = rc /\ next' = [NextWithout(child) EXCEPT ![top.tail] = child]
      /\ buckets' = TableWithout(child) /\ entries' = entries - 1
      /\ stack' = SetTop([Advanced EXCEPT !.tail = child])
      /\ handles' = handles /\ UNCHANGED <<expr, hash, bucketCount, creation>>
  BY DEF DropSubtree, client
<1>3. /\ child \in Stored /\ handles[True] # 0
      /\ Detaches(ops, ops', top.last, top.i) /\ Advances(top, Advanced)
      /\ OneLess(handles, handles', ops, ops', child) /\ Fewer(ops, ops', Live)
      /\ handles' \in [Addr -> Nat] /\ ops \in Operands /\ rc \in [Addr -> Nat]
  BY <1>1, <1>2, DetachStep
<1>4. pending.op = "none" /\ IsTop(stack, top) /\ top \in Frames /\ stack \in Seq(Frames)
  BY <1>1, TopFacts DEF Inv, TypeInv
<1> DEFINE nx == NextWithout(child)
           c == child
           t == top.tail
           f == Advanced
           g == [f EXCEPT !.tail = c]
<1>5. /\ Links(nx, Addr) /\ ListsEnd(nx) /\ nx[c] = Nil
      /\ buckets' \in [0 .. bucketCount - 1 -> Addr \cup {Nil}]
      /\ TableOK(buckets', bucketCount, hash, nx, Stored \ {c})
      /\ FreeOK(expr, ops, nx)
      /\ StackOK(stack, nx, ops, Allocated) /\ DoomedBy(stack, nx) = Doomed
  BY <1>2, <1>3, <1>4, RemoveFacts
<1>6. f \in Frames /\ f.tail = t /\ f.op = "scan" /\ t \in Addr
  BY <1>1, <1>3, <1>4 DEF Advances, Frames
<1>7. c \in Addr /\ c \in Allocated /\ c \notin Doomed /\ Whole(ops'[c])
  <2>1. c \in Live
    BY <1>3 DEF Stored
  <2>2. ops'[c] = ops[c]
    BY <2>1, <1>3 DEF Fewer
  <2> QED BY <2>1, <2>2 DEF Live, Allocated, Inv, KeyInv, KeysOK
<1>8. Extends(f, g, c) /\ g \in Frames
  <2> HIDE DEF f, c
  <2>1. Extends(f, g, c)
    BY <1>6, <1>7, ExtendsFrame
  <2> QED BY <2>1 DEF Extends
<1>9. next' = [nx EXCEPT ![t] = c] /\ stack' = SetLast(stack, g)
  BY <1>2 DEF SetTop, SetLast
<1> HIDE DEF nx, c, t, f, g
<1>10. Grows(nx, next', f.tail, c)
  BY <1>5, <1>6, <1>7, <1>9 DEF Grows, Links
<1>11. /\ SetLast(stack, f) \in Seq(Frames)
       /\ StackOK(SetLast(stack, f), nx, ops', Allocated)
       /\ DoomedBy(SetLast(stack, f), nx) = Doomed
  <2>1. Links(nx, Addr) /\ ListsEnd(nx) /\ ops \in Operands
        /\ StackOK(stack, nx, ops, Allocated) /\ IsTop(stack, top)
        /\ Detaches(ops, ops', top.last, top.i) /\ Advances(top, f)
    BY <1>3, <1>4, <1>5 DEF f
  <2>2. DoomedBy(stack, nx) = Doomed
    BY <1>5
  <2>3. SetLast(stack, f) \in Seq(Frames)
    BY ONLY <2>1, <1>1, AdvanceStack
  <2>4. StackOK(SetLast(stack, f), nx, ops', Allocated)
    BY ONLY <2>1, <1>1, AdvanceStack
  <2>5. DoomedBy(SetLast(stack, f), nx) = DoomedBy(stack, nx)
    BY ONLY <2>1, <2>4, <1>1, AdvanceStack
  <2> QED BY <2>2, <2>3, <2>4, <2>5
<1>12. SetLast(SetLast(stack, f), g) = SetLast(stack, g) /\ IsTop(SetLast(stack, f), f)
  BY ONLY <1>1, <1>4, <1>6, <1>8, SetTwice
<1> DEFINE st == SetLast(stack, f)
<1>13. /\ IsTop(st, f) /\ StackOK(st, nx, ops', Allocated) /\ DoomedBy(st, nx) = Doomed
       /\ SetLast(st, g) = stack' /\ c \notin DoomedBy(st, nx)
  BY <1>7, <1>9, <1>11, <1>12
<1> HIDE DEF st
<1>14. /\ SetLast(st, g) \in Seq(Frames)
       /\ StackOK(SetLast(st, g), next', ops', Allocated)
       /\ DoomedBy(SetLast(st, g), next') = DoomedBy(st, nx) \cup {c}
       /\ ListsEnd(next') /\ f.tail \in DoomedBy(st, nx)
       /\ \A p \in Addr \cup {Nil} :
            f.tail \notin ListFrom(nx, p) => ListFrom(next', p) = ListFrom(nx, p)
  <2>1. /\ Links(nx, Addr) /\ ListsEnd(nx) /\ StackOK(st, nx, ops', Allocated) /\ IsTop(st, f)
        /\ f.op = "scan" /\ c \in Addr /\ c \in Allocated /\ c \notin DoomedBy(st, nx)
        /\ nx[c] = Nil /\ Whole(ops'[c]) /\ Grows(nx, next', f.tail, c) /\ Extends(f, g, c)
    BY <1>5, <1>6, <1>7, <1>8, <1>10, <1>13
  <2>2. Grown(st, SetLast(st, g), nx, next', ops', Allocated, f.tail, c)
    BY ONLY <2>1, GrowStack
  <2> QED BY <2>2 DEF Grown
<1>15. Links(next', Addr)
  BY <1>10 DEF Grows
<1>16. t \in Doomed /\ t # True /\ t \in Allocated
  <2>1. t \in Doomed
    BY <1>6, <1>13, <1>14
  <2>2. True \in Live
    BY <1>3, <1>4, AddrFacts, ReleaseFacts DEF Inv, TypeInv
  <2> QED BY <2>1, <2>2, DoomedFacts DEF Live
<1>17. FreeOK(expr, ops, next')
  BY <1>5, <1>9, <1>16, AddrFacts DEF FreeOK, Links, Allocated
<1>18. TableOK(buckets', bucketCount, hash, next', Stored \ {c})
  <2>1. ASSUME NEW b \in 0 .. bucketCount - 1
        PROVE  ListFrom(next', buckets'[b]) = {a \in Stored \ {c} : Slot(hash[a], bucketCount) = b}
    <3>1. ListFrom(nx, buckets'[b]) = {a \in Stored \ {c} : Slot(hash[a], bucketCount) = b}
      BY <1>5 DEF TableOK
    <3>2. t \notin ListFrom(nx, buckets'[b])
      BY <3>1, <1>16 DEF Stored, Live
    <3>3. buckets'[b] \in Addr \cup {Nil}
      BY <1>5
    <3> QED BY <3>1, <3>2, <3>3, <1>6, <1>14
  <2> QED BY <2>1 DEF TableOK
<1>19. /\ stack' \in Seq(Frames) /\ StackOK(stack', next', ops', Allocated)
       /\ DoomedBy(stack', next') = Doomed \cup {child}
  BY <1>13, <1>14 DEF c
<1>20. /\ TableOK(buckets', bucketCount, hash, next', Stored \ {child}) /\ rc[child] = 1
       /\ rc' \in [Addr -> Nat] /\ \A a \in Addr \ {child} : rc'[a] = rc[a]
  BY <1>2, <1>3, <1>18 DEF c
<1>21. ListsEnd(next') /\ buckets' \in [0 .. bucketCount - 1 -> Addr \cup {Nil}]
       /\ entries' = entries - 1 /\ (handles'[True] = 0 => handles[True] = 0)
  BY <1>2, <1>5, <1>14
<1> QED BY <1>2, <1>3, <1>4, <1>15, <1>17, <1>19, <1>20, <1>21, LastParts

-----------------------------------------------------------------------------
(* Nothing outlives the references to it: when clients hold nothing but    *)
(* the context, TrueLit is the only object.                                *)
LEMMA NobodyHeld ==
  ASSUME Inv, stack = <<>>, \A a \in Places : handles[a] = 0
  PROVE  /\ Allocated \subseteq {True}
         /\ \A a \in Addr : RefsIn(ops, a) = {}
<1> DEFINE U == Allocated \ {True}
<1>1. \A p \in Addr : \A j \in DOMAIN ops[p] : p \in U
  BY DEF Inv, FreeInv, FreeOK, Allocated
<1>2. Live = Allocated /\ Allocated \subseteq Addr
  BY DoomedFacts DEF Live
<1>3. ASSUME NEW a \in U PROVE \E p \in U : \E j \in DOMAIN ops[p] : ops[p][j] = a
  <2>1. a \in Live /\ a \in Places /\ a \in Addr
    BY <1>2 DEF Addr
  <2>2. rc[a] > 0 /\ rc[a] = handles[a] + Cardinality(RefsIn(ops, a)) /\ handles[a] = 0
    BY <2>1 DEF Inv, CountInv, CountOK
  <2>3. RefsIn(ops, a) # {}
    <3>1. RefsIn(ops, a) = {} => Cardinality(RefsIn(ops, a)) = 0
      BY FS_EmptySet
    <3> HIDE DEF U
    <3> QED BY <2>2, <3>1
  <2>4. PICK x : x \in RefsIn(ops, a)
    BY <2>3
  <2>5. PICK p \in Addr : \E j \in DOMAIN ops[p] : x = <<p, j>> /\ ops[p][j] = a
    BY <2>4, RefsInMember
  <2>6. p \in U
    BY <2>5, <1>1
  <2> QED BY <2>5, <2>6
<1>4. U \in SUBSET Addr
  BY <1>2
<1> HIDE DEF U
<1>5. U = {}
  BY <1>3, <1>4 DEF Inv, OrderInv, OrderOK
<1>6. ASSUME NEW a \in Addr PROVE RefsIn(ops, a) = {}
  BY <1>1, <1>5, RefsInMember
<1> QED BY <1>5, <1>6 DEF U

(* The context gives up its own reference. *)
LEMMA InvTeardown ==
  ASSUME Inv, Teardown
  PROVE  Inv'
<1>1. /\ pending.op = "none" /\ stack = <<>> /\ handles[True] = 1
      /\ \A a \in Places : handles[a] = 0
      /\ handles' = [handles EXCEPT ![True] = 0]
      /\ ReleaseRef(True, stack)
      /\ UNCHANGED <<expr, ops, hash, bucketCount, creation>>
  BY DEF Teardown, Idle
<1>2. Allocated \subseteq {True} /\ \A a \in Addr : RefsIn(ops, a) = {}
  BY <1>1, NobodyHeld
<1>3. True \in Live /\ True \in Allocated /\ True \notin Doomed /\ True \in Addr
  BY <1>1, ReleaseFacts, AddrFacts DEF Live
<1>4. Allocated = {True} /\ Live = {True} /\ Stored = {}
  BY <1>2, <1>3 DEF Live, Stored
<1>5. rc[True] = 1
  <2>1. rc[True] = handles[True] + Cardinality(RefsIn(ops, True))
    BY <1>3 DEF Inv, CountInv, CountOK
  <2>2. Cardinality(RefsIn(ops, True)) = 0
    BY <1>2, <1>3, FS_EmptySet
  <2> QED BY <2>1, <2>2, <1>1
<1>6. /\ rc' = [rc EXCEPT ![True] = @ - 1]
      /\ stack' = Append(stack, Frame("delete", True))
      /\ UNCHANGED <<next, buckets, entries>>
  BY <1>1, <1>5 DEF ReleaseRef
<1>7. /\ stack' \in Seq(Frames) /\ StackOK(stack', next, ops, Allocated)
      /\ DoomedBy(stack', next) = DoomedBy(stack, next) \cup {True}
  <2>1. /\ Links(next, Addr) /\ ops \in Operands /\ stack \in Seq(Frames)
        /\ StackOK(stack, next, ops, Allocated) /\ True \in Addr /\ True \in Allocated
        /\ True \notin DoomedBy(stack, next) /\ next[True] = Nil /\ Whole(ops[True])
    BY <1>3, DoomedFacts DEF Inv, TypeInv, StackInv, FreeInv, FreeOK, KeyInv, KeysOK
  <2>2. "delete" \in {"delete", "scan"}
    OBVIOUS
  <2> QED BY ONLY <2>1, <2>2, <1>6, StackPush
<1>8. Allocated' = {True} /\ Doomed' = {True} /\ Live' = {} /\ Stored' = {}
  <2>1. Allocated' = Allocated
    BY <1>1 DEF Allocated
  <2>2. Doomed' = DoomedBy(stack', next')
    BY DEF Doomed, DoomedBy, Chain
  <2>3. Doomed' = {True}
    BY <2>2, <1>1, <1>6, <1>7, DoomedFacts
  <2> QED BY <2>1, <2>3, <1>4 DEF Live, Stored
<1>9. TypeInv'
  <2>1. handles' \in [Addr -> Nat]
    BY <1>1 DEF Inv, TypeInv
  <2>2. rc' \in [Addr -> Nat]
    BY <1>3, <1>5, <1>6 DEF Inv, TypeInv
  <2> QED BY <2>1, <2>2, <1>1, <1>6, <1>7 DEF Inv, TypeInv, creation
<1>10. FreeInv' /\ OrderInv'
  BY <1>1, <1>6 DEF Inv, FreeInv, OrderInv
<1>11. KeyInv'
  BY <1>8 DEF KeyInv, KeysOK
<1>12. CountInv'
  <2>1. \A a \in Addr : handles'[a] = 0
    BY <1>1, <1>3 DEF Addr, Inv, TypeInv
  <2>2. \A a \in Addr : IsFiniteSet(RefsIn(ops', a)) /\ RefsIn(ops', a) = {}
    BY <1>1, <1>2, FS_EmptySet
  <2> QED BY <2>1, <2>2, <1>8 DEF CountInv, CountOK
<1>13. RootInv'
  BY <1>1, <1>4, AddrFacts DEF RootInv, Allocated
<1>14. StackInv'
  BY <1>1, <1>4, <1>6, <1>7, <1>8 DEF StackInv
<1>15. TableInv' /\ EntryInv' /\ RehashInv' /\ PendingInv'
  BY <1>1, <1>4, <1>6, <1>8 DEF Inv, TableInv, EntryInv, RehashInv, PendingInv, creation
<1> QED BY <1>9, <1>10, <1>11, <1>12, <1>13, <1>14, <1>15 DEF Inv

-----------------------------------------------------------------------------
(* A doomed expression without operands is freed. *)
LEMMA FreeParts ==
  ASSUME Inv, stack # <<>>, NEW a, a \in Doomed, Emptied(ops[a]), FreeObject(a),
         UNCHANGED <<table, client, creation>>,
         stack' \in Seq(Frames), StackOK(stack', next', ops', Allocated \ {a}),
         DoomedBy(stack', next') = Doomed \ {a}
  PROVE  Inv'
<1>1. pending.op = "none" /\ a \in Addr /\ a \in Allocated
  BY TopFacts, DoomedFacts
<1>2. /\ expr' = [expr EXCEPT ![a] = NoExpr] /\ ops' = [ops EXCEPT ![a] = <<>>]
      /\ hash' = [hash EXCEPT ![a] = 0] /\ rc' = [rc EXCEPT ![a] = 0]
      /\ next' = [next EXCEPT ![a] = Nil]
      /\ UNCHANGED <<buckets, bucketCount, entries, handles, pending, moving>>
  BY DEF FreeObject, table, client, creation
<1>3. TypeInv'
  <2>1. expr' \in [Addr -> StoredExprs \cup {TrueExpr, NoExpr}]
    BY <1>2 DEF Inv, TypeInv
  <2>3. ops' \in Operands
    <3>1. <<>> \in Seq(Addr \cup {Nil})
      OBVIOUS
    <3>2. ops \in [Addr -> Seq(Addr \cup {Nil})]
      BY DEF Inv, TypeInv, Operands
    <3> QED BY ONLY <3>1, <3>2, <1>2 DEF Operands
  <2>2. hash' \in [Addr -> Nat] /\ rc' \in [Addr -> Nat] /\ Links(next', Addr)
    BY <1>2 DEF Inv, TypeInv, Links
  <2> QED BY <2>1, <2>2, <2>3, <1>2 DEF Inv, TypeInv
<1>4. /\ expr'[a] = NoExpr /\ ops'[a] = <<>> /\ next'[a] = Nil
      /\ \A q \in Addr \ {a} : /\ expr'[q] = expr[q] /\ ops'[q] = ops[q] /\ hash'[q] = hash[q]
                             /\ rc'[q] = rc[q] /\ next'[q] = next[q]
  BY <1>1, <1>2 DEF Inv, TypeInv, Operands, Links
<1>5. Allocated' = Allocated \ {a} /\ Doomed' = Doomed \ {a} /\ Live' = Live /\ Stored' = Stored
  <2>1. Allocated' = Allocated \ {a}
    BY <1>4 DEF Allocated
  <2>2. Doomed' = DoomedBy(stack', next')
    BY DEF Doomed, DoomedBy, Chain
  <2> QED BY <2>1, <2>2 DEF Live, Stored
<1>6. a \notin Live /\ a \notin Stored /\ Live \subseteq Addr /\ Stored \subseteq Addr
  BY DoomedFacts DEF Live, Stored
<1>7. FreeInv'
  <2>1. FreeOK(expr, ops, next) /\ True \in Addr
    BY AddrFacts DEF Inv, FreeInv
  <2>2. FreeOK(expr', ops', next')
    BY <2>1, <1>4 DEF FreeOK
  <2> QED BY <2>2 DEF FreeInv
<1>8. KeyInv'
  <2>1. KeysOK(expr', ops', hash', Live)
    BY <1>4, <1>6 DEF Inv, KeyInv, KeysOK
  <2> QED BY <2>1, <1>5 DEF KeyInv
<1>9. ASSUME NEW x \in Addr PROVE RefsIn(ops', x) = RefsIn(ops, x)
  <2>1. ASSUME NEW q \in Addr, NEW j
        PROVE  (j \in DOMAIN ops'[q] /\ ops'[q][j] = x) <=> (j \in DOMAIN ops[q] /\ ops[q][j] = x)
    <3>1. CASE q = a
      BY <3>1, <1>4, AddrFacts DEF Emptied
    <3>2. CASE q # a
      BY <3>2, <1>4
    <3> QED BY <3>1, <3>2
  <2>2. \A y : y \in RefsIn(ops', x) <=> y \in RefsIn(ops, x)
    BY <2>1, RefsInMember
  <2> QED BY <2>2
<1>10. CountInv'
  <2>1. CountOK(rc', handles', ops', Live)
    BY <1>2, <1>4, <1>6, <1>9 DEF Inv, CountInv, CountOK
  <2> QED BY <2>1, <1>5 DEF CountInv
<1>11. OrderInv'
  <2>1. \A p \in Addr : \A j \in DOMAIN ops'[p] :
          ops'[p][j] \in Addr => j \in DOMAIN ops[p] /\ ops[p][j] = ops'[p][j]
    BY <1>4
  <2> QED BY <2>1, OrderFewer DEF Inv, OrderInv
<1>12. RootInv'
  BY <1>2, <1>4 DEF Inv, RootInv, Addr
<1>13. StackInv'
  BY <1>5 DEF StackInv
<1>14. TableInv'
  <2>1. Links(next, Addr) /\ Links(next', Addr) /\ ListsEnd(next)
    BY <1>3 DEF Inv, TypeInv, TableInv
  <2>2. ListsEnd(next')
    BY <2>1, <1>1, <1>4, ListCut
  <2>3. TableOK(buckets, bucketCount, hash, next, Stored)
        /\ buckets \in [0 .. bucketCount - 1 -> Addr \cup {Nil}]
    BY <1>1 DEF Inv, TableInv, TypeInv
  <2>4. ASSUME NEW b \in 0 .. bucketCount - 1
        PROVE  ListFrom(next', buckets[b]) = {x \in Stored : Slot(hash'[x], bucketCount) = b}
    <3>1. ListFrom(next, buckets[b]) = {x \in Stored : Slot(hash[x], bucketCount) = b}
      BY <2>3 DEF TableOK
    <3>2. \A q \in ListFrom(next, buckets[b]) : next'[q] = next[q]
      BY <3>1, <1>4, <1>6
    <3>3. buckets[b] \in Addr \cup {Nil}
      BY <2>3
    <3>4. ListFrom(next', buckets[b]) = ListFrom(next, buckets[b])
      BY <2>1, <3>2, <3>3, ListSame
    <3>5. \A x \in Stored : hash'[x] = hash[x]
      BY <1>4, <1>6
    <3> QED BY <3>1, <3>4, <3>5
  <2>5. TableOK(buckets', bucketCount', hash', next', Stored)
    BY <2>4, <1>2 DEF TableOK
  <2> QED BY <2>2, <2>5, <1>5 DEF TableInv
<1>15. EntryInv' /\ RehashInv' /\ PendingInv'
  BY <1>1, <1>2, <1>5 DEF Inv, EntryInv, RehashInv, PendingInv
<1> QED BY <1>3, <1>7, <1>8, <1>10, <1>11, <1>12, <1>13, <1>14, <1>15 DEF Inv

(* The innermost activation frees the last expression of its list and      *)
(* returns.                                                                *)
LEMMA PopFree ==
  ASSUME Inv, stack # <<>>, next[top.root] = Nil, Emptied(ops[top.root]), FreeObject(top.root),
         stack' = Return, UNCHANGED <<table, client, creation>>
  PROVE  Inv'
<1> DEFINE a == top.root
<1>1. /\ DoomedBelow(stack, next) = Doomed \ ListFrom(next, a) /\ a \in Doomed /\ a \in Addr
      /\ Links(next, Addr) /\ stack \in Seq(Frames) /\ StackOK(stack, next, ops, Allocated)
  BY TopFacts, DoomedFacts DEF Inv, TypeInv, StackInv
<1>2. ListFrom(next, a) = {a}
  BY <1>1, ListUnfold, ListNil
<1>3. /\ ops' = [ops EXCEPT ![a] = <<>>] /\ next' = [next EXCEPT ![a] = Nil]
  BY DEF FreeObject
<1>4. Links(next', Addr) /\ \A q \in Addr \ {a} : next'[q] = next[q] /\ ops'[q] = ops[q]
  BY <1>3 DEF Inv, TypeInv, Links, Operands
<1> HIDE DEF a
<1>5. Untouched(DoomedBelow(stack, next), next, next', ops, ops', Allocated \ {a})
  BY <1>1, <1>2, <1>4, DoomedFacts DEF Untouched
<1>6. stack # <<>> /\ stack' = Popped(stack)
  BY DEF Return, Popped
<1>7. /\ stack' \in Seq(Frames) /\ StackOK(stack', next', ops', Allocated \ {a})
      /\ DoomedBy(stack', next') = DoomedBelow(stack, next)
  <2> DEFINE al2 == Allocated \ {a}
  <2>1. /\ Links(next, Addr) /\ Links(next', Addr) /\ stack \in Seq(Frames) /\ stack # <<>>
        /\ StackOK(stack, next, ops, Allocated)
        /\ Untouched(DoomedBelow(stack, next), next, next', ops, ops', al2)
    BY <1>1, <1>4, <1>5, <1>6
  <2> HIDE DEF al2
  <2>2. StackOK(Popped(stack), next', ops', al2)
    BY ONLY <2>1, StackPop
  <2>3. Popped(stack) \in Seq(Frames) /\ DoomedBy(Popped(stack), next') = DoomedBelow(stack, next)
    BY ONLY <2>1, <2>2, StackPop
  <2> QED BY <2>2, <2>3, <1>6 DEF al2
<1>8. DoomedBy(stack', next') = Doomed \ {a}
  BY <1>1, <1>2, <1>7
<1>9. Emptied(ops[a]) /\ FreeObject(a)
  BY DEF a
<1> QED BY <1>1, <1>7, <1>8, <1>9, FreeParts

(* The end of a delete. *)
LEMMA InvFreeLeaf ==
  ASSUME Inv, FreeLeaf
  PROVE  Inv'
<1>1. /\ stack # <<>> /\ top.op = "delete" /\ top.i \notin DOMAIN ops[top.last]
      /\ FreeObject(top.root) /\ stack' = Return /\ UNCHANGED <<table, client, creation>>
  BY DEF FreeLeaf, Running, top
<1>2. /\ FrameOK(top, next, ops, Allocated) /\ top \in Frames /\ Links(next, Addr)
      /\ ops \in Operands /\ top.root \in ListFrom(next, top.root)
  BY <1>1, TopFacts DEF Inv, TypeInv
<1>3. top.last = top.root /\ next[top.root] = Nil
  BY <1>1, <1>2 DEF FrameOK
<1>4. \A a \in ListFrom(next, top.root) : Emptied(ops[a])
  BY <1>1, <1>2, <1>3, FrameScanned
<1> QED BY <1>1, <1>2, <1>3, <1>4, PopFree

(* The second loop of destroy(). *)
LEMMA InvSweep ==
  ASSUME Inv, Sweep
  PROVE  Inv'
<1>1. /\ stack # <<>> /\ top.op = "sweep" /\ FreeObject(top.root)
      /\ stack' = (IF next[top.root] = Nil THEN Return ELSE SetTop([top EXCEPT !.root = next[top.root]]))
      /\ UNCHANGED <<table, client, creation>>
  BY DEF Sweep, Running, top
<1>2. /\ FrameOK(top, next, ops, Allocated) /\ top \in Frames /\ Links(next, Addr)
      /\ ops \in Operands /\ top.root \in ListFrom(next, top.root) /\ IsTop(stack, top)
      /\ DoomedBelow(stack, next) = Doomed \ ListFrom(next, top.root)
      /\ ListFrom(next, top.root) \subseteq Doomed /\ ListsEnd(next)
      /\ stack \in Seq(Frames) /\ StackOK(stack, next, ops, Allocated)
  BY <1>1, TopFacts DEF Inv, TypeInv, TableInv, StackInv
<1>3. Emptied(ops[top.root]) /\ top.root \in Doomed /\ top.root \in Addr
  BY <1>1, <1>2 DEF FrameOK, Frames
<1>4. CASE next[top.root] = Nil
  BY <1>1, <1>3, <1>4, PopFree
<1>5. CASE next[top.root] # Nil
  <2> DEFINE a == top.root
             g == [top EXCEPT !.root = next[a]]
  <2>1. stack' = SetLast(stack, g)
    BY <1>1, <1>5 DEF SetTop, SetLast
  <2>2. ops' = [ops EXCEPT ![a] = <<>>] /\ next' = [next EXCEPT ![a] = Nil]
    BY <1>1 DEF FreeObject
  <2>3. Links(next', Addr) /\ \A q \in Addr \ {a} : next'[q] = next[q] /\ ops'[q] = ops[q]
    BY <1>2, <2>2 DEF Links, Operands
  <2>4. g \in Frames /\ g.root = next[a] /\ g.op = top.op
    <3>1. next[a] \in Addr
      BY <1>2, <1>3, <1>5 DEF Links
    <3> QED BY <3>1, <1>2 DEF Frames
  <2> HIDE DEF g
  <2>5. /\ FrameOK(g, next', ops', Allocated \ {a})
        /\ ListFrom(next', g.root) = ListFrom(next, a) \ {a}
    <3> DEFINE al2 == Allocated \ {a}
    <3>1. FreesOne(next, next', ops, ops', Allocated, al2, top.root)
      BY <2>3 DEF FreesOne
    <3>2. /\ Links(next, Addr) /\ ListsEnd(next) /\ top \in Frames /\ top.op = "sweep"
          /\ FrameOK(top, next, ops, Allocated) /\ next[top.root] # Nil
      BY <1>1, <1>2, <1>5
    <3> HIDE DEF al2
    <3>5. FrameOK(g, next', ops', al2)
      BY ONLY <2>4, <3>1, <3>2, FrameSwept
    <3>6. ListFrom(next', g.root) = ListFrom(next, a) \ {a}
      BY ONLY <2>4, <3>1, <3>2, <3>5, FrameSwept
    <3> QED BY <3>5, <3>6 DEF al2
  <2>6. Untouched(DoomedBelow(stack, next), next, next', ops, ops', Allocated \ {a})
    BY <1>2, <2>3, DoomedFacts DEF Untouched
  <2>7. DoomedBelow(stack, next) \cap ListFrom(next', g.root) = {}
    BY <1>2, <2>5
  <2> HIDE DEF a
  <2>8. /\ SetLast(stack, g) \in Seq(Frames)
        /\ StackOK(SetLast(stack, g), next', ops', Allocated \ {a})
        /\ DoomedBy(SetLast(stack, g), next') = DoomedBelow(stack, next) \cup ListFrom(next', g.root)
    <3> DEFINE al2 == Allocated \ {a}
    <3>1. /\ Links(next, Addr) /\ Links(next', Addr) /\ stack \in Seq(Frames) /\ stack # <<>>
          /\ StackOK(stack, next, ops, Allocated) /\ g \in Frames
          /\ FrameOK(g, next', ops', al2)
          /\ Untouched(DoomedBelow(stack, next), next, next', ops, ops', al2)
      BY <1>1, <1>2, <2>3, <2>4, <2>5, <2>6
    <3> HIDE DEF al2
    <3>2. StackOK(SetLast(stack, g), next', ops', al2)
      BY ONLY <2>7, <3>1, StackSet
    <3>3. SetLast(stack, g) \in Seq(Frames)
      BY ONLY <2>7, <3>1, <3>2, StackSet
    <3>4. DoomedBy(SetLast(stack, g), next') = DoomedBelow(stack, next) \cup ListFrom(next', g.root)
      BY ONLY <2>7, <3>1, <3>2, StackSet
    <3> QED BY <3>2, <3>3, <3>4 DEF al2
  <2>9. a \in Doomed /\ Emptied(ops[a]) /\ FreeObject(a)
    BY <1>1, <1>3 DEF a
  <2>10. DoomedBy(stack', next') = Doomed \ {a}
    BY <1>2, <2>1, <2>5, <2>8 DEF a
  <2>11. stack' \in Seq(Frames) /\ StackOK(stack', next', ops', Allocated \ {a})
    BY <2>1, <2>8
  <2> QED BY <1>1, <2>9, <2>10, <2>11, FreeParts
<1> QED BY <1>4, <1>5

(* The scan goes on along the list, or ends. *)
GoesOn(f, g, n) ==
  /\ g \in Frames /\ g.root = f.root /\ g.tail = f.tail /\ g.op = f.op /\ g.last = n
  /\ g.i = 1

(* The scan goes on to the next expression of the list or changes to the   *)
(* sweep.                                                                  *)
LEMMA GoesOnFrame ==
  ASSUME NEW f \in Frames, NEW n \in Addr
  PROVE  GoesOn(f, [f EXCEPT !.last = n, !.i = 1], n)
<1> DEFINE h == [f EXCEPT !.last = n]
           g == [h EXCEPT !.i = 1]
<1>1. h \in Frames /\ h.root = f.root /\ h.tail = f.tail /\ h.op = f.op /\ h.last = n
  BY DEF Frames
<1> HIDE DEF h
<1>2. g \in Frames /\ g.root = h.root /\ g.tail = h.tail /\ g.op = h.op /\ g.last = h.last
      /\ g.i = 1
  BY <1>1 DEF Frames
<1> HIDE DEF g
<1>3. GoesOn(f, g, n)
  BY <1>1, <1>2 DEF GoesOn
<1> QED BY <1>3 DEF g, h

(* destroy(): the scan of one expression is done. *)
LEMMA InvNextDoomed ==
  ASSUME Inv, NextDoomed
  PROVE  Inv'
<1>1. /\ stack # <<>> /\ top.op = "scan" /\ top.i \notin DOMAIN ops[top.last]
      /\ UNCHANGED <<objects, table, client, creation>>
  BY DEF NextDoomed, Running, top
<1> DEFINE g == IF next[top.last] # Nil THEN [top EXCEPT !.last = next[top.last], !.i = 1]
                ELSE [top EXCEPT !.op = "sweep"]
<1>2. stack' = SetLast(stack, g)
  BY DEF NextDoomed, SetTop, SetLast
<1>3. /\ FrameOK(top, next, ops, Allocated) /\ top \in Frames /\ Links(next, Addr)
      /\ ops \in Operands /\ top.last \in Addr /\ ListsEnd(next)
      /\ DoomedBelow(stack, next) = Doomed \ ListFrom(next, top.root)
      /\ ListFrom(next, top.root) \subseteq Doomed
      /\ stack \in Seq(Frames) /\ StackOK(stack, next, ops, Allocated)
  BY <1>1, TopFacts DEF Inv, TypeInv, TableInv, StackInv
<1>4. g \in Frames /\ g.root = top.root /\ FrameOK(g, next, ops, Allocated)
  <2>1. CASE next[top.last] # Nil
    <3>1. next[top.last] \in Addr
      BY <1>3, <2>1 DEF Links
    <3>2. /\ g \in Frames /\ g.root = top.root /\ g.tail = top.tail /\ g.op = top.op
          /\ g.last = next[top.last] /\ g.i = 1
      <4> DEFINE n == next[top.last]
      <4>1. g = [top EXCEPT !.last = n, !.i = 1] /\ n \in Addr /\ top \in Frames
        BY <1>3, <2>1, <3>1
      <4> HIDE DEF g, n
      <4>2. GoesOn(top, g, n)
        BY ONLY <4>1, GoesOnFrame
      <4> QED BY <4>2 DEF n, GoesOn
    <3> HIDE DEF g
    <3>3. FrameOK(g, next, ops, Allocated)
      BY <1>1, <1>3, <2>1, <3>2, FrameNext
    <3> QED BY <3>2, <3>3
  <2>2. CASE next[top.last] = Nil
    <3>1. g \in Frames /\ g.root = top.root /\ g.op = "sweep"
      BY <1>3, <2>2 DEF Frames
    <3> HIDE DEF g
    <3>2. \A a \in ListFrom(next, top.root) : Emptied(ops[a])
      BY <1>1, <1>3, <2>2, FrameScanned
    <3>3. ListFrom(next, top.root) \subseteq Allocated
      BY <1>3 DEF FrameOK
    <3> QED BY <3>1, <3>2, <3>3 DEF FrameOK
  <2> QED BY <2>1, <2>2
<1> HIDE DEF g
<1>5. Untouched(DoomedBelow(stack, next), next, next, ops, ops, Allocated)
  BY <1>3, DoomedFacts DEF Untouched
<1>6. DoomedBelow(stack, next) \cap ListFrom(next, g.root) = {}
  BY <1>3, <1>4
<1>7. /\ SetLast(stack, g) \in Seq(Frames)
      /\ StackOK(SetLast(stack, g), next, ops, Allocated)
      /\ DoomedBy(SetLast(stack, g), next) = DoomedBelow(stack, next) \cup ListFrom(next, g.root)
  <2>1. /\ Links(next, Addr) /\ stack \in Seq(Frames) /\ stack # <<>>
        /\ StackOK(stack, next, ops, Allocated) /\ g \in Frames
        /\ FrameOK(g, next, ops, Allocated)
    BY <1>1, <1>3, <1>4
  <2>2. StackOK(SetLast(stack, g), next, ops, Allocated)
    BY ONLY <2>1, <1>5, <1>6, StackSet
  <2>3. SetLast(stack, g) \in Seq(Frames)
    BY ONLY <2>1, <2>2, <1>5, <1>6, StackSet
  <2>4. DoomedBy(SetLast(stack, g), next) = DoomedBelow(stack, next) \cup ListFrom(next, g.root)
    BY ONLY <2>1, <2>2, <1>5, <1>6, StackSet
  <2> QED BY <2>2, <2>3, <2>4
<1>8. /\ stack' \in Seq(Frames) /\ StackOK(stack', next, ops, Allocated)
      /\ DoomedBy(stack', next) = Doomed
  BY <1>2, <1>3, <1>4, <1>7
<1>9. Allocated' = Allocated /\ Doomed' = Doomed
  BY <1>1, <1>8 DEF Allocated, Doomed, DoomedBy, Chain, objects
<1>10. Live' = Live /\ Stored' = Stored
  BY <1>9 DEF Live, Stored
<1>11. pending.op = "none"
  BY <1>1, TopFacts
<1> USE DEF objects, table, client, creation
<1>12. TypeInv' /\ FreeInv' /\ OrderInv' /\ RootInv'
  BY <1>1, <1>8 DEF Inv, TypeInv, FreeInv, OrderInv, RootInv
<1>13. KeyInv' /\ CountInv'
  BY <1>1, <1>10 DEF Inv, KeyInv, CountInv
<1>14. StackInv'
  BY <1>1, <1>8, <1>9 DEF StackInv
<1>15. TableInv' /\ EntryInv' /\ RehashInv' /\ PendingInv'
  BY <1>1, <1>10, <1>11 DEF Inv, TableInv, EntryInv, RehashInv, PendingInv
<1> QED BY <1>12, <1>13, <1>14, <1>15 DEF Inv

-----------------------------------------------------------------------------
(* Every step of the storage and of its clients keeps the invariant. *)
LEMMA InvNext == Inv /\ [Next]_vars => Inv'
<1> SUFFICES ASSUME Inv, [Next]_vars PROVE Inv'
  OBVIOUS
<1>1. ASSUME NEW key \in KeysOver(Holding), CreateFound(key) PROVE Inv'
  BY <1>1, InvCreateFound
<1>2. ASSUME NEW key \in KeysOver(Holding), CreateNew(key) PROVE Inv'
  BY <1>2, InvCreateNew
<1>3. CASE GetTrue
  BY <1>3, InvGetTrue
<1>4. ASSUME NEW a \in Addr, Release(a) PROVE Inv'
  BY <1>4, InvRelease
<1>5. CASE Teardown
  BY <1>5, InvTeardown
<1>6. CASE MoveNode \/ NextBucket \/ InstallTable \/ Insert
  BY <1>6, InvMoveNode, InvNextBucket, InvInstallTable, InvInsert
<1>7. CASE DeleteMember \/ FreeLeaf
  BY <1>7, InvDeleteMember, InvFreeLeaf
<1>8. CASE KeepOperand \/ DropSubtree \/ DropLeaf
  BY <1>8, InvKeepOperand, InvDropSubtree, InvDropLeaf
<1>9. CASE NextDoomed \/ Sweep
  BY <1>9, InvNextDoomed, InvSweep
<1>10. CASE UNCHANGED vars
  BY <1>10, InvStutter
<1> QED BY <1>1, <1>2, <1>3, <1>4, <1>5, <1>6, <1>7, <1>8, <1>9, <1>10 DEF Next, Step

(* Types, free memory, complete and unique structures, counts, absence of  *)
(* cycles, activations, buckets and the unfinished rehash are right in     *)
(* every state of every run.                                               *)
THEOREM StorageInvariant == Spec => []Inv
BY InvInit, InvNext, PTL DEF Spec

(* Every expression is in the chain of its own bucket and nowhere else,    *)
(* chains end, and mEntryCount counts them.                                *)
LEMMA InvTable == Inv => TableIsExact
<1> SUFFICES ASSUME Inv PROVE TableIsExact
  OBVIOUS
<1>1. /\ entries = Cardinality(Stored) /\ entries * 4 < bucketCount * 3 /\ ListsEnd(next)
      /\ pending.op # "rehash" => TableOK(buckets, bucketCount, hash, next, Stored)
      /\ DOMAIN buckets = 0 .. bucketCount - 1
  BY DEF Inv, EntryInv, TableInv, TypeInv
<1>2. ASSUME pending.op # "rehash", NEW b \in DOMAIN buckets
      PROVE  Chain(buckets[b]) = {a \in Stored : Slot(hash[a], bucketCount) = b}
  BY <1>1, <1>2 DEF TableOK, Chain
<1> QED BY <1>1, <1>2 DEF TableIsExact

(* At any point of any call, every stored expression is in the chain of    *)
(* its own bucket and in no other, chains end, mEntryCount is their number *)
(* and the load stays under 3/4: createIfNotExists() cannot miss an        *)
(* expression, whatever rehashTable(), removeFromList() and nested calls   *)
(* of destroy() did before.                                                *)
THEOREM TableAlwaysExact == Spec => []TableIsExact
BY StorageInvariant, InvTable, PTL

(* The link of an allocated object leads to an allocated one, in whichever *)
(* list the object is.                                                     *)
LEMMA LinksAllocated ==
  ASSUME Inv, NEW a \in Allocated
  PROVE  next[a] \in Allocated \cup {Nil}
<1>1. /\ Links(next, Addr) /\ a \in Addr /\ Stored \subseteq Allocated /\ Doomed \subseteq Allocated
      /\ bucketCount \in Nat \ {0} /\ hash \in [Addr -> Nat] /\ hash[a] \in Nat
      /\ buckets \in [0 .. bucketCount - 1 -> Addr \cup {Nil}]
      /\ Doomed = DoomedBy(stack, next) /\ stack \in Seq(Frames)
  BY DoomedFacts DEF Inv, TypeInv, Stored, Live, Allocated
<1>2. ASSUME NEW p \in Addr \cup {Nil}, a \in ListFrom(next, p), ListFrom(next, p) \subseteq Allocated
      PROVE  next[a] \in Allocated \cup {Nil}
  <2>1. next[a] \in ListFrom(next, p) \cup {Nil}
    BY <1>1, <1>2, ListClosed
  <2> QED BY <2>1, <1>2
<1>3. CASE a \in Doomed
  <2>1. PICK k \in DOMAIN stack : a \in ListFrom(next, stack[k].root)
    BY <1>1, <1>3 DEF DoomedBy
  <2>2. stack[k] \in Frames /\ ListFrom(next, stack[k].root) \subseteq Allocated
    BY <1>1 DEF Inv, StackInv, StackOK, FrameOK
  <2>3. stack[k].root \in Addr
    BY <2>2 DEF Frames
  <2> QED BY <2>1, <2>2, <2>3, <1>2
<1>4. CASE a = True
  BY <1>4 DEF Inv, FreeInv, FreeOK
<1>5. CASE a \in Stored /\ pending.op # "rehash"
  <2> DEFINE b == Slot(hash[a], bucketCount)
  <2>1. b \in 0 .. bucketCount - 1
    BY <1>1, SlotRange
  <2>2. ListFrom(next, buckets[b]) = {x \in Stored : Slot(hash[x], bucketCount) = b}
    BY <2>1, <1>5 DEF Inv, TableInv, TableOK
  <2>3. a \in ListFrom(next, buckets[b]) /\ ListFrom(next, buckets[b]) \subseteq Allocated
    BY <2>2, <1>1, <1>5
  <2>4. buckets[b] \in Addr \cup {Nil}
    BY <2>1, <1>1
  <2> QED BY <2>3, <2>4, <1>2
<1>6. CASE a \in Stored /\ pending.op = "rehash"
  <2> DEFINE b == Slot(hash[a], bucketCount)
             d == Slot(hash[a], 2 * bucketCount)
             cur == moving.cur
             to == moving.to
             i == moving.i
  <2>1. b \in 0 .. bucketCount - 1 /\ d \in 0 .. 2 * bucketCount - 1
    <3> DEFINE n == 2 * bucketCount
    <3>1. n \in Nat \ {0}
      BY <1>1
    <3> HIDE DEF n
    <3>2. Slot(hash[a], n) \in 0 .. n - 1
      BY <3>1, <1>1, SlotRange
    <3> QED BY <3>2, <1>1, SlotRange DEF n
  <2>2. RehashOK(moving, buckets, bucketCount, hash, next, Stored)
    BY <1>6 DEF Inv, RehashInv
  <2>3. /\ i \in 0 .. bucketCount - 1 /\ cur \in Addr \cup {Nil} /\ to[d] \in Addr \cup {Nil}
        /\ buckets[b] \in Addr \cup {Nil}
    BY <1>1, <2>1, <2>2 DEF RehashOK
  <2>4. CASE b > i
    <3>1. ListFrom(next, buckets[b]) = {x \in Stored : Slot(hash[x], bucketCount) = b}
      BY <1>1, <2>1, <2>2, <2>3, <2>4, SMTT(30) DEF RehashOK
    <3>2. a \in ListFrom(next, buckets[b]) /\ ListFrom(next, buckets[b]) \subseteq Allocated
      BY <3>1, <1>1, <1>6
    <3> QED BY <3>2, <2>3, <1>2
  <2>5. CASE a \in ListFrom(next, cur)
    <3>1. ListFrom(next, cur) \subseteq Allocated
      BY <1>1, <2>2 DEF RehashOK
    <3> QED BY <3>1, <2>3, <2>5, <1>2
  <2>6. CASE b <= i /\ a \notin ListFrom(next, cur)
    <3>1. ListFrom(next, to[d])
            = {x \in Moved(hash, bucketCount, Stored, i, ListFrom(next, cur)) :
                 Slot(hash[x], 2 * bucketCount) = d}
      BY <2>1, <2>2 DEF RehashOK
    <3>2. b < i \/ b = i
      BY <2>1, <2>3, <2>6
    <3>3. a \in Moved(hash, bucketCount, Stored, i, ListFrom(next, cur))
      BY <3>2, <1>6, <2>6 DEF Moved
    <3>4. a \in ListFrom(next, to[d]) /\ ListFrom(next, to[d]) \subseteq Allocated
      BY <3>1, <3>3, <1>1 DEF Moved
    <3> QED BY <3>4, <2>3, <1>2
  <2> QED BY <2>1, <2>3, <2>4, <2>5, <2>6
<1> QED BY <1>3, <1>4, <1>5, <1>6 DEF Stored, Live

(* No pointer that the code will follow leads to freed memory.             *)
LEMMA InvDangling == Inv => NoDanglingPointer
<1> SUFFICES ASSUME Inv PROVE NoDanglingPointer
  OBVIOUS
<1>1. Holding \subseteq Live /\ Live \subseteq Allocated /\ Allocated \subseteq Addr
  BY DoomedFacts DEF Live
<1>2. ASSUME NEW a \in Allocated, NEW i \in DOMAIN ops[a]
      PROVE  ops[a][i] \in Allocated \cup {Nil}
  <2>1. a \in Addr /\ ops[a] \in Seq(Addr \cup {Nil})
    BY <1>1 DEF Inv, TypeInv, Operands
  <2>2. ops[a][i] \in Addr \cup {Nil}
    BY <2>1
  <2>3. ASSUME ops[a][i] \in Addr PROVE ops[a][i] \in Live
    <3>1. <<a, i>> \in RefsIn(ops, ops[a][i])
      BY <2>1, RefsInMember
    <3> QED BY <3>1, <2>3 DEF Inv, CountInv, CountOK
  <2> QED BY <2>2, <2>3, <1>1
<1>3. ASSUME pending.op # "none", NEW i \in DOMAIN pending.key.ops
      PROVE  pending.key.ops[i] \in Allocated
  <2>1. pending.key \in KeysOver(Holding)
    BY <1>3 DEF Inv, PendingInv, PendingOK, Holding
  <2>2. pending.key.ops \in Seq(Holding)
    BY <2>1, KeyFacts
  <2>3. pending.key.ops[i] \in Holding
    BY <2>2
  <2> QED BY <2>3, <1>1
<1>4. moving.cur \in Allocated \cup {Nil}
  <2>1. CASE pending.op = "rehash"
    <3>1. moving.cur \in Addr \cup {Nil} /\ ListFrom(next, moving.cur) \subseteq Stored
      BY <2>1 DEF Inv, RehashInv, RehashOK
    <3>2. moving.cur \in ListFrom(next, moving.cur) \cup {Nil}
      BY <3>1, ListClosed DEF Inv, TypeInv
    <3> QED BY <3>1, <3>2, <1>1 DEF Stored
  <2>2. CASE pending.op # "rehash"
    BY <2>2 DEF Inv, RehashInv
  <2> QED BY <2>1, <2>2
<1>5. ASSUME NEW k \in DOMAIN stack
      PROVE  /\ stack[k].root \in Allocated
             /\ stack[k].op # "sweep" => {stack[k].last, stack[k].tail} \subseteq Allocated
  <2>1. FrameOK(stack[k], next, ops, Allocated) /\ stack[k] \in Frames
    BY DEF Inv, TypeInv, StackInv, StackOK
  <2>2. stack[k].root \in Addr
    BY <2>1 DEF Frames
  <2>3. stack[k].root \in ListFrom(next, stack[k].root)
    BY <2>2, ListUnfold DEF Inv, TypeInv
  <2> QED BY <2>1, <2>3 DEF FrameOK
<1> QED BY <1>1, <1>2, <1>3, <1>4, <1>5, LinksAllocated DEF NoDanglingPointer

(* No pointer that a client, an expression or a running                    *)
(* createIfNotExists(), rehashTable() or destroy() still follows leads to  *)
(* freed memory.                                                           *)
THEOREM NeverDangling == Spec => []NoDanglingPointer
BY StorageInvariant, InvDangling, PTL

(* When a call has returned, mRefCount is the number of references there   *)
(* are, and no object without a reference is left.                         *)
LEMMA InvCounts == Inv => CountsAreExact
<1> SUFFICES ASSUME Inv, Idle, NEW a \in Allocated
             PROVE  rc[a] = handles[a] + Cardinality(Refs(a)) /\ rc[a] > 0
  BY DEF CountsAreExact
<1>1. Live = Allocated
  BY DoomedFacts DEF Idle, Live
<1>2. Refs(a) = RefsIn(ops, a)
  BY DEF Refs, RefsIn
<1> QED BY <1>1, <1>2 DEF Inv, CountInv, CountOK

(* When a call has returned, mRefCount of every expression is the number   *)
(* of references to it and not zero: destroy() frees what nobody refers to *)
(* and nothing else.                                                       *)
THEOREM CountsAlwaysExact == Spec => []CountsAreExact
BY StorageInvariant, InvCounts, PTL

-----------------------------------------------------------------------------
(***************************************************************************)
(* The table, the counts and the deletion lists implement HashConsing:     *)
(* what clients can reach changes only when a call answers or releases,    *)
(* and then as HashConsing says.                                           *)
(***************************************************************************)
(* What references from S lead to among the objects al with operands oo. *)
Closed(T, oo) == \A b \in T : \A i \in DOMAIN oo[b] : oo[b][i] \in T
ReachedIn(al, oo, S) ==
  {a \in al : \A T \in SUBSET al : S \subseteq T /\ Closed(T, oo) => a \in T}

(* Reached in terms of the state it depends on. *)
LEMMA ReachedIs == Reached = ReachedIn(Allocated, ops, Holding)
BY DEF Reached, ReachedIn, Closed

(* Inside a closed set that has the references, what is reached is the     *)
(* smallest such set.                                                      *)
LEMMA ReachClosed ==
  ASSUME NEW al, NEW oo, NEW S, NEW L \in SUBSET al, S \subseteq L, Closed(L, oo)
  PROVE  /\ ReachedIn(al, oo, S) \subseteq L /\ S \subseteq ReachedIn(al, oo, S)
         /\ Closed(ReachedIn(al, oo, S), oo)
<1> DEFINE R == ReachedIn(al, oo, S)
<1>1. R \subseteq L /\ S \subseteq R
  BY DEF ReachedIn
<1>2. ASSUME NEW b \in R, NEW i \in DOMAIN oo[b] PROVE oo[b][i] \in R
  <2>1. b \in L /\ oo[b][i] \in al
    BY <1>1 DEF Closed
  <2>2. ASSUME NEW T \in SUBSET al, S \subseteq T, Closed(T, oo) PROVE oo[b][i] \in T
    <3>1. b \in T
      BY <2>2 DEF ReachedIn
    <3> QED BY <3>1, <2>2 DEF Closed
  <2> QED BY <2>1, <2>2 DEF ReachedIn
<1> QED BY <1>1, <1>2 DEF Closed

(* It stays the same while its members and their operands do. *)
LEMMA ReachSame ==
  ASSUME NEW al, NEW oo, NEW S, NEW al2, NEW o2,
         NEW L \in SUBSET al, S \subseteq L, Closed(L, oo),
         \A a \in L : a \in al2 /\ o2[a] = oo[a]
  PROVE  ReachedIn(al2, o2, S) = ReachedIn(al, oo, S)
<1> DEFINE R == ReachedIn(al, oo, S)
           Q == ReachedIn(al2, o2, S)
<1>1. R \subseteq L /\ S \subseteq R /\ Closed(R, oo)
  BY ReachClosed
<1>2. Q \subseteq R
  <2>1. R \in SUBSET al2 /\ Closed(R, o2)
    BY <1>1 DEF Closed
  <2> QED BY <1>1, <2>1 DEF ReachedIn
<1>3. ASSUME NEW x \in R, NEW T \in SUBSET al2, S \subseteq T, Closed(T, o2) PROVE x \in T
  <2> DEFINE U == T \cap R
  <2>1. U \in SUBSET al /\ S \subseteq U
    BY <1>1, <1>3
  <2>2. Closed(U, oo)
    BY <1>1, <1>3 DEF Closed
  <2> HIDE DEF U
  <2>3. x \in U
    BY <2>1, <2>2 DEF ReachedIn
  <2> QED BY <2>3 DEF U
<1>4. \A x \in R : x \in al2
  BY <1>1
<1>5. R \subseteq Q
  BY <1>3, <1>4 DEF ReachedIn
<1> QED BY <1>2, <1>5

-----------------------------------------------------------------------------
(* Live expressions have live operands. *)
LEMMA LiveClosed ==
  ASSUME Inv
  PROVE  /\ Live \in SUBSET Allocated /\ Holding \subseteq Live /\ Closed(Live, ops)
         /\ Reached \subseteq Live
<1>1. Live \in SUBSET Allocated /\ Holding \subseteq Live /\ Live \subseteq Addr
  BY DoomedFacts DEF Live
<1>2. ASSUME NEW b \in Live, NEW i \in DOMAIN ops[b] PROVE ops[b][i] \in Live
  <2>1. ops[b][i] \in Addr
    BY DEF Inv, KeyInv, KeysOK, Whole
  <2>2. <<b, i>> \in RefsIn(ops, ops[b][i])
    BY <1>1, RefsInMember
  <2> QED BY <2>1, <2>2 DEF Inv, CountInv, CountOK
<1>3. Closed(Live, ops)
  BY <1>2 DEF Closed
<1>4. Reached \subseteq Live
  BY <1>1, <1>3, ReachedIs, ReachClosed
<1> QED BY <1>1, <1>3, <1>4

(* Between two calls everything that is allocated can be reached. *)
LEMMA AllReached ==
  ASSUME Inv, stack = <<>>
  PROVE  Reached = Allocated
<1>1. Live = Allocated /\ Allocated \subseteq Addr
  BY DoomedFacts DEF Live
<1>2. ASSUME NEW x \in Allocated, NEW T \in SUBSET Allocated, Holding \subseteq T, Closed(T, ops)
      PROVE  x \in T
  <2> DEFINE U == Allocated \ T
  <2>1. U \in SUBSET Addr
    BY <1>1
  <2>2. ASSUME NEW a \in U PROVE \E p \in U : \E j \in DOMAIN ops[p] : ops[p][j] = a
    <3>1. a \in Live /\ a \in Addr /\ a \notin Holding
      BY <1>1, <1>2
    <3>2. handles[a] \in Nat /\ ~(handles[a] > 0)
      BY <3>1 DEF Holding, Inv, TypeInv
    <3>3. rc[a] > 0 /\ rc[a] = handles[a] + Cardinality(RefsIn(ops, a)) /\ handles[a] = 0
      BY <3>1, <3>2 DEF Inv, CountInv, CountOK
    <3>4. RefsIn(ops, a) # {}
      <4>1. RefsIn(ops, a) = {} => Cardinality(RefsIn(ops, a)) = 0
        BY FS_EmptySet
      <4> HIDE DEF U
      <4> QED BY <3>3, <4>1
    <3>5. PICK y : y \in RefsIn(ops, a)
      BY <3>4
    <3>6. PICK p \in Addr : \E j \in DOMAIN ops[p] : y = <<p, j>> /\ ops[p][j] = a
      BY <3>5, RefsInMember
    <3>7. p \in Allocated
      BY <3>6 DEF Inv, FreeInv, FreeOK, Allocated
    <3>8. p \notin T
      BY <3>6, <1>2 DEF Closed
    <3> QED BY <3>6, <3>7, <3>8
  <2> HIDE DEF U
  <2>3. U = {}
    BY <2>1, <2>2 DEF Inv, OrderInv, OrderOK
  <2> QED BY <2>3 DEF U
<1> QED BY <1>2, ReachedIs DEF ReachedIn

(* Between two calls everything that is allocated can be reached by a      *)
(* client: nothing leaks.                                                  *)
LEMMA AllReachedAlways ==
  /\ Inv /\ stack = <<>> => Reached = Allocated
  /\ (Inv /\ stack = <<>> => Reached = Allocated)'
<1>1. Inv /\ stack = <<>> => Reached = Allocated
  BY AllReached
<1> QED BY <1>1, PTL

-----------------------------------------------------------------------------
(* Steps that clients do not see. *)
LEMMA KeepNodes ==
  ASSUME Inv, handles' = handles, \A a \in Live : expr'[a] = expr[a] /\ ops'[a] = ops[a]
  PROVE  Nodes' = Nodes
<1>1. /\ Live \in SUBSET Allocated /\ Holding \subseteq Live /\ Closed(Live, ops)
      /\ Reached \subseteq Live /\ Live \subseteq Addr
  BY LiveClosed, DoomedFacts
<1>2. \A a \in Live : a \in Allocated' /\ ops'[a] = ops[a]
  BY <1>1 DEF Allocated
<1>3. Holding' = Holding
  BY DEF Holding
<1>4. Reached' = ReachedIn(Allocated', ops', Holding)
  BY <1>3 DEF Reached, ReachedIn, Closed
<1>5. ReachedIn(Allocated', ops', Holding) = ReachedIn(Allocated, ops, Holding)
  BY <1>1, <1>2, ReachSame
<1>6. Reached' = Reached
  BY <1>4, <1>5, ReachedIs
<1>7. \A a \in Reached : Key(a)' = Key(a)
  BY <1>1 DEF Key
<1> QED BY <1>6, <1>7 DEF Nodes

(* The steps inside a rehash, a destroy() and a delete change nothing a    *)
(* client can reach.                                                       *)
LEMMA HiddenSteps ==
  ASSUME Inv, \/ MoveNode \/ NextBucket \/ InstallTable
              \/ DeleteMember \/ FreeLeaf
              \/ KeepOperand \/ DropSubtree \/ DropLeaf \/ NextDoomed \/ Sweep
              \/ \E key \in KeysOver(Holding) : CreateNew(key)
  PROVE  UNCHANGED Promise!avars
<1>1. handles' = handles /\ got' = got
  BY DEF MoveNode, NextBucket, InstallTable, DeleteMember, FreeLeaf, KeepOperand, DropSubtree,
         DropLeaf, NextDoomed, Sweep, CreateNew, client
<1>2. CASE \/ MoveNode \/ NextBucket \/ InstallTable \/ NextDoomed
           \/ \E key \in KeysOver(Holding) : CreateNew(key)
  BY <1>2, <1>1, KeepNodes
     DEF MoveNode, NextBucket, InstallTable, NextDoomed, CreateNew, objects, Promise!avars
<1>3. CASE DeleteMember \/ KeepOperand \/ DropSubtree \/ DropLeaf
  <2>1. stack # <<>> /\ top.op # "sweep" /\ DetachOperand /\ expr' = expr
    BY <1>3 DEF DeleteMember, KeepOperand, DropSubtree, DropLeaf, Scanning, Running, top
  <2>2. top.last \notin Live /\ Live \subseteq Addr /\ ops \in Operands
    BY <2>1, TopFacts, DoomedFacts DEF Live, Inv, TypeInv
  <2>3. \A a \in Live : ops'[a] = ops[a]
    BY <2>1, <2>2 DEF DetachOperand, Operands
  <2> QED BY <2>1, <2>3, <1>1, KeepNodes DEF Promise!avars
<1>4. CASE FreeLeaf \/ Sweep
  <2>1. stack # <<>> /\ FreeObject(top.root)
    BY <1>4 DEF FreeLeaf, Sweep, Running
  <2>2. top.root \notin Live /\ Live \subseteq Addr /\ ops \in Operands
    BY <2>1, TopFacts, DoomedFacts DEF Live, Inv, TypeInv
  <2>3. \A a \in Live : expr'[a] = expr[a] /\ ops'[a] = ops[a]
    BY <2>1, <2>2 DEF FreeObject, Operands, Inv, TypeInv
  <2> QED BY <2>3, <1>1, KeepNodes DEF Promise!avars
<1> QED BY <1>2, <1>3, <1>4

-----------------------------------------------------------------------------
(* An answer hands out the one object with the structure. *)
LEMMA AnswerCreates ==
  ASSUME Inv, Inv', NEW a \in Live, NEW key, Answer(key, a), Idle,
         UNCHANGED <<expr, ops, hash, next, table, creation, stack>>,
         Key(a) = key, key \in KeysOver(Holding) \cup {TrueKey}
  PROVE  Promise!ACreate(a)
<1>1. Allocated' = Allocated /\ Reached = Allocated /\ Reached' = Allocated'
  BY AllReachedAlways DEF Idle, Allocated
<1>2. Nodes' = Nodes /\ DOMAIN Nodes = Allocated /\ Nodes[a] = key
  BY <1>1, LiveClosed DEF Nodes, Key
<1>3. Nodes = [b \in Allocated |-> Nodes[b]] /\ a \in Allocated
  BY <1>1, LiveClosed DEF Nodes
<1>4. Promise!Holding(handles) = Holding
  BY DEF Promise!Holding, Holding
<1>5. handles' = [handles EXCEPT ![a] = @ + 1] /\ got' = [key |-> Nodes'[a], obj |-> a]
  BY <1>2 DEF Answer
<1>6. Nodes = [b \in DOMAIN Nodes \cup {a} |-> IF b = a THEN Nodes[a] ELSE Nodes[b]]
  BY <1>2, <1>3
<1>7. a \in {b \in DOMAIN Nodes : Nodes[b] = Nodes[a]}
  BY <1>2, <1>3
<1> QED BY <1>2, <1>3, <1>4, <1>5, <1>6, <1>7 DEF Promise!ACreate

(* An expression that Equals() accepts has the structure asked for. *)
LEMMA FoundIsIt ==
  ASSUME Inv, pending.op = "none", NEW key \in KeysOver(Holding), NEW a \in Found(key)
  PROVE  a \in Live /\ Key(a) = key
<1>1. a \in Stored /\ a \in Live /\ a \in Addr
  BY FoundLive, DoomedFacts DEF Stored
<1>2. Equals(a, key)
  BY DEF Found
<1>3. key = [expr |-> key.expr, ops |-> key.ops] /\ key.expr \in StoredExprs
  BY KeyFacts
<1>4. expr[a] \in StoredExprs
  <2>1. expr[a] \in StoredExprs \cup {TrueExpr, NoExpr}
    BY <1>1 DEF Inv, TypeInv
  <2>2. expr[a] # TrueExpr /\ expr[a] # NoExpr
    BY <1>1, DoomedFacts DEF Inv, KeyInv, KeysOK, Stored
  <2> QED BY <2>1, <2>2
<1>5. StoredExprs \subseteq ExprData
  BY ExprAssumption DEF StoredExprs
<1> DEFINE e == expr[a]
           f == key.expr
<1>6. e \in ExprData /\ f \in ExprData /\ e.kind = f.kind /\ e.type = f.type /\ e.data = f.data
  BY <1>2, <1>3, <1>4, <1>5 DEF Equals
<1> HIDE DEF e, f
<1>7. e = f
  BY <1>6 DEF ExprData
<1>8. expr[a] = key.expr /\ ops[a] = key.ops
  BY <1>2, <1>7 DEF Equals, e, f
<1> QED BY <1>1, <1>3, <1>8 DEF Key

(* A lookup that finds the expression is a creation of the abstract        *)
(* context.                                                                *)
LEMMA AskStep ==
  ASSUME Inv, Inv', NEW key \in KeysOver(Holding), CreateFound(key)
  PROVE  \E a \in Addr : Promise!ACreate(a)
<1>1. Idle /\ pending.op = "none" /\ UNCHANGED <<expr, ops, hash, next, table, creation, stack>>
  BY DEF CreateFound, CanAsk, Idle
<1>2. PICK a \in Found(key) : Answer(key, a)
  BY DEF CreateFound
<1>3. a \in Live /\ Key(a) = key
  BY <1>1, FoundIsIt
<1>4. Promise!ACreate(a)
  BY <1>1, <1>2, <1>3, AnswerCreates
<1> QED BY <1>3, <1>4, DoomedFacts

(* So is BoolLiteralExpr::True(). *)
LEMMA TrueStep ==
  ASSUME Inv, Inv', GetTrue
  PROVE  \E a \in Addr : Promise!ACreate(a)
<1>1. Idle /\ handles[True] > 0 /\ Answer(TrueKey, True)
      /\ UNCHANGED <<expr, ops, hash, next, table, creation, stack>>
  BY DEF GetTrue, CanHoldMore
<1>2. True \in Live /\ True \in Addr
  BY <1>1, ReleaseFacts, AddrFacts DEF Idle
<1>3. Key(True) = TrueKey
  BY <1>2 DEF Live, Allocated, Inv, FreeInv, FreeOK, Key, TrueKey
<1>4. Promise!ACreate(True)
  BY <1>1, <1>2, <1>3, AnswerCreates
<1> QED BY <1>2, <1>4

(* The object of a structure that was not found is a new one. *)
LEMMA InsertStep ==
  ASSUME Inv, Inv', Insert
  PROVE  \E a \in Addr : Promise!ACreate(a)
<1> DEFINE key == pending.key
<1>1. pending.op = "insert" /\ stack' = stack
  BY DEF Insert
<1>2. PICK new \in Places \ Allocated :
        /\ expr' = [expr EXCEPT ![new] = key.expr]
        /\ ops' = [ops EXCEPT ![new] = key.ops]
        /\ handles' = [handles EXCEPT ![new] = 1]
        /\ got' = [key |-> key, obj |-> new]
  BY DEF Insert
<1>3. /\ stack = <<>> /\ key \in KeysOver(Holding)
      /\ \A a \in Live : ~(expr[a] = key.expr /\ ops[a] = key.ops)
  BY <1>1 DEF Inv, PendingInv, PendingOK, Holding
<1>4. key = [expr |-> key.expr, ops |-> key.ops] /\ key.expr # NoExpr
  BY <1>3, KeyFacts
<1>5. new \in Addr /\ new \notin Allocated /\ Allocated \subseteq Addr
  BY AddrFacts, DoomedFacts
<1> HIDE DEF key
<1>6. /\ expr'[new] = key.expr /\ ops'[new] = key.ops
      /\ \A a \in Addr \ {new} : expr'[a] = expr[a] /\ ops'[a] = ops[a]
  BY <1>2, <1>5 DEF Inv, TypeInv, Operands
<1>7. Allocated' = Allocated \cup {new}
  BY <1>4, <1>5, <1>6 DEF Allocated
<1>8. Reached = Allocated /\ Reached' = Allocated \cup {new} /\ Live = Allocated
  BY <1>1, <1>3, <1>7, AllReachedAlways, DoomedFacts DEF Live
<1>9. /\ DOMAIN Nodes = Allocated /\ DOMAIN Nodes' = Allocated \cup {new} /\ Nodes'[new] = key
      /\ \A a \in Allocated : Nodes'[a] = Nodes[a]
      /\ Nodes' = [b \in Allocated \cup {new} |-> Nodes'[b]]
  <2>1. \A a \in Allocated : Key(a)' = Key(a)
    BY <1>5, <1>6 DEF Key
  <2>2. Key(new)' = key
    BY <1>4, <1>6 DEF Key
  <2> QED BY <2>1, <2>2, <1>8 DEF Nodes
<1>10. handles' = [handles EXCEPT ![new] = @ + 1]
  <2>1. handles[new] = 0 /\ handles \in [Addr -> Nat]
    BY <1>5, <1>8 DEF Inv, CountInv, CountOK, TypeInv
  <2> QED BY <2>1, <1>2, <1>5
<1>11. \A b \in Allocated : Nodes[b] # key
  <2>1. ASSUME NEW b \in Allocated, Nodes[b] = key PROVE FALSE
    <3>1. Key(b) = key
      BY <2>1, <1>8 DEF Nodes
    <3>2. expr[b] = key.expr /\ ops[b] = key.ops
      BY <3>1 DEF Key
    <3> QED BY <3>2, <1>3, <1>8
  <2> QED BY <2>1
<1>12. Promise!Holding(handles) = Holding
  BY DEF Promise!Holding, Holding
<1>13. {b \in DOMAIN Nodes : Nodes[b] = Nodes'[new]} = {}
  BY <1>9, <1>11
<1>14. Nodes' = [b \in DOMAIN Nodes \cup {new} |-> IF b = new THEN Nodes'[new] ELSE Nodes[b]]
  BY <1>9
<1>15. got' = [key |-> Nodes'[new], obj |-> new]
  BY <1>2, <1>9
<1>16. Promise!ACreate(new)
  BY <1>3, <1>5, <1>9, <1>10, <1>12, <1>13, <1>14, <1>15 DEF Promise!ACreate
<1> QED BY <1>5, <1>16

-----------------------------------------------------------------------------
(* A release leaves what the other references lead to. *)
LEMMA DropStep ==
  ASSUME Inv, stack = <<>>, NEW a \in Addr, handles[a] > 0,
         handles' = [handles EXCEPT ![a] = @ - 1], got' = Nothing, UNCHANGED <<expr, ops>>
  PROVE  Promise!ARelease(a)
<1>1. Reached = Allocated /\ Allocated' = Allocated
  BY AllReached DEF Allocated
<1>2. /\ DOMAIN Nodes = Allocated
      /\ \A b \in Allocated : Nodes[b] = Key(b) /\ Nodes[b].ops = ops[b]
  BY <1>1 DEF Nodes, Key
<1>3. Promise!Holding(handles') = Holding'
  BY DEF Promise!Holding, Holding
<1>4. Promise!Reachable(Nodes, Holding') = Reached'
  <2>1. ASSUME NEW T \in SUBSET Allocated
        PROVE  (\A b \in T : \A i \in DOMAIN Nodes[b].ops : Nodes[b].ops[i] \in T) <=> Closed(T, ops)
    BY <1>2 DEF Closed
  <2>2. Reached' = ReachedIn(Allocated, ops, Holding')
    BY <1>1 DEF Reached, ReachedIn, Closed
  <2>3. \A T : T \in Promise!ClosedSets(Nodes, Holding')
               <=> T \in SUBSET Allocated /\ Holding' \subseteq T /\ Closed(T, ops)
    BY <2>1, <1>2 DEF Promise!ClosedSets
  <2>4. \A x : x \in Promise!Reachable(Nodes, Holding') <=> x \in ReachedIn(Allocated, ops, Holding')
    BY <2>3, <1>2 DEF Promise!Reachable, ReachedIn
  <2> QED BY <2>2, <2>4
<1>5. Nodes' = [b \in Promise!Reachable(Nodes, Holding') |-> Nodes[b]]
  <2>1. Reached' \subseteq Allocated
    BY <1>1 DEF Reached
  <2>2. \A b \in Reached' : Key(b)' = Nodes[b]
    BY <2>1, <1>2 DEF Key
  <2> QED BY <2>2, <1>4 DEF Nodes
<1> QED BY <1>3, <1>5 DEF Promise!ARelease, Promise!Nothing, Nothing

(* A release is a release of the abstract context: what can no longer be   *)
(* reached is gone at once there.                                          *)
LEMMA ReleaseStep ==
  ASSUME Inv, Inv', (\E a \in Addr : Release(a)) \/ Teardown
  PROVE  \E a \in Addr : Promise!ARelease(a)
<1>1. ASSUME NEW a \in Addr, Release(a) PROVE Promise!ARelease(a)
  <2>1. /\ stack = <<>> /\ handles' = [handles EXCEPT ![a] = @ - 1] /\ got' = Nothing
        /\ UNCHANGED <<expr, ops>> /\ handles[a] > (IF a = True THEN 1 ELSE 0)
    BY <1>1 DEF Release, Idle
  <2>2. handles[a] > 0
    BY <2>1 DEF Inv, TypeInv
  <2> QED BY <2>1, <2>2, DropStep
<1>2. ASSUME Teardown PROVE Promise!ARelease(True)
  <2>1. /\ stack = <<>> /\ handles' = [handles EXCEPT ![True] = 0] /\ got' = Nothing
        /\ UNCHANGED <<expr, ops>> /\ handles[True] = 1
    BY <1>2 DEF Teardown, Idle
  <2>2. handles[True] > 0 /\ handles' = [handles EXCEPT ![True] = @ - 1] /\ True \in Addr
    BY <2>1, AddrFacts
  <2> QED BY <2>1, <2>2, DropStep
<1> QED BY <1>1, <1>2, AddrFacts

-----------------------------------------------------------------------------
(* A new context is a new abstract context. *)
LEMMA InitMaps == Init => Promise!AInit
<1> SUFFICES ASSUME Init PROVE Promise!AInit
  OBVIOUS
<1>1. Inv /\ stack = <<>>
  BY InvInit DEF Init
<1>2. Allocated = {True}
  BY AddrFacts DEF Init, Allocated, TrueExpr, NoExpr
<1>3. Reached = {True}
  BY <1>1, <1>2, AllReached
<1>4. Key(True) = TrueKey
  BY AddrFacts DEF Init, Key, TrueKey
<1>5. Nodes = [a \in {True} |-> TrueKey]
  BY <1>3, <1>4 DEF Nodes
<1> QED BY <1>5 DEF Promise!AInit, Promise!Nothing, Nothing, Init

(* Every step is a step of the abstract context or a stutter. *)
LEMMA NextMaps == Inv /\ Inv' /\ [Next]_vars => [Promise!ANext]_(Promise!avars)
<1> SUFFICES ASSUME Inv, Inv', [Next]_vars
             PROVE  Promise!ANext \/ UNCHANGED Promise!avars
  OBVIOUS
<1>1. CASE UNCHANGED vars
  <2>1. handles' = handles /\ got' = got /\ UNCHANGED <<expr, ops>>
    BY <1>1 DEF vars, client, objects
  <2>2. Nodes' = Nodes
    BY <2>1, KeepNodes
  <2> QED BY <2>1, <2>2 DEF Promise!avars
<1>2. ASSUME NEW key \in KeysOver(Holding), CreateFound(key) PROVE Promise!ANext
  BY <1>2, AskStep DEF Promise!ANext
<1>3. CASE GetTrue
  BY <1>3, TrueStep DEF Promise!ANext
<1>4. CASE Insert
  BY <1>4, InsertStep DEF Promise!ANext
<1>5. CASE (\E a \in Addr : Release(a)) \/ Teardown
  BY <1>5, ReleaseStep DEF Promise!ANext
<1>6. CASE \/ MoveNode \/ NextBucket \/ InstallTable
           \/ DeleteMember \/ FreeLeaf
           \/ KeepOperand \/ DropSubtree \/ DropLeaf \/ NextDoomed \/ Sweep
           \/ \E key \in KeysOver(Holding) : CreateNew(key)
  BY <1>6, HiddenSteps
<1> QED BY <1>1, <1>2, <1>3, <1>4, <1>5, <1>6 DEF Next, Step

(* At any point of any call the objects that clients can reach are those   *)
(* of the abstract context, structure by structure: createIfNotExists()    *)
(* answers with the one object of a structure, a release ends exactly the  *)
(* objects it alone kept alive, and rehashTable(), destroy() and deletes   *)
(* change nothing that a client can see.                                   *)
THEOREM StorageRefines == Spec => ImplementsHashConsing
<1>1. Inv /\ [Next]_vars => Inv'
  BY InvNext
<1> QED BY <1>1, InitMaps, NextMaps, StorageInvariant, PTL
        DEF Spec, ImplementsHashConsing, Promise!ASpec

=============================================================================
