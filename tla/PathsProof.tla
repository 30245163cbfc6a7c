----------------------------- MODULE PathsProof -----------------------------
(***************************************************************************)
(* Induction over natural numbers, stated for sets, and what follows from  *)
(* it for recursive functions and for reachability.  Paths are handled     *)
(* without sequences of edges: b can be reached from a if it is in every   *)
(* set that has a and is closed under the edges.                           *)
(***************************************************************************)
EXTENDS Paths, Integers, WellFoundedInduction, TLAPS

-----------------------------------------------------------------------------
(* Every nonempty set of natural numbers has a least member. *)
LEMMA LeastNatural ==
  ASSUME NEW T \in SUBSET Nat, T # {}
  PROVE  \E x \in T : \A y \in T : x <= y
<1> DEFINE R == OpToRel(<, Nat)
<1>1. IsWellFoundedOn(R, Nat)
  BY NatLessThanWellFounded
<1>2. \A x, y \in Nat : y < x => <<y, x>> \in R
  BY DEF OpToRel
<1> HIDE DEF R
<1>3. PICK x \in T : \A y \in T : ~(<<y, x>> \in R)
  BY <1>1, WFMin
<1>4. \A y \in T : ~(y < x)
  BY <1>2, <1>3
<1>5. \A y \in T : y \in Nat /\ x \in Nat
  OBVIOUS
<1> QED BY <1>4, <1>5

(* Every nonempty set of natural numbers up to n has a largest member. *)
LEMMA LargestNatural ==
  ASSUME NEW n \in Nat, NEW T \in SUBSET (0 .. n), T # {}
  PROVE  \E x \in T : \A y \in T : y <= x
<1> DEFINE U == {k \in Nat : \E x \in T : k = n - x}
<1>1. U # {} /\ U \in SUBSET Nat
  <2>1. PICK x \in T : TRUE
    OBVIOUS
  <2>2. n - x \in U
    BY <2>1
  <2> QED BY <2>2
<1>2. PICK k \in U : \A m \in U : k <= m
  BY <1>1, LeastNatural
<1>3. PICK x \in T : k = n - x
  BY <1>2
<1>4. ASSUME NEW y \in T PROVE y <= x
  <2>1. n - y \in U
    OBVIOUS
  <2> QED BY <1>2, <1>3, <2>1
<1> QED BY <1>3, <1>4

(* Induction: a set that has m and, with a number below n, its successor,  *)
(* has all numbers from m to n.                                            *)
LEMMA IntervalInduction ==
  ASSUME NEW m \in Nat, NEW n \in Nat, NEW S, m <= n => m \in S,
         \A i \in m .. n : i \in S /\ i < n => i + 1 \in S
  PROVE  m .. n \subseteq S
<1> DEFINE T == {i \in m .. n : i \notin S}
<1> SUFFICES ASSUME T # {} PROVE FALSE
  OBVIOUS
<1>1. PICK x \in T : \A y \in T : x <= y
  <2>1. T \in SUBSET Nat
    OBVIOUS
  <2> HIDE DEF T
  <2> QED BY <2>1, LeastNatural
<1>2. x # m /\ x - 1 \in m .. n
  BY <1>1
<1>3. x - 1 \in S
  BY <1>1, <1>2
<1> QED BY <1>1, <1>2, <1>3

(* The same from n down to m. *)
LEMMA DownwardInduction ==
  ASSUME NEW m \in Nat, NEW n \in Nat, NEW S, m <= n => n \in S,
         \A i \in m .. n : i \in S /\ i > m => i - 1 \in S
  PROVE  m .. n \subseteq S
<1> DEFINE T == {i \in m .. n : i \notin S}
<1> SUFFICES ASSUME T # {} PROVE FALSE
  OBVIOUS
<1>1. PICK x \in T : \A y \in T : y <= x
  <2>1. T \in SUBSET (0 .. n)
    OBVIOUS
  <2> HIDE DEF T
  <2> QED BY <2>1, LargestNatural
<1>2. x # n /\ x + 1 \in m .. n
  BY <1>1
<1>3. x + 1 \in S
  BY <1>1, <1>2
<1> QED BY <1>1, <1>2, <1>3

-----------------------------------------------------------------------------
(* A function that is given by its first value and by each value from the  *)
(* one before exists, and has its values where the steps stay.             *)
GoesUp(f, m, n, c, st) ==
  f = [i \in m .. n |-> IF i = m THEN c ELSE st[<<i, f[i - 1]>>]]
GoesDown(f, m, n, c, st) ==
  f = [i \in m .. n |-> IF i = n THEN c ELSE st[<<i, f[i + 1]>>]]

\* Such a function exists when values are computed from the first one up.
LEMMA RecursionUp ==
  ASSUME NEW m \in Nat, NEW n \in Nat, m <= n, NEW V, NEW c \in V, NEW st,
         \A i \in m + 1 .. n : \A v \in V : st[<<i, v>>] \in V
  PROVE  \E f \in [m .. n -> V] : GoesUp(f, m, n, c, st)
<1> DEFINE Is(f, k) == f = [i \in m .. k |-> IF i = m THEN c ELSE st[<<i, f[i - 1]>>]]
           S == {k \in m .. n : \E f \in [m .. k -> V] : Is(f, k)}
<1>1. m \in S
  <2> DEFINE f == [i \in m .. m |-> c]
  <2>1. f \in [m .. m -> V] /\ Is(f, m)
    OBVIOUS
  <2> HIDE DEF f, Is
  <2> QED BY <2>1
<1>2. ASSUME NEW k \in m .. n, k \in S, k < n PROVE k + 1 \in S
  <2>1. PICK f \in [m .. k -> V] : Is(f, k)
    BY <1>2
  <2> DEFINE v == st[<<k + 1, f[k]>>]
             g == [i \in m .. k + 1 |-> IF i = k + 1 THEN v ELSE f[i]]
  <2>2. k + 1 \in m + 1 .. n /\ k \in m .. k /\ m .. k + 1 = (m .. k) \cup {k + 1}
    BY <1>2
  <2>3. v \in V
    BY <2>1, <2>2
  <2>4. \A i \in m .. k : g[i] = f[i] /\ i # k + 1
    BY <2>2
  <2>5. g[k + 1] = v
    BY <2>2
  <2>6. g \in [m .. k + 1 -> V]
    <3> HIDE DEF v
    <3>1. \A i \in m .. k : f[i] \in V
      OBVIOUS
    <3>2. \A i \in m .. k + 1 : i # k + 1 => i \in m .. k
      BY <2>2
    <3> QED BY <3>1, <3>2, <2>3
  <2>7. ASSUME NEW i \in m .. k + 1
        PROVE  g[i] = IF i = m THEN c ELSE st[<<i, g[i - 1]>>]
    <3>1. CASE i = k + 1
      <4>1. i # m /\ i - 1 = k
        BY <3>1
      <4>2. g[i - 1] = f[k]
        BY <4>1, <2>2, <2>4
      <4> QED BY <3>1, <4>1, <4>2, <2>5
    <3>2. CASE i \in m .. k
      <4>1. f[i] = IF i = m THEN c ELSE st[<<i, f[i - 1]>>]
        BY <2>1, <3>2
      <4>2. CASE i = m
        BY <4>1, <4>2, <2>4, <3>2
      <4>3. CASE i # m
        <5>1. i - 1 \in m .. k
          BY <3>2, <4>3
        <5> HIDE DEF g
        <5> QED BY <4>1, <4>3, <2>4, <3>2, <5>1
      <4> QED BY <4>2, <4>3
    <3> QED BY <3>1, <3>2, <2>2
  <2>8. DOMAIN g = m .. k + 1
    OBVIOUS
  <2> HIDE DEF g
  <2>9. Is(g, k + 1)
    BY <2>6, <2>7, <2>8
  <2>10. k + 1 \in m .. n
    BY <1>2
  <2> HIDE DEF Is
  <2> QED BY <2>6, <2>9, <2>10
<1> HIDE DEF Is
<1>3. n \in m .. n
  OBVIOUS
<1>4. m .. n \subseteq S
  <2> HIDE DEF S
  <2> QED BY <1>1, <1>2, IntervalInduction
<1>5. PICK f \in [m .. n -> V] : Is(f, n)
  BY <1>3, <1>4
<1> QED BY <1>5 DEF Is, GoesUp

(* The same for a function that is given by its last value. *)
LEMMA RecursionDown ==
  ASSUME NEW m \in Nat, NEW n \in Nat, m <= n, NEW V, NEW c \in V, NEW st,
         \A i \in m .. n - 1 : \A v \in V : st[<<i, v>>] \in V
  PROVE  \E f \in [m .. n -> V] : GoesDown(f, m, n, c, st)
<1> DEFINE s2 == [p \in (m + 1 .. n) \X V |-> st[<<m + n - p[1], p[2]>>]]
<1>1. ASSUME NEW i \in m + 1 .. n, NEW v \in V
      PROVE  s2[<<i, v>>] = st[<<m + n - i, v>>] /\ s2[<<i, v>>] \in V
  <2>1. m + n - i \in m .. n - 1 /\ <<i, v>> \in (m + 1 .. n) \X V
    OBVIOUS
  <2>2. s2[<<i, v>>] = st[<<m + n - i, v>>]
    BY <2>1
  <2> QED BY <2>1, <2>2
<1> HIDE DEF s2
<1>2. PICK h \in [m .. n -> V] : GoesUp(h, m, n, c, s2)
  <2>1. \A i \in m + 1 .. n : \A v \in V : s2[<<i, v>>] \in V
    BY <1>1
  <2> QED BY <2>1, RecursionUp
<1> DEFINE f == [i \in m .. n |-> h[m + n - i]]
<1>3. ASSUME NEW i \in m .. n
      PROVE  /\ m + n - i \in m .. n /\ f[i] = h[m + n - i] /\ f[i] \in V
             /\ f[i] = IF i = n THEN c ELSE st[<<i, f[i + 1]>>]
  <2>1. m + n - i \in m .. n /\ f[i] = h[m + n - i]
    OBVIOUS
  <2>2. f[i] \in V
    BY <2>1
  <2>3. CASE i = n
    <3>1. m + n - i = m /\ m \in m .. n
      BY <2>3
    <3>2. h[m] = c
      BY <1>2, <3>1 DEF GoesUp
    <3> QED BY <2>1, <2>2, <2>3, <3>1, <3>2
  <2>4. CASE i # n
    <3> DEFINE j == m + n - i
    <3>1. j \in m + 1 .. n /\ j # m /\ j \in m .. n /\ j - 1 \in m .. n /\ m + n - j = i
      BY <2>4
    <3>2. i + 1 \in m .. n /\ m + n - (i + 1) = j - 1
      BY <2>4
    <3>3. f[i + 1] = h[j - 1] /\ h[j - 1] \in V
      BY <3>2, <3>1
    <3>4. h[j] = s2[<<j, h[j - 1]>>]
      BY <1>2, <3>1 DEF GoesUp
    <3>5. h[j] = st[<<i, h[j - 1]>>]
      BY <3>1, <3>3, <3>4, <1>1
    <3> HIDE DEF j
    <3> QED BY <2>1, <2>2, <2>4, <3>3, <3>5 DEF j
  <2> QED BY <2>3, <2>4
<1>4. f \in [m .. n -> V]
  BY <1>3
<1> HIDE DEF f
<1>5. GoesDown(f, m, n, c, st)
  BY <1>3, <1>4 DEF GoesDown
<1> QED BY <1>4, <1>5

-----------------------------------------------------------------------------
(* The edges E lead from a to b. *)
Closed(T, E) == \A e \in E : e.src \in T => e.dst \in T
Leads(a, b, E) == \A T : a \in T /\ Closed(T, E) => b \in T

(* A node leads to itself. *)
LEMMA LeadsSelf == ASSUME NEW a, NEW E PROVE Leads(a, a, E)
BY DEF Leads

(* An edge leads on from its source. *)
LEMMA LeadsOn ==
  ASSUME NEW a, NEW E, NEW e \in E, Leads(a, e.src, E)
  PROVE  Leads(a, e.dst, E)
BY DEF Leads, Closed

(* Two ways in sequence are a way. *)
LEMMA LeadsOver ==
  ASSUME NEW a, NEW b, NEW c, NEW E, Leads(a, b, E), Leads(b, c, E)
  PROVE  Leads(a, c, E)
BY DEF Leads

(* More edges lead further. *)
LEMMA LeadsMore ==
  ASSUME NEW a, NEW b, NEW E, NEW F, Leads(a, b, E), E \subseteq F
  PROVE  Leads(a, b, F)
<1> SUFFICES ASSUME NEW T, a \in T, Closed(T, F) PROVE b \in T
  BY DEF Leads
<1>1. Closed(T, E)
  BY DEF Closed
<1> QED BY <1>1 DEF Leads

(* What is reached is in each set that the edges from reached nodes do not *)
(* leave.                                                                  *)
LEMMA LeadsInside ==
  ASSUME NEW a, NEW b, NEW E, Leads(a, b, E), NEW T, a \in T,
         \A e \in E : e.src \in T /\ Leads(a, e.src, E) => e.dst \in T
  PROVE  b \in T
<1> DEFINE R == {x \in T : Leads(a, x, E)}
<1>1. a \in R
  BY LeadsSelf
<1>2. Closed(R, E)
  BY LeadsOn DEF Closed
<1> QED BY <1>1, <1>2 DEF Leads

(* Edges lead backwards as they lead forwards. *)
LEMMA LeadsBack ==
  ASSUME NEW a, NEW b, NEW E, Leads(a, b, E)
  PROVE  Leads(b, a, Backwards(E))
<1> SUFFICES ASSUME NEW T, b \in T, Closed(T, Backwards(E)), a \notin T PROVE FALSE
  BY DEF Leads
<1> DEFINE U == {x \in {a} \cup {e.dst : e \in E} : x \notin T}
<1>1. ASSUME NEW e \in E, e.src \in U PROVE e.dst \in U
  <2> DEFINE r == [src |-> e.dst, dst |-> e.src]
  <2>1. r \in Backwards(E)
    BY DEF Backwards
  <2>2. r.src \in T => r.dst \in T
    BY <2>1 DEF Closed
  <2> QED BY <1>1, <2>2
<1>2. Closed(U, E) /\ a \in U
  BY <1>1 DEF Closed
<1> QED BY <1>2 DEF Leads

(* And what leads backwards leads forwards. *)
LEMMA LeadsForth ==
  ASSUME NEW a, NEW b, NEW E, Leads(b, a, Backwards(E))
  PROVE  Leads(a, b, E)
<1>1. Leads(a, b, Backwards(Backwards(E)))
  BY LeadsBack
<1>2. ASSUME NEW T, Closed(T, E) PROVE Closed(T, Backwards(Backwards(E)))
  BY <1>2 DEF Closed, Backwards
<1> QED BY <1>1, <1>2 DEF Leads

(* An edge leads from its source to its target. *)
LEMMA LeadsStep ==
  ASSUME NEW E, NEW e \in E
  PROVE  Leads(e.src, e.dst, E)
BY LeadsSelf, LeadsOn

(* A way to another node ends with an edge. *)
LEMMA LeadsLast ==
  ASSUME NEW a, NEW b, NEW E, Leads(a, b, E), a # b
  PROVE  \E e \in E : e.dst = b /\ Leads(a, e.src, E)
<1> SUFFICES ASSUME \A e \in E : e.dst = b => ~Leads(a, e.src, E) PROVE FALSE
  OBVIOUS
<1> DEFINE T == ({a} \cup {e.dst : e \in E}) \ {b}
<1>1. a \in T /\ b \notin T
  OBVIOUS
<1>2. \A e \in E : e.src \in T /\ Leads(a, e.src, E) => e.dst \in T
  OBVIOUS
<1> HIDE DEF T
<1> QED BY <1>1, <1>2, LeadsInside

(* A way from another node starts with an edge. *)
LEMMA LeadsFirst ==
  ASSUME NEW a, NEW b, NEW E, Leads(a, b, E), a # b
  PROVE  \E e \in E : e.src = a /\ Leads(e.dst, b, E)
<1>1. Leads(b, a, Backwards(E))
  BY LeadsBack
<1>2. PICK r \in Backwards(E) : r.dst = a /\ Leads(b, r.src, Backwards(E))
  BY <1>1, LeadsLast
<1>3. PICK e \in E : r = [src |-> e.dst, dst |-> e.src]
  BY DEF Backwards
<1>4. e.src = a /\ r.src = e.dst
  BY <1>2, <1>3
<1>5. Leads(e.dst, b, E)
  BY <1>2, <1>4, LeadsForth
<1> QED BY <1>4, <1>5

(* Edges may be replaced by ways between the same nodes. *)
LEMMA LeadsReplace ==
  ASSUME NEW a, NEW b, NEW E, NEW F, Leads(a, b, E),
         \A e \in E : e \in F \/ Leads(e.src, e.dst, F)
  PROVE  Leads(a, b, F)
<1> SUFFICES ASSUME NEW T, a \in T, Closed(T, F) PROVE b \in T
  BY DEF Leads
<1>1. Closed(T, E)
  BY DEF Closed, Leads
<1> QED BY <1>1 DEF Leads

(* A copy of a graph whose nodes are moved by m leads where it does. *)
LEMMA LeadsCopied ==
  ASSUME NEW a, NEW b, NEW E, NEW F, NEW m, Leads(a, b, E),
         \A e \in E : \E f \in F : f.src = m + e.src /\ f.dst = m + e.dst
  PROVE  Leads(m + a, m + b, F)
<1> SUFFICES ASSUME NEW T, m + a \in T, Closed(T, F) PROVE m + b \in T
  BY DEF Leads
<1> DEFINE U == {x \in {a} \cup {e.dst : e \in E} : m + x \in T}
<1>1. ASSUME NEW e \in E, e.src \in U PROVE e.dst \in U
  <2>1. PICK f \in F : f.src = m + e.src /\ f.dst = m + e.dst
    OBVIOUS
  <2>2. m + e.src \in T
    BY <1>1
  <2>3. m + e.dst \in T
    BY <2>1, <2>2 DEF Closed
  <2> QED BY <2>3
<1>2. a \in U /\ Closed(U, E)
  BY <1>1 DEF Closed
<1>3. b \in U
  BY <1>2 DEF Leads
<1> QED BY <1>3

(* If P leads from a to b but its part N does not, and every other edge    *)
(* of P that N leads to lies behind d, then N leads to d, and P from there *)
(* to b.                                                                   *)
LEMMA LeadsThrough ==
  ASSUME NEW a, NEW b, NEW d, NEW P, NEW N \in SUBSET P, Leads(a, b, P), ~Leads(a, b, N),
         \A e \in P \ N : Leads(a, e.src, N) => Leads(a, d, N) /\ Leads(d, e.src, N)
  PROVE  Leads(a, d, N) /\ Leads(d, b, P)
<1> DEFINE U == {a, b} \cup {e.dst : e \in P}
           A == {x \in U : Leads(a, x, N)}
           B == {x \in U : Leads(d, x, P)}
<1>1. a \in A /\ b \notin A
  BY LeadsSelf
<1>2. PICK e \in P : e.src \in A /\ e.dst \notin A
  <2>1. ~Closed(A, P)
    BY <1>1 DEF Leads
  <2> QED BY <2>1 DEF Closed
<1>3. e \in P \ N
  BY <1>2, LeadsOn
<1>4. Leads(a, d, N)
  BY <1>2, <1>3
<1>5. ASSUME NEW f \in P, f.src \in A \cup B PROVE f.dst \in A \cup B
  <2>1. CASE f.src \in B
    BY <2>1, LeadsOn
  <2>2. CASE f.src \in A /\ f \in N
    BY <2>2, LeadsOn
  <2>3. CASE f.src \in A /\ f \notin N
    <3>1. Leads(d, f.src, N)
      BY <2>3
    <3>2. Leads(d, f.src, P)
      BY <3>1, LeadsMore
    <3> QED BY <3>2, LeadsOn
  <2> QED BY <1>5, <2>1, <2>2, <2>3
<1>6. b \in A \cup B
  BY <1>1, <1>5, ZenonT(30) DEF Leads, Closed
<1> QED BY <1>1, <1>4, <1>6

-----------------------------------------------------------------------------
(* ReachWithin is the last value of a function that satisfies its          *)
(* recursive equation.                                                     *)
Wave(r, es) == r \cup {e.dst : e \in {f \in es : f.src \in r}}
Spreads(R, S, es, k) == R[0] = S /\ \A i \in 1 .. k : R[i] = Wave(R[i - 1], es)
\* There is such a function for every number of steps.
LEMMA ReachIs ==
  ASSUME NEW S, NEW es, NEW k \in Nat
  PROVE  \E R : Spreads(R, S, es, k) /\ ReachWithin(S, es, k) = R[k]
<1> DEFINE V == SUBSET (S \cup {e.dst : e \in es})
           st == [p \in (1 .. k) \X V |-> Wave(p[2], es)]
           Is(R) == R = [i \in 0 .. k |->
                           IF i = 0 THEN S
                           ELSE R[i - 1] \cup {e.dst : e \in {f \in es : f.src \in R[i - 1]}}]
<1>1. ASSUME NEW i \in 1 .. k, NEW v \in V
      PROVE  st[<<i, v>>] = Wave(v, es) /\ st[<<i, v>>] \in V
  <2>1. st[<<i, v>>] = Wave(v, es)
    OBVIOUS
  <2>2. Wave(v, es) \in V
    BY DEF Wave
  <2> QED BY <2>1, <2>2
<1>2. S \in V /\ 0 \in Nat /\ 0 <= k
  OBVIOUS
<1> HIDE DEF V, st
<1>3. \A i \in 0 + 1 .. k : \A v \in V : st[<<i, v>>] \in V
  <2>1. 0 + 1 .. k = 1 .. k
    OBVIOUS
  <2> QED BY <1>1, <2>1
<1>4. PICK f \in [0 .. k -> V] : GoesUp(f, 0, k, S, st)
  BY <1>2, <1>3, RecursionUp
<1>5. ASSUME NEW i \in 1 .. k PROVE f[i] = Wave(f[i - 1], es)
  <2>1. f[i] = st[<<i, f[i - 1]>>] /\ f[i - 1] \in V
    BY <1>4 DEF GoesUp
  <2> QED BY <2>1, <1>1
<1>6. f[0] = S
  BY <1>2, <1>4 DEF GoesUp
<1>7. \E R : Is(R)
  <2>1. f = [i \in 0 .. k |-> IF i = 0 THEN S ELSE Wave(f[i - 1], es)]
    BY <1>4, <1>5, <1>6
  <2>2. Is(f)
    BY <2>1 DEF Wave
  <2> QED BY <2>2
<1> DEFINE Q == CHOOSE R : Is(R)
<1>8. Is(Q)
  <2> HIDE DEF Is
  <2> QED BY <1>7
<1>9. ReachWithin(S, es, k) = Q[k]
  BY DEF ReachWithin
<1> HIDE DEF Q
<1>10. Q = [i \in 0 .. k |-> IF i = 0 THEN S ELSE Wave(Q[i - 1], es)]
  BY <1>8 DEF Wave
<1> HIDE DEF Is
<1>11. Q[0] = S /\ \A i \in 1 .. k : Q[i] = Wave(Q[i - 1], es)
  BY <1>2, <1>10
<1> QED BY <1>9, <1>11 DEF Spreads

(* What is reached within some steps is reached. *)
LEMMA ReachLeads ==
  ASSUME NEW a, NEW es, NEW k \in Nat, NEW x \in ReachWithin({a}, es, k)
  PROVE  Leads(a, x, es)
<1>1. PICK R : Spreads(R, {a}, es, k) /\ ReachWithin({a}, es, k) = R[k]
  BY ReachIs
<1> SUFFICES ASSUME NEW T, a \in T, Closed(T, es) PROVE x \in T
  BY DEF Leads
<1> DEFINE I == {i \in 0 .. k : R[i] \subseteq T}
<1>2. 0 \in I
  BY <1>1 DEF Spreads
<1>3. ASSUME NEW i \in 0 .. k, i \in I, i < k PROVE i + 1 \in I
  <2>1. R[i + 1] = Wave(R[i], es)
    BY <1>1, <1>3 DEF Spreads
  <2> QED BY <1>3, <2>1 DEF Wave, Closed
<1>4. 0 .. k \subseteq I
  <2> HIDE DEF I
  <2> QED BY <1>2, <1>3, IntervalInduction
<1> QED BY <1>1, <1>4

(* More edges reach more. *)
LEMMA ReachMore ==
  ASSUME NEW S, NEW es, NEW fs, es \subseteq fs, NEW k \in Nat
  PROVE  ReachWithin(S, es, k) \subseteq ReachWithin(S, fs, k)
<1>1. PICK R : Spreads(R, S, es, k) /\ ReachWithin(S, es, k) = R[k]
  BY ReachIs
<1>2. PICK Q : Spreads(Q, S, fs, k) /\ ReachWithin(S, fs, k) = Q[k]
  BY ReachIs
<1> DEFINE I == {i \in 0 .. k : R[i] \subseteq Q[i]}
<1>3. 0 \in I
  BY <1>1, <1>2 DEF Spreads
<1>4. ASSUME NEW i \in 0 .. k, i \in I, i < k PROVE i + 1 \in I
  <2>1. R[i + 1] = Wave(R[i], es) /\ Q[i + 1] = Wave(Q[i], fs)
    BY <1>1, <1>2, <1>4 DEF Spreads
  <2> QED BY <1>4, <2>1 DEF Wave
<1>5. 0 .. k \subseteq I
  <2> HIDE DEF I
  <2> QED BY <1>3, <1>4, IntervalInduction
<1> QED BY <1>1, <1>2, <1>5

=============================================================================
