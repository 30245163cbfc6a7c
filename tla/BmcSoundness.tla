---------------------------- MODULE BmcSoundness ----------------------------
(***************************************************************************)
(* The bounded model checker loses no error: as long as the solver decides *)
(* and errors are in the main automaton only, a verdict Success is right,  *)
(* for any automata systems and settings.                                  *)
(***************************************************************************)
EXTENDS BmcProof, PathsProof, FiniteSetTheorems

-----------------------------------------------------------------------------
(* What a system means, without recursion *)

\* The transitions a procedure can take when the calls in ret return.
Passable(sys, p, w, ret) ==
    {e \in EdgesOf(sys[p]) : w \in e.guard /\ (IsCall(e) => <<e.callee, e.arg[w]>> \in ret)}

OnlyMainFails(sys) == \A p \in Procs \ {Main} : sys[p].err = {}

\* There are finitely many procedures with an input.
LEMMA ActivationsFinite ==
    IsFiniteSet(Activations) /\ Cardinality(Activations) \in Nat
  <1>1. IsFiniteSet(Activations)
    BY WorldAssumption, ProcsAssumption, FS_Product DEF Activations
  <1> QED BY <1>1, FS_CardinalityType

\* What is visited can be reached.
LEMMA VisitsLead ==
    ASSUME NEW sys \in Programs, NEW p \in Procs, NEW w, NEW ret, NEW l \in Visits(sys, p, w, ret)
    PROVE  Leads(Entry, l, Passable(sys, p, w, ret))
  <1>1. sys[p].n \in Nat
    BY CfaFacts
  <1>2. l \in ReachWithin({Entry}, Passable(sys, p, w, ret), sys[p].n)
    BY DEF Visits, Passable
  <1> QED BY <1>1, <1>2, ReachLeads

\* More calls that return visit more.
LEMMA VisitsMore ==
    ASSUME NEW sys \in Programs, NEW p \in Procs, NEW w, NEW ret, NEW ret2, ret \subseteq ret2
    PROVE  Visits(sys, p, w, ret) \subseteq Visits(sys, p, w, ret2)
  <1>1. sys[p].n \in Nat
    BY CfaFacts
  <1>2. Passable(sys, p, w, ret) \subseteq Passable(sys, p, w, ret2)
    BY DEF Passable
  <1>3. /\ Visits(sys, p, w, ret) = ReachWithin({Entry}, Passable(sys, p, w, ret), sys[p].n)
        /\ Visits(sys, p, w, ret2) = ReachWithin({Entry}, Passable(sys, p, w, ret2), sys[p].n)
    BY DEF Visits, Passable
  <1> QED BY <1>1, <1>2, <1>3, ReachMore

\* One round of the fixed point that Returns computes.
Returning(sys, r) == {a \in Activations : Exit \in Visits(sys, a[1], a[2], r)}

\* Returns is the last value of a function that satisfies its equation.
LEMMA ReturnsIs ==
    ASSUME NEW sys
    PROVE  \E R : /\ R[0] = {} /\ \A i \in 1 .. Cardinality(Activations) : R[i] = Returning(sys, R[i - 1])
                  /\ Returns(sys) = R[Cardinality(Activations)]
  <1> DEFINE n == Cardinality(Activations)
             V == SUBSET Activations
             st == [p \in (1 .. n) \X V |-> Returning(sys, p[2])]
             Is(R) == R = [i \in 0 .. n |->
                             IF i = 0 THEN {}
                             ELSE {a \in Activations : Exit \in Visits(sys, a[1], a[2], R[i - 1])}]
  <1>0. n \in Nat /\ 0 \in Nat /\ 0 <= n /\ {} \in V
    BY ActivationsFinite
  <1>1. ASSUME NEW i \in 1 .. n, NEW v \in V
        PROVE  st[<<i, v>>] = Returning(sys, v) /\ st[<<i, v>>] \in V
    <2>1. st[<<i, v>>] = Returning(sys, v)
      OBVIOUS
    <2>2. Returning(sys, v) \in V
      BY DEF Returning
    <2> QED BY <2>1, <2>2
  <1> HIDE DEF V, st, n
  <1>2. \A i \in 0 + 1 .. n : \A v \in V : st[<<i, v>>] \in V
    <2>1. 0 + 1 .. n = 1 .. n
      BY <1>0
    <2> QED BY <1>1, <2>1
  <1>3. PICK f \in [0 .. n -> V] : GoesUp(f, 0, n, {}, st)
    BY <1>0, <1>2, RecursionUp
  <1>4. ASSUME NEW i \in 1 .. n PROVE f[i] = Returning(sys, f[i - 1])
    <2>1. i \in 0 .. n /\ i # 0 /\ i - 1 \in 0 .. n
      BY <1>0
    <2>2. f[i] = st[<<i, f[i - 1]>>] /\ f[i - 1] \in V
      BY <1>3, <2>1 DEF GoesUp
    <2> QED BY <2>2, <1>1
  <1>5. f = [i \in 0 .. n |-> IF i = 0 THEN {} ELSE Returning(sys, f[i - 1])]
    <2>1. f[0] = {}
      BY <1>0, <1>3 DEF GoesUp
    <2> QED BY <1>0, <1>3, <1>4, <2>1
  <1>6. Is(f)
    BY <1>5 DEF Returning
  <1> DEFINE Q == CHOOSE R : Is(R)
  <1>7. Is(Q)
    <2> HIDE DEF Is
    <2> QED BY <1>6
  <1>8. Returns(sys) = Q[n]
    BY DEF Returns, n
  <1> HIDE DEF Q
  <1>9. Q = [i \in 0 .. n |-> IF i = 0 THEN {} ELSE Returning(sys, Q[i - 1])]
    BY <1>7 DEF Returning
  <1> HIDE DEF Is
  <1>10. 0 \in 0 .. n /\ \A i \in 1 .. n : i \in 0 .. n /\ i # 0
    BY <1>0
  <1>11. Q[0] = {} /\ \A i \in 1 .. n : Q[i] = Returning(sys, Q[i - 1])
    BY <1>9, <1>10
  <1> QED BY <1>8, <1>11 DEF n

\* A call that returns has a way from its entry to its exit over calls that return.
LEMMA ReturnsLead ==
    ASSUME NEW sys \in Programs, NEW p \in Procs, NEW w, <<p, w>> \in Returns(sys)
    PROVE  Leads(Entry, Exit, Passable(sys, p, w, Returns(sys)))
  <1> DEFINE n == Cardinality(Activations)
  <1>0. n \in Nat /\ 0 \in Nat
    BY ActivationsFinite
  <1>1. PICK R : /\ R[0] = {} /\ \A i \in 1 .. n : R[i] = Returning(sys, R[i - 1])
                 /\ Returns(sys) = R[n]
    BY ReturnsIs
  <1> HIDE DEF n
  <1> DEFINE I == {i \in 0 .. n : i < n => R[i] \subseteq R[i + 1]}
  <1>2. 0 \in I
    BY <1>0, <1>1
  <1>3. ASSUME NEW i \in 0 .. n, i \in I, i < n PROVE i + 1 \in I
    <2>1. SUFFICES ASSUME i + 1 < n, NEW a \in R[i + 1] PROVE a \in R[i + 1 + 1]
      BY <1>0, <1>3
    <2>2. i + 1 \in 1 .. n /\ i + 1 + 1 \in 1 .. n /\ i + 1 - 1 = i /\ i + 1 + 1 - 1 = i + 1
      BY <1>0, <2>1
    <2>3. R[i + 1] = Returning(sys, R[i]) /\ R[i + 1 + 1] = Returning(sys, R[i + 1])
      BY <1>1, <2>2
    <2>4. R[i] \subseteq R[i + 1]
      BY <1>3
    <2>5. a \in Activations /\ Exit \in Visits(sys, a[1], a[2], R[i])
      BY <2>1, <2>3 DEF Returning
    <2>6. a[1] \in Procs
      BY <2>5 DEF Activations
    <2>7. Exit \in Visits(sys, a[1], a[2], R[i + 1])
      BY <2>4, <2>5, <2>6, VisitsMore
    <2> QED BY <2>3, <2>5, <2>7 DEF Returning
  <1>4. 0 .. n \subseteq I
    <2>1. 0 <= n => 0 \in I
      BY <1>2
    <2> HIDE DEF I
    <2> QED BY <1>0, <1>3, <2>1, IntervalInduction
  <1>5. n # 0
    BY <1>1
  <1>6. n \in 1 .. n /\ n - 1 \in 0 .. n /\ n - 1 < n /\ n - 1 + 1 = n
    BY <1>0, <1>5
  <1>7. R[n - 1] \subseteq R[n] /\ R[n] = Returning(sys, R[n - 1])
    BY <1>1, <1>4, <1>6
  <1>8. Exit \in Visits(sys, p, w, R[n - 1])
    BY <1>1, <1>7 DEF Returning
  <1>9. Exit \in Visits(sys, p, w, R[n])
    BY <1>7, <1>8, VisitsMore
  <1> QED BY <1>1, <1>9, VisitsLead

\* One round of the fixed point that Fails computes.
Failing(sys, r) == {a \in Activations : FailsIn(sys, a[1], a[2], Returns(sys), r)}

\* Fails is the last value of a function that satisfies its equation.
LEMMA FailsIs ==
    ASSUME NEW sys
    PROVE  \E F : /\ F[0] = {} /\ \A i \in 1 .. Cardinality(Activations) : F[i] = Failing(sys, F[i - 1])
                  /\ Fails(sys) = F[Cardinality(Activations)]
  <1> DEFINE n == Cardinality(Activations)
             V == SUBSET Activations
             st == [p \in (1 .. n) \X V |-> Failing(sys, p[2])]
             Is(R) == R = [i \in 0 .. n |->
                             IF i = 0 THEN {}
                             ELSE {a \in Activations :
                                     FailsIn(sys, a[1], a[2], Returns(sys), R[i - 1])}]
  <1>0. n \in Nat /\ 0 \in Nat /\ 0 <= n /\ {} \in V
    BY ActivationsFinite
  <1>1. ASSUME NEW i \in 1 .. n, NEW v \in V
        PROVE  st[<<i, v>>] = Failing(sys, v) /\ st[<<i, v>>] \in V
    <2>1. st[<<i, v>>] = Failing(sys, v)
      OBVIOUS
    <2>2. Failing(sys, v) \in V
      BY DEF Failing
    <2> QED BY <2>1, <2>2
  <1> HIDE DEF V, st, n
  <1>2. \A i \in 0 + 1 .. n : \A v \in V : st[<<i, v>>] \in V
    <2>1. 0 + 1 .. n = 1 .. n
      BY <1>0
    <2> QED BY <1>1, <2>1
  <1>3. PICK f \in [0 .. n -> V] : GoesUp(f, 0, n, {}, st)
    BY <1>0, <1>2, RecursionUp
  <1>4. ASSUME NEW i \in 1 .. n PROVE f[i] = Failing(sys, f[i - 1])
    <2>1. i \in 0 .. n /\ i # 0 /\ i - 1 \in 0 .. n
      BY <1>0
    <2>2. f[i] = st[<<i, f[i - 1]>>] /\ f[i - 1] \in V
      BY <1>3, <2>1 DEF GoesUp
    <2> QED BY <2>2, <1>1
  <1>5. f = [i \in 0 .. n |-> IF i = 0 THEN {} ELSE Failing(sys, f[i - 1])]
    <2>1. f[0] = {}
      BY <1>0, <1>3 DEF GoesUp
    <2> QED BY <1>0, <1>3, <1>4, <2>1
  <1>6. Is(f)
    BY <1>5 DEF Failing
  <1> DEFINE Q == CHOOSE R : Is(R)
  <1>7. Is(Q)
    <2> HIDE DEF Is
    <2> QED BY <1>6
  <1>8. Fails(sys) = Q[n]
    BY DEF Fails, n
  <1> HIDE DEF Q
  <1>9. Q = [i \in 0 .. n |-> IF i = 0 THEN {} ELSE Failing(sys, Q[i - 1])]
    BY <1>7 DEF Failing
  <1> HIDE DEF Is
  <1>10. 0 \in 0 .. n /\ \A i \in 1 .. n : i \in 0 .. n /\ i # 0
    BY <1>0
  <1>11. Q[0] = {} /\ \A i \in 1 .. n : Q[i] = Failing(sys, Q[i - 1])
    BY <1>9, <1>10
  <1> QED BY <1>8, <1>11 DEF n

\* If errors are in the main automaton only, an input that fails leads main
\* to one of its error locations over calls that return.
LEMMA FailsLead ==
    ASSUME NEW sys \in Programs, OnlyMainFails(sys), NEW w \in ErrorInputs(sys)
    PROVE  \E l \in sys[Main].err : Leads(Entry, l, Passable(sys, Main, w, Returns(sys)))
  <1> DEFINE n == Cardinality(Activations)
  <1>0. n \in Nat /\ 0 \in Nat
    BY ActivationsFinite
  <1>1. PICK F : /\ F[0] = {} /\ \A i \in 1 .. n : F[i] = Failing(sys, F[i - 1])
                 /\ Fails(sys) = F[n]
    BY FailsIs
  <1> HIDE DEF n
  <1>2. \A p \in Procs : \A e \in EdgesOf(sys[p]) : e.callee # Main
    BY ProgramsAssumption DEF IsSystem
  <1> DEFINE I == {i \in 0 .. n : \A a \in F[i] : a[1] = Main}
  <1>3. 0 \in I
    BY <1>0, <1>1
  <1>4. ASSUME NEW i \in 0 .. n, i \in I, i < n PROVE i + 1 \in I
    <2>1. i + 1 \in 1 .. n /\ i + 1 \in 0 .. n /\ i + 1 - 1 = i
      BY <1>0, <1>4
    <2>2. SUFFICES ASSUME NEW a \in F[i + 1], a[1] # Main PROVE FALSE
      BY <2>1
    <2>3. a \in Activations /\ FailsIn(sys, a[1], a[2], Returns(sys), F[i])
      BY <1>1, <2>1, <2>2 DEF Failing
    <2>4. a[1] \in Procs
      BY <2>3 DEF Activations
    <2>5. sys[a[1]].err = {}
      BY <2>2, <2>4 DEF OnlyMainFails
    <2>6. PICK e \in EdgesOf(sys[a[1]]) : <<e.callee, e.arg[a[2]]>> \in F[i]
      BY <2>3, <2>5, Zenon DEF FailsIn
    <2>7. e.callee = Main
      <3> DEFINE b == <<e.callee, e.arg[a[2]]>>
      <3>1. b \in F[i] /\ b[1] = e.callee
        BY <2>6
      <3> QED BY <1>4, <3>1
    <2> QED BY <1>2, <2>4, <2>7
  <1>5. 0 .. n \subseteq I
    <2>1. 0 <= n => 0 \in I
      BY <1>3
    <2> HIDE DEF I
    <2> QED BY <1>0, <1>4, <2>1, IntervalInduction
  <1>6. <<Main, w>> \in F[n]
    BY <1>1 DEF ErrorInputs
  <1>7. n \in 1 .. n /\ n - 1 \in 0 .. n
    BY <1>0, <1>1, <1>6
  <1>8. FailsIn(sys, Main, w, Returns(sys), F[n - 1])
    BY <1>1, <1>6, <1>7 DEF Failing
  <1>9. Main \in Procs
    BY ProcsAssumption
  <1>10. ~\E e \in EdgesOf(sys[Main]) : <<e.callee, e.arg[w]>> \in F[n - 1]
    <2> SUFFICES ASSUME NEW e \in EdgesOf(sys[Main]), <<e.callee, e.arg[w]>> \in F[n - 1] PROVE FALSE
      OBVIOUS
    <2> DEFINE b == <<e.callee, e.arg[w]>>
    <2>1. b \in F[n - 1] /\ b[1] = e.callee
      OBVIOUS
    <2>2. e.callee = Main
      BY <1>5, <1>7, <2>1
    <2> QED BY <1>2, <1>9, <2>2
  <1>11. Visits(sys, Main, w, Returns(sys)) \cap sys[Main].err # {}
    BY <1>8, <1>10, Zenon DEF FailsIn
  <1> QED BY <1>9, <1>11, VisitsLead

-----------------------------------------------------------------------------
(* Path conditions *)

\* A formula: for each input, the assignments of the predecessor variables.
Formula == [World -> SUBSET SUBSET (Nat \X Nat \X Nat)]

\* What encode computes for location l from the formulas A of its predecessors.
Within(l, s) == {e \in Incoming(l) : locNum[e.src] >= s}
HoldsFor(e, w, cs) == w \in e.guard /\ (IsCall(e) => cs[e.id].approx)
Choice(l, e, s, enc) == IF Cardinality(Within(l, s)) = 1 THEN {} ELSE {<<enc, l, e.src>>}
Combined(A, l, s, cs, enc) ==
    [w \in World |->
       UNION {{a \cup Choice(l, e, s, enc) : a \in A[locNum[e.src] - s + 1][w]} :
              e \in {f \in Within(l, s) : HoldsFor(f, w, cs)}}]

\* The table dp up to position k.
IsTable(D, s, k, cs, enc) ==
    D = [i \in s .. k |-> IF i = s THEN <<[w \in World |-> {{}}]>>
                          ELSE Append(D[i - 1], Combined(D[i - 1], topo[i], s, cs, enc))]

\* The numbers of locations.
LEMMA NumberFacts ==
    ASSUME GraphInv, OrderInv
    PROVE  /\ DOMAIN topo = 1 .. Len(topo) /\ Len(topo) \in Nat
           /\ \A l \in nodes : /\ l \in Nat /\ locNum[l] \in DOMAIN topo /\ topo[locNum[l]] = l
                               /\ locNum[l] \in Nat /\ locNum[l] \in 0 .. Len(topo)
           /\ \A i \in DOMAIN topo : i \in Nat /\ topo[i] \in nodes /\ locNum[topo[i]] = i
           /\ \A e \in edges : e.src \in nodes /\ e.dst \in nodes /\ locNum[e.src] < locNum[e.dst]
  <1>1. DOMAIN topo = 1 .. Len(topo) /\ Len(topo) \in Nat
    BY DEF OrderInv
  <1>2. ASSUME NEW l \in nodes
        PROVE  l \in Nat /\ locNum[l] \in DOMAIN topo /\ topo[locNum[l]] = l
    BY DEF GraphInv, OrderInv
  <1>3. ASSUME NEW i \in DOMAIN topo PROVE topo[i] \in nodes /\ locNum[topo[i]] = i
    BY DEF OrderInv
  <1>4. ASSUME NEW e \in edges PROVE e.src \in nodes /\ e.dst \in nodes /\ locNum[e.src] < locNum[e.dst]
    BY DEF GraphInv, OrderInv
  <1> QED BY <1>1, <1>2, <1>3, <1>4

\* A row of the table combines rows that are there, and is a formula.
LEMMA CombinedType ==
    ASSUME GraphInv, OrderInv, NEW s \in DOMAIN topo, NEW i \in DOMAIN topo, s < i,
           NEW d \in Seq(Formula), Len(d) = i - s, NEW cs, NEW enc \in Nat
    PROVE  Combined(d, topo[i], s, cs, enc) \in Formula
  <1>0. s \in Nat /\ i \in Nat /\ topo[i] \in Nat /\ topo[i] \in nodes
    BY NumberFacts
  <1> DEFINE X == Nat \X Nat \X Nat
  <1>1. ASSUME NEW w \in World, NEW e \in Within(topo[i], s), NEW a \in d[locNum[e.src] - s + 1][w]
        PROVE  a \cup Choice(topo[i], e, s, enc) \in SUBSET X
    <2>1. e \in edges /\ e.dst = topo[i] /\ locNum[e.src] >= s /\ e.src \in nodes /\ e.src \in Nat
      BY DEF Within, Incoming, GraphInv
    <2>2. locNum[e.src] \in Nat /\ locNum[e.src] < i
      <3>1. locNum[e.src] < locNum[topo[i]] /\ locNum[topo[i]] = i
        BY <2>1, NumberFacts
      <3> QED BY <2>1, <3>1, NumberFacts
    <2>3. locNum[e.src] - s + 1 \in 1 .. Len(d)
      BY <1>0, <2>1, <2>2
    <2>4. d[locNum[e.src] - s + 1] \in Formula
      BY <2>3
    <2>5. a \in SUBSET X
      BY <2>4, <1>1 DEF Formula
    <2>6. Choice(topo[i], e, s, enc) \in SUBSET X
      BY <1>0, <2>1 DEF Choice
    <2> HIDE DEF X
    <2> QED BY <2>5, <2>6
  <1> DEFINE U(w) == UNION {{a \cup Choice(topo[i], e, s, enc) : a \in d[locNum[e.src] - s + 1][w]} :
                            e \in {f \in Within(topo[i], s) : HoldsFor(f, w, cs)}}
  <1>2. ASSUME NEW w \in World PROVE U(w) \in SUBSET SUBSET X
    <2> HIDE DEF X
    <2> SUFFICES ASSUME NEW z \in U(w) PROVE z \in SUBSET X
      BY Zenon
    <2>1. PICK e \in Within(topo[i], s) :
             \E a \in d[locNum[e.src] - s + 1][w] : z = a \cup Choice(topo[i], e, s, enc)
      BY Zenon
    <2> QED BY <1>1, <2>1
  <1>3. Combined(d, topo[i], s, cs, enc) = [w \in World |-> U(w)]
    BY DEF Combined
  <1> HIDE DEF U
  <1> QED BY <1>2, <1>3 DEF Formula

\* The table exists: its recursive equation has a solution, of formulas.
LEMMA TableExists ==
    ASSUME GraphInv, OrderInv, NEW s \in DOMAIN topo, NEW t \in DOMAIN topo, s <= t,
           NEW cs, NEW enc \in Nat
    PROVE  \E D : IsTable(D, s, t, cs, enc)
  <1>0. s \in Nat /\ t \in Nat /\ \A i \in s .. t : i \in DOMAIN topo
    BY DEF OrderInv
  <1> DEFINE first == [w \in World |-> {{}}]
             Good(D, k) == /\ IsTable(D, s, k, cs, enc)
                           /\ D[k] \in Seq(Formula) /\ Len(D[k]) = k - s + 1
             S == {k \in s .. t : \E D : Good(D, k)}
  <1>1. s \in S
    <2> DEFINE D == [i \in s .. s |-> <<first>>]
    <2>0. s .. s = {s}
      BY <1>0
    <2>1. D[s] = <<first>>
      BY <2>0
    <2>2. first \in Formula
      BY DEF Formula
    <2>3. IsTable(D, s, s, cs, enc)
      BY <2>0, <2>1 DEF IsTable
    <2> HIDE DEF D, first
    <2>4. Good(D, s)
      BY <2>1, <2>2, <2>3, <1>0
    <2> HIDE DEF Good
    <2> QED BY <2>4, <1>0
  <1>2. ASSUME NEW k \in s .. t, k \in S, k < t PROVE k + 1 \in S
    <2>1. PICK f : Good(f, k)
      BY <1>2
    <2> DEFINE c == Combined(f[k], topo[k + 1], s, cs, enc)
               v == Append(f[k], c)
               g == [i \in s .. k + 1 |-> IF i = k + 1 THEN v ELSE f[i]]
    <2>2. /\ s .. k + 1 = (s .. k) \cup {k + 1} /\ k \in s .. k /\ k + 1 # s
          /\ k + 1 \in s .. t /\ k + 1 - 1 = k /\ k + 1 \in DOMAIN topo /\ s < k + 1
          /\ \A i \in s .. k : i # k + 1 /\ (i # s => i - 1 \in s .. k /\ i - 1 # k + 1)
      BY <1>0, <1>2
    <2>3. c \in Formula
      <3> DEFINE d == f[k]
                 i == k + 1
      <3>1. d \in Seq(Formula) /\ Len(d) = i - s /\ i \in DOMAIN topo /\ s < i
        BY <2>1, <2>2, <1>0
      <3> HIDE DEF d, i
      <3>2. Combined(d, topo[i], s, cs, enc) \in Formula
        BY <3>1, CombinedType
      <3> QED BY <3>2 DEF d, i
    <2> HIDE DEF c
    <2>4. v \in Seq(Formula) /\ Len(v) = k + 1 - s + 1
      BY <2>1, <2>3, <1>0
    <2>5. f = [i \in s .. k |-> IF i = s THEN <<first>>
                ELSE Append(f[i - 1], Combined(f[i - 1], topo[i], s, cs, enc))]
      BY <2>1 DEF IsTable
    <2>6. ASSUME NEW i \in s .. k + 1
          PROVE  g[i] = IF i = s THEN <<first>>
                        ELSE Append(g[i - 1], Combined(g[i - 1], topo[i], s, cs, enc))
      <3> HIDE DEF first
      <3>1. CASE i = k + 1
        <4>1. g[i] = v /\ g[i - 1] = f[k] /\ i # s
          BY <3>1, <2>2
        <4> QED BY <4>1, <3>1 DEF c
      <3>2. CASE i \in s .. k
        <4>1. g[i] = f[i] /\ (i # s => g[i - 1] = f[i - 1])
          BY <3>2, <2>2
        <4>2. f[i] = IF i = s THEN <<first>>
                ELSE Append(f[i - 1], Combined(f[i - 1], topo[i], s, cs, enc))
          BY <2>5, <3>2
        <4> HIDE DEF g
        <4> QED BY <4>1, <4>2
      <3> QED BY <3>1, <3>2, <2>2
    <2>7. g[k + 1] = v /\ DOMAIN g = s .. k + 1 /\ g = [i \in s .. k + 1 |-> g[i]]
      BY <2>2
    <2> HIDE DEF g, v
    <2>8. IsTable(g, s, k + 1, cs, enc)
      BY <2>6, <2>7 DEF IsTable
    <2>9. Good(g, k + 1)
      <3>1. g[k + 1] \in Seq(Formula) /\ Len(g[k + 1]) = k + 1 - s + 1
        BY <2>4, <2>7
      <3> QED BY <2>8, <3>1
    <2> HIDE DEF Good
    <2> QED BY <2>2, <2>9
  <1>3. s .. t \subseteq S
    <2>1. s <= t => s \in S
      BY <1>1
    <2> HIDE DEF S
    <2> QED BY <1>0, <1>2, <2>1, IntervalInduction
  <1>4. t \in S
    BY <1>0, <1>3
  <1> QED BY <1>4

\* Row i of the table D is a list of formulas, and the later rows keep it.
GoodRow(D, s, i) == /\ D[i] \in Seq(Formula) /\ Len(D[i]) = i - s + 1
                    /\ \A j \in s .. i : D[i][j - s + 1] = D[j][j - s + 1]

\* The rows of a table: there is one for each position, and it stays.
LEMMA TableRows ==
    ASSUME GraphInv, OrderInv, NEW s \in DOMAIN topo, NEW t \in DOMAIN topo, s <= t,
           NEW cs, NEW enc \in Nat, NEW D, IsTable(D, s, t, cs, enc)
    PROVE  \A i \in s .. t : GoodRow(D, s, i)
  <1>0. s \in Nat /\ t \in Nat /\ \A i \in s .. t : i \in DOMAIN topo
    BY DEF OrderInv
  <1> DEFINE first == [w \in World |-> {{}}]
             Good(i) == GoodRow(D, s, i)
             S == {k \in s .. t : Good(k)}
  <1>1. s \in S
    <2>1. s \in s .. t /\ s .. s = {s}
      BY <1>0
    <2>2. D[s] = <<first>>
      BY <2>1 DEF IsTable
    <2>3. first \in Formula
      BY DEF Formula
    <2> HIDE DEF first
    <2>4. D[s] \in Seq(Formula) /\ Len(D[s]) = 1 /\ 1 = s - s + 1
      BY <1>0, <2>2, <2>3
    <2>5. \A j \in s .. s : D[s][j - s + 1] = D[j][j - s + 1]
      BY <2>1
    <2>6. Good(s)
      BY <2>4, <2>5 DEF GoodRow
    <2> HIDE DEF Good
    <2> QED BY <2>1, <2>6
  <1>2. ASSUME NEW k \in s .. t, k \in S, k < t PROVE k + 1 \in S
    <2> DEFINE d == D[k]
               i == k + 1
               c == Combined(d, topo[i], s, cs, enc)
    <2>1. i \in s .. t /\ i # s /\ i - 1 = k /\ i \in DOMAIN topo /\ s < i /\ i \in Nat /\ k \in Nat
      BY <1>0, <1>2
    <2>2. D[i] = Append(d, c)
      BY <2>1 DEF IsTable
    <2>3. d \in Seq(Formula) /\ Len(d) = i - s
      <3>1. d \in Seq(Formula) /\ Len(d) = k - s + 1
        BY <1>2 DEF GoodRow
      <3> HIDE DEF d
      <3> QED BY <3>1, <1>0, <2>1
    <2>4. c \in Formula
      <3> HIDE DEF d, i
      <3> QED BY <2>1, <2>3, CombinedType
    <2>5. \A j \in s .. k : d[j - s + 1] = D[j][j - s + 1]
      BY <1>2 DEF GoodRow
    <2> HIDE DEF c, d
    <2>6. D[i] \in Seq(Formula) /\ Len(D[i]) = i - s + 1
      BY <1>0, <2>1, <2>2, <2>3, <2>4
    <2>7. ASSUME NEW j \in s .. i PROVE D[i][j - s + 1] = D[j][j - s + 1]
      <3>1. CASE j = i
        BY <3>1
      <3>2. CASE j \in s .. k
        <4>1. j - s + 1 \in 1 .. Len(d)
          BY <1>0, <2>1, <2>3, <3>2
        <4>2. D[i][j - s + 1] = d[j - s + 1]
          BY <2>2, <2>3, <2>4, <4>1
        <4> QED BY <2>5, <3>2, <4>2
      <3> QED BY <3>1, <3>2, <2>1
    <2> HIDE DEF i
    <2>8. Good(i)
      BY <2>6, <2>7 DEF GoodRow
    <2> QED BY <2>1, <2>8 DEF i
  <1>3. s .. t \subseteq S
    <2>1. s <= t => s \in S
      BY <1>1
    <2> HIDE DEF S
    <2> QED BY <1>0, <1>2, <2>1, IntervalInduction
  <1> QED BY <1>3

\* What the formulas A of the locations from `from' to `to' are.
IsEncoding(A, from, to, cs, enc) ==
    /\ A[from] = [w \in World |-> {{}}]
    /\ \A l \in nodes : locNum[from] < locNum[l] /\ locNum[l] <= locNum[to] =>
         A[l] = [w \in World |->
                   UNION {{a \cup Choice(l, e, locNum[from], enc) : a \in A[e.src][w]} :
                          e \in {f \in Within(l, locNum[from]) : HoldsFor(f, w, cs)}}]

\* encode returns the formula of its target.
LEMMA EncodeIs ==
    ASSUME GraphInv, OrderInv, NEW from \in nodes, NEW to \in nodes, locNum[from] <= locNum[to],
           NEW cs, NEW enc \in Nat
    PROVE  /\ Encode(from, to, cs, enc).formula \in Formula
           /\ \E A : /\ IsEncoding(A, from, to, cs, enc)
                     /\ Encode(from, to, cs, enc).formula = A[to]
  <1> DEFINE s == locNum[from]
             t == locNum[to]
             D == CHOOSE E : IsTable(E, s, t, cs, enc)
  <1>0. /\ s \in DOMAIN topo /\ t \in DOMAIN topo /\ s <= t /\ s \in Nat /\ t \in Nat
        /\ topo[s] = from /\ topo[t] = to /\ s \in s .. t /\ t \in s .. t
        /\ \A i \in DOMAIN topo : i \in Nat
    <2>1. /\ s \in DOMAIN topo /\ t \in DOMAIN topo /\ s \in Nat /\ t \in Nat
          /\ topo[s] = from /\ topo[t] = to /\ \A i \in DOMAIN topo : i \in Nat
      BY NumberFacts
    <2>2. s <= t
      OBVIOUS
    <2> HIDE DEF s, t
    <2> QED BY <2>1, <2>2
  <1>1. Encode(from, to, cs, enc).formula = D[t][t - s + 1]
    BY DEF Encode, IsTable, Combined, Within, HoldsFor, Choice
  <1> HIDE DEF s, t
  <1>2. IsTable(D, s, t, cs, enc)
    <2>1. \E E : IsTable(E, s, t, cs, enc)
      BY <1>0, TableExists
    <2> QED BY <2>1
  <1> HIDE DEF D
  <1>3. \A i \in s .. t : /\ D[i] \in Seq(Formula) /\ Len(D[i]) = i - s + 1
                          /\ \A j \in s .. i : D[i][j - s + 1] = D[j][j - s + 1]
    <2>1. \A i \in s .. t : GoodRow(D, s, i)
      BY <1>0, <1>2, TableRows
    <2> QED BY <2>1 DEF GoodRow
  <1> DEFINE A == [l \in nodes |-> D[t][locNum[l] - s + 1]]
  <1>4. D[t][t - s + 1] \in Formula
    <2>1. D[t] \in Seq(Formula) /\ Len(D[t]) = t - s + 1 /\ t - s + 1 \in 1 .. t - s + 1
      BY <1>0, <1>3
    <2> QED BY <2>1
  <1>5. A[to] = D[t][t - s + 1]
    BY DEF t
  <1>6. A[from] = [w \in World |-> {{}}]
    <2>1. A[from] = D[t][s - s + 1] /\ s - s + 1 = 1
      BY <1>0 DEF s
    <2>2. D[t][s - s + 1] = D[s][s - s + 1]
      BY <1>0, <1>3
    <2> DEFINE first == [w \in World |-> {{}}]
    <2>3. D[s] = <<first>>
      BY <1>0, <1>2 DEF IsTable
    <2> HIDE DEF first, A
    <2>4. D[s][1] = first
      BY <2>3
    <2> QED BY <2>1, <2>2, <2>4 DEF first
  <1>7. ASSUME NEW l \in nodes, s < locNum[l], locNum[l] <= t
        PROVE  A[l] = [w \in World |->
                         UNION {{a \cup Choice(l, e, s, enc) : a \in A[e.src][w]} :
                                e \in {f \in Within(l, s) : HoldsFor(f, w, cs)}}]
    <2> DEFINE i == locNum[l]
               d == D[i - 1]
    <2>1. /\ i \in DOMAIN topo /\ i \in Nat /\ topo[i] = l /\ i \in s .. t /\ i # s
          /\ i - 1 \in s .. t
      BY <1>0, <1>7 DEF OrderInv
    <2>2. A[l] = D[t][i - s + 1]
      OBVIOUS
    <2> HIDE DEF i, A
    <2>3. A[l] = D[i][i - s + 1]
      BY <1>0, <1>3, <2>1, <2>2
    <2>4. D[i] = Append(d, Combined(d, l, s, cs, enc))
      BY <1>2, <2>1 DEF IsTable
    <2>5. d \in Seq(Formula) /\ Len(d) = i - s
      <3>1. D[i - 1] \in Seq(Formula) /\ Len(D[i - 1]) = i - 1 - s + 1
        BY <1>3, <2>1
      <3> QED BY <3>1, <1>0, <2>1
    <2>6. ASSUME NEW e \in Within(l, s)
          PROVE  d[locNum[e.src] - s + 1] = A[e.src]
      <3> DEFINE j == locNum[e.src]
      <3>1. e \in edges /\ e.dst = l /\ j >= s /\ e.src \in nodes
        BY DEF Within, Incoming, GraphInv
      <3>2. j \in Nat /\ j < i
        BY <1>0, <3>1 DEF OrderInv, i
      <3>3. j \in s .. i - 1 /\ j \in s .. t
        BY <1>0, <2>1, <3>1, <3>2
      <3>4. A[e.src] = D[t][j - s + 1]
        BY <3>1 DEF A
      <3> HIDE DEF j
      <3>5. D[t][j - s + 1] = D[j][j - s + 1] /\ D[i - 1][j - s + 1] = D[j][j - s + 1]
        BY <1>0, <1>3, <2>1, <3>3
      <3> QED BY <3>4, <3>5 DEF j
    <2> HIDE DEF d
    <2> DEFINE C == Combined(d, l, s, cs, enc)
    <2>7. A[l] = C
      <3>1. C \in Formula
        BY <1>0, <2>1, <2>5, <1>7, CombinedType DEF i
      <3> HIDE DEF C
      <3> QED BY <1>0, <2>1, <2>3, <2>4, <2>5, <3>1 DEF C
    <2>8. C = [w \in World |->
                 UNION {{a \cup Choice(l, e, s, enc) : a \in A[e.src][w]} :
                        e \in {f \in Within(l, s) : HoldsFor(f, w, cs)}}]
      <3> DEFINE G(e, w) == {a \cup Choice(l, e, s, enc) : a \in d[locNum[e.src] - s + 1][w]}
                 H(e, w) == {a \cup Choice(l, e, s, enc) : a \in A[e.src][w]}
                 U(w) == UNION {G(e, w) : e \in {f \in Within(l, s) : HoldsFor(f, w, cs)}}
                 W(w) == UNION {H(e, w) : e \in {f \in Within(l, s) : HoldsFor(f, w, cs)}}
      <3>1. ASSUME NEW w \in World, NEW x PROVE x \in U(w) <=> x \in W(w)
        <4>1. ASSUME NEW e \in Within(l, s) PROVE G(e, w) = H(e, w)
          BY <2>6
        <4> HIDE DEF G, H
        <4> QED BY <4>1
      <3>2. ASSUME NEW w \in World PROVE U(w) = W(w)
        <4> HIDE DEF U, W
        <4> QED BY <3>1, Zenon
      <3>3. C = [w \in World |-> U(w)]
        BY DEF Combined
      <3> HIDE DEF U, C
      <3> QED BY <3>2, <3>3
    <2> QED BY <2>7, <2>8
  <1>8. IsEncoding(A, from, to, cs, enc)
    <2> HIDE DEF A
    <2> QED BY <1>6, <1>7 DEF IsEncoding, s, t
  <1> HIDE DEF A
  <1> QED BY <1>1, <1>4, <1>5, <1>8

\* Transitions lead forward in the order.
LEMMA LeadsForward ==
    ASSUME GraphInv, OrderInv, NEW a \in nodes, NEW b, NEW E \in SUBSET edges, Leads(a, b, E)
    PROVE  b \in nodes /\ locNum[a] \in Nat /\ locNum[b] \in Nat /\ locNum[a] <= locNum[b]
  <1> DEFINE T == {l \in nodes : locNum[a] <= locNum[l]}
  <1>1. \A l \in nodes : locNum[l] \in Nat
    BY DEF OrderInv
  <1>2. a \in T
    BY <1>1
  <1>3. \A e \in E : e.src \in T => e.dst \in T
    <2> SUFFICES ASSUME NEW e \in E, e.src \in T PROVE e.dst \in T
      OBVIOUS
    <2>1. e.src \in nodes /\ e.dst \in nodes /\ locNum[e.src] < locNum[e.dst]
      BY DEF GraphInv, OrderInv
    <2> QED BY <1>1, <2>1
  <1>4. b \in T
    BY <1>2, <1>3 DEF Leads, Closed
  <1> QED BY <1>1, <1>4

\* A path condition is complete: an input that satisfies all transitions of a
\* way from the start to the target satisfies the formula.
LEMMA EncodeComplete ==
    ASSUME GraphInv, OrderInv, NEW from \in nodes, NEW to, NEW cs, NEW enc \in Nat,
           NEW w \in World, NEW E \in SUBSET edges, Leads(from, to, E),
           \A e \in E : HoldsFor(e, w, cs)
    PROVE  Encode(from, to, cs, enc).formula[w] # {}
  <1> DEFINE s == locNum[from]
             t == locNum[to]
  <1>1. to \in nodes /\ s <= t /\ s \in Nat /\ t \in Nat
    BY LeadsForward
  <1>2. PICK A : /\ IsEncoding(A, from, to, cs, enc)
                 /\ Encode(from, to, cs, enc).formula = A[to]
    BY <1>1, EncodeIs
  <1> DEFINE T == {l \in nodes : s <= locNum[l] /\ (locNum[l] <= t => A[l][w] # {})}
  <1>3. from \in T
    <2>1. A[from][w] = {{}} /\ {{}} # {}
      BY <1>2 DEF IsEncoding
    <2>2. A[from][w] # {}
      BY <2>1
    <2> QED BY <1>1, <2>2
  <1>4. ASSUME NEW e \in E, e.src \in T PROVE e.dst \in T
    <2>1. e.src \in nodes /\ e.dst \in nodes /\ locNum[e.src] < locNum[e.dst]
      BY DEF GraphInv, OrderInv
    <2>2. locNum[e.src] \in Nat /\ locNum[e.dst] \in Nat
      BY <2>1 DEF OrderInv
    <2>3. s < locNum[e.dst] /\ s <= locNum[e.src]
      BY <1>1, <1>4, <2>1, <2>2
    <2>4. SUFFICES ASSUME locNum[e.dst] <= t PROVE A[e.dst][w] # {}
      BY <1>1, <2>1, <2>2, <2>3
    <2>5. PICK a \in A[e.src][w] : TRUE
      BY <1>1, <1>4, <2>1, <2>2, <2>4
    <2> DEFINE G(f) == {b \cup Choice(e.dst, f, s, enc) : b \in A[f.src][w]}
               S == {f \in Within(e.dst, s) : HoldsFor(f, w, cs)}
    <2>6. e \in S
      BY <2>1, <2>2, <2>3 DEF Within, Incoming
    <2>7. a \cup Choice(e.dst, e, s, enc) \in G(e)
      BY <2>5
    <2>8. A[e.dst][w] = UNION {G(f) : f \in S}
      <3> DEFINE l == e.dst
      <3>1. l \in nodes /\ locNum[from] < locNum[l] /\ locNum[l] <= locNum[to]
        BY <2>1, <2>3, <2>4
      <3> HIDE DEF l
      <3>2. A[l] = [v \in World |->
                      UNION {{b \cup Choice(l, f, s, enc) : b \in A[f.src][v]} :
                             f \in {f \in Within(l, s) : HoldsFor(f, v, cs)}}]
        BY <1>2, <3>1 DEF IsEncoding
      <3> QED BY <3>2 DEF l
    <2> HIDE DEF G, S
    <2> QED BY <2>6, <2>7, <2>8
  <1>5. to \in T
    <2>1. Closed(T, E)
      BY <1>4 DEF Closed
    <2> HIDE DEF T
    <2> QED BY <1>3, <2>1 DEF Leads
  <1> QED BY <1>1, <1>2, <1>5

-----------------------------------------------------------------------------
(* Common dominators *)

\* The least and the greatest of a nonempty set of numbers.
LEMMA HighestIs ==
    ASSUME NEW n \in Nat, NEW S \in SUBSET (0 .. n), S # {}
    PROVE  Highest(S) \in S /\ \A j \in S : j <= Highest(S)
  BY LargestNatural DEF Highest

\* A nonempty set of numbers has a lowest one.
LEMMA LowestIs ==
    ASSUME NEW S \in SUBSET Nat, S # {}
    PROVE  Lowest(S) \in S /\ \A j \in S : Lowest(S) <= j
  BY LeastNatural DEF Lowest

\* Every way from a to b along transitions of the graph runs through d.
Through(a, d, b) ==
    \A E \in SUBSET edges : Leads(a, b, E) => Leads(a, d, E) /\ Leads(d, b, E)

\* The table of findLowestCommonDominator up to position i, and its next row.
DomRow(dom, i, s, n) ==
    dom \cup {<<i, i>>} \cup
      {<<i, d>> : d \in {d \in s .. n : \A e \in Incoming(topo[i]) :
                           locNum[e.src] >= s => <<locNum[e.src], d>> \in dom}}

\* The table that findLowestCommonDominator fills, row by row, and what it
\* returns.
LEMMA LowestCommonDominatorIs ==
    ASSUME GraphInv, OrderInv, NEW targets \in SUBSET edges, targets # {}, NEW start \in nodes,
           \A e \in targets : locNum[start] <= locNum[e.src]
    PROVE  \E D : LET s == locNum[start]
                      n == Last(targets)
                  IN  /\ n \in {locNum[e.src] : e \in targets}
                      /\ \A e \in targets : locNum[e.src] <= n
                      /\ D[s] = {<<s, s>>}
                      /\ \A i \in s + 1 .. n : D[i] = DomRow(D[i - 1], i, s, n)
                      /\ FindLowestCommonDominator(targets, start)
                           = topo[Highest({d \in s .. n : \A e \in targets : <<locNum[e.src], d>> \in D[n]})]
  <1> DEFINE s == locNum[start]
             n == Last(targets)
             V == SUBSET ((s .. n) \X (s .. n))
             st == [p \in (s + 1 .. n) \X V |-> DomRow(p[2], p[1], s, n)]
             Is(R) == R = [i \in s .. n |->
                             IF i = s THEN {<<s, s>>}
                             ELSE R[i - 1] \cup {<<i, i>>} \cup
                                    {<<i, d>> : d \in {d \in s .. n : \A e \in Incoming(topo[i]) :
                                        locNum[e.src] >= s => <<locNum[e.src], d>> \in R[i - 1]}}]
             Q == CHOOSE R : Is(R)
  <1>1. FindLowestCommonDominator(targets, start)
          = topo[Highest({d \in s .. n : \A e \in targets : <<locNum[e.src], d>> \in Q[n]})]
    BY DEF FindLowestCommonDominator
  <1>2. /\ n \in {locNum[e.src] : e \in targets}
        /\ \A e \in targets : locNum[e.src] <= n
    <2> DEFINE S == {locNum[e.src] : e \in targets}
    <2>1. Len(topo) \in Nat /\ S \in SUBSET (0 .. Len(topo)) /\ S # {}
      <3>1. \A e \in targets : locNum[e.src] \in 0 .. Len(topo)
        BY NumberFacts
      <3> QED BY <3>1, NumberFacts
    <2> HIDE DEF S
    <2>2. Highest(S) \in S /\ \A j \in S : j <= Highest(S)
      BY <2>1, HighestIs
    <2> QED BY <2>2 DEF Last, S
  <1>3. s \in Nat /\ n \in Nat /\ s <= n /\ s \in s .. n
    <2>1. PICK e \in targets : n = locNum[e.src]
      BY <1>2
    <2>2. s \in Nat /\ n \in Nat /\ s <= n
      BY <2>1, NumberFacts
    <2> HIDE DEF s, n
    <2> QED BY <2>2
  <1>4. ASSUME NEW i \in s + 1 .. n, NEW v \in V
        PROVE  st[<<i, v>>] = DomRow(v, i, s, n) /\ st[<<i, v>>] \in V
    <2>1. st[<<i, v>>] = DomRow(v, i, s, n)
      OBVIOUS
    <2>2. DomRow(v, i, s, n) \in V
      BY <1>3 DEF DomRow
    <2> QED BY <2>1, <2>2
  <1>5. {<<s, s>>} \in V
    BY <1>3
  <1> HIDE DEF V, st, n, s
  <1>6. PICK f \in [s .. n -> V] : GoesUp(f, s, n, {<<s, s>>}, st)
    <2>1. \A i \in s + 1 .. n : \A v \in V : st[<<i, v>>] \in V
      BY <1>4
    <2> DEFINE c == {<<s, s>>}
    <2> HIDE DEF c
    <2>2. \E f \in [s .. n -> V] : GoesUp(f, s, n, c, st)
      BY <1>3, <1>5, <2>1, RecursionUp DEF c
    <2> QED BY <2>2 DEF c
  <1>7. ASSUME NEW i \in s + 1 .. n PROVE f[i] = DomRow(f[i - 1], i, s, n)
    <2>1. i \in s .. n /\ i # s /\ i - 1 \in s .. n
      BY <1>3
    <2>2. f[i] = st[<<i, f[i - 1]>>] /\ f[i - 1] \in V
      BY <1>6, <2>1 DEF GoesUp
    <2> QED BY <2>2, <1>4
  <1>8. f = [i \in s .. n |-> IF i = s THEN {<<s, s>>} ELSE DomRow(f[i - 1], i, s, n)]
    <2>1. f[s] = {<<s, s>>}
      BY <1>3, <1>6 DEF GoesUp
    <2>2. \A i \in s .. n : i # s => i \in s + 1 .. n
      BY <1>3
    <2> QED BY <1>6, <1>7, <2>1, <2>2
  <1>9. Is(f)
    BY <1>8 DEF DomRow
  <1>10. Is(Q)
    <2> HIDE DEF Is
    <2> QED BY <1>9
  <1> HIDE DEF Q
  <1>11. Q = [i \in s .. n |-> IF i = s THEN {<<s, s>>} ELSE DomRow(Q[i - 1], i, s, n)]
    BY <1>10 DEF DomRow
  <1> HIDE DEF Is
  <1>12. Q[s] = {<<s, s>>} /\ \A i \in s + 1 .. n : Q[i] = DomRow(Q[i - 1], i, s, n)
    <2>1. \A i \in s + 1 .. n : i \in s .. n /\ i # s
      BY <1>3
    <2> QED BY <1>3, <1>11, <2>1
  <1> QED BY <1>1, <1>2, <1>12 DEF s, n

\* Every location that the table says dominates another does, and the start
\* dominates all.
LEMMA DominatorRows ==
    ASSUME GraphInv, OrderInv, NEW start \in nodes, NEW n \in DOMAIN topo, NEW D,
           locNum[start] <= n,
           D[locNum[start]] = {<<locNum[start], locNum[start]>>},
           \A i \in locNum[start] + 1 .. n : D[i] = DomRow(D[i - 1], i, locNum[start], n)
    PROVE  \A i \in locNum[start] .. n :
             /\ \A j \in locNum[start] .. i : <<j, locNum[start]>> \in D[i]
             /\ \A p \in D[i] : /\ p \in (locNum[start] .. i) \X (locNum[start] .. n)
                                /\ Through(start, topo[p[2]], topo[p[1]])
  <1> DEFINE s == locNum[start]
             Good(i) == /\ \A j \in s .. i : <<j, s>> \in D[i]
                        /\ \A p \in D[i] : /\ p \in (s .. i) \X (s .. n)
                                           /\ Through(start, topo[p[2]], topo[p[1]])
             S == {i \in s .. n : Good(i)}
  <1>0. s \in Nat /\ n \in Nat /\ s \in s .. n /\ topo[s] = start /\ s .. s = {s}
    BY DEF OrderInv
  <1>1. s \in S
    <2>1. \A j \in s .. s : <<j, s>> \in D[s]
      BY <1>0
    <2>2. Through(start, start, start)
      BY LeadsSelf DEF Through
    <2>3. \A p \in D[s] : p[1] = s /\ p[2] = s /\ p \in (s .. s) \X (s .. n)
      BY <1>0
    <2> QED BY <1>0, <2>1, <2>2, <2>3
  <1>2. ASSUME NEW k \in s .. n, k \in S, k < n PROVE k + 1 \in S
    <2> DEFINE i == k + 1
    <2>1. /\ i \in s + 1 .. n /\ i - 1 = k /\ i \in s .. n /\ k \in Nat /\ i \in Nat /\ k < i
          /\ s .. i = (s .. k) \cup {i} /\ i # s /\ s <= i
      BY <1>0, <1>2
    <2>2. D[i] = DomRow(D[k], i, s, n)
      BY <2>1
    <2>3. i \in DOMAIN topo /\ topo[i] \in nodes /\ locNum[topo[i]] = i /\ topo[i] # start
      <3>1. n \in DOMAIN topo /\ DOMAIN topo = 1 .. Len(topo) /\ Len(topo) \in Nat /\ s \in DOMAIN topo
        BY NumberFacts
      <3>2. i \in DOMAIN topo
        BY <2>1, <3>1
      <3> QED BY <1>0, <2>1, <3>2, NumberFacts
    <2>4. Good(k)
      BY <1>2
    <2> HIDE DEF i
    <2>5. ASSUME NEW e \in Incoming(topo[i]), locNum[e.src] >= s
          PROVE  locNum[e.src] \in s .. k /\ topo[locNum[e.src]] = e.src
      <3>1. e \in edges /\ e.dst = topo[i] /\ e.src \in nodes
        BY DEF Incoming, GraphInv
      <3>2. locNum[e.src] \in Nat /\ locNum[e.src] < i /\ topo[locNum[e.src]] = e.src
        BY <2>3, <3>1 DEF OrderInv
      <3>3. i = k + 1
        BY DEF i
      <3> QED BY <1>0, <2>1, <2>5, <3>2, <3>3
    <2>6. \A j \in s .. i : <<j, s>> \in D[i]
      <3>1. \A e \in Incoming(topo[i]) : locNum[e.src] >= s => <<locNum[e.src], s>> \in D[k]
        BY <2>4, <2>5
      <3>2. <<i, s>> \in D[i]
        BY <1>0, <2>2, <3>1 DEF DomRow
      <3>3. \A j \in s .. k : <<j, s>> \in D[i]
        BY <2>2, <2>4 DEF DomRow
      <3> QED BY <2>1, <3>2, <3>3
    <2>7. ASSUME NEW d \in s .. n,
                 \A e \in Incoming(topo[i]) : locNum[e.src] >= s => <<locNum[e.src], d>> \in D[k]
          PROVE  Through(start, topo[d], topo[i])
      <3> SUFFICES ASSUME NEW E \in SUBSET edges, Leads(start, topo[i], E)
                   PROVE  Leads(start, topo[d], E) /\ Leads(topo[d], topo[i], E)
        BY DEF Through
      <3>1. PICK e \in E : e.dst = topo[i] /\ Leads(start, e.src, E)
        BY <2>3, LeadsLast
      <3>2. e \in Incoming(topo[i]) /\ locNum[e.src] >= s
        BY <1>0, <3>1, LeadsForward DEF Incoming
      <3>3. <<locNum[e.src], d>> \in D[k]
        BY <2>7, <3>2
      <3>4. Through(start, topo[d], topo[locNum[e.src]])
        BY <2>4, <3>3
      <3>5. Leads(start, topo[d], E) /\ Leads(topo[d], e.src, E)
        BY <2>5, <3>1, <3>2, <3>4 DEF Through
      <3>6. Leads(topo[d], e.dst, E)
        BY <3>5, LeadsOn
      <3> QED BY <3>1, <3>5, <3>6
    <2>8. Through(start, topo[i], topo[i])
      BY LeadsSelf DEF Through
    <2>9. ASSUME NEW p \in D[i]
          PROVE  p \in (s .. i) \X (s .. n) /\ Through(start, topo[p[2]], topo[p[1]])
      <3>1. CASE p \in D[k]
        BY <2>1, <2>4, <3>1
      <3>2. CASE p = <<i, i>>
        BY <2>1, <2>8, <3>2
      <3>3. CASE \E d \in s .. n : /\ p = <<i, d>>
                                   /\ \A e \in Incoming(topo[i]) :
                                        locNum[e.src] >= s => <<locNum[e.src], d>> \in D[k]
        BY <2>1, <2>7, <3>3
      <3> QED BY <2>2, <3>1, <3>2, <3>3 DEF DomRow
    <2>10. Good(i)
      BY <2>6, <2>9
    <2> HIDE DEF Good
    <2> QED BY <2>1, <2>10 DEF i
  <1>3. s .. n \subseteq S
    <2>1. s <= n => s \in S
      BY <1>1
    <2> HIDE DEF S
    <2> QED BY <1>0, <1>2, <2>1, IntervalInduction
  <1> QED BY <1>3

\* findLowestCommonDominator returns a location that all ways from the start to
\* a target run through.
LEMMA LowestCommonDominatorWorks ==
    ASSUME GraphInv, OrderInv, NEW targets \in SUBSET edges, targets # {}, NEW start \in nodes,
           \A e \in targets : locNum[start] <= locNum[e.src]
    PROVE  /\ FindLowestCommonDominator(targets, start) \in nodes
           /\ \A e \in targets : Through(start, FindLowestCommonDominator(targets, start), e.src)
  <1> DEFINE s == locNum[start]
             n == Last(targets)
             r == FindLowestCommonDominator(targets, start)
  <1>1. PICK D : /\ n \in {locNum[e.src] : e \in targets}
                 /\ \A e \in targets : locNum[e.src] <= n
                 /\ D[s] = {<<s, s>>}
                 /\ \A i \in s + 1 .. n : D[i] = DomRow(D[i - 1], i, s, n)
                 /\ r = topo[Highest({d \in s .. n : \A e \in targets : <<locNum[e.src], d>> \in D[n]})]
    BY LowestCommonDominatorIs
  <1>2. /\ n \in DOMAIN topo /\ n \in Nat /\ s \in Nat /\ s <= n /\ n \in s .. n /\ s \in s .. n
        /\ \A i \in s .. n : i \in DOMAIN topo /\ i \in 0 .. n
    <2>1. DOMAIN topo = 1 .. Len(topo) /\ Len(topo) \in Nat
      BY DEF OrderInv
    <2>2. s \in DOMAIN topo
      BY DEF OrderInv
    <2>3. PICK e \in targets : n = locNum[e.src]
      BY <1>1
    <2>4. e.src \in nodes
      BY DEF GraphInv
    <2>5. n \in DOMAIN topo /\ s <= n
      BY <2>3, <2>4 DEF OrderInv
    <2> HIDE DEF s, n
    <2> QED BY <2>1, <2>2, <2>5
  <1>3. ASSUME NEW e \in targets
        PROVE  locNum[e.src] \in s .. n /\ topo[locNum[e.src]] = e.src
    <2>1. /\ locNum[e.src] \in Nat /\ s <= locNum[e.src] /\ locNum[e.src] <= n
          /\ topo[locNum[e.src]] = e.src
      BY <1>1, NumberFacts
    <2> HIDE DEF s, n
    <2> QED BY <1>2, <2>1
  <1> HIDE DEF r, n
  <1>4. /\ \A j \in s .. n : <<j, s>> \in D[n]
        /\ \A p \in D[n] : Through(start, topo[p[2]], topo[p[1]])
    <2>1. \A i \in s .. n :
             /\ \A j \in s .. i : <<j, s>> \in D[i]
             /\ \A p \in D[i] : /\ p \in (s .. i) \X (s .. n)
                                /\ Through(start, topo[p[2]], topo[p[1]])
      BY <1>1, <1>2, DominatorRows
    <2> QED BY <1>2, <2>1
  <1> DEFINE C == {d \in s .. n : \A e \in targets : <<locNum[e.src], d>> \in D[n]}
             h == Highest(C)
  <1>5. h \in C
    <2>1. s \in C
      BY <1>2, <1>3, <1>4
    <2>2. C \in SUBSET (0 .. n) /\ C # {}
      BY <1>2, <2>1
    <2> HIDE DEF C
    <2> QED BY <1>2, <2>2, HighestIs
  <1>6. r = topo[h]
    BY <1>1
  <1> HIDE DEF h
  <1>7. r \in nodes
    BY <1>2, <1>5, <1>6 DEF OrderInv
  <1>8. ASSUME NEW e \in targets PROVE Through(start, r, e.src)
    <2> DEFINE p == <<locNum[e.src], h>>
    <2>1. p \in D[n] /\ p[1] = locNum[e.src] /\ p[2] = h
      BY <1>5
    <2>2. Through(start, topo[h], topo[locNum[e.src]])
      BY <1>4, <2>1
    <2> QED BY <1>3, <1>6, <2>2
  <1> QED BY <1>7, <1>8 DEF r

-----------------------------------------------------------------------------
(* Common post-dominators: the same, backwards *)

\* The row of findHighestCommonPostDominator's table for position i.
PostRow(dom, i, m, s) ==
    dom \cup {<<i, i>>} \cup
      {<<i, d>> : d \in {d \in m .. s : \A e \in Outgoing(topo[i]) :
                           locNum[e.dst] <= s => <<locNum[e.dst], d>> \in dom}}

\* The table that findHighestCommonPostDominator fills, and what it returns.
LEMMA HighestCommonPostDominatorIs ==
    ASSUME GraphInv, OrderInv, NEW targets \in SUBSET edges, targets # {}, NEW start \in nodes,
           \A e \in targets : locNum[e.dst] <= locNum[start]
    PROVE  \E D : LET s == locNum[start]
                      m == First(targets) + 1
                  IN  /\ m \in Nat /\ m > 0 /\ m <= s
                      /\ \A e \in targets : m <= locNum[e.dst]
                      /\ D[s] = {<<s, s>>}
                      /\ \A i \in m .. s - 1 : D[i] = PostRow(D[i + 1], i, m, s)
                      /\ FindHighestCommonPostDominator(targets, start)
                           = topo[Lowest({d \in m .. s : \A e \in targets : <<locNum[e.dst], d>> \in D[m]})]
  <1> DEFINE s == locNum[start]
             m == First(targets) + 1
             V == SUBSET ((m .. s) \X (m .. s))
             st == [p \in (m .. s - 1) \X V |-> PostRow(p[2], p[1], m, s)]
             Is(R) == R = [i \in m .. s |->
                             IF i = s THEN {<<s, s>>}
                             ELSE R[i + 1] \cup {<<i, i>>} \cup
                                    {<<i, d>> : d \in {d \in m .. s : \A e \in Outgoing(topo[i]) :
                                        locNum[e.dst] <= s => <<locNum[e.dst], d>> \in R[i + 1]}}]
             Q == CHOOSE R : Is(R)
  <1>1. FindHighestCommonPostDominator(targets, start)
          = topo[Lowest({d \in m .. s : \A e \in targets : <<locNum[e.dst], d>> \in Q[m]})]
    BY DEF FindHighestCommonPostDominator
  <1>2. /\ m \in Nat /\ m > 0 /\ m <= s
        /\ \A e \in targets : m <= locNum[e.dst]
    <2> DEFINE S == {locNum[e.src] : e \in targets}
    <2>1. S \in SUBSET Nat /\ S # {}
      <3>1. \A e \in targets : locNum[e.src] \in Nat
        BY NumberFacts
      <3> QED BY <3>1
    <2> HIDE DEF S
    <2>2. Lowest(S) \in S /\ \A j \in S : Lowest(S) <= j
      BY <2>1, LowestIs
    <2>3. ASSUME NEW e \in targets
          PROVE  /\ locNum[e.src] \in Nat /\ locNum[e.dst] \in Nat
                 /\ locNum[e.src] < locNum[e.dst] /\ locNum[e.src] \in S
      BY NumberFacts DEF S
    <2>4. First(targets) \in Nat /\ \A e \in targets : First(targets) <= locNum[e.src]
      BY <2>1, <2>2, <2>3 DEF First, S
    <2>5. \A e \in targets : m <= locNum[e.dst]
      BY <2>3, <2>4
    <2>6. PICK e \in targets : TRUE
      OBVIOUS
    <2>7. s \in Nat /\ locNum[e.dst] <= s /\ m <= locNum[e.dst] /\ locNum[e.dst] \in Nat
      BY <2>3, <2>5 DEF OrderInv
    <2> QED BY <2>4, <2>5, <2>7
  <1>3. s \in Nat /\ m \in Nat /\ m <= s /\ s \in m .. s
    BY <1>2 DEF OrderInv, GraphInv
  <1>4. ASSUME NEW i \in m .. s - 1, NEW v \in V
        PROVE  st[<<i, v>>] = PostRow(v, i, m, s) /\ st[<<i, v>>] \in V
    <2>1. st[<<i, v>>] = PostRow(v, i, m, s)
      OBVIOUS
    <2>2. PostRow(v, i, m, s) \in V
      BY <1>3 DEF PostRow
    <2> QED BY <2>1, <2>2
  <1>5. {<<s, s>>} \in V
    BY <1>3
  <1> HIDE DEF V, st, m, s
  <1>6. PICK f \in [m .. s -> V] : GoesDown(f, m, s, {<<s, s>>}, st)
    <2>1. \A i \in m .. s - 1 : \A v \in V : st[<<i, v>>] \in V
      BY <1>4
    <2> DEFINE c == {<<s, s>>}
    <2> HIDE DEF c
    <2>2. \E f \in [m .. s -> V] : GoesDown(f, m, s, c, st)
      BY <1>3, <1>5, <2>1, RecursionDown DEF c
    <2> QED BY <2>2 DEF c
  <1>7. ASSUME NEW i \in m .. s - 1 PROVE f[i] = PostRow(f[i + 1], i, m, s)
    <2>1. i \in m .. s /\ i # s /\ i + 1 \in m .. s
      BY <1>3
    <2>2. f[i] = st[<<i, f[i + 1]>>] /\ f[i + 1] \in V
      BY <1>6, <2>1 DEF GoesDown
    <2> QED BY <2>2, <1>4
  <1>8. f = [i \in m .. s |-> IF i = s THEN {<<s, s>>} ELSE PostRow(f[i + 1], i, m, s)]
    <2>1. f[s] = {<<s, s>>}
      BY <1>3, <1>6 DEF GoesDown
    <2>2. \A i \in m .. s : i # s => i \in m .. s - 1
      BY <1>3
    <2> QED BY <1>6, <1>7, <2>1, <2>2
  <1>9. Is(f)
    BY <1>8 DEF PostRow
  <1>10. Is(Q)
    <2> HIDE DEF Is
    <2> QED BY <1>9
  <1> HIDE DEF Q
  <1>11. Q = [i \in m .. s |-> IF i = s THEN {<<s, s>>} ELSE PostRow(Q[i + 1], i, m, s)]
    BY <1>10 DEF PostRow
  <1> HIDE DEF Is
  <1>12. Q[s] = {<<s, s>>} /\ \A i \in m .. s - 1 : Q[i] = PostRow(Q[i + 1], i, m, s)
    <2>1. \A i \in m .. s - 1 : i \in m .. s /\ i # s
      BY <1>3
    <2> QED BY <1>3, <1>11, <2>1
  <1> QED BY <1>1, <1>2, <1>12 DEF s, m

\* Every location that the table says post-dominates another does, and the
\* start of the search post-dominates all.
LEMMA PostDominatorRows ==
    ASSUME GraphInv, OrderInv, NEW start \in nodes, NEW m \in Nat, m > 0, NEW D,
           m <= locNum[start],
           D[locNum[start]] = {<<locNum[start], locNum[start]>>},
           \A i \in m .. locNum[start] - 1 : D[i] = PostRow(D[i + 1], i, m, locNum[start])
    PROVE  \A i \in m .. locNum[start] :
             /\ \A j \in i .. locNum[start] : <<j, locNum[start]>> \in D[i]
             /\ \A p \in D[i] : /\ p \in (i .. locNum[start]) \X (m .. locNum[start])
                                /\ Through(topo[p[1]], topo[p[2]], start)
  <1> DEFINE s == locNum[start]
             Good(i) == /\ \A j \in i .. s : <<j, s>> \in D[i]
                        /\ \A p \in D[i] : /\ p \in (i .. s) \X (m .. s)
                                           /\ Through(topo[p[1]], topo[p[2]], start)
             S == {i \in m .. s : Good(i)}
  <1>0. /\ s \in Nat /\ s \in m .. s /\ topo[s] = start /\ s .. s = {s}
        /\ \A i \in m .. s : i \in DOMAIN topo
    BY DEF OrderInv
  <1>1. s \in S
    <2>1. \A j \in s .. s : <<j, s>> \in D[s]
      BY <1>0
    <2>2. Through(start, start, start)
      BY LeadsSelf DEF Through
    <2>3. \A p \in D[s] : p[1] = s /\ p[2] = s /\ p \in (s .. s) \X (m .. s)
      BY <1>0
    <2> QED BY <1>0, <2>1, <2>2, <2>3
  <1>2. ASSUME NEW k \in m .. s, k \in S, k > m PROVE k - 1 \in S
    <2> DEFINE i == k - 1
    <2>1. /\ i \in m .. s - 1 /\ i + 1 = k /\ i \in m .. s /\ k \in Nat /\ i \in Nat /\ i < k
          /\ i .. s = (k .. s) \cup {i} /\ i # s /\ i <= s
      BY <1>0, <1>2
    <2>2. D[i] = PostRow(D[k], i, m, s)
      BY <2>1
    <2>3. i \in DOMAIN topo /\ topo[i] \in nodes /\ locNum[topo[i]] = i /\ topo[i] # start
      BY <1>0, <2>1 DEF OrderInv
    <2>4. Good(k)
      BY <1>2
    <2> HIDE DEF i
    <2>5. ASSUME NEW e \in Outgoing(topo[i]), locNum[e.dst] <= s
          PROVE  locNum[e.dst] \in k .. s /\ topo[locNum[e.dst]] = e.dst
      <3>1. e \in edges /\ e.src = topo[i] /\ e.dst \in nodes
        BY DEF Outgoing, GraphInv
      <3>2. locNum[e.dst] \in Nat /\ i < locNum[e.dst] /\ topo[locNum[e.dst]] = e.dst
        BY <2>3, <3>1 DEF OrderInv
      <3> QED BY <1>0, <2>1, <2>5, <3>2
    <2>6. \A j \in i .. s : <<j, s>> \in D[i]
      <3>1. \A e \in Outgoing(topo[i]) : locNum[e.dst] <= s => <<locNum[e.dst], s>> \in D[k]
        BY <2>4, <2>5
      <3>2. <<i, s>> \in D[i]
        BY <1>0, <2>2, <3>1 DEF PostRow
      <3>3. \A j \in k .. s : <<j, s>> \in D[i]
        BY <2>2, <2>4 DEF PostRow
      <3> QED BY <2>1, <3>2, <3>3
    <2>7. ASSUME NEW d \in m .. s,
                 \A e \in Outgoing(topo[i]) : locNum[e.dst] <= s => <<locNum[e.dst], d>> \in D[k]
          PROVE  Through(topo[i], topo[d], start)
      <3> SUFFICES ASSUME NEW E \in SUBSET edges, Leads(topo[i], start, E)
                   PROVE  Leads(topo[i], topo[d], E) /\ Leads(topo[d], start, E)
        BY DEF Through
      <3>1. PICK e \in E : e.src = topo[i] /\ Leads(e.dst, start, E)
        BY <2>3, LeadsFirst
      <3>2. e \in Outgoing(topo[i]) /\ locNum[e.dst] <= s
        <4>1. e \in edges /\ e.dst \in nodes
          BY DEF GraphInv
        <4> QED BY <3>1, <4>1, LeadsForward DEF Outgoing
      <3>3. <<locNum[e.dst], d>> \in D[k]
        BY <2>7, <3>2
      <3>4. Through(topo[locNum[e.dst]], topo[d], start)
        BY <2>4, <3>3
      <3>5. Leads(e.dst, topo[d], E) /\ Leads(topo[d], start, E)
        BY <2>5, <3>1, <3>2, <3>4 DEF Through
      <3>6. Leads(e.src, topo[d], E)
        BY <3>5, LeadsStep, LeadsOver
      <3> QED BY <3>1, <3>5, <3>6
    <2>8. Through(topo[i], topo[i], start)
      BY LeadsSelf DEF Through
    <2>9. ASSUME NEW p \in D[i]
          PROVE  p \in (i .. s) \X (m .. s) /\ Through(topo[p[1]], topo[p[2]], start)
      <3>1. CASE p \in D[k]
        BY <2>1, <2>4, <3>1
      <3>2. CASE p = <<i, i>>
        BY <2>1, <2>8, <3>2
      <3>3. CASE \E d \in m .. s : /\ p = <<i, d>>
                                   /\ \A e \in Outgoing(topo[i]) :
                                        locNum[e.dst] <= s => <<locNum[e.dst], d>> \in D[k]
        BY <2>1, <2>7, <3>3
      <3> QED BY <2>2, <3>1, <3>2, <3>3 DEF PostRow
    <2>10. Good(i)
      BY <2>6, <2>9
    <2> HIDE DEF Good
    <2> QED BY <2>1, <2>10 DEF i
  <1>3. m .. s \subseteq S
    <2>1. m <= s => s \in S
      BY <1>1
    <2> HIDE DEF S
    <2> QED BY <1>0, <1>2, <2>1, DownwardInduction
  <1> QED BY <1>3

\* findHighestCommonPostDominator returns a location that all ways from a target
\* to the start of the search run through.
LEMMA HighestCommonPostDominatorWorks ==
    ASSUME GraphInv, OrderInv, NEW targets \in SUBSET edges, targets # {}, NEW start \in nodes,
           \A e \in targets : locNum[e.dst] <= locNum[start]
    PROVE  /\ FindHighestCommonPostDominator(targets, start) \in nodes
           /\ \A e \in targets : Through(e.dst, FindHighestCommonPostDominator(targets, start), start)
  <1> DEFINE s == locNum[start]
             m == First(targets) + 1
             r == FindHighestCommonPostDominator(targets, start)
  <1>1. PICK D : /\ m \in Nat /\ m > 0 /\ m <= s
                 /\ \A e \in targets : m <= locNum[e.dst]
                 /\ D[s] = {<<s, s>>}
                 /\ \A i \in m .. s - 1 : D[i] = PostRow(D[i + 1], i, m, s)
                 /\ r = topo[Lowest({d \in m .. s : \A e \in targets : <<locNum[e.dst], d>> \in D[m]})]
    BY HighestCommonPostDominatorIs
  <1>2. /\ s \in Nat /\ m \in m .. s /\ s \in m .. s
        /\ \A i \in m .. s : i \in DOMAIN topo /\ i \in Nat
    <2>1. DOMAIN topo = 1 .. Len(topo) /\ Len(topo) \in Nat
      BY DEF OrderInv
    <2>2. s \in DOMAIN topo
      BY DEF OrderInv
    <2>3. m \in Nat /\ m > 0 /\ m <= s
      BY <1>1
    <2> HIDE DEF s, m
    <2> QED BY <2>1, <2>2, <2>3
  <1>3. ASSUME NEW e \in targets
        PROVE  locNum[e.dst] \in m .. s /\ topo[locNum[e.dst]] = e.dst
    <2>1. /\ locNum[e.dst] \in Nat /\ locNum[e.dst] <= s /\ m <= locNum[e.dst]
          /\ topo[locNum[e.dst]] = e.dst
      BY <1>1, NumberFacts
    <2> HIDE DEF s, m
    <2> QED BY <1>1, <1>2, <2>1
  <1> HIDE DEF r, m
  <1>4. /\ \A j \in m .. s : <<j, s>> \in D[m]
        /\ \A p \in D[m] : Through(topo[p[1]], topo[p[2]], start)
    <2>1. \A i \in m .. s :
             /\ \A j \in i .. s : <<j, s>> \in D[i]
             /\ \A p \in D[i] : /\ p \in (i .. s) \X (m .. s)
                                /\ Through(topo[p[1]], topo[p[2]], start)
      BY <1>1, <1>2, PostDominatorRows
    <2> QED BY <1>2, <2>1
  <1> DEFINE C == {d \in m .. s : \A e \in targets : <<locNum[e.dst], d>> \in D[m]}
             h == Lowest(C)
  <1>5. h \in C
    <2>1. s \in C
      BY <1>2, <1>3, <1>4
    <2>2. C \in SUBSET Nat /\ C # {}
      BY <1>2, <2>1
    <2> HIDE DEF C
    <2> QED BY <2>2, LowestIs
  <1>6. r = topo[h]
    BY <1>1
  <1> HIDE DEF h
  <1>7. r \in nodes
    BY <1>2, <1>5, <1>6 DEF OrderInv
  <1>8. ASSUME NEW e \in targets PROVE Through(e.dst, r, start)
    <2> DEFINE p == <<locNum[e.dst], h>>
    <2>1. p \in D[m] /\ p[1] = locNum[e.dst] /\ p[2] = h
      BY <1>5
    <2>2. Through(topo[locNum[e.dst]], topo[h], start)
      BY <1>4, <2>1
    <2> QED BY <1>3, <1>6, <2>2
  <1> QED BY <1>7, <1>8 DEF r

-----------------------------------------------------------------------------
(* What inlining preserves *)

\* The transitions an input can take if calls do what they do, and the ones it
\* can take whatever the calls do.
Passing(w) ==
    {e \in edges : w \in e.guard /\ (IsCall(e) => <<e.callee, e.arg[w]>> \in Returns(prog))}
Free(w) == {e \in edges : w \in e.guard /\ ~IsCall(e)}

\* All calls lie between a and b.
Between(a, b) ==
    /\ a \in nodes /\ b \in nodes /\ Leads(a, b, edges)
    /\ \A e \in CallEdges : Leads(a, e.src, edges) /\ Leads(e.dst, b, edges)

\* In an automaton every location lies between the entry and the exit.
LEMMA CfaConnected ==
    ASSUME NEW sys \in Programs, NEW p \in Procs, NEW l \in LocsOf(sys[p])
    PROVE  Leads(Entry, l, EdgesOf(sys[p])) /\ Leads(l, Exit, EdgesOf(sys[p]))
  <1>1. IsCfa(sys[p])
    BY ProgramsAssumption DEF IsSystem
  <1> DEFINE es == EdgesOf(sys[p])
             n == sys[p].n
  <1>2. n \in Nat
    BY CfaFacts
  <1>3. ReachWithin({Entry}, es, n) = LocsOf(sys[p]) /\ ReachWithin({Exit}, Backwards(es), n) = LocsOf(sys[p])
    BY <1>1, Zenon DEF IsCfa
  <1> HIDE DEF es, n
  <1>4. Leads(Entry, l, es)
    BY <1>2, <1>3, ReachLeads
  <1>5. Leads(Exit, l, Backwards(es))
    <2> DEFINE bs == Backwards(es)
    <2>1. l \in ReachWithin({Exit}, bs, n)
      BY <1>3
    <2> HIDE DEF bs
    <2>2. Leads(Exit, l, bs)
      BY <1>2, <2>1, ReachLeads
    <2> QED BY <2>2 DEF bs
  <1>6. Leads(l, Exit, es)
    BY <1>5, LeadsForth
  <1> QED BY <1>4, <1>6 DEF es

\* The transitions that inlining puts in the place of a call.
LEMMA InlineEdges ==
    ASSUME GraphInv, NEW c \in CallEdges, InlineCallIntoRoot(c)
    PROVE  /\ edges' = (edges \ {c}) \cup InlinedEdges(c)
           /\ EnterEdge(c) \in edges' /\ LeaveEdge(c) \in edges'
           /\ \A k \in DOMAIN prog[c.callee].edges : CopiedEdge(c, k) \in edges'
           /\ \A e \in InlinedEdges(c) :
                IsCall(e) => \E k \in DOMAIN prog[c.callee].edges : e = CopiedEdge(c, k)
           /\ nodes \subseteq nodes'
  <1>1. edges' = (edges \ {c}) \cup InlinedEdges(c) /\ nodes \subseteq nodes'
    BY DEF InlineCallIntoRoot
  <1>2. \A l \in prog[c.callee].err : ~IsCall(ToErrorEdge(c, l))
    BY InlinedEdgeFacts
  <1>3. ~IsCall(EnterEdge(c)) /\ ~IsCall(LeaveEdge(c))
    BY InlinedEdgeFacts
  <1> QED BY <1>1, <1>2, <1>3 DEF InlinedEdges

\* Ways through the callee are ways through its copy.
LEMMA CopyLeads ==
    ASSUME GraphInv, NEW c \in CallEdges, NEW G \in SUBSET EdgesOf(prog[c.callee]), NEW F,
           \A k \in DOMAIN prog[c.callee].edges :
              prog[c.callee].edges[k] \in G => CopiedEdge(c, k) \in F,
           NEW x, NEW y, Leads(x, y, G)
    PROVE  Leads(nextLoc + x, nextLoc + y, F)
  <1> DEFINE es == prog[c.callee].edges
             m == nextLoc
  <1>1. \A k \in DOMAIN es : /\ CopiedEdge(c, k).src = m + es[k].src
                             /\ CopiedEdge(c, k).dst = m + es[k].dst
    BY InlinedEdgeFacts
  <1>2. ASSUME NEW e \in G
        PROVE  \E f \in F : f.src = m + e.src /\ f.dst = m + e.dst
    <2>1. PICK k \in DOMAIN es : e = es[k]
      BY DEF EdgesOf
    <2> QED BY <1>1, <2>1
  <1> HIDE DEF m
  <1>3. Leads(m + x, m + y, F)
    BY <1>2, LeadsCopied
  <1> QED BY <1>3 DEF m

\* A way over the call becomes a way over the copy of the callee.
LEMMA InlineLeads ==
    ASSUME GraphInv, NEW c \in CallEdges, NEW E \in SUBSET edges, NEW F, E \ {c} \subseteq F,
           NEW G \in SUBSET EdgesOf(prog[c.callee]),
           c \in E => /\ Leads(Entry, Exit, G)
                      /\ EnterEdge(c) \in F /\ LeaveEdge(c) \in F
                      /\ \A k \in DOMAIN prog[c.callee].edges :
                           prog[c.callee].edges[k] \in G => CopiedEdge(c, k) \in F,
           NEW a, NEW b, Leads(a, b, E)
    PROVE  Leads(a, b, F)
  <1>1. ASSUME c \in E PROVE Leads(c.src, c.dst, F)
    <2>1. Leads(nextLoc + Entry, nextLoc + Exit, F)
      BY <1>1, CopyLeads
    <2>2. nextLoc \in Nat /\ nextLoc + Entry = nextLoc /\ nextLoc + Exit = nextLoc + 1
      BY DEF GraphInv, Entry, Exit
    <2>3. /\ EnterEdge(c).src = c.src /\ EnterEdge(c).dst = nextLoc
          /\ LeaveEdge(c).src = nextLoc + 1 /\ LeaveEdge(c).dst = c.dst
      BY InlinedEdgeFacts
    <2>4. Leads(c.src, nextLoc, F) /\ Leads(nextLoc + 1, c.dst, F)
      BY <1>1, <2>3, LeadsStep
    <2> QED BY <2>1, <2>2, <2>4, LeadsOver
  <1>2. \A e \in E : e \in F \/ Leads(e.src, e.dst, F)
    BY <1>1
  <1> QED BY <1>2, LeadsReplace

\* What leads from a to b still does ...
LEMMA InlineKeepsWays ==
    ASSUME GraphInv, NEW c \in CallEdges, InlineCallIntoRoot(c), NEW a, NEW b, Leads(a, b, edges)
    PROVE  Leads(a, b, edges')
  <1> DEFINE p == c.callee
             G == EdgesOf(prog[p])
  <1>1. c \in edges /\ p \in Procs /\ prog \in Programs
    BY DEF GraphInv, CallEdges
  <1>2. Exit \in LocsOf(prog[p])
    BY <1>1, CfaFacts DEF LocsOf, Exit
  <1>3. Leads(Entry, Exit, G)
    BY <1>1, <1>2, CfaConnected
  <1>4. /\ edges \ {c} \subseteq edges' /\ EnterEdge(c) \in edges' /\ LeaveEdge(c) \in edges'
        /\ \A k \in DOMAIN prog[c.callee].edges : CopiedEdge(c, k) \in edges'
    BY InlineEdges
  <1> DEFINE F == edges'
  <1>5. /\ edges \ {c} \subseteq F /\ EnterEdge(c) \in F /\ LeaveEdge(c) \in F
        /\ \A k \in DOMAIN prog[c.callee].edges : CopiedEdge(c, k) \in F
    BY <1>4
  <1>6. G \in SUBSET EdgesOf(prog[c.callee]) /\ edges \in SUBSET edges
    OBVIOUS
  <1> HIDE DEF F, G
  <1>7. Leads(a, b, F)
    BY <1>3, <1>5, <1>6, InlineLeads
  <1> QED BY <1>7 DEF F

\* ... and what an input can take still can be taken.
LEMMA InlineKeepsRuns ==
    ASSUME GraphInv, NEW c \in CallEdges, InlineCallIntoRoot(c), UNCHANGED prog,
           NEW w \in World, NEW a, NEW b, Leads(a, b, Passing(w))
    PROVE  Leads(a, b, Passing(w)')
  <1> DEFINE p == c.callee
             v == c.arg[w]
             G == Passable(prog, p, v, Returns(prog))
             E == Passing(w)
             F == Passing(w)'
  <1>0. c \in edges /\ p \in Procs /\ prog \in Programs /\ IsCall(c)
    BY DEF GraphInv, CallEdges
  <1>1. E \in SUBSET edges /\ G \in SUBSET EdgesOf(prog[c.callee])
    BY DEF Passing, Passable
  <1>2. F = {e \in edges' : w \in e.guard /\ (IsCall(e) => <<e.callee, e.arg[w]>> \in Returns(prog))}
    BY DEF Passing, IsCall
  <1>3. E \ {c} \subseteq F
    BY <1>2, InlineEdges DEF Passing
  <1>4. ASSUME c \in E
        PROVE  /\ Leads(Entry, Exit, G)
               /\ EnterEdge(c) \in F /\ LeaveEdge(c) \in F
               /\ \A k \in DOMAIN prog[c.callee].edges :
                           prog[c.callee].edges[k] \in G => CopiedEdge(c, k) \in F
    <2>1. w \in c.guard /\ <<p, v>> \in Returns(prog)
      BY <1>0, <1>4 DEF Passing
    <2>2. Leads(Entry, Exit, G)
      BY <1>0, <2>1, ReturnsLead
    <2>3. EnterEdge(c).guard = c.guard /\ LeaveEdge(c).guard = World
      BY DEF EnterEdge, LeaveEdge, AssignEdge
    <2>4. ~IsCall(EnterEdge(c)) /\ ~IsCall(LeaveEdge(c))
      BY InlinedEdgeFacts
    <2>5. EnterEdge(c) \in F /\ LeaveEdge(c) \in F
      BY <1>2, <2>1, <2>3, <2>4, InlineEdges
    <2>6. ASSUME NEW k \in DOMAIN prog[c.callee].edges, prog[c.callee].edges[k] \in G
          PROVE  CopiedEdge(c, k) \in F
      <3> DEFINE e == prog[c.callee].edges[k]
                 f == CopiedEdge(c, k)
      <3>1. f.guard = {x \in World : c.arg[x] \in e.guard} /\ f.callee = e.callee
            /\ f.arg = [x \in World |-> e.arg[c.arg[x]]]
        BY DEF CopiedEdge
      <3>2. v \in e.guard /\ (IsCall(e) => <<e.callee, e.arg[v]>> \in Returns(prog))
        BY <2>6 DEF Passable
      <3>3. f \in edges'
        BY InlineEdges
      <3> HIDE DEF f, e
      <3>4. w \in f.guard /\ f.arg[w] = e.arg[v]
        BY <3>1, <3>2
      <3>5. IsCall(f) => <<f.callee, f.arg[w]>> \in Returns(prog)
        BY <3>1, <3>2, <3>4 DEF IsCall
      <3> QED BY <1>2, <3>3, <3>4, <3>5 DEF f
    <2> QED BY <2>2, <2>5, <2>6
  <1> HIDE DEF E, F, G
  <1>5. Leads(a, b, E)
    BY DEF E
  <1>6. Leads(a, b, F)
    BY <1>1, <1>3, <1>4, <1>5, InlineLeads
  <1> QED BY <1>6 DEF F

\* The calls still lie between a and b, those of the callee as well.
LEMMA InlineKeepsBetween ==
    ASSUME GraphInv, NEW c \in CallEdges, InlineCallIntoRoot(c), NEW a, NEW b, Between(a, b)
    PROVE  Between(a, b)'
  <1> DEFINE p == c.callee
             es == prog[p].edges
  <1>0. c \in edges /\ p \in Procs /\ prog \in Programs /\ nextLoc \in Nat
    BY DEF GraphInv, CallEdges
  <1>1. a \in nodes' /\ b \in nodes' /\ Leads(a, b, edges')
    BY InlineEdges, InlineKeepsWays DEF Between
  <1>2. ASSUME NEW e \in CallEdges PROVE Leads(a, e.src, edges') /\ Leads(e.dst, b, edges')
    BY InlineKeepsWays DEF Between
  <1>3. ASSUME NEW k \in DOMAIN es
        PROVE  Leads(a, CopiedEdge(c, k).src, edges') /\ Leads(CopiedEdge(c, k).dst, b, edges')
    <2>1. es[k].src \in LocsOf(prog[p]) /\ es[k].dst \in LocsOf(prog[p])
      BY <1>0, CfaFacts
    <2>2. Leads(Entry, es[k].src, EdgesOf(prog[p])) /\ Leads(es[k].dst, Exit, EdgesOf(prog[p]))
      BY <1>0, <2>1, CfaConnected
    <2>3. Leads(nextLoc + Entry, nextLoc + es[k].src, edges') /\ Leads(nextLoc + es[k].dst, nextLoc + Exit, edges')
      <3> DEFINE F == edges'
                 G == EdgesOf(prog[c.callee])
      <3>1. \A j \in DOMAIN prog[c.callee].edges : prog[c.callee].edges[j] \in G => CopiedEdge(c, j) \in F
        BY InlineEdges
      <3>2. G \in SUBSET EdgesOf(prog[c.callee])
        OBVIOUS
      <3>3. Leads(Entry, es[k].src, G) /\ Leads(es[k].dst, Exit, G)
        BY <2>2
      <3> HIDE DEF F, G
      <3>4. Leads(nextLoc + Entry, nextLoc + es[k].src, F) /\ Leads(nextLoc + es[k].dst, nextLoc + Exit, F)
        BY <3>1, <3>2, <3>3, CopyLeads
      <3> QED BY <3>4 DEF F
    <2>4. nextLoc + Entry = nextLoc /\ nextLoc + Exit = nextLoc + 1
      BY <1>0 DEF Entry, Exit
    <2>5. /\ EnterEdge(c).src = c.src /\ EnterEdge(c).dst = nextLoc
          /\ LeaveEdge(c).src = nextLoc + 1 /\ LeaveEdge(c).dst = c.dst
          /\ CopiedEdge(c, k).src = nextLoc + es[k].src /\ CopiedEdge(c, k).dst = nextLoc + es[k].dst
      BY InlinedEdgeFacts
    <2>6. EnterEdge(c) \in edges' /\ LeaveEdge(c) \in edges'
      BY InlineEdges
    <2>7. Leads(c.src, nextLoc, edges') /\ Leads(nextLoc + 1, c.dst, edges')
      BY <2>5, <2>6, LeadsStep
    <2>8. Leads(a, c.src, edges') /\ Leads(c.dst, b, edges')
      BY <1>2
    <2>9. Leads(a, nextLoc, edges') /\ Leads(nextLoc + 1, b, edges')
      BY <2>7, <2>8, LeadsOver
    <2> QED BY <2>3, <2>4, <2>5, <2>9, LeadsOver
  <1>4. ASSUME NEW e \in CallEdges' PROVE Leads(a, e.src, edges') /\ Leads(e.dst, b, edges')
    <2>1. e \in edges' /\ IsCall(e)
      BY DEF CallEdges, IsCall
    <2>2. e \in CallEdges \/ \E k \in DOMAIN es : e = CopiedEdge(c, k)
      BY <2>1, InlineEdges DEF CallEdges
    <2> QED BY <1>2, <1>3, <2>2
  <1> QED BY <1>1, <1>4 DEF Between

-----------------------------------------------------------------------------
(***************************************************************************)
(* The invariant.  SolverInv: the solver's scopes.  RegionInv: the calls   *)
(* that are left lie in the region the engine works on, so the common      *)
(* dominators exist.  LostInv: as long as the solver has decided every     *)
(* query, an input that leads to an error satisfies what is asserted and   *)
(* has a way through the region; once the under-approximation has failed,  *)
(* none without calls, which makes every such way run through the new      *)
(* start and target.                                                       *)
(***************************************************************************)
SolverInv ==
    /\ encodings \in Nat /\ unknowns \in Nat
    /\ asserted \in Seq(Formula) /\ marks \in Seq(Nat)
    /\ pc \in {"errorField", "remove", "sort", "eager", "eagerInline"} => asserted = <<>>
    /\ pc = "inline" => marks # <<>> /\ marks[Len(marks)] <= Len(asserted)
    /\ skipUnderApprox => pc \in {"under", "done"}

RegionInv ==
    /\ pc = "errorField" => \A l \in nodes : Leads(Entry, l, edges)
    /\ pc = "remove" => Leads(Entry, error, edges) /\ \A e \in CallEdges : Leads(Entry, e.src, edges)
    /\ pc \in {"sort", "eager", "eagerInline"} => Between(Entry, error)
    /\ pc \in {"under", "start"} => Between(top, bottom)
    /\ pc \in {"over", "inline"} => Between(lca[1], lca[2])

Kept(w) ==
    /\ pc = "errorField" => \E l \in prog[Main].err : Leads(Entry, l, Passing(w))
    /\ pc \in {"remove", "sort", "eager", "eagerInline"} => Leads(Entry, error, Passing(w))
    /\ pc \in {"under", "start"} => w \in Satisfying(asserted) /\ Leads(top, bottom, Passing(w))
    /\ pc = "start" \/ (pc = "under" /\ skipUnderApprox) => ~Leads(top, bottom, Free(w))
    /\ pc \in {"over", "inline"} => Leads(lca[1], lca[2], Passing(w))
    /\ pc = "over" => w \in Satisfying(asserted)
    /\ pc = "inline" => w \in Satisfying(Popped)
    /\ verdict # "Success"

LostInv == unknowns = 0 /\ OnlyMainFails(prog) => \A w \in ErrorInputs(prog) : Kept(w)

SoundInv == SolverInv /\ RegionInv /\ LostInv /\ (unknowns = 0 => NoAssertionFails)

\* Initially the graph is the main automaton.
LEMMA SoundInit == Init => SoundInv
  <1> SUFFICES ASSUME Init PROVE SoundInv
    OBVIOUS
  <1> DEFINE main == prog[Main]
             EdgeOf(k) == [id |-> k, src |-> main.edges[k].src, dst |-> main.edges[k].dst,
                           guard |-> main.edges[k].guard, callee |-> main.edges[k].callee,
                           arg |-> main.edges[k].arg]
  <1>1. /\ pc = "errorField" /\ prog \in Programs /\ nodes = LocsOf(main)
        /\ edges = {EdgeOf(k) : k \in DOMAIN main.edges}
        /\ asserted = <<>> /\ marks = <<>> /\ encodings = 1 /\ unknowns = 0
        /\ skipUnderApprox = FALSE /\ verdict = "Running"
    BY DEF Init
  <1>2. Main \in Procs
    BY ProcsAssumption
  <1>3. ASSUME NEW e \in EdgesOf(main)
        PROVE  \E f \in edges : /\ f.src = e.src /\ f.dst = e.dst /\ f.guard = e.guard
                                /\ f.callee = e.callee /\ f.arg = e.arg
    <2>1. PICK k \in DOMAIN main.edges : e = main.edges[k]
      BY DEF EdgesOf
    <2>2. EdgeOf(k) \in edges
      BY <1>1
    <2> QED BY <2>1, <2>2
  <1> HIDE DEF EdgeOf, main
  <1>4. ASSUME NEW l \in nodes PROVE Leads(Entry, l, edges)
    <2>1. Leads(Entry, l, EdgesOf(main))
      BY <1>1, <1>2, CfaConnected DEF main
    <2>2. \A e \in EdgesOf(main) : Leads(e.src, e.dst, edges)
      <3> TAKE e \in EdgesOf(main)
      <3>1. PICK f \in edges : f.src = e.src /\ f.dst = e.dst
        BY <1>3
      <3> QED BY <3>1, LeadsStep
    <2> QED BY <2>1, <2>2, LeadsReplace
  <1>5. ASSUME OnlyMainFails(prog), NEW w \in ErrorInputs(prog)
        PROVE  \E l \in main.err : Leads(Entry, l, Passing(w))
    <2> DEFINE G == Passable(prog, Main, w, Returns(prog))
    <2>1. PICK l \in main.err : Leads(Entry, l, G)
      BY <1>1, <1>5, FailsLead DEF main
    <2>2. ASSUME NEW e \in G PROVE Leads(e.src, e.dst, Passing(w))
      <3>1. /\ e \in EdgesOf(main) /\ w \in e.guard
            /\ IsCall(e) => <<e.callee, e.arg[w]>> \in Returns(prog)
        BY DEF Passable, main
      <3>2. PICK f \in edges : /\ f.src = e.src /\ f.dst = e.dst /\ f.guard = e.guard
                               /\ f.callee = e.callee /\ f.arg = e.arg
        BY <1>3, <3>1
      <3>3. f \in Passing(w)
        BY <3>1, <3>2 DEF Passing, IsCall
      <3> QED BY <3>2, <3>3, LeadsStep
    <2> HIDE DEF G
    <2>3. Leads(Entry, l, Passing(w))
      BY <2>1, <2>2, LeadsReplace
    <2> QED BY <2>3
  <1>6. SolverInv
    BY <1>1 DEF SolverInv
  <1>7. RegionInv
    BY <1>1, <1>4 DEF RegionInv
  <1>8. LostInv
    BY <1>1, <1>5 DEF LostInv, Kept, main
  <1> QED BY <1>1, <1>6, <1>7, <1>8 DEF SoundInv, NoAssertionFails

\* What a step that leaves the graph alone keeps.
LEMMA SameGraph ==
    ASSUME UNCHANGED <<nodes, edges, prog>>
    PROVE  /\ \A w : Passing(w)' = Passing(w) /\ Free(w)' = Free(w)
           /\ \A a, b : Between(a, b) => Between(a, b)'
           /\ CallEdges' = CallEdges
  <1>1. CallEdges' = CallEdges
    BY DEF CallEdges, IsCall
  <1>2. ASSUME NEW w PROVE Passing(w)' = Passing(w) /\ Free(w)' = Free(w)
    BY DEF Passing, Free, IsCall
  <1>3. ASSUME NEW a, NEW b, Between(a, b) PROVE Between(a, b)'
    BY <1>1, <1>3 DEF Between
  <1> QED BY <1>1, <1>2, <1>3

\* The error goal is reached from the error locations of main, or not at all.
LEMMA SoundErrorField ==
    ASSUME Inv, SoundInv, InitializeErrorField
    PROVE  SoundInv'
  <1> DEFINE main == prog[Main]
             goal == IF main.err = {}
                     THEN {AssignEdge(nextEdge + 1, Entry, nextLoc, {})}
                     ELSE {AssignEdge(nextEdge + 1 + l, l, nextLoc, World) : l \in main.err}
             leave == AssignEdge(nextEdge + 1 + nextLoc, nextLoc, Exit, {})
  <1>1. /\ pc = "errorField" /\ prog \in Programs /\ UNCHANGED <<prog, settings, solverVars, loopVars>>
        /\ UNCHANGED <<asserted, marks, unknowns, encodings, skipUnderApprox>>
        /\ pc' \in {"remove", "done"} /\ GraphInv /\ EarlyInv
    BY DEF InitializeErrorField, Finish, solverVars, loopVars, Inv, GraphInv
  <1>2. SolverInv'
    BY <1>1 DEF SoundInv, SolverInv
  <1>3. (unknowns = 0 => NoAssertionFails)'
    <2>1. UNCHANGED <<noDomPush, unknowns>>
      BY <1>1 DEF settings
    <2>2. verdict' # "Abort" \/ verdict' = verdict
      BY DEF InitializeErrorField, Finish
    <2> QED BY <2>1, <2>2 DEF SoundInv, NoAssertionFails
  <1>4. CASE \A p \in Procs : prog[p].err = {}
    <2>1. pc' = "done"
      BY <1>4 DEF InitializeErrorField, Finish
    <2>2. ASSUME unknowns = 0, OnlyMainFails(prog), NEW w \in ErrorInputs(prog) PROVE FALSE
      <3>1. Kept(w)
        BY <2>2 DEF SoundInv, LostInv
      <3> QED BY <1>1, <1>4, <3>1, ProcsAssumption DEF Kept
    <2>3. LostInv'
      BY <1>1, <2>2 DEF LostInv
    <2>4. RegionInv'
      BY <2>1 DEF RegionInv
    <2> QED BY <1>2, <1>3, <2>3, <2>4 DEF SoundInv
  <1>5. CASE ~\A p \in Procs : prog[p].err = {}
    <2>1. /\ error' = nextLoc /\ edges' = edges \cup goal \cup {leave}
          /\ pc' = "remove" /\ UNCHANGED verdict
      BY <1>5 DEF InitializeErrorField
    <2>2. nodes = LocsOf(main) /\ \A l \in nodes : Leads(Entry, l, edges)
      BY <1>1 DEF SoundInv, RegionInv, EarlyInv
    <2>3. main.err \subseteq nodes
      BY <1>1, <2>2, CfaFacts, ProcsAssumption
    <2>4. \A l \in nodes : Leads(Entry, l, edges')
      BY <2>1, <2>2, LeadsMore
    <2>5. ASSUME NEW l \in main.err
          PROVE  \E f \in goal : /\ f.src = l /\ f.dst = nextLoc /\ f.guard = World /\ ~IsCall(f)
      <3>1. AssignEdge(nextEdge + 1 + l, l, nextLoc, World) \in goal
        OBVIOUS
      <3> HIDE DEF goal
      <3> QED BY <3>1 DEF AssignEdge, IsCall
    <2>6. Leads(Entry, error', edges')
      <3>1. CASE main.err = {}
        <4> DEFINE f == AssignEdge(nextEdge + 1, Entry, nextLoc, {})
        <4>1. f \in edges'
          BY <3>1, <2>1
        <4>2. f.src = Entry /\ f.dst = nextLoc
          BY DEF AssignEdge
        <4> HIDE DEF f
        <4> QED BY <4>1, <4>2, <2>1, LeadsStep
      <3>2. CASE main.err # {}
        <4>1. PICK l \in main.err : TRUE
          BY <3>2
        <4>2. PICK f \in goal : f.src = l /\ f.dst = nextLoc
          BY <2>5
        <4>3. f \in edges' /\ Leads(Entry, l, edges')
          BY <2>1, <2>3, <2>4
        <4> QED BY <4>2, <4>3, <2>1, LeadsOn
      <3> QED BY <3>1, <3>2
    <2>7. \A e \in CallEdges' : Leads(Entry, e.src, edges')
      <3> SUFFICES ASSUME NEW e \in CallEdges' PROVE e.src \in nodes
        BY <2>4
      <3>1. e \in edges' /\ IsCall(e)
        BY DEF CallEdges, IsCall
      <3>2. ~IsCall(leave) /\ \A f \in goal : ~IsCall(f)
        BY DEF AssignEdge, IsCall
      <3> HIDE DEF goal, leave
      <3>3. e \in edges
        BY <2>1, <3>1, <3>2
      <3> QED BY <1>1, <3>3 DEF GraphInv
    <2>8. RegionInv'
      BY <2>1, <2>6, <2>7 DEF RegionInv
    <2>9. ASSUME unknowns = 0, OnlyMainFails(prog), NEW w \in ErrorInputs(prog) PROVE Kept(w)'
      <3>1. Kept(w) /\ w \in World
        BY <2>9 DEF SoundInv, LostInv, ErrorInputs
      <3>2. PICK l \in main.err : Leads(Entry, l, Passing(w))
        BY <1>1, <3>1 DEF Kept
      <3>3. Passing(w)' = {e \in edges' : w \in e.guard /\ (IsCall(e) => <<e.callee, e.arg[w]>> \in Returns(prog))}
        BY <1>1 DEF Passing, IsCall
      <3>4. Passing(w) \subseteq Passing(w)'
        BY <2>1, <3>3 DEF Passing
      <3>5. PICK f \in goal : f.src = l /\ f.dst = nextLoc /\ f.guard = World /\ ~IsCall(f)
        BY <2>5
      <3>6. f \in Passing(w)'
        BY <2>1, <3>1, <3>3, <3>5
      <3>7. Leads(Entry, l, Passing(w)')
        BY <3>2, <3>4, LeadsMore
      <3>8. Leads(Entry, error', Passing(w)')
        BY <3>5, <3>6, <3>7, <2>1, LeadsOn
      <3> QED BY <3>1, <3>8, <2>1 DEF Kept
    <2>10. LostInv'
      BY <1>1, <2>9 DEF LostInv
    <2> QED BY <1>2, <1>3, <2>8, <2>10 DEF SoundInv
  <1> QED BY <1>4, <1>5

\* A way to a location that is relevant is left whole.
LEMMA RelevantWays ==
    ASSUME GraphInv, EarlyInv, RemoveIrrelevantLocations, NEW E \in SUBSET edges,
           NEW a, NEW b, Leads(a, b, E), b \in nodes' \ {Exit}
    PROVE  a \in nodes' \ {Exit} /\ Leads(a, b, E \cap edges')
  <1>1. /\ pc = "remove" /\ nodes' = Relevant
        /\ edges' = {e \in edges : e.src \in nodes' /\ e.dst \in nodes'}
    BY DEF RemoveIrrelevantLocations
  <1>2. \A e \in edges : e.src # Exit
    BY <1>1 DEF EarlyInv
  <1>3. Relevant = {l \in nodes : \A S \in SUBSET nodes : ClosedUnderPredecessors(S) => l \in S}
                     \cup {Exit}
    BY DEF Relevant, ClosedUnderPredecessors
  <1>4. ASSUME NEW e \in edges, e.dst \in nodes' \ {Exit} PROVE e \in edges' /\ e.src \in nodes' \ {Exit}
    <2>1. \A S \in SUBSET nodes : ClosedUnderPredecessors(S) => e.dst \in S
      BY <1>1, <1>3, <1>4
    <2>2. \A S \in SUBSET nodes : ClosedUnderPredecessors(S) => e.src \in S
      BY <2>1 DEF ClosedUnderPredecessors
    <2>3. e.src \in nodes
      BY DEF GraphInv
    <2> QED BY <2>2, <2>3, <1>1, <1>2, <1>3, <1>4
  <1> DEFINE F == E \cap edges'
             T == {x \in nodes' \ {Exit} : Leads(x, b, F)}
  <1>5. b \in T
    BY LeadsSelf
  <1>6. ASSUME NEW e \in E, e.dst \in T PROVE e.src \in T
    <2>1. e \in F /\ e.src \in nodes' \ {Exit}
      BY <1>4, <1>6
    <2>2. Leads(e.dst, b, F)
      BY <1>6
    <2> HIDE DEF F
    <2>3. Leads(e.src, b, F)
      BY <2>1, <2>2, LeadsStep, LeadsOver
    <2> QED BY <2>1, <2>3
  <1>7. Closed(T, Backwards(E))
    BY <1>6 DEF Closed, Backwards
  <1>8. Leads(b, a, Backwards(E))
    BY LeadsBack
  <1>9. a \in T
    BY <1>5, <1>7, <1>8 DEF Leads
  <1> QED BY <1>9

\* removeIrrelevantLocations keeps the ways to the error goal.
LEMMA SoundRemove ==
    ASSUME Inv, SoundInv, RemoveIrrelevantLocations
    PROVE  SoundInv'
  <1>1. /\ pc = "remove" /\ pc' = "sort" /\ GraphInv /\ EarlyInv
        /\ edges' = {e \in edges : e.src \in nodes' /\ e.dst \in nodes'}
        /\ UNCHANGED <<prog, error, verdict, asserted, marks, unknowns, encodings, skipUnderApprox, noDomPush>>
    BY DEF RemoveIrrelevantLocations, Inv, solverVars, loopVars, fixedVars, settings
  <1>2. GraphInv' /\ EarlyInv'
    BY <1>1, RemoveStep
  <1>3. SolverInv'
    BY <1>1 DEF SoundInv, SolverInv
  <1>4. (unknowns = 0 => NoAssertionFails)'
    BY <1>1 DEF SoundInv, NoAssertionFails
  <1>5. error \in nodes' \ {Exit}
    BY <1>1, <1>2 DEF EarlyInv
  <1>6. /\ Leads(Entry, error, edges) /\ \A e \in CallEdges : Leads(Entry, e.src, edges)
        /\ \A e \in edges : e.src # Exit
    BY <1>1 DEF SoundInv, RegionInv, EarlyInv
  <1>7. edges \in SUBSET edges /\ edges \cap edges' = edges'
    BY <1>1
  <1>8. Entry \in nodes' /\ Leads(Entry, error, edges')
    BY <1>1, <1>5, <1>6, <1>7, RelevantWays
  <1>9. ASSUME NEW l \in nodes' \ {Exit} PROVE Leads(l, error, edges')
    <2> DEFINE S == {x \in nodes' : Leads(x, error, edges')}
    <2>1. error' \in S
      BY <1>1, <1>5, LeadsSelf
    <2>2. ASSUME NEW e \in edges', e.dst \in S PROVE e.src \in S
      <3>1. e.src \in nodes'
        BY <1>1
      <3>2. Leads(e.src, e.dst, edges')
        BY LeadsStep
      <3> QED BY <2>2, <3>1, <3>2, LeadsOver
    <2>3. S \in SUBSET nodes'
      OBVIOUS
    <2>4. ASSUME NEW R \in SUBSET nodes', error' \in R, \A e \in edges' : e.dst \in R => e.src \in R
          PROVE  l \in R
      <3>1. ClosedUnderPredecessors(R)'
        BY <2>4 DEF ClosedUnderPredecessors
      <3> QED BY <1>1, <1>2, <3>1 DEF EarlyInv
    <2> HIDE DEF S
    <2>5. l \in S
      BY <2>1, <2>2, <2>3, <2>4
    <2> QED BY <2>5 DEF S
  <1>10. ASSUME NEW e \in CallEdges' PROVE Leads(Entry, e.src, edges') /\ Leads(e.dst, error, edges')
    <2>1. e \in edges' /\ IsCall(e) /\ e \in edges /\ e.dst # Exit
      BY <1>1 DEF CallEdges, IsCall, GraphInv
    <2>2. e.src \in nodes' \ {Exit} /\ e.dst \in nodes' \ {Exit}
      BY <1>1, <1>6, <2>1
    <2>3. e \in CallEdges
      BY <2>1 DEF CallEdges
    <2>4. Leads(Entry, e.src, edges)
      BY <1>6, <2>3
    <2>5. Leads(Entry, e.src, edges')
      BY <1>1, <1>7, <2>2, <2>4, RelevantWays
    <2> QED BY <1>9, <2>2, <2>5
  <1>11. RegionInv'
    BY <1>1, <1>5, <1>8, <1>10 DEF RegionInv, Between
  <1>12. ASSUME unknowns = 0, OnlyMainFails(prog), NEW w \in ErrorInputs(prog) PROVE Kept(w)'
    <2>1. Kept(w)
      BY <1>12 DEF SoundInv, LostInv
    <2>2. Leads(Entry, error, Passing(w)) /\ Passing(w) \in SUBSET edges
      BY <1>1, <2>1 DEF Kept, Passing
    <2>3. Passing(w)' = Passing(w) \cap edges'
      BY <1>1 DEF Passing, IsCall
    <2>4. Leads(Entry, error, Passing(w) \cap edges')
      BY <1>1, <1>5, <2>2, RelevantWays
    <2> QED BY <1>1, <2>1, <2>3, <2>4 DEF Kept
  <1>13. LostInv'
    BY <1>1, <1>12 DEF LostInv
  <1> QED BY <1>3, <1>4, <1>11, <1>13 DEF SoundInv

\* Sorting leaves the graph alone.
LEMMA SoundSort ==
    ASSUME Inv, SoundInv, CreateTopologicalSorts
    PROVE  SoundInv'
  <1>1. /\ pc = "sort" /\ pc' \in {"eager", "done"} /\ (verdict' = verdict \/ verdict' = "Unknown")
        /\ UNCHANGED <<nodes, edges, prog, error, asserted, marks, unknowns, encodings, skipUnderApprox, noDomPush>>
    BY DEF CreateTopologicalSorts, Finish, solverVars, settings
  <1>2. SolverInv'
    BY <1>1 DEF SoundInv, SolverInv
  <1>3. (unknowns = 0 => NoAssertionFails)'
    BY <1>1 DEF SoundInv, NoAssertionFails
  <1>4. RegionInv'
    <2>1. Between(Entry, error)
      BY <1>1 DEF SoundInv, RegionInv
    <2>2. Between(Entry, error)'
      BY <1>1, <2>1, SameGraph DEF Between
    <2> QED BY <1>1, <2>2 DEF RegionInv
  <1>5. ASSUME unknowns = 0, OnlyMainFails(prog), NEW w \in ErrorInputs(prog) PROVE Kept(w)'
    <2>1. Kept(w)
      BY <1>5 DEF SoundInv, LostInv
    <2>2. Passing(w)' = Passing(w)
      BY <1>1, SameGraph
    <2> QED BY <1>1, <2>1, <2>2 DEF Kept
  <1>6. LostInv'
    BY <1>1, <1>5 DEF LostInv
  <1> QED BY <1>2, <1>3, <1>4, <1>6 DEF SoundInv

-----------------------------------------------------------------------------
(* The solver *)

\* An input satisfies a list of formulas and one more if it satisfies both.
LEMMA SatisfyingAppend ==
    ASSUME NEW fs \in Seq(Formula), NEW f \in Formula, NEW w \in Satisfying(fs), f[w] # {}
    PROVE  w \in Satisfying(Append(fs, f))
  <1>1. DOMAIN Append(fs, f) = 1 .. Len(fs) + 1 /\ DOMAIN fs = 1 .. Len(fs) /\ Len(fs) \in Nat
    OBVIOUS
  <1>2. ASSUME NEW k \in DOMAIN Append(fs, f) PROVE Append(fs, f)[k][w] # {}
    <2>1. CASE k = Len(fs) + 1
      <3>1. Append(fs, f)[k] = f
        BY <2>1
      <3> QED BY <3>1
    <2>2. CASE k \in 1 .. Len(fs)
      <3>1. Append(fs, f)[k] = fs[k]
        BY <2>2
      <3>2. fs[k][w] # {}
        BY <1>1, <2>2 DEF Satisfying
      <3> QED BY <3>1, <3>2
    <2> QED BY <1>1, <2>1, <2>2
  <1> QED BY <1>2 DEF Satisfying

\* A prefix of a sequence is one.
LEMMA PrefixOfSeq ==
    ASSUME NEW S, NEW s \in Seq(S), NEW k \in 0 .. Len(s)
    PROVE  SubSeq(s, 1, k) \in Seq(S)
  <1>1. \A i \in 1 .. k : s[i] \in S
    OBVIOUS
  <1>2. Len(SubSeq(s, 1, k)) = k /\ \A i \in 1 .. k : SubSeq(s, 1, k)[i] = s[i]
    OBVIOUS
  <1> QED BY <1>1, <1>2

\* Undoing a push gives back the formulas it found.
LEMMA PopAfterAppend ==
    ASSUME NEW fs \in Seq(Formula), NEW f \in Formula
    PROVE  SubSeq(Append(fs, f), 1, Len(fs)) = fs
  OBVIOUS

\* While the solver has decided every query, its answers are right.
LEMMA RunFacts ==
    ASSUME NEW fs, NEW status, unknowns \in Nat, Run(fs, status)
    PROVE  /\ unknowns' \in Nat
           /\ unknowns' = 0 => unknowns = 0 /\ status = IF Satisfying(fs) = {} THEN "UNSAT" ELSE "SAT"
  <1>1. CASE status = (IF Satisfying(fs) = {} THEN "UNSAT" ELSE "SAT") /\ UNCHANGED unknowns
    BY <1>1
  <1>2. CASE unknowns' = unknowns + 1
    BY <1>2
  <1> QED BY <1>1, <1>2 DEF Run

-----------------------------------------------------------------------------
(* The steps of the loop *)

\* The eager phase ends with the whole graph as the region.
LEMMA SoundEagerIteration ==
    ASSUME Inv, SoundInv, EagerIteration
    PROVE  SoundInv'
  <1>1. /\ pc = "eager" /\ (verdict' = verdict \/ verdict' = "BoundReached")
        /\ \/ pc' \in {"eagerInline", "done"}
           \/ pc' = "under" /\ top' = Entry /\ bottom' = error
        /\ UNCHANGED <<nodes, edges, prog, error, asserted, marks, unknowns, encodings, skipUnderApprox, noDomPush>>
    BY DEF EagerIteration, Finish, solverVars, settings, fixedVars, graphVars
  <1>2. SolverInv' /\ asserted = <<>> /\ ~skipUnderApprox
    BY <1>1 DEF SoundInv, SolverInv
  <1>3. (unknowns = 0 => NoAssertionFails)'
    BY <1>1 DEF SoundInv, NoAssertionFails
  <1>4. RegionInv'
    <2>1. Between(Entry, error)
      BY <1>1 DEF SoundInv, RegionInv
    <2>2. Between(Entry, error)'
      BY <1>1, <2>1, SameGraph DEF Between
    <2>3. pc' = "under" => Between(top, bottom)'
      BY <1>1, <2>2 DEF Between
    <2> QED BY <1>1, <2>2, <2>3 DEF RegionInv
  <1>5. ASSUME unknowns = 0, OnlyMainFails(prog), NEW w \in ErrorInputs(prog) PROVE Kept(w)'
    <2>1. Kept(w) /\ w \in World
      BY <1>5 DEF SoundInv, LostInv, ErrorInputs
    <2>2. Passing(w)' = Passing(w) /\ Leads(Entry, error, Passing(w))
      BY <1>1, <2>1, SameGraph DEF Kept
    <2>3. w \in Satisfying(asserted)'
      BY <1>1, <1>2, <2>1 DEF Satisfying
    <2>4. verdict' # "Success"
      BY <1>1, <2>1 DEF Kept
    <2> QED BY <1>1, <1>2, <2>2, <2>3, <2>4 DEF Kept
  <1>6. LostInv'
    BY <1>1, <1>5 DEF LostInv
  <1> QED BY <1>2, <1>3, <1>4, <1>6 DEF SoundInv

\* Inlining keeps the calls in the region and the ways through it.
LEMMA SoundInline ==
    ASSUME Inv, SoundInv, pc \in {"eagerInline", "inline"},
           NEW c \in CallEdges, InlineCallIntoRoot(c),
           UNCHANGED <<pc, prog, error, verdict, solverVars, top, bottom, lca, skipUnderApprox, noDomPush>>
    PROVE  SoundInv'
  <1>1. UNCHANGED <<asserted, marks, unknowns, encodings>> /\ GraphInv
    BY DEF solverVars, Inv
  <1>2. SolverInv'
    BY <1>1 DEF SoundInv, SolverInv
  <1>3. (unknowns = 0 => NoAssertionFails)'
    BY <1>1 DEF SoundInv, NoAssertionFails
  <1>4. RegionInv'
    <2>1. PICK a, b : /\ Between(a, b)
                      /\ pc = "eagerInline" => a = Entry /\ b = error
                      /\ pc = "inline" => a = lca[1] /\ b = lca[2]
      BY DEF SoundInv, RegionInv
    <2>2. Between(a, b)'
      BY <1>1, <2>1, InlineKeepsBetween
    <2> QED BY <2>1, <2>2 DEF RegionInv, Between
  <1>5. ASSUME unknowns = 0, OnlyMainFails(prog), NEW w \in ErrorInputs(prog) PROVE Kept(w)'
    <2>1. Kept(w) /\ w \in World
      BY <1>5 DEF SoundInv, LostInv, ErrorInputs
    <2>2. ASSUME NEW a, NEW b, Leads(a, b, Passing(w)) PROVE Leads(a, b, Passing(w)')
      BY <1>1, <2>1, <2>2, InlineKeepsRuns
    <2>3. Popped' = Popped /\ Satisfying(Popped)' = Satisfying(Popped)
      BY <1>1 DEF Popped, Satisfying
    <2>4. pc = "eagerInline" => Leads(Entry, error, Passing(w)')
      BY <2>1, <2>2 DEF Kept
    <2>5. pc = "inline" => Leads(lca[1], lca[2], Passing(w)')
      BY <2>1, <2>2 DEF Kept
    <2> QED BY <1>1, <2>1, <2>3, <2>4, <2>5 DEF Kept
  <1>6. LostInv'
    BY <1>1, <1>5 DEF LostInv
  <1> QED BY <1>2, <1>3, <1>4, <1>6 DEF SoundInv

\* The formula of a region is a formula.
LEMMA RegionFormula ==
    ASSUME GraphInv, OrderInv, NEW a, NEW b, a \in nodes, Leads(a, b, edges), NEW cs, NEW enc \in Nat
    PROVE  Encode(a, b, cs, enc).formula \in Formula
  <1>1. b \in nodes /\ locNum[a] <= locNum[b]
    BY LeadsForward
  <1> QED BY <1>1, EncodeIs

\* Transitions that are free hold however the calls are approximated.
LEMMA FreeHolds ==
    ASSUME NEW w, NEW cs
    PROVE  Free(w) \in SUBSET edges /\ \A e \in Free(w) : HoldsFor(e, w, cs)
  BY DEF Free, HoldsFor

\* When every call is replaced by TRUE, all transitions that pass hold.
LEMMA PassingHolds ==
    ASSUME CallInv, NEW w, NEW S, DOMAIN calls \subseteq S
    PROVE  Passing(w) \in SUBSET edges /\ \A e \in Passing(w) : HoldsFor(e, w, Approximate(calls, S))
  <1>1. ASSUME NEW e \in edges, IsCall(e) PROVE Approximate(calls, S)[e.id].approx = TRUE
    <2>1. e.id \in DOMAIN calls
      BY <1>1 DEF CallInv, CallEdges
    <2> QED BY <2>1 DEF Approximate
  <1> QED BY <1>1 DEF Passing, HoldsFor

\* The order and the calls exist in the loop.
LEMMA LoopFacts ==
    ASSUME Inv, pc \in {"under", "start", "over", "inline"}
    PROVE  GraphInv /\ OrderInv /\ CallInv
  BY DEF Inv, EarlyInv

\* If the under-approximation fails, no failing input has a way without calls.
LEMMA SoundUnder ==
    ASSUME Inv, SoundInv, UnderApproximate
    PROVE  SoundInv'
  <1> DEFINE cs == Approximate(calls, {})
             f == Encode(top, bottom, cs, encodings).formula
             fs == Append(asserted, f)
  <1>1. /\ pc = "under" /\ ~skipUnderApprox /\ encodings' = encodings + 1
        /\ UNCHANGED <<nodes, edges, prog, error, top, bottom, skipUnderApprox, noDomPush>>
    BY DEF UnderApproximate, fixedVars, settings
  <1>2. PICK status \in SolverStatus :
          /\ Run(fs, status)
          /\ status = "SAT" => /\ marks' = Append(marks, Len(asserted)) /\ asserted' = fs
                               /\ pc' = "done" /\ verdict' = "Fail"
          /\ status # "SAT" => pc' = "start" /\ UNCHANGED <<verdict, asserted, marks>>
    BY DEF UnderApproximate, Push, Finish
  <1>3. GraphInv /\ OrderInv /\ CallInv
    BY <1>1, LoopFacts
  <1>4. /\ encodings \in Nat /\ unknowns \in Nat /\ asserted \in Seq(Formula) /\ marks \in Seq(Nat)
        /\ Between(top, bottom)
    BY <1>1 DEF SoundInv, SolverInv, RegionInv
  <1>5. f \in Formula
    BY <1>3, <1>4, RegionFormula DEF Between
  <1>6. unknowns' \in Nat /\ (unknowns' = 0 => /\ unknowns = 0
                                               /\ status = IF Satisfying(fs) = {} THEN "UNSAT" ELSE "SAT")
    <2> HIDE DEF fs
    <2> QED BY <1>2, <1>4, RunFacts
  <1> HIDE DEF f
  <1>7. SolverInv'
    <2>1. fs \in Seq(Formula) /\ Append(marks, Len(asserted)) \in Seq(Nat)
      BY <1>4, <1>5
    <2>2. asserted' \in Seq(Formula) /\ marks' \in Seq(Nat)
      BY <1>2, <1>4, <2>1
    <2>3. pc' \in {"done", "start"} /\ encodings' \in Nat
      BY <1>1, <1>2, <1>4
    <2> QED BY <1>1, <1>6, <2>2, <2>3 DEF SolverInv
  <1>8. (unknowns = 0 => NoAssertionFails)'
    BY <1>1, <1>2, <1>6 DEF SoundInv, NoAssertionFails
  <1>9. RegionInv'
    <2>1. Between(top, bottom)'
      BY <1>1, <1>4, SameGraph DEF Between
    <2> QED BY <1>2, <2>1 DEF RegionInv
  <1>10. ASSUME unknowns' = 0, OnlyMainFails(prog), NEW w \in ErrorInputs(prog) PROVE Kept(w)'
    <2>1. Kept(w) /\ w \in World
      BY <1>6, <1>10 DEF SoundInv, LostInv, ErrorInputs
    <2>2. Passing(w)' = Passing(w) /\ Free(w)' = Free(w)
      BY <1>1, SameGraph
    <2>3. /\ w \in Satisfying(asserted) /\ Leads(top, bottom, Passing(w)) /\ verdict # "Success"
      BY <1>1, <2>1 DEF Kept
    <2>4. CASE status = "SAT"
      BY <1>2, <2>4 DEF Kept
    <2>5. CASE status # "SAT"
      <3>1. w \notin Satisfying(fs)
        BY <1>6, <1>10, <2>5
      <3>2. f[w] = {}
        BY <1>4, <1>5, <2>3, <3>1, SatisfyingAppend
      <3>3. ASSUME Leads(top, bottom, Free(w)) PROVE FALSE
        <4>1. Free(w) \in SUBSET edges /\ \A e \in Free(w) : HoldsFor(e, w, cs)
          BY FreeHolds
        <4>2. top \in nodes
          BY <1>4 DEF Between
        <4> HIDE DEF cs
        <4>3. f[w] # {}
          BY <1>3, <1>4, <2>1, <3>3, <4>1, <4>2, EncodeComplete DEF f
        <4> QED BY <3>2, <4>3
      <3>4. Satisfying(asserted)' = Satisfying(asserted)
        BY <1>2, <2>5 DEF Satisfying
      <3> QED BY <1>1, <1>2, <2>2, <2>3, <2>5, <3>3, <3>4 DEF Kept
    <2> QED BY <2>4, <2>5
  <1>11. LostInv'
    BY <1>1, <1>10 DEF LostInv
  <1> QED BY <1>7, <1>8, <1>9, <1>11 DEF SoundInv

\* After an over-approximation that failed, nothing is lost by skipping the
\* under-approximation.
LEMMA SoundSkip ==
    ASSUME Inv, SoundInv, SkipUnderApproximation
    PROVE  SoundInv'
  <1>1. /\ pc = "under" /\ skipUnderApprox /\ pc' = "start" /\ skipUnderApprox' = FALSE
        /\ UNCHANGED <<nodes, edges, prog, error, asserted, marks, unknowns, encodings, verdict, top, bottom, noDomPush>>
    BY DEF SkipUnderApproximation, fixedVars, settings, graphVars, solverVars
  <1>2. SolverInv'
    BY <1>1 DEF SoundInv, SolverInv
  <1>3. (unknowns = 0 => NoAssertionFails)'
    BY <1>1 DEF SoundInv, NoAssertionFails
  <1>4. RegionInv'
    <2>1. Between(top, bottom)
      BY <1>1 DEF SoundInv, RegionInv
    <2>2. Between(top, bottom)'
      BY <1>1, <2>1, SameGraph DEF Between
    <2> QED BY <1>1, <2>2 DEF RegionInv
  <1>5. ASSUME unknowns = 0, OnlyMainFails(prog), NEW w \in ErrorInputs(prog) PROVE Kept(w)'
    <2>1. Kept(w)
      BY <1>5 DEF SoundInv, LostInv
    <2>2. Passing(w)' = Passing(w) /\ Free(w)' = Free(w) /\ Satisfying(asserted)' = Satisfying(asserted)
      BY <1>1, SameGraph DEF Satisfying
    <2> QED BY <1>1, <2>1, <2>2 DEF Kept
  <1>6. LostInv'
    BY <1>1, <1>5 DEF LostInv
  <1> QED BY <1>2, <1>3, <1>4, <1>6 DEF SoundInv

\* The new start and target when calls are left: they lie on all ways to and
\* from the calls, and all calls lie between them.
LEMMA AncestorFacts ==
    ASSUME GraphInv, OrderInv, CallInv, NEW a, NEW b, Between(a, b), CallEdges # {}
    PROVE  LET new == FindCommonCallAncestor(a, b)
           IN  /\ Between(new[1], new[2])
               /\ Leads(a, new[1], edges) /\ Leads(new[2], b, edges)
               /\ \A e \in CallEdges : Through(a, new[1], e.src) /\ Through(e.dst, new[2], b)
  <1> DEFINE targets == {e \in edges : e.id \in DOMAIN calls}
             d1 == FindCommonCallAncestor(a, b)[1]
             d2 == FindCommonCallAncestor(a, b)[2]
  <1>1. targets = CallEdges
    BY DEF CallInv, CallEdges, GraphInv
  <1>2. /\ d1 = IF noDomPush THEN a ELSE FindLowestCommonDominator(targets, a)
        /\ d2 = IF noPostDomPush THEN b ELSE FindHighestCommonPostDominator(targets, b)
    BY DEF FindCommonCallAncestor
  <1> HIDE DEF targets, d1, d2
  <1>3. /\ a \in nodes /\ b \in nodes /\ targets \in SUBSET edges /\ targets # {} /\ edges \in SUBSET edges
        /\ \A e \in targets : /\ Leads(a, e.src, edges) /\ Leads(e.dst, b, edges)
                              /\ e.src \in nodes /\ e.dst \in nodes
    BY <1>1 DEF Between, CallEdges, GraphInv
  <1>4. \A e \in targets : locNum[a] <= locNum[e.src] /\ locNum[e.dst] <= locNum[b]
    BY <1>3, LeadsForward
  <1>5. d1 \in nodes /\ \A e \in targets : Through(a, d1, e.src)
    <2>1. CASE noDomPush
      BY <1>2, <1>3, <2>1, LeadsSelf DEF Through
    <2>2. CASE ~noDomPush
      BY <1>2, <1>3, <1>4, <2>2, LowestCommonDominatorWorks
    <2> QED BY <2>1, <2>2
  <1>6. d2 \in nodes /\ \A e \in targets : Through(e.dst, d2, b)
    <2>1. CASE noPostDomPush
      BY <1>2, <1>3, <2>1, LeadsSelf DEF Through
    <2>2. CASE ~noPostDomPush
      BY <1>2, <1>3, <1>4, <2>2, HighestCommonPostDominatorWorks
    <2> QED BY <2>1, <2>2
  <1>7. ASSUME NEW e \in targets
        PROVE  /\ Leads(a, d1, edges) /\ Leads(d1, e.src, edges)
               /\ Leads(e.dst, d2, edges) /\ Leads(d2, b, edges)
    BY <1>3, <1>5, <1>6 DEF Through
  <1>8. PICK e \in targets : TRUE
    BY <1>3
  <1>9. Leads(d1, d2, edges)
    <2>1. Leads(e.src, e.dst, edges)
      BY <1>3, <1>8, LeadsStep
    <2> QED BY <1>7, <2>1, LeadsOver
  <1>10. Between(d1, d2)
    BY <1>1, <1>5, <1>6, <1>7, <1>9 DEF Between
  <1> QED BY <1>1, <1>5, <1>6, <1>7, <1>8, <1>10 DEF d1, d2

\* An input that has a way along P, which is free but for calls, reaches the new
\* start and leaves the new target without calls, if it cannot reach the old
\* target without calls.
LEMMA AncestorSplits ==
    ASSUME NEW w, NEW P, Free(w) \in SUBSET P, P \ Free(w) \subseteq CallEdges,
           NEW a, NEW b, NEW d1, NEW d2,
           Leads(a, b, P), ~Leads(a, b, Free(w)),
           \A e \in CallEdges : Through(a, d1, e.src) /\ Through(e.dst, d2, b)
    PROVE  Leads(a, d1, Free(w)) /\ Leads(d1, d2, P) /\ Leads(d2, b, Free(w))
  <1> DEFINE N == Free(w)
             BP == Backwards(P)
             BN == Backwards(N)
  <1>1. N \in SUBSET P /\ N \in SUBSET edges /\ P \ N \subseteq CallEdges
    BY DEF Free
  <1>2. \A e \in P \ N : /\ Leads(a, e.src, N) => Leads(a, d1, N) /\ Leads(d1, e.src, N)
                         /\ Leads(e.dst, b, N) => Leads(e.dst, d2, N) /\ Leads(d2, b, N)
    BY <1>1 DEF Through
  <1>3. Leads(a, b, P) /\ ~Leads(a, b, N)
    OBVIOUS
  <1> HIDE DEF N
  <1>4. Leads(a, d1, N) /\ Leads(d1, b, P)
    BY <1>1, <1>2, <1>3, LeadsThrough
  <1>5. ~Leads(d1, b, N)
    BY <1>3, <1>4, LeadsOver
  <1>6. BN \in SUBSET BP /\ Leads(b, d1, BP) /\ ~Leads(b, d1, BN)
    <2>1. Leads(b, d1, BP)
      BY <1>4, LeadsBack
    <2>2. ~Leads(b, d1, BN)
      BY <1>5, LeadsForth
    <2>3. BN \in SUBSET BP
      BY <1>1 DEF Backwards
    <2> QED BY <2>1, <2>2, <2>3
  <1>7. ASSUME NEW r \in BP \ BN, Leads(b, r.src, BN)
        PROVE  Leads(b, d2, BN) /\ Leads(d2, r.src, BN)
    <2>1. PICK e \in P : r = [src |-> e.dst, dst |-> e.src]
      BY DEF Backwards
    <2>2. e \in P \ N
      BY <1>7, <2>1 DEF Backwards
    <2>3. r.src = e.dst
      BY <2>1
    <2>4. Leads(e.dst, b, N)
      BY <1>7, <2>3, LeadsForth
    <2>5. Leads(e.dst, d2, N) /\ Leads(d2, b, N)
      BY <1>2, <2>2, <2>4
    <2> QED BY <2>3, <2>5, LeadsBack
  <1> HIDE DEF BN, BP
  <1>8. Leads(b, d2, BN) /\ Leads(d2, d1, BP)
    BY <1>6, <1>7, LeadsThrough
  <1>9. Leads(d2, b, N) /\ Leads(d1, d2, P)
    BY <1>8, LeadsForth DEF BN, BP
  <1> QED BY <1>4, <1>9 DEF N

\* findCommonCallAncestor has no start, or a start and a target as they should
\* be, unless -bmc-no-dom-push gives it a start that has no target.
LEMMA AncestorCases ==
    ASSUME GraphInv, OrderInv, CallInv, NEW a, NEW b, Between(a, b)
    PROVE  LET new == FindCommonCallAncestor(a, b)
           IN  \/ new[1] = Null
               \/ noDomPush /\ new[1] # Null /\ new[2] = Null
               \/ /\ new[1] # Null /\ new[2] # Null
                  /\ Between(new[1], new[2])
                  /\ Leads(a, new[1], edges) /\ Leads(new[2], b, edges)
                  /\ \A e \in CallEdges : Through(a, new[1], e.src) /\ Through(e.dst, new[2], b)
  <1> DEFINE d1 == FindCommonCallAncestor(a, b)[1]
             d2 == FindCommonCallAncestor(a, b)[2]
  <1>1. \A l \in nodes : l # Null
    BY NullAssumption DEF GraphInv
  <1>2. CASE CallEdges # {}
    <2>1. /\ Between(d1, d2) /\ Leads(a, d1, edges) /\ Leads(d2, b, edges)
          /\ \A e \in CallEdges : Through(a, d1, e.src) /\ Through(e.dst, d2, b)
      BY <1>2, AncestorFacts
    <2>2. d1 # Null /\ d2 # Null
      BY <1>1, <2>1 DEF Between
    <2> QED BY <2>1, <2>2
  <1>3. CASE CallEdges = {}
    <2>1. {e \in edges : e.id \in DOMAIN calls} = {}
      BY <1>3 DEF CallInv
    <2>2. /\ d1 = IF noDomPush THEN a ELSE Null
          /\ d2 = IF noPostDomPush THEN b ELSE Null
      BY <2>1 DEF FindCommonCallAncestor, FindLowestCommonDominator, FindHighestCommonPostDominator
    <2>3. a # Null /\ b # Null
      BY <1>1 DEF Between
    <2>4. Leads(a, a, edges) /\ Leads(b, b, edges)
      BY LeadsSelf
    <2> HIDE DEF d1, d2
    <2>5. CASE ~noDomPush
      BY <2>2, <2>5 DEF d1
    <2>6. CASE noDomPush /\ ~noPostDomPush
      BY <2>2, <2>3, <2>6 DEF d1, d2
    <2>7. CASE noDomPush /\ noPostDomPush
      <3>1. d1 = a /\ d2 = b
        BY <2>2, <2>7
      <3>2. /\ d1 # Null /\ d2 # Null /\ Between(d1, d2) /\ Leads(a, d1, edges) /\ Leads(d2, b, edges)
            /\ \A e \in CallEdges : Through(a, d1, e.src) /\ Through(e.dst, d2, b)
        BY <1>3, <2>3, <2>4, <3>1
      <3> QED BY <3>2 DEF d1, d2
    <2> QED BY <2>5, <2>6, <2>7
  <1> QED BY <1>2, <1>3

\* The new start and target keep every failing input: what is asserted for good
\* lies on its way.
LEMMA SoundStart ==
    ASSUME Inv, SoundInv, SetStartAndTarget
    PROVE  SoundInv'
  <1> DEFINE new == FindCommonCallAncestor(top, bottom)
             d1 == new[1]
             d2 == new[2]
             f1 == Encode(top, d1, calls, encodings).formula
             f2 == Encode(d2, bottom, calls, encodings + 1).formula
             fs == asserted \o <<f1, f2>>
  <1>1. /\ pc = "start" /\ UNCHANGED <<nodes, edges, prog, error, top, bottom, skipUnderApprox, noDomPush>>
    BY DEF SetStartAndTarget, fixedVars, settings, graphVars
  <1>2. GraphInv /\ OrderInv /\ CallInv
    BY <1>1, LoopFacts
  <1>3. /\ encodings \in Nat /\ unknowns \in Nat /\ asserted \in Seq(Formula) /\ marks \in Seq(Nat)
        /\ Between(top, bottom) /\ ~skipUnderApprox
    BY <1>1 DEF SoundInv, SolverInv, RegionInv
  <1>4. ASSUME unknowns = 0, OnlyMainFails(prog), NEW w \in ErrorInputs(prog)
        PROVE  /\ w \in World /\ w \in Satisfying(asserted) /\ Leads(top, bottom, Passing(w))
               /\ ~Leads(top, bottom, Free(w)) /\ verdict # "Success"
               /\ Passing(w)' = Passing(w) /\ Free(w)' = Free(w)
    BY <1>1, <1>4, SameGraph DEF SoundInv, LostInv, Kept, ErrorInputs
  <1>5. CASE d1 = Null
    <2>1. /\ marks' = Append(marks, Len(asserted)) /\ lca' = <<top, bottom>> /\ pc' = "over"
          /\ UNCHANGED <<asserted, unknowns, encodings, verdict>>
      BY <1>5 DEF SetStartAndTarget, Push
    <2>2. SolverInv'
      <3>1. Append(marks, Len(asserted)) \in Seq(Nat)
        BY <1>3
      <3> QED BY <1>1, <1>3, <2>1, <3>1 DEF SolverInv
    <2>3. (unknowns = 0 => NoAssertionFails)'
      BY <1>1, <2>1 DEF SoundInv, NoAssertionFails
    <2>4. lca'[1] = top /\ lca'[2] = bottom
      BY <2>1
    <2>5. RegionInv'
      <3>1. Between(top, bottom)'
        BY <1>1, <1>3, SameGraph DEF Between
      <3>2. Between(lca[1], lca[2])'
        BY <1>1, <2>4, <3>1 DEF Between
      <3> QED BY <2>1, <3>2 DEF RegionInv
    <2>6. LostInv'
      <3> SUFFICES ASSUME unknowns = 0, OnlyMainFails(prog), NEW w \in ErrorInputs(prog) PROVE Kept(w)'
        BY <1>1, <2>1 DEF LostInv
      <3>1. Satisfying(asserted)' = Satisfying(asserted)
        BY <2>1 DEF Satisfying
      <3> QED BY <1>4, <2>1, <2>4, <3>1 DEF Kept
    <2> QED BY <2>2, <2>3, <2>5, <2>6 DEF SoundInv
  <1>6. CASE d1 # Null /\ d2 = Null
    <2>1. pc' = "done" /\ verdict' = "Abort" /\ UNCHANGED solverVars
      BY <1>6 DEF SetStartAndTarget, Finish
    <2>2. noDomPush
      BY <1>2, <1>3, <1>6, AncestorCases
    <2>3. SolverInv'
      BY <1>1, <1>3, <2>1 DEF SolverInv, solverVars
    <2>4. (unknowns = 0 => NoAssertionFails)'
      BY <1>1, <2>2 DEF NoAssertionFails
    <2>5. RegionInv' /\ LostInv'
      BY <2>1 DEF RegionInv, LostInv, Kept
    <2> QED BY <2>3, <2>4, <2>5 DEF SoundInv
  <1>7. CASE d1 # Null /\ d2 # Null
    <2>1. /\ marks' = Append(marks, Len(asserted)) /\ asserted' = fs /\ encodings' = encodings + 2
          /\ lca' = new
          /\ \E status \in SolverStatus :
                /\ Run(fs, status)
                /\ status = "UNSAT" => pc' = "done" /\ verdict' = "Success"
                /\ status # "UNSAT" => pc' = "over" /\ UNCHANGED verdict
      BY <1>7 DEF SetStartAndTarget, Push, Finish
    <2>2. PICK status \in SolverStatus :
                /\ Run(fs, status)
                /\ status = "UNSAT" => pc' = "done" /\ verdict' = "Success"
                /\ status # "UNSAT" => pc' = "over" /\ UNCHANGED verdict
      BY <2>1
    <2>3. /\ Between(d1, d2) /\ Leads(top, d1, edges) /\ Leads(d2, bottom, edges)
          /\ \A e \in CallEdges : Through(top, d1, e.src) /\ Through(e.dst, d2, bottom)
      BY <1>2, <1>3, <1>7, AncestorCases
    <2>4. top \in nodes /\ d1 \in nodes /\ d2 \in nodes /\ encodings + 1 \in Nat
      BY <1>3, <2>3 DEF Between
    <2> HIDE DEF new
    <2>5. f1 \in Formula /\ f2 \in Formula
      <3> HIDE DEF d1, d2
      <3> QED BY <1>2, <1>3, <2>3, <2>4, RegionFormula
    <2>6. unknowns' \in Nat /\ (unknowns' = 0 => /\ unknowns = 0
                                                 /\ status = IF Satisfying(fs) = {} THEN "UNSAT" ELSE "SAT")
      <3> HIDE DEF fs
      <3> QED BY <1>3, <2>2, RunFacts
    <2>7. lca'[1] = d1 /\ lca'[2] = d2
      BY <2>1
    <2>8. ASSUME unknowns = 0, OnlyMainFails(prog), NEW w \in ErrorInputs(prog)
          PROVE  Leads(d1, d2, Passing(w)) /\ w \in Satisfying(fs)
      <3> HIDE DEF d1, d2
      <3>1. Leads(top, d1, Free(w)) /\ Leads(d1, d2, Passing(w)) /\ Leads(d2, bottom, Free(w))
        <4> DEFINE P == Passing(w)
        <4>1. Free(w) \in SUBSET P /\ P \ Free(w) \subseteq CallEdges
          BY DEF Passing, Free, CallEdges
        <4> HIDE DEF P
        <4>2. Leads(top, bottom, P) /\ ~Leads(top, bottom, Free(w))
          BY <1>4, <2>8 DEF P
        <4>3. Leads(top, d1, Free(w)) /\ Leads(d1, d2, P) /\ Leads(d2, bottom, Free(w))
          BY <2>3, <4>1, <4>2, AncestorSplits
        <4> QED BY <4>3 DEF P
      <3>2. Free(w) \in SUBSET edges /\ \A e \in Free(w) : HoldsFor(e, w, calls)
        BY FreeHolds
      <3>3. w \in World /\ w \in Satisfying(asserted)
        BY <1>4, <2>8
      <3>4. f1[w] # {} /\ f2[w] # {}
        BY <1>2, <1>3, <2>4, <3>1, <3>2, <3>3, EncodeComplete
      <3> HIDE DEF f1, f2
      <3>5. w \in Satisfying(Append(asserted, f1))
        BY <1>3, <2>5, <3>3, <3>4, SatisfyingAppend
      <3>6. Append(asserted, f1) \in Seq(Formula) /\ fs = Append(Append(asserted, f1), f2)
        BY <1>3, <2>5
      <3> DEFINE gs == Append(asserted, f1)
      <3>7. gs \in Seq(Formula) /\ w \in Satisfying(gs) /\ fs = Append(gs, f2)
        BY <3>5, <3>6
      <3> HIDE DEF gs, fs
      <3>8. w \in Satisfying(fs)
        BY <2>5, <3>4, <3>7, SatisfyingAppend
      <3> QED BY <3>1, <3>8
    <2> HIDE DEF d1, d2, f1, f2
    <2>9. SolverInv'
      <3>1. Append(marks, Len(asserted)) \in Seq(Nat) /\ fs \in Seq(Formula)
        BY <1>3, <2>5
      <3>2. encodings' \in Nat /\ pc' \in {"done", "over"}
        BY <1>3, <2>1, <2>2
      <3> QED BY <1>1, <1>3, <2>1, <2>6, <3>1, <3>2 DEF SolverInv
    <2>10. (unknowns = 0 => NoAssertionFails)'
      BY <1>1, <2>2, <2>6 DEF SoundInv, NoAssertionFails
    <2>11. RegionInv'
      <3>1. PICK a, b : a = d1 /\ b = d2
        OBVIOUS
      <3>2. Between(a, b)'
        BY <1>1, <2>3, <3>1, SameGraph
      <3>3. Between(lca[1], lca[2])'
        BY <2>7, <3>1, <3>2 DEF Between
      <3> QED BY <2>2, <3>3 DEF RegionInv
    <2>12. LostInv'
      <3> SUFFICES ASSUME unknowns' = 0, OnlyMainFails(prog), NEW w \in ErrorInputs(prog) PROVE Kept(w)'
        BY <1>1 DEF LostInv
      <3>1. unknowns = 0 /\ Leads(d1, d2, Passing(w)) /\ w \in Satisfying(fs)
        BY <2>6, <2>8
      <3>2. status # "UNSAT"
        BY <2>6, <3>1
      <3>3. pc' = "over" /\ verdict' = verdict /\ w \in Satisfying(asserted')
        BY <2>1, <2>2, <3>1, <3>2
      <3>4. verdict # "Success" /\ Passing(w)' = Passing(w)
        BY <1>4, <3>1
      <3>5. Satisfying(asserted)' = Satisfying(asserted')
        BY DEF Satisfying
      <3> QED BY <2>7, <3>1, <3>3, <3>4, <3>5 DEF Kept
    <2> QED BY <2>9, <2>10, <2>11, <2>12 DEF SoundInv
  <1> QED BY <1>5, <1>6, <1>7

\* When no call is beyond the bound, every call is open.
LEMMA AllCallsOpen ==
    ASSUME GraphInv, CallInv, NEW S, Cardinality(Unhandled(calls, S)) = 0
    PROVE  DOMAIN calls \subseteq S
  <1> DEFINE U == Unhandled(calls, S)
  <1>1. U \subseteq 0 .. nextEdge
    BY DEF Unhandled, CallInv, CallEdges, GraphInv
  <1>2. IsFiniteSet(0 .. nextEdge)
    BY FS_Interval DEF GraphInv
  <1>3. U = {}
    <2> HIDE DEF U
    <2>1. IsFiniteSet(U)
      BY <1>1, <1>2, FS_Subset
    <2> QED BY <2>1, FS_EmptySet DEF U
  <1> QED BY <1>3 DEF Unhandled

\* If the over-approximation fails while calls are beyond the bound, no failing
\* input has a way through the region without calls; if none is, no input fails.
LEMMA SoundOver ==
    ASSUME Inv, SoundInv, OverApproximate
    PROVE  SoundInv'
  <1> DEFINE open == Cheap(calls, bound)
             cs == Approximate(calls, open)
             left == Cardinality(Unhandled(calls, open))
             f == Encode(lca[1], lca[2], cs, encodings).formula
             fs == Append(asserted, f)
  <1>1. /\ pc = "over" /\ encodings' = encodings + 1
        /\ UNCHANGED <<nodes, edges, prog, error, lca, noDomPush>>
    BY DEF OverApproximate, fixedVars, settings
  <1>2. PICK status \in SolverStatus :
          /\ Run(fs, status)
          /\ \/ /\ status = "SAT" /\ pc' = "inline"
                /\ marks' = Append(marks, Len(asserted)) /\ asserted' = fs
                /\ UNCHANGED <<verdict, skipUnderApprox>>
             \/ /\ status # "SAT" /\ pc' = "under" /\ skipUnderApprox' = TRUE
                /\ top' = lca[1] /\ bottom' = lca[2]
                /\ UNCHANGED <<verdict, asserted, marks>>
             \/ /\ status # "SAT" /\ pc' = "done"
                /\ marks' = Append(marks, Len(asserted)) /\ asserted' = fs
                /\ verdict' = IF left = 0 THEN "Success" ELSE "BoundReached"
             \/ /\ status = "UNKNOWN" /\ pc' = "done" /\ verdict' = "Abort"
                /\ marks' = Append(marks, Len(asserted)) /\ asserted' = fs
    BY DEF OverApproximate, Push, Finish
  <1>3. GraphInv /\ OrderInv /\ CallInv
    BY <1>1, LoopFacts
  <1>4. /\ encodings \in Nat /\ unknowns \in Nat /\ asserted \in Seq(Formula) /\ marks \in Seq(Nat)
        /\ Between(lca[1], lca[2]) /\ ~skipUnderApprox
    BY <1>1 DEF SoundInv, SolverInv, RegionInv
  <1>5. f \in Formula
    <2>1. PICK a, b : a = lca[1] /\ b = lca[2]
      OBVIOUS
    <2> HIDE DEF cs
    <2>2. a \in nodes /\ Leads(a, b, edges)
      BY <1>4, <2>1 DEF Between
    <2>3. Encode(a, b, cs, encodings).formula \in Formula
      BY <1>3, <1>4, <2>2, RegionFormula
    <2> QED BY <2>1, <2>3
  <1>6. unknowns' \in Nat /\ (unknowns' = 0 => /\ unknowns = 0
                                               /\ status = IF Satisfying(fs) = {} THEN "UNSAT" ELSE "SAT")
    <2> HIDE DEF fs
    <2> QED BY <1>2, <1>4, RunFacts
  <1>7. ASSUME NEW w \in World, NEW E \in SUBSET edges, Leads(lca[1], lca[2], E),
               \A e \in E : HoldsFor(e, w, cs)
        PROVE  f[w] # {}
    <2>1. PICK a, b : a = lca[1] /\ b = lca[2]
      OBVIOUS
    <2>2. a \in nodes /\ Leads(a, b, E)
      BY <1>4, <1>7, <2>1 DEF Between
    <2> HIDE DEF cs
    <2>3. Encode(a, b, cs, encodings).formula[w] # {}
      BY <1>3, <1>4, <1>7, <2>2, EncodeComplete
    <2> QED BY <2>1, <2>3
  <1> HIDE DEF f
  <1>8. fs \in Seq(Formula) /\ Append(marks, Len(asserted)) \in Seq(Nat) /\ Len(asserted) \in Nat
    BY <1>4, <1>5
  <1>9. SolverInv'
    <2>1. asserted' \in Seq(Formula) /\ marks' \in Seq(Nat)
      BY <1>2, <1>4, <1>8
    <2>2. /\ encodings' \in Nat /\ pc' \in {"inline", "under", "done"}
          /\ skipUnderApprox' => pc' \in {"under", "done"}
      BY <1>1, <1>2, <1>4
    <2>3. pc' = "inline" => marks' # <<>> /\ marks'[Len(marks')] <= Len(asserted')
      <3> SUFFICES ASSUME pc' = "inline" PROVE marks' # <<>> /\ marks'[Len(marks')] <= Len(asserted')
        OBVIOUS
      <3>1. marks' = Append(marks, Len(asserted)) /\ asserted' = fs
        BY <1>2
      <3>2. Len(fs) = Len(asserted) + 1
        BY <1>4, <1>5
      <3>3. marks' # <<>> /\ marks'[Len(marks')] = Len(asserted)
        <4>1. Len(marks') = Len(marks) + 1 /\ Len(marks) \in Nat /\ marks' \in Seq(Nat)
          BY <1>4, <1>8, <3>1
        <4>2. marks' # <<>>
          BY <4>1
        <4>3. marks'[Len(marks) + 1] = Len(asserted)
          BY <1>4, <1>8, <3>1
        <4> QED BY <4>1, <4>2, <4>3
      <3> QED BY <1>8, <3>1, <3>2, <3>3
    <2> QED BY <1>6, <2>1, <2>2, <2>3 DEF SolverInv
  <1>10. (unknowns = 0 => NoAssertionFails)'
    <2> SUFFICES ASSUME unknowns' = 0 PROVE NoAssertionFails'
      OBVIOUS
    <2>1. unknowns = 0 /\ status # "UNKNOWN"
      BY <1>6
    <2>2. verdict' \in {verdict, "Success", "BoundReached"}
      BY <1>2, <2>1
    <2> QED BY <1>1, <2>1, <2>2 DEF SoundInv, NoAssertionFails
  <1>11. RegionInv'
    <2>1. PICK a, b : a = lca[1] /\ b = lca[2]
      OBVIOUS
    <2>2. Between(a, b)'
      BY <1>1, <1>4, <2>1, SameGraph
    <2>3. Between(lca[1], lca[2])' /\ (pc' = "under" => Between(top, bottom)')
      BY <1>1, <1>2, <2>1, <2>2 DEF Between
    <2> QED BY <1>2, <2>3 DEF RegionInv
  <1>12. ASSUME unknowns' = 0, OnlyMainFails(prog), NEW w \in ErrorInputs(prog) PROVE Kept(w)'
    <2>1. unknowns = 0 /\ Kept(w) /\ w \in World
      BY <1>6, <1>12 DEF SoundInv, LostInv, ErrorInputs
    <2>2. /\ Passing(w)' = Passing(w) /\ Free(w)' = Free(w)
          /\ lca'[1] = lca[1] /\ lca'[2] = lca[2]
      BY <1>1, SameGraph
    <2>3. /\ w \in Satisfying(asserted) /\ Leads(lca[1], lca[2], Passing(w)) /\ verdict # "Success"
      BY <1>1, <2>1 DEF Kept
    <2>4. ASSUME status # "SAT" PROVE f[w] = {}
      <3>1. w \notin Satisfying(fs)
        BY <1>6, <1>12, <2>4
      <3> QED BY <1>4, <1>5, <2>3, <3>1, SatisfyingAppend
    <2>5. CASE status = "SAT"
      <3>1. /\ pc' = "inline" /\ marks' = Append(marks, Len(asserted)) /\ asserted' = fs
            /\ verdict' = verdict
        BY <1>2, <2>5
      <3>2. marks'[Len(marks')] = Len(asserted)
        BY <1>4, <1>8, <3>1
      <3>3. Popped' = asserted
        BY <1>4, <1>5, <3>1, <3>2, PopAfterAppend DEF Popped
      <3>4. Satisfying(Popped)' = Satisfying(asserted)
        BY <3>3 DEF Satisfying
      <3> QED BY <2>2, <2>3, <3>1, <3>4 DEF Kept
    <2>6. CASE status # "SAT" /\ pc' = "under"
      <3>1. /\ top' = lca[1] /\ bottom' = lca[2] /\ verdict' = verdict /\ asserted' = asserted
        BY <1>2, <2>6
      <3>2. Satisfying(asserted)' = Satisfying(asserted)
        BY <3>1 DEF Satisfying
      <3>3. ~Leads(lca[1], lca[2], Free(w))
        <4>1. Free(w) \in SUBSET edges /\ \A e \in Free(w) : HoldsFor(e, w, cs)
          BY FreeHolds
        <4> HIDE DEF cs
        <4> QED BY <1>7, <2>1, <2>4, <2>6, <4>1
      <3> QED BY <2>2, <2>3, <2>6, <3>1, <3>2, <3>3 DEF Kept
    <2>7. CASE status # "SAT" /\ pc' # "under"
      <3>1. pc' = "done" /\ (verdict' = "Success" => left = 0)
        BY <1>2, <2>7
      <3>2. ASSUME left = 0 PROVE FALSE
        <4>1. DOMAIN calls \subseteq open
          <5> HIDE DEF open
          <5> QED BY <1>3, <3>2, AllCallsOpen
        <4>2. Passing(w) \in SUBSET edges /\ \A e \in Passing(w) : HoldsFor(e, w, cs)
          <5> HIDE DEF open
          <5> QED BY <1>3, <4>1, PassingHolds
        <4> HIDE DEF cs
        <4> QED BY <1>7, <2>1, <2>3, <2>4, <2>7, <4>2
      <3> QED BY <3>1, <3>2 DEF Kept
    <2> QED BY <2>5, <2>6, <2>7
  <1>13. LostInv'
    BY <1>1, <1>12 DEF LostInv
  <1> QED BY <1>9, <1>10, <1>11, <1>13 DEF SoundInv

\* Dropping the scope of the over-approximation gives back what was asserted
\* before it.
LEMMA SoundFinish ==
    ASSUME Inv, SoundInv, FinishInlining
    PROVE  SoundInv'
  <1>1. /\ pc = "inline" /\ pc' = "under" /\ asserted' = Popped /\ marks' = ButLast(marks)
        /\ top' = lca[1] /\ bottom' = lca[2]
        /\ UNCHANGED <<nodes, edges, prog, error, unknowns, encodings, verdict, lca, skipUnderApprox, noDomPush>>
    BY DEF FinishInlining, fixedVars, settings, graphVars
  <1>2. /\ encodings \in Nat /\ unknowns \in Nat /\ asserted \in Seq(Formula) /\ marks \in Seq(Nat)
        /\ marks # <<>> /\ marks[Len(marks)] <= Len(asserted)
        /\ Between(lca[1], lca[2]) /\ ~skipUnderApprox
    BY <1>1 DEF SoundInv, SolverInv, RegionInv
  <1>3. SolverInv'
    <2>1. marks[Len(marks)] \in 0 .. Len(asserted) /\ Len(marks) - 1 \in 0 .. Len(marks)
      BY <1>2
    <2>2. asserted' \in Seq(Formula)
      BY <1>1, <1>2, <2>1, PrefixOfSeq DEF Popped
    <2>3. marks' \in Seq(Nat)
      BY <1>1, <1>2, <2>1, PrefixOfSeq DEF ButLast
    <2> QED BY <1>1, <1>2, <2>2, <2>3 DEF SolverInv
  <1>4. (unknowns = 0 => NoAssertionFails)'
    BY <1>1 DEF SoundInv, NoAssertionFails
  <1>5. RegionInv'
    <2>1. PICK a, b : a = lca[1] /\ b = lca[2]
      OBVIOUS
    <2>2. Between(a, b)'
      BY <1>1, <1>2, <2>1, SameGraph
    <2>3. Between(top, bottom)'
      BY <1>1, <2>1, <2>2 DEF Between
    <2> QED BY <1>1, <2>3 DEF RegionInv
  <1>6. ASSUME unknowns = 0, OnlyMainFails(prog), NEW w \in ErrorInputs(prog) PROVE Kept(w)'
    <2>1. Kept(w)
      BY <1>6 DEF SoundInv, LostInv
    <2>2. Passing(w)' = Passing(w)
      BY <1>1, SameGraph
    <2>3. Satisfying(asserted)' = Satisfying(Popped)
      BY <1>1 DEF Satisfying
    <2> QED BY <1>1, <1>2, <2>1, <2>2, <2>3 DEF Kept
  <1>7. LostInv'
    BY <1>1, <1>6 DEF LostInv
  <1> QED BY <1>3, <1>4, <1>5, <1>7 DEF SoundInv

\* Every step keeps the invariant.
LEMMA SoundNext ==
    ASSUME Inv, SoundInv, [Next]_vars
    PROVE  SoundInv'
  <1>1. CASE EagerInline
    <2>1. CASE openCalls = {}
      <3>1. /\ pc = "eagerInline" /\ pc' = "eager"
            /\ UNCHANGED <<nodes, edges, prog, error, verdict, asserted, marks, unknowns, encodings,
                           skipUnderApprox, noDomPush>>
        BY <1>1, <2>1 DEF EagerInline, graphVars, solverVars, fixedVars, settings
      <3>2. SolverInv'
        BY <3>1 DEF SoundInv, SolverInv
      <3>3. (unknowns = 0 => NoAssertionFails)'
        BY <3>1 DEF SoundInv, NoAssertionFails
      <3>4. RegionInv'
        <4>1. Between(Entry, error)
          BY <3>1 DEF SoundInv, RegionInv
        <4>2. Between(Entry, error)'
          BY <3>1, <4>1, SameGraph DEF Between
        <4> QED BY <3>1, <4>2 DEF RegionInv
      <3>5. ASSUME unknowns = 0, OnlyMainFails(prog), NEW w \in ErrorInputs(prog) PROVE Kept(w)'
        <4>1. Kept(w) /\ Passing(w)' = Passing(w)
          BY <3>1, <3>5, SameGraph DEF SoundInv, LostInv
        <4> QED BY <3>1, <4>1 DEF Kept
      <3>6. LostInv'
        BY <3>1, <3>5 DEF LostInv
      <3> QED BY <3>2, <3>3, <3>4, <3>6 DEF SoundInv
    <2>2. CASE openCalls # {}
      <3>1. /\ pc = "eagerInline"
            /\ UNCHANGED <<pc, prog, error, verdict, solverVars, top, bottom, lca, skipUnderApprox, noDomPush>>
            /\ \E c \in CallEdges : InlineCallIntoRoot(c)
        BY <1>1, <2>2 DEF EagerInline, fixedVars, settings
      <3> QED BY <3>1, SoundInline
    <2> QED BY <2>1, <2>2
  <1>2. CASE InlineNext
    <2>1. /\ pc = "inline"
          /\ UNCHANGED <<pc, prog, error, verdict, solverVars, top, bottom, lca, skipUnderApprox, noDomPush>>
          /\ \E c \in CallEdges : InlineCallIntoRoot(c)
      BY <1>2 DEF InlineNext, fixedVars, settings
    <2> QED BY <2>1, SoundInline
  <1>3. CASE Done \/ UNCHANGED vars
    <2>1. UNCHANGED <<pc, nodes, edges, prog, error, verdict, asserted, marks, unknowns, encodings,
                      top, bottom, lca, skipUnderApprox, noDomPush>>
      BY <1>3 DEF Done, vars, graphVars, solverVars, fixedVars, settings, loopVars
    <2>2. SolverInv' /\ NoAssertionFails' = NoAssertionFails
      BY <2>1 DEF SoundInv, SolverInv, NoAssertionFails
    <2>3. RegionInv'
      BY <2>1 DEF SoundInv, RegionInv, Between, CallEdges, IsCall
    <2>4. ASSUME unknowns = 0, OnlyMainFails(prog), NEW w \in ErrorInputs(prog) PROVE Kept(w)'
      <3>1. Kept(w) /\ Passing(w)' = Passing(w) /\ Free(w)' = Free(w)
        BY <2>1, <2>4, SameGraph DEF SoundInv, LostInv
      <3>2. /\ Satisfying(asserted)' = Satisfying(asserted)
            /\ Satisfying(Popped)' = Satisfying(Popped)
        BY <2>1 DEF Satisfying, Popped
      <3> QED BY <2>1, <3>1, <3>2 DEF Kept
    <2>5. LostInv'
      BY <2>1, <2>4 DEF LostInv
    <2> QED BY <2>1, <2>2, <2>3, <2>5 DEF SoundInv
  <1> QED BY <1>1, <1>2, <1>3, SoundErrorField, SoundRemove, SoundSort, SoundEagerIteration, SoundUnder,
             SoundSkip, SoundStart, SoundOver, SoundFinish DEF Next

(***************************************************************************)
(* The engine loses no failing input in any execution.                     *)
(***************************************************************************)
THEOREM Soundness == Spec => []SoundInv
  BY Invariance, SoundInit, SoundNext, PTL DEF Spec

\* A verdict Success is right, if the solver has decided every query and the
\* errors are in the main automaton: no input leads the program to an error.
THEOREM SuccessStaysSound == Spec => [](unknowns = 0 /\ OnlyMainFails(prog) => SuccessIsSound)
  <1>1. SoundInv => (unknowns = 0 /\ OnlyMainFails(prog) => SuccessIsSound)
    BY DEF SoundInv, LostInv, Kept, SuccessIsSound
  <1> QED BY <1>1, Soundness, PTL

\* Under the same conditions an input that leads to an error satisfies what is
\* asserted whenever an iteration starts, and the formula of the region when
\* every call may return.
THEOREM ErrorsAreNeverLost == Spec => [](unknowns = 0 /\ OnlyMainFails(prog) => NoErrorIsLost)
  <1>1. ASSUME Inv, SoundInv, unknowns = 0, OnlyMainFails(prog) PROVE NoErrorIsLost
    <2> DEFINE cs == Approximate(calls, DOMAIN calls)
               f == Encode(top, bottom, cs, 0).formula
    <2> SUFFICES ASSUME pc = "under", NEW w \in ErrorInputs(prog)
                 PROVE  w \in Satisfying(Append(asserted, f))
      BY DEF NoErrorIsLost
    <2>1. /\ w \in World /\ w \in Satisfying(asserted) /\ Leads(top, bottom, Passing(w))
          /\ asserted \in Seq(Formula) /\ Between(top, bottom)
      BY <1>1 DEF SoundInv, LostInv, Kept, SolverInv, RegionInv, ErrorInputs
    <2>2. GraphInv /\ OrderInv /\ CallInv
      BY <1>1, LoopFacts
    <2>3. Passing(w) \in SUBSET edges /\ \A e \in Passing(w) : HoldsFor(e, w, cs)
      BY <2>2, PassingHolds
    <2>4. top \in nodes /\ Leads(top, bottom, edges) /\ 0 \in Nat
      BY <2>1 DEF Between
    <2> HIDE DEF cs
    <2>5. f \in Formula
      BY <2>2, <2>4, RegionFormula
    <2>6. f[w] # {}
      BY <2>1, <2>2, <2>3, <2>4, EncodeComplete
    <2> HIDE DEF f
    <2> QED BY <2>1, <2>5, <2>6, SatisfyingAppend
  <1> QED BY <1>1, Invariance, Soundness, PTL

\* As long as the solver has decided every query, no assertion of check() fails
\* without -bmc-no-dom-push, wherever the errors are.
THEOREM AssertionsHold == Spec => [](unknowns = 0 => NoAssertionFails)
  <1>1. SoundInv => (unknowns = 0 => NoAssertionFails)
    BY DEF SoundInv
  <1> QED BY <1>1, Soundness, PTL

=============================================================================
