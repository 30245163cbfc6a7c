---------------------------- MODULE BmcPrecision ----------------------------
(***************************************************************************)
(* The bounded model checker loses no more than it says.                   *)
(*                                                                         *)
(* The region that it works on is as small as it can be: the bit-vector    *)
(* algorithms that find the lowest common dominator and the highest common *)
(* post-dominator of the calls are exact, for any automata systems,        *)
(* settings and answers of the solver.                                     *)
(*                                                                         *)
(* A verdict BoundReached is honest: no input leads to an error without    *)
(* entering some procedure more than maxBound times.                       *)
(***************************************************************************)
EXTENDS BmcSoundness

-----------------------------------------------------------------------------
(* Paths that avoid a location *)

\* The transitions that do not touch a location.
Avoid(d) == {e \in edges : d \notin {e.src, e.dst}}

\* What is reached within some steps is reached within more.
LEMMA SpreadsGrow ==
    ASSUME NEW R, NEW S, NEW es, NEW k \in Nat, Spreads(R, S, es, k),
           NEW i \in 0 .. k, NEW j \in i .. k
    PROVE  R[i] \subseteq R[j]
  <1> DEFINE I == {m \in i .. k : R[i] \subseteq R[m]}
  <1>1. i \in Nat /\ (i <= k => i \in I)
    OBVIOUS
  <1>2. ASSUME NEW m \in i .. k, m \in I, m < k PROVE m + 1 \in I
    <2>1. m + 1 \in 1 .. k /\ (m + 1) - 1 = m /\ m + 1 \in i .. k
      BY <1>2
    <2>2. R[m + 1] = Wave(R[m], es)
      BY <2>1 DEF Spreads
    <2> QED BY <1>2, <2>1, <2>2 DEF Wave
  <1>3. i .. k \subseteq I
    <2> HIDE DEF I
    <2> QED BY <1>1, <1>2, IntervalInduction
  <1> QED BY <1>3

\* The order lists every location once.
LEMMA LocationsCount ==
    ASSUME GraphInv, OrderInv
    PROVE  Cardinality(nodes) = Len(topo) /\ Len(topo) \in Nat
  <1>1. Len(topo) \in Nat /\ topo \in [1 .. Len(topo) -> nodes]
    BY NumberFacts DEF OrderInv
  <1>2. \A i, j \in 1 .. Len(topo) : topo[i] = topo[j] => i = j
    BY <1>1, NumberFacts
  <1>3. \A l \in nodes : \E i \in 1 .. Len(topo) : topo[i] = l
    BY <1>1, NumberFacts
  <1>4. topo \in Bijection(1 .. Len(topo), nodes)
    BY <1>1, <1>2, <1>3 DEF Bijection, Injection, Surjection, IsInjective
  <1>5. ExistsBijection(1 .. Len(topo), nodes)
    BY <1>4 DEF ExistsBijection
  <1>6. IsFiniteSet(1 .. Len(topo)) /\ Cardinality(1 .. Len(topo)) = Len(topo)
    <2> DEFINE n == Len(topo)
    <2>1. n \in Nat
      BY <1>1
    <2> HIDE DEF n
    <2>2. IsFiniteSet(1 .. n) /\ Cardinality(1 .. n) = IF 1 > n THEN 0 ELSE n - 1 + 1
      BY <2>1, FS_Interval
    <2>3. IsFiniteSet(1 .. n) /\ Cardinality(1 .. n) = n
      BY <2>1, <2>2
    <2> QED BY <2>3 DEF n
  <1> QED BY <1>1, <1>5, <1>6, FS_Bijection

\* A way through the graph has no more steps than there are locations.
LEMMA ReachComplete ==
    ASSUME GraphInv, OrderInv, NEW a \in nodes, NEW b, NEW E \in SUBSET edges, Leads(a, b, E)
    PROVE  b \in ReachWithin({a}, E, Cardinality(nodes))
  <1> DEFINE n == Cardinality(nodes)
  <1>1. n = Len(topo) /\ n \in Nat
    BY LocationsCount
  <1> HIDE DEF n
  <1>2. PICK R : Spreads(R, {a}, E, n) /\ ReachWithin({a}, E, n) = R[n]
    BY <1>1, ReachIs
  <1>3. \A l \in nodes : locNum[l] \in 0 .. n /\ n \in locNum[l] .. n
    BY <1>1, NumberFacts
  <1>4. \A i \in 0 .. n : \A j \in i .. n : R[i] \subseteq R[j]
    BY <1>1, <1>2, SpreadsGrow
  <1> DEFINE T == {l \in nodes : l \in R[locNum[l]]}
  <1>5. a \in T
    <2>1. a \in R[0] /\ 0 \in 0 .. n /\ locNum[a] \in 0 .. n
      BY <1>1, <1>2, <1>3 DEF Spreads
    <2> QED BY <1>4, <2>1
  <1>6. ASSUME NEW e \in E, e.src \in T PROVE e.dst \in T
    <2> DEFINE i == locNum[e.src]
               j == locNum[e.dst]
    <2>1. e.src \in nodes /\ e.dst \in nodes /\ i < j
      BY NumberFacts
    <2>2. i \in 0 .. n /\ j \in 0 .. n
      BY <1>3, <2>1
    <2>3. e.src \in R[i]
      BY <1>6
    <2> HIDE DEF i, j
    <2>4. i + 1 \in 1 .. n /\ i + 1 \in 0 .. n /\ j \in i + 1 .. n /\ (i + 1) - 1 = i
      BY <1>1, <2>1, <2>2
    <2>5. R[i + 1] = Wave(R[i], E)
      BY <1>2, <2>4 DEF Spreads
    <2>6. e.dst \in R[i + 1]
      BY <2>3, <2>5 DEF Wave
    <2>7. e.dst \in R[j]
      BY <1>4, <2>4, <2>6
    <2> QED BY <2>1, <2>7 DEF j
  <1>7. b \in T
    <2>1. Closed(T, E)
      BY <1>6 DEF Closed
    <2> HIDE DEF T
    <2> QED BY <1>5, <2>1 DEF Leads
  <1>8. b \in R[n]
    <2>1. b \in nodes /\ b \in R[locNum[b]]
      BY <1>7
    <2> QED BY <1>3, <1>4, <2>1
  <1> QED BY <1>2, <1>8 DEF n

\* A location lies on every path between two others if it is one of them or if
\* avoiding it leaves no way.
LEMMA EveryPathIs ==
    ASSUME GraphInv, OrderInv, NEW a \in nodes, NEW b, NEW d
    PROVE  OnEveryPath(d, a, b) <=> d \in {a, b} \/ ~Leads(a, b, Avoid(d))
  <1> DEFINE E == Avoid(d)
             k == Cardinality(nodes)
  <1>1. OnEveryPath(d, a, b) <=> d \in {a, b} \/ b \notin ReachWithin({a}, E, k)
    BY DEF OnEveryPath, Avoid
  <1>2. E \in SUBSET edges /\ k \in Nat
    BY LocationsCount DEF Avoid
  <1> HIDE DEF E, k
  <1>3. b \in ReachWithin({a}, E, k) => Leads(a, b, E)
    BY <1>2, ReachLeads
  <1>4. Leads(a, b, E) => b \in ReachWithin({a}, E, k)
    BY <1>2, ReachComplete DEF k
  <1> QED BY <1>1, <1>3, <1>4 DEF E

\* A location that all ways run through lies on every path.
LEMMA ThroughIsOnEveryPath ==
    ASSUME GraphInv, OrderInv, NEW a \in nodes, NEW b, NEW d, Through(a, d, b)
    PROVE  OnEveryPath(d, a, b)
  <1> SUFFICES ASSUME d # a, Leads(a, b, Avoid(d)) PROVE FALSE
    BY EveryPathIs
  <1>1. Leads(a, d, Avoid(d))
    BY DEF Through, Avoid
  <1>2. PICK e \in Avoid(d) : e.dst = d
    <2> DEFINE E == Avoid(d)
    <2> HIDE DEF E
    <2>1. \E e \in E : e.dst = d /\ Leads(a, e.src, E)
      BY <1>1, LeadsLast DEF E
    <2> QED BY <2>1 DEF E
  <1> QED BY <1>2 DEF Avoid

\* A location on every path between two others has its number between theirs.
LEMMA OnEveryPathBetween ==
    ASSUME GraphInv, OrderInv, NEW a \in nodes, NEW b \in nodes, NEW d \in nodes,
           Leads(a, b, edges), OnEveryPath(d, a, b)
    PROVE  locNum[a] <= locNum[d] /\ locNum[d] <= locNum[b]
  <1>1. \A l \in nodes : locNum[l] \in Nat /\ topo[locNum[l]] = l
    BY NumberFacts
  <1>2. \A e \in edges : e.src \in nodes /\ e.dst \in nodes /\ locNum[e.src] < locNum[e.dst]
    BY NumberFacts
  <1>3. locNum[a] <= locNum[b]
    BY LeadsForward
  <1>4. d \in {a, b} \/ ~Leads(a, b, Avoid(d))
    BY EveryPathIs
  <1>5. ASSUME locNum[d] < locNum[a] PROVE Leads(a, b, Avoid(d))
    <2> SUFFICES ASSUME NEW T, a \in T, Closed(T, Avoid(d)) PROVE b \in T
      BY DEF Leads
    <2> DEFINE U == {l \in T : l \in nodes /\ locNum[a] <= locNum[l]}
    <2>1. a \in U
      BY <1>1
    <2>2. ASSUME NEW e \in edges, e.src \in U PROVE e.dst \in U
      <3>1. locNum[a] <= locNum[e.src] /\ locNum[e.src] < locNum[e.dst] /\ e.dst \in nodes
        BY <1>2, <2>2
      <3>2. locNum[a] <= locNum[e.dst] /\ e.src # d /\ e.dst # d
        BY <1>1, <1>2, <1>5, <3>1
      <3>3. e.dst \in T
        BY <2>2, <3>2 DEF Closed, Avoid
      <3> QED BY <3>1, <3>2, <3>3
    <2>3. Closed(U, edges)
      BY <2>2 DEF Closed
    <2> HIDE DEF U
    <2>4. b \in U
      BY <2>1, <2>3 DEF Leads
    <2> QED BY <2>4 DEF U
  <1>6. ASSUME locNum[b] < locNum[d] PROVE Leads(a, b, Avoid(d))
    <2> SUFFICES ASSUME NEW T, a \in T, Closed(T, Avoid(d)) PROVE b \in T
      BY DEF Leads
    <2> DEFINE U == T \cup {l \in nodes : locNum[d] <= locNum[l]}
    <2>1. a \in U
      OBVIOUS
    <2>2. ASSUME NEW e \in edges, e.src \in U PROVE e.dst \in U
      <3>1. e.src \in nodes /\ e.dst \in nodes /\ locNum[e.src] < locNum[e.dst]
        BY <1>2
      <3>2. CASE locNum[d] <= locNum[e.src] \/ e.dst = d
        BY <1>1, <3>1, <3>2
      <3>3. CASE e.src \in T /\ e.src # d /\ e.dst # d
        BY <3>3 DEF Closed, Avoid
      <3>4. e.src = d => locNum[d] <= locNum[e.src]
        BY <1>1
      <3> QED BY <2>2, <3>2, <3>3, <3>4
    <2>3. Closed(U, edges)
      BY <2>2 DEF Closed
    <2> HIDE DEF U
    <2>4. b \in U
      BY <2>1, <2>3 DEF Leads
    <2> QED BY <1>1, <1>6, <2>4 DEF U
  <1>7. locNum[d] \in Nat /\ locNum[a] \in Nat /\ locNum[b] \in Nat
    BY <1>1
  <1> QED BY <1>3, <1>4, <1>5, <1>6, <1>7

-----------------------------------------------------------------------------
(* The tables miss no dominator *)

\* A location that the table does not list can be avoided.
LEMMA DominatorRowsComplete ==
    ASSUME GraphInv, OrderInv, NEW start \in nodes, NEW n \in DOMAIN topo, NEW D,
           locNum[start] <= n,
           D[locNum[start]] = {<<locNum[start], locNum[start]>>},
           \A i \in locNum[start] + 1 .. n : D[i] = DomRow(D[i - 1], i, locNum[start], n)
    PROVE  \A j, d \in locNum[start] .. n :
             <<j, d>> \notin D[n] => d # j /\ Leads(start, topo[j], Avoid(topo[d]))
  <1> DEFINE s == locNum[start]
             Good(i) == \A j \in s .. i : \A d \in s .. n :
                           <<j, d>> \notin D[i] => d # j /\ Leads(start, topo[j], Avoid(topo[d]))
             S == {i \in s .. n : Good(i)}
  <1>0. s \in Nat /\ n \in Nat /\ s \in s .. n /\ n \in s .. n /\ topo[s] = start /\ s .. s = {s}
    BY NumberFacts
  <1>1. s \in S
    <2>1. \A d : Leads(start, topo[s], Avoid(topo[d]))
      BY <1>0, LeadsSelf
    <2>2. \A d \in s .. n : <<s, d>> \notin D[s] => d # s
      OBVIOUS
    <2> QED BY <1>0, <2>1, <2>2
  <1>2. ASSUME NEW k \in s .. n, k \in S, k < n PROVE k + 1 \in S
    <2> DEFINE i == k + 1
    <2>1. /\ i \in s + 1 .. n /\ i - 1 = k /\ i \in s .. n /\ k \in Nat /\ i \in Nat /\ k < i
          /\ s .. i = (s .. k) \cup {i} /\ s <= i
      BY <1>0, <1>2
    <2>2. D[i] = DomRow(D[k], i, s, n)
      BY <2>1
    <2>3. /\ i \in DOMAIN topo /\ topo[i] \in nodes /\ locNum[topo[i]] = i
          /\ \A d \in s .. n : d \in DOMAIN topo /\ topo[d] \in nodes /\ locNum[topo[d]] = d
      <3>1. DOMAIN topo = 1 .. Len(topo) /\ Len(topo) \in Nat /\ s \in DOMAIN topo
        BY NumberFacts
      <3>2. \A d \in s .. n : d \in DOMAIN topo
        BY <1>0, <3>1
      <3> QED BY <2>1, <3>2, NumberFacts
    <2>4. Good(k)
      BY <1>2
    <2> HIDE DEF i
    <2>5. ASSUME NEW j \in s .. k, NEW d \in s .. n, <<j, d>> \notin D[i]
          PROVE  d # j /\ Leads(start, topo[j], Avoid(topo[d]))
      <3>1. <<j, d>> \notin D[k]
        BY <2>2, <2>5 DEF DomRow
      <3> QED BY <2>4, <3>1
    <2>6. ASSUME NEW d \in s .. n, <<i, d>> \notin D[i]
          PROVE  d # i /\ Leads(start, topo[i], Avoid(topo[d]))
      <3>1. /\ d # i
            /\ \E e \in Incoming(topo[i]) : locNum[e.src] >= s /\ <<locNum[e.src], d>> \notin D[k]
        <4>1. ASSUME \A e \in Incoming(topo[i]) : locNum[e.src] >= s => <<locNum[e.src], d>> \in D[k]
              PROVE  FALSE
          <5>1. <<i, d>> \in DomRow(D[k], i, s, n)
            BY <4>1 DEF DomRow
          <5> QED BY <2>2, <2>6, <5>1
        <4>2. d # i
          BY <2>2, <2>6 DEF DomRow
        <4> QED BY <4>1, <4>2
      <3>2. PICK e \in Incoming(topo[i]) : locNum[e.src] >= s /\ <<locNum[e.src], d>> \notin D[k]
        BY <3>1
      <3>3. e \in edges /\ e.dst = topo[i] /\ e.src \in nodes
        BY NumberFacts DEF Incoming
      <3>4. locNum[e.src] \in Nat /\ locNum[e.src] < i /\ topo[locNum[e.src]] = e.src
        <4>1. locNum[e.src] \in Nat /\ locNum[e.src] < locNum[e.dst] /\ topo[locNum[e.src]] = e.src
          BY <3>3, NumberFacts
        <4> QED BY <2>3, <3>3, <4>1
      <3>5. locNum[e.src] \in s .. k
        BY <1>0, <2>1, <3>2, <3>4
      <3>6. d # locNum[e.src] /\ Leads(start, e.src, Avoid(topo[d]))
        BY <2>4, <3>2, <3>4, <3>5
      <3>7. topo[d] # e.src /\ topo[d] # e.dst
        BY <2>3, <3>1, <3>3, <3>6
      <3>8. e \in Avoid(topo[d])
        BY <3>3, <3>7 DEF Avoid
      <3>9. Leads(start, e.dst, Avoid(topo[d]))
        BY <3>6, <3>8, LeadsOn
      <3> QED BY <3>1, <3>3, <3>9
    <2>7. Good(i)
      BY <2>1, <2>5, <2>6
    <2> HIDE DEF Good
    <2> QED BY <2>1, <2>7 DEF i
  <1>3. s .. n \subseteq S
    <2>1. s <= n => s \in S
      BY <1>1
    <2> HIDE DEF S
    <2> QED BY <1>0, <1>2, <2>1, IntervalInduction
  <1>4. Good(n)
    BY <1>0, <1>3
  <1> QED BY <1>4

\* findLowestCommonDominator returns the last of the locations that lie on
\* every path from the start to each target.
LEMMA LowestCommonDominatorIsLowest ==
    ASSUME GraphInv, OrderInv, NEW targets \in SUBSET edges, targets # {}, NEW start \in nodes,
           \A e \in targets : Leads(start, e.src, edges),
           NEW l \in nodes, \A e \in targets : OnEveryPath(l, start, e.src)
    PROVE  locNum[l] <= locNum[FindLowestCommonDominator(targets, start)]
  <1> DEFINE s == locNum[start]
             n == Last(targets)
             r == FindLowestCommonDominator(targets, start)
             x == locNum[l]
  <1>0. /\ edges \in SUBSET edges
        /\ \A e \in targets : /\ e.src \in nodes /\ s <= locNum[e.src]
                              /\ locNum[e.src] \in Nat /\ topo[locNum[e.src]] = e.src
    <2>1. edges \in SUBSET edges /\ \A e \in targets : e.src \in nodes
      BY NumberFacts
    <2> QED BY <2>1, NumberFacts, LeadsForward
  <1>1. PICK D : /\ n \in {locNum[e.src] : e \in targets}
                 /\ \A e \in targets : locNum[e.src] <= n
                 /\ D[s] = {<<s, s>>}
                 /\ \A i \in s + 1 .. n : D[i] = DomRow(D[i - 1], i, s, n)
                 /\ r = topo[Highest({d \in s .. n : \A e \in targets : <<locNum[e.src], d>> \in D[n]})]
    BY <1>0, LowestCommonDominatorIs
  <1>2. /\ n \in DOMAIN topo /\ n \in Nat /\ s \in Nat /\ s <= n /\ n \in s .. n /\ topo[s] = start
        /\ \A i \in s .. n : i \in DOMAIN topo /\ i \in 0 .. n
    <2>1. DOMAIN topo = 1 .. Len(topo) /\ Len(topo) \in Nat /\ s \in DOMAIN topo /\ topo[s] = start
      BY NumberFacts
    <2>2. PICK e \in targets : n = locNum[e.src]
      BY <1>1
    <2>3. n \in DOMAIN topo /\ s <= n
      BY <1>0, <2>2, NumberFacts
    <2> HIDE DEF s, n
    <2> QED BY <2>1, <2>3
  <1> HIDE DEF r, n
  <1>3. x \in s .. n /\ topo[x] = l
    <2>1. PICK e \in targets : TRUE
      OBVIOUS
    <2>2. s <= x /\ x <= locNum[e.src]
      BY <1>0, <2>1, OnEveryPathBetween
    <2>3. x \in Nat /\ topo[x] = l /\ locNum[e.src] <= n /\ locNum[e.src] \in Nat
      BY <1>0, <1>1, <2>1, NumberFacts
    <2> HIDE DEF s, x
    <2> QED BY <1>2, <2>2, <2>3
  <1>4. \A i \in s .. n : \A j \in s .. i : <<j, s>> \in D[i]
    BY <1>1, <1>2, DominatorRows
  <1>5. \A j, d \in s .. n : <<j, d>> \notin D[n] => d # j /\ Leads(start, topo[j], Avoid(topo[d]))
    BY <1>1, <1>2, DominatorRowsComplete
  <1> DEFINE C == {d \in s .. n : \A e \in targets : <<locNum[e.src], d>> \in D[n]}
  <1>6. ASSUME NEW e \in targets, <<locNum[e.src], x>> \notin D[n] PROVE FALSE
    <2> DEFINE j == locNum[e.src]
    <2>1. j \in s .. n /\ topo[j] = e.src
      BY <1>0, <1>1, <1>2
    <2> HIDE DEF j, s
    <2>2. x # j /\ Leads(start, e.src, Avoid(l))
      BY <1>3, <1>5, <1>6, <2>1 DEF j
    <2>3. x # s
      BY <1>2, <1>4, <1>6, <2>1 DEF j
    <2>4. l # start /\ l # e.src
      BY <2>2, <2>3 DEF s, j
    <2>5. OnEveryPath(l, start, e.src)
      OBVIOUS
    <2> QED BY <2>2, <2>4, <2>5, EveryPathIs
  <1>7. x \in C
    BY <1>3, <1>6
  <1>8. C \in SUBSET (0 .. n) /\ C # {}
    BY <1>2, <1>7
  <1> DEFINE h == Highest(C)
  <1>9. r = topo[h]
    BY <1>1
  <1>10. h \in C /\ x <= h
    <2> HIDE DEF C, x
    <2> QED BY <1>2, <1>7, <1>8, HighestIs
  <1> HIDE DEF h
  <1>11. locNum[r] = h
    BY <1>2, <1>9, <1>10, NumberFacts
  <1> QED BY <1>10, <1>11 DEF r

-----------------------------------------------------------------------------
(* The same for post-dominators *)

\* A location that the table does not list can be avoided.
LEMMA PostDominatorRowsComplete ==
    ASSUME GraphInv, OrderInv, NEW start \in nodes, NEW m \in Nat, m > 0, NEW D,
           m <= locNum[start],
           D[locNum[start]] = {<<locNum[start], locNum[start]>>},
           \A i \in m .. locNum[start] - 1 : D[i] = PostRow(D[i + 1], i, m, locNum[start])
    PROVE  \A j, d \in m .. locNum[start] :
             <<j, d>> \notin D[m] => d # j /\ Leads(topo[j], start, Avoid(topo[d]))
  <1> DEFINE s == locNum[start]
             Good(i) == \A j \in i .. s : \A d \in m .. s :
                           <<j, d>> \notin D[i] => d # j /\ Leads(topo[j], start, Avoid(topo[d]))
             S == {i \in m .. s : Good(i)}
  <1>0. s \in Nat /\ s \in m .. s /\ m \in m .. s /\ topo[s] = start /\ s .. s = {s}
    BY NumberFacts
  <1>1. s \in S
    <2>1. \A d : Leads(topo[s], start, Avoid(topo[d]))
      BY <1>0, LeadsSelf
    <2>2. \A d \in m .. s : <<s, d>> \notin D[s] => d # s
      OBVIOUS
    <2> QED BY <1>0, <2>1, <2>2
  <1>2. ASSUME NEW k \in m .. s, k \in S, k > m PROVE k - 1 \in S
    <2> DEFINE i == k - 1
    <2>1. /\ i \in m .. s - 1 /\ i + 1 = k /\ i \in m .. s /\ k \in Nat /\ i \in Nat /\ i < k
          /\ i .. s = (k .. s) \cup {i} /\ i <= s
      BY <1>0, <1>2
    <2>2. D[i] = PostRow(D[k], i, m, s)
      BY <2>1
    <2>3. /\ topo[i] \in nodes /\ locNum[topo[i]] = i
          /\ \A d \in m .. s : d \in DOMAIN topo /\ topo[d] \in nodes /\ locNum[topo[d]] = d
      <3>1. DOMAIN topo = 1 .. Len(topo) /\ Len(topo) \in Nat /\ s \in DOMAIN topo
        BY NumberFacts
      <3>2. \A d \in m .. s : d \in DOMAIN topo
        BY <1>0, <3>1
      <3> QED BY <2>1, <3>2, NumberFacts
    <2>4. Good(k)
      BY <1>2
    <2> HIDE DEF i
    <2>5. ASSUME NEW j \in k .. s, NEW d \in m .. s, <<j, d>> \notin D[i]
          PROVE  d # j /\ Leads(topo[j], start, Avoid(topo[d]))
      <3>1. <<j, d>> \notin D[k]
        BY <2>2, <2>5 DEF PostRow
      <3> QED BY <2>4, <3>1
    <2>6. ASSUME NEW d \in m .. s, <<i, d>> \notin D[i]
          PROVE  d # i /\ Leads(topo[i], start, Avoid(topo[d]))
      <3>1. /\ d # i
            /\ \E e \in Outgoing(topo[i]) : locNum[e.dst] <= s /\ <<locNum[e.dst], d>> \notin D[k]
        <4>1. ASSUME \A e \in Outgoing(topo[i]) : locNum[e.dst] <= s => <<locNum[e.dst], d>> \in D[k]
              PROVE  FALSE
          <5>1. <<i, d>> \in PostRow(D[k], i, m, s)
            BY <4>1 DEF PostRow
          <5> QED BY <2>2, <2>6, <5>1
        <4>2. d # i
          BY <2>2, <2>6 DEF PostRow
        <4> QED BY <4>1, <4>2
      <3>2. PICK e \in Outgoing(topo[i]) : locNum[e.dst] <= s /\ <<locNum[e.dst], d>> \notin D[k]
        BY <3>1
      <3>3. e \in edges /\ e.src = topo[i] /\ e.dst \in nodes
        BY NumberFacts DEF Outgoing
      <3>4. locNum[e.dst] \in Nat /\ i < locNum[e.dst] /\ topo[locNum[e.dst]] = e.dst
        <4>1. locNum[e.dst] \in Nat /\ locNum[e.src] < locNum[e.dst] /\ topo[locNum[e.dst]] = e.dst
          BY <3>3, NumberFacts
        <4> QED BY <2>3, <3>3, <4>1
      <3>5. locNum[e.dst] \in k .. s
        BY <1>0, <2>1, <3>2, <3>4
      <3>6. d # locNum[e.dst] /\ Leads(e.dst, start, Avoid(topo[d]))
        BY <2>4, <3>2, <3>4, <3>5
      <3>7. topo[d] # e.src /\ topo[d] # e.dst
        BY <2>3, <3>1, <3>3, <3>6
      <3>8. e \in Avoid(topo[d])
        BY <3>3, <3>7 DEF Avoid
      <3>9. Leads(e.src, start, Avoid(topo[d]))
        BY <3>6, <3>8, LeadsStep, LeadsOver
      <3> QED BY <3>1, <3>3, <3>9
    <2>7. Good(i)
      BY <2>1, <2>5, <2>6
    <2> HIDE DEF Good
    <2> QED BY <2>1, <2>7 DEF i
  <1>3. m .. s \subseteq S
    <2>1. m <= s => s \in S
      BY <1>1
    <2> HIDE DEF S
    <2> QED BY <1>0, <1>2, <2>1, DownwardInduction
  <1>4. Good(m)
    BY <1>0, <1>3
  <1> QED BY <1>4

\* findHighestCommonPostDominator returns the first of the locations that lie
\* on every path from each target to the start of the search.
LEMMA HighestCommonPostDominatorIsHighest ==
    ASSUME GraphInv, OrderInv, NEW targets \in SUBSET edges, targets # {}, NEW start \in nodes,
           \A e \in targets : Leads(e.dst, start, edges),
           NEW l \in nodes, \A e \in targets : OnEveryPath(l, e.dst, start)
    PROVE  locNum[FindHighestCommonPostDominator(targets, start)] <= locNum[l]
  <1> DEFINE s == locNum[start]
             m == First(targets) + 1
             r == FindHighestCommonPostDominator(targets, start)
             x == locNum[l]
  <1>0. /\ edges \in SUBSET edges
        /\ \A e \in targets : /\ e.dst \in nodes /\ locNum[e.dst] <= s
                              /\ locNum[e.dst] \in Nat /\ topo[locNum[e.dst]] = e.dst
    <2>1. edges \in SUBSET edges /\ \A e \in targets : e.dst \in nodes
      BY NumberFacts
    <2> QED BY <2>1, NumberFacts, LeadsForward
  <1>1. PICK D : /\ m \in Nat /\ m > 0 /\ m <= s
                 /\ \A e \in targets : m <= locNum[e.dst]
                 /\ D[s] = {<<s, s>>}
                 /\ \A i \in m .. s - 1 : D[i] = PostRow(D[i + 1], i, m, s)
                 /\ r = topo[Lowest({d \in m .. s : \A e \in targets : <<locNum[e.dst], d>> \in D[m]})]
    BY <1>0, HighestCommonPostDominatorIs
  <1>2. /\ s \in Nat /\ m \in m .. s /\ topo[s] = start
        /\ \A i \in m .. s : i \in DOMAIN topo /\ i \in Nat
    <2>1. DOMAIN topo = 1 .. Len(topo) /\ Len(topo) \in Nat /\ s \in DOMAIN topo /\ topo[s] = start
      BY NumberFacts
    <2>2. m \in Nat /\ m > 0 /\ m <= s
      BY <1>1
    <2> HIDE DEF s, m
    <2> QED BY <2>1, <2>2
  <1> HIDE DEF r, m
  <1>3. x \in m .. s /\ topo[x] = l
    <2>1. PICK e \in targets : TRUE
      OBVIOUS
    <2>2. locNum[e.dst] <= x /\ x <= s
      BY <1>0, <2>1, OnEveryPathBetween
    <2>3. x \in Nat /\ topo[x] = l /\ m <= locNum[e.dst] /\ locNum[e.dst] \in Nat
      BY <1>0, <1>1, <2>1, NumberFacts
    <2> HIDE DEF s, x
    <2> QED BY <1>1, <1>2, <2>2, <2>3
  <1>4. \A i \in m .. s : \A j \in i .. s : <<j, s>> \in D[i]
    BY <1>1, <1>2, PostDominatorRows
  <1>5. \A j, d \in m .. s : <<j, d>> \notin D[m] => d # j /\ Leads(topo[j], start, Avoid(topo[d]))
    BY <1>1, <1>2, PostDominatorRowsComplete
  <1> DEFINE C == {d \in m .. s : \A e \in targets : <<locNum[e.dst], d>> \in D[m]}
  <1>6. ASSUME NEW e \in targets, <<locNum[e.dst], x>> \notin D[m] PROVE FALSE
    <2> DEFINE j == locNum[e.dst]
    <2>1. j \in m .. s /\ topo[j] = e.dst
      BY <1>0, <1>1, <1>2
    <2> HIDE DEF j, s
    <2>2. x # j /\ Leads(e.dst, start, Avoid(l))
      BY <1>3, <1>5, <1>6, <2>1 DEF j
    <2>3. x # s
      BY <1>2, <1>4, <1>6, <2>1 DEF j
    <2>4. l # start /\ l # e.dst
      BY <2>2, <2>3 DEF s, j
    <2>5. OnEveryPath(l, e.dst, start) /\ e.dst \in nodes
      BY <1>0
    <2> QED BY <2>2, <2>4, <2>5, EveryPathIs
  <1>7. x \in C
    BY <1>3, <1>6
  <1>8. C \in SUBSET Nat /\ C # {}
    BY <1>2, <1>7
  <1> DEFINE h == Lowest(C)
  <1>9. r = topo[h]
    BY <1>1
  <1>10. h \in C /\ h <= x
    <2> HIDE DEF C, x
    <2> QED BY <1>7, <1>8, LowestIs
  <1> HIDE DEF h
  <1>11. locNum[r] = h
    BY <1>2, <1>9, <1>10, NumberFacts
  <1> QED BY <1>10, <1>11 DEF r

-----------------------------------------------------------------------------
(* The region *)

\* d1 and d2 are the last and the first location on every path from a to the
\* calls and from the calls to b.
Tight(a, b, d1, d2) ==
    LET dom == {l \in nodes : \A c \in CallEdges : OnEveryPath(l, a, c.src)}
        pdom == {l \in nodes : \A c \in CallEdges : OnEveryPath(l, c.dst, b)}
    IN  /\ d1 \in dom /\ \A l \in dom : locNum[l] <= locNum[d1]
        /\ d2 \in pdom /\ \A l \in pdom : locNum[d2] <= locNum[l]

\* findCommonCallAncestor returns such locations.
LEMMA AncestorIsTight ==
    ASSUME GraphInv, OrderInv, CallInv, NEW a, NEW b, Between(a, b), CallEdges # {},
           ~noDomPush, ~noPostDomPush
    PROVE  Tight(a, b, FindCommonCallAncestor(a, b)[1], FindCommonCallAncestor(a, b)[2])
  <1> DEFINE targets == {e \in edges : e.id \in DOMAIN calls}
             d1 == FindCommonCallAncestor(a, b)[1]
             d2 == FindCommonCallAncestor(a, b)[2]
  <1>1. targets = CallEdges
    BY DEF CallInv, CallEdges, GraphInv
  <1>2. d1 = FindLowestCommonDominator(targets, a) /\ d2 = FindHighestCommonPostDominator(targets, b)
    BY DEF FindCommonCallAncestor
  <1>3. /\ Between(d1, d2)
        /\ \A e \in CallEdges : Through(a, d1, e.src) /\ Through(e.dst, d2, b)
    BY AncestorFacts
  <1> HIDE DEF targets, d1, d2
  <1>4. /\ a \in nodes /\ b \in nodes /\ d1 \in nodes /\ d2 \in nodes
        /\ targets \in SUBSET edges /\ targets # {}
        /\ \A e \in targets : /\ Leads(a, e.src, edges) /\ Leads(e.dst, b, edges)
                              /\ e.src \in nodes /\ e.dst \in nodes
    BY <1>1, <1>3 DEF Between, CallEdges, GraphInv
  <1>5. \A c \in CallEdges : OnEveryPath(d1, a, c.src) /\ OnEveryPath(d2, c.dst, b)
    BY <1>1, <1>3, <1>4, ThroughIsOnEveryPath
  <1>6. ASSUME NEW l \in nodes, \A c \in CallEdges : OnEveryPath(l, a, c.src)
        PROVE  locNum[l] <= locNum[d1]
    BY <1>1, <1>2, <1>4, <1>6, LowestCommonDominatorIsLowest
  <1>7. ASSUME NEW l \in nodes, \A c \in CallEdges : OnEveryPath(l, c.dst, b)
        PROVE  locNum[d2] <= locNum[l]
    BY <1>1, <1>2, <1>4, <1>7, HighestCommonPostDominatorIsHighest
  <1>8. Tight(a, b, d1, d2)
    BY <1>4, <1>5, <1>6, <1>7 DEF Tight
  <1> QED BY <1>8 DEF d1, d2

\* The step that chooses the region makes it tight.
LEMMA TightStart ==
    ASSUME Inv, SoundInv, SetStartAndTarget
    PROVE  RegionIsTight'
  <1> SUFFICES ASSUME pc' = "over", DOMAIN calls' # {}, ~noDomPush', ~noPostDomPush'
               PROVE  Tight(top, bottom, lca[1], lca[2])'
    BY DEF RegionIsTight, Tight
  <1> DEFINE new == FindCommonCallAncestor(top, bottom)
  <1>1. /\ pc = "start"
        /\ UNCHANGED <<nodes, edges, locNum, calls, top, bottom, noDomPush, noPostDomPush>>
    BY DEF SetStartAndTarget, fixedVars, settings, graphVars
  <1>2. GraphInv /\ OrderInv /\ CallInv /\ Between(top, bottom)
    BY <1>1, LoopFacts DEF SoundInv, RegionInv
  <1>3. CallEdges # {}
    BY <1>1, <1>2 DEF CallInv
  <1>4. Tight(top, bottom, new[1], new[2])
    BY <1>1, <1>2, <1>3, AncestorIsTight
  <1>5. new[1] # Null
    <2>1. new[1] \in nodes
      BY <1>4 DEF Tight
    <2> QED BY <1>2, <2>1, NullAssumption DEF GraphInv
  <1>6. lca' = new
    BY <1>5 DEF SetStartAndTarget, Finish
  <1>7. PICK a, b, d1, d2 : a = top /\ b = bottom /\ d1 = new[1] /\ d2 = new[2]
    OBVIOUS
  <1>8. Tight(a, b, d1, d2)
    BY <1>4, <1>7
  <1>9. Tight(a, b, d1, d2)'
    BY <1>1, <1>8 DEF Tight, OnEveryPath, CallEdges, IsCall
  <1>10. top' = a /\ bottom' = b /\ lca'[1] = d1 /\ lca'[2] = d2
    BY <1>1, <1>6, <1>7
  <1> QED BY <1>9, <1>10 DEF Tight

\* No other step leaves a region to be checked.
LEMMA TightNext ==
    ASSUME Inv, SoundInv, RegionIsTight, [Next]_vars
    PROVE  RegionIsTight'
  <1>1. CASE SetStartAndTarget
    BY <1>1, TightStart
  <1>2. CASE Done \/ UNCHANGED vars
    <2>1. UNCHANGED <<pc, nodes, edges, locNum, calls, top, bottom, lca, noDomPush, noPostDomPush>>
      BY <1>2 DEF Done, vars, graphVars, solverVars, fixedVars, loopVars, settings
    <2> QED BY <2>1 DEF RegionIsTight, OnEveryPath, CallEdges, IsCall
  <1>3. CASE \/ InitializeErrorField \/ RemoveIrrelevantLocations \/ CreateTopologicalSorts
             \/ EagerIteration \/ EagerInline \/ UnderApproximate \/ SkipUnderApproximation
             \/ OverApproximate \/ InlineNext \/ FinishInlining
    <2>1. pc' # "over"
      BY <1>3 DEF InitializeErrorField, RemoveIrrelevantLocations, CreateTopologicalSorts,
                  EagerIteration, EagerInline, UnderApproximate, SkipUnderApproximation,
                  OverApproximate, InlineNext, FinishInlining, Finish
    <2> QED BY <2>1 DEF RegionIsTight
  <1> QED BY <1>1, <1>2, <1>3 DEF Next

\* In every execution, the start that setStartAndTarget chooses lies on every
\* path from the old one to a remaining call and the target on every path from
\* such a call to the old target, and no location closer to the calls does.
THEOREM RegionStaysTight == Spec => []RegionIsTight
  <1>1. Init => RegionIsTight
    BY DEF Init, RegionIsTight
  <1> QED BY <1>1, Invariance, Soundness, TightNext, PTL DEF Spec

-----------------------------------------------------------------------------
(* What a system means up to a bound, without recursion *)

\* One round of the fixed points that BoundedReturns and BoundedFails compute.
ReturningDeep(sys, b, r) ==
    {d \in DeepActivations(b) : Exit \in Visits(sys, d[2][1], d[2][2], Below(r, d[1], b))}
FailingDeep(sys, b, r) ==
    {d \in DeepActivations(b) :
       FailsIn(sys, d[2][1], d[2][2], Below(BoundedReturns(sys, b), d[1], b), Below(r, d[1], b))}

\* The number of rounds is positive.
LEMMA MaxDepthPositive ==
    ASSUME NEW b \in Nat
    PROVE  MaxDepth(b) \in Nat /\ MaxDepth(b) > 0
  <1> DEFINE c == Cardinality(Procs)
  <1>1. c \in Nat
    BY ProcsAssumption, FS_CardinalityType
  <1>2. MaxDepth(b) = b * c + 1
    BY DEF MaxDepth
  <1> HIDE DEF c
  <1>3. b * c \in Nat
    BY <1>1
  <1> QED BY <1>2, <1>3

\* BoundedReturns is the last value of a function that satisfies its equation.
LEMMA BoundedReturnsIs ==
    ASSUME NEW sys, NEW b \in Nat
    PROVE  \E R : /\ R[0] = {} /\ \A i \in 1 .. MaxDepth(b) : R[i] = ReturningDeep(sys, b, R[i - 1])
                  /\ BoundedReturns(sys, b) = R[MaxDepth(b)]
  <1> DEFINE n == MaxDepth(b)
             V == SUBSET DeepActivations(b)
             st == [p \in (1 .. n) \X V |-> ReturningDeep(sys, b, p[2])]
             Is(R) == R = [i \in 0 .. n |->
                             IF i = 0 THEN {}
                             ELSE {d \in DeepActivations(b) :
                                     Exit \in Visits(sys, d[2][1], d[2][2], Below(R[i - 1], d[1], b))}]
  <1>0. n \in Nat /\ 0 \in Nat /\ 0 <= n /\ {} \in V
    BY MaxDepthPositive
  <1>1. ASSUME NEW i \in 1 .. n, NEW v \in V
        PROVE  st[<<i, v>>] = ReturningDeep(sys, b, v) /\ st[<<i, v>>] \in V
    <2>1. st[<<i, v>>] = ReturningDeep(sys, b, v)
      OBVIOUS
    <2>2. ReturningDeep(sys, b, v) \in V
      BY DEF ReturningDeep
    <2> QED BY <2>1, <2>2
  <1> HIDE DEF V, st, n
  <1>2. \A i \in 0 + 1 .. n : \A v \in V : st[<<i, v>>] \in V
    <2>1. 0 + 1 .. n = 1 .. n
      BY <1>0
    <2> QED BY <1>1, <2>1
  <1>3. PICK f \in [0 .. n -> V] : GoesUp(f, 0, n, {}, st)
    BY <1>0, <1>2, RecursionUp
  <1>4. ASSUME NEW i \in 1 .. n PROVE f[i] = ReturningDeep(sys, b, f[i - 1])
    <2>1. i \in 0 .. n /\ i # 0 /\ i - 1 \in 0 .. n
      BY <1>0
    <2>2. f[i] = st[<<i, f[i - 1]>>] /\ f[i - 1] \in V
      BY <1>3, <2>1 DEF GoesUp
    <2> QED BY <2>2, <1>1
  <1>5. f = [i \in 0 .. n |-> IF i = 0 THEN {} ELSE ReturningDeep(sys, b, f[i - 1])]
    <2>1. f[0] = {}
      BY <1>0, <1>3 DEF GoesUp
    <2> QED BY <1>0, <1>3, <1>4, <2>1
  <1>6. Is(f)
    BY <1>5 DEF ReturningDeep
  <1> DEFINE Q == CHOOSE R : Is(R)
  <1>7. Is(Q)
    <2> HIDE DEF Is
    <2> QED BY <1>6
  <1>8. BoundedReturns(sys, b) = Q[n]
    BY DEF BoundedReturns, n
  <1> HIDE DEF Q
  <1>9. Q = [i \in 0 .. n |-> IF i = 0 THEN {} ELSE ReturningDeep(sys, b, Q[i - 1])]
    BY <1>7 DEF ReturningDeep
  <1> HIDE DEF Is
  <1>10. 0 \in 0 .. n /\ \A i \in 1 .. n : i \in 0 .. n /\ i # 0
    BY <1>0
  <1>11. Q[0] = {} /\ \A i \in 1 .. n : Q[i] = ReturningDeep(sys, b, Q[i - 1])
    BY <1>9, <1>10
  <1> QED BY <1>8, <1>11 DEF n

\* More activations that return, more that a chain may enter.
LEMMA BelowMore ==
    ASSUME NEW X, NEW Y, X \subseteq Y, NEW cnt, NEW b
    PROVE  Below(X, cnt, b) \subseteq Below(Y, cnt, b)
  BY DEF Below

\* An activation that returns within the bound has a way from its entry to its
\* exit over calls that return within what its chain leaves of the bound.
LEMMA BoundedReturnsLead ==
    ASSUME NEW sys \in Programs, NEW b \in Nat, NEW cnt, NEW p \in Procs, NEW w,
           <<cnt, <<p, w>>>> \in BoundedReturns(sys, b)
    PROVE  /\ cnt \in [Procs \ {Main} -> 0 .. b]
           /\ Leads(Entry, Exit, Passable(sys, p, w, Below(BoundedReturns(sys, b), cnt, b)))
  <1> DEFINE n == MaxDepth(b)
             x == <<cnt, <<p, w>>>>
  <1>0. n \in Nat /\ 0 \in Nat /\ n > 0
    BY MaxDepthPositive
  <1>1. PICK R : /\ R[0] = {} /\ \A i \in 1 .. n : R[i] = ReturningDeep(sys, b, R[i - 1])
                 /\ BoundedReturns(sys, b) = R[n]
    BY BoundedReturnsIs
  <1> HIDE DEF n
  <1> DEFINE I == {i \in 0 .. n : i < n => R[i] \subseteq R[i + 1]}
  <1>2. 0 \in I
    BY <1>0, <1>1
  <1>3. ASSUME NEW i \in 0 .. n, i \in I, i < n PROVE i + 1 \in I
    <2>1. SUFFICES ASSUME i + 1 < n, NEW d \in R[i + 1] PROVE d \in R[i + 1 + 1]
      BY <1>0, <1>3
    <2>2. i + 1 \in 1 .. n /\ i + 1 + 1 \in 1 .. n /\ i + 1 - 1 = i /\ i + 1 + 1 - 1 = i + 1
      BY <1>0, <2>1
    <2>3. R[i + 1] = ReturningDeep(sys, b, R[i]) /\ R[i + 1 + 1] = ReturningDeep(sys, b, R[i + 1])
      BY <1>1, <2>2
    <2>4. R[i] \subseteq R[i + 1]
      BY <1>3
    <2>5. d \in DeepActivations(b) /\ Exit \in Visits(sys, d[2][1], d[2][2], Below(R[i], d[1], b))
      BY <2>1, <2>3 DEF ReturningDeep
    <2>6. d[2][1] \in Procs
      BY <2>5 DEF DeepActivations, Activations
    <2>7. Below(R[i], d[1], b) \subseteq Below(R[i + 1], d[1], b)
      BY <2>4, BelowMore
    <2>8. Exit \in Visits(sys, d[2][1], d[2][2], Below(R[i + 1], d[1], b))
      BY <2>5, <2>6, <2>7, VisitsMore
    <2> QED BY <2>3, <2>5, <2>8 DEF ReturningDeep
  <1>4. 0 .. n \subseteq I
    <2>1. 0 <= n => 0 \in I
      BY <1>2
    <2> HIDE DEF I
    <2> QED BY <1>0, <1>3, <2>1, IntervalInduction
  <1>6. n \in 1 .. n /\ n - 1 \in 0 .. n /\ n - 1 < n /\ n - 1 + 1 = n
    BY <1>0
  <1>7. R[n - 1] \subseteq R[n] /\ R[n] = ReturningDeep(sys, b, R[n - 1])
    BY <1>1, <1>4, <1>6
  <1>8. x[1] = cnt /\ x[2][1] = p /\ x[2][2] = w
    OBVIOUS
  <1> HIDE DEF x
  <1>9. x \in DeepActivations(b) /\ Exit \in Visits(sys, x[2][1], x[2][2], Below(R[n - 1], x[1], b))
    BY <1>1, <1>7 DEF ReturningDeep, x
  <1>10. cnt \in [Procs \ {Main} -> 0 .. b]
    BY <1>8, <1>9 DEF DeepActivations
  <1>11. Exit \in Visits(sys, p, w, Below(R[n - 1], cnt, b))
    BY <1>8, <1>9
  <1>12. Below(R[n - 1], cnt, b) \subseteq Below(R[n], cnt, b)
    BY <1>7, BelowMore
  <1>13. Exit \in Visits(sys, p, w, Below(R[n], cnt, b))
    BY <1>11, <1>12, VisitsMore
  <1>14. Leads(Entry, Exit, Passable(sys, p, w, Below(R[n], cnt, b)))
    BY <1>13, VisitsLead
  <1> QED BY <1>1, <1>10, <1>14

\* BoundedFails is the last value of a function that satisfies its equation.
LEMMA BoundedFailsIs ==
    ASSUME NEW sys, NEW b \in Nat
    PROVE  \E F : /\ F[0] = {} /\ \A i \in 1 .. MaxDepth(b) : F[i] = FailingDeep(sys, b, F[i - 1])
                  /\ BoundedFails(sys, b) = F[MaxDepth(b)]
  <1> DEFINE n == MaxDepth(b)
             V == SUBSET DeepActivations(b)
             st == [p \in (1 .. n) \X V |-> FailingDeep(sys, b, p[2])]
             Is(R) == R = [i \in 0 .. n |->
                             IF i = 0 THEN {}
                             ELSE {d \in DeepActivations(b) :
                                     FailsIn(sys, d[2][1], d[2][2],
                                             Below(BoundedReturns(sys, b), d[1], b),
                                             Below(R[i - 1], d[1], b))}]
  <1>0. n \in Nat /\ 0 \in Nat /\ 0 <= n /\ {} \in V
    BY MaxDepthPositive
  <1>1. ASSUME NEW i \in 1 .. n, NEW v \in V
        PROVE  st[<<i, v>>] = FailingDeep(sys, b, v) /\ st[<<i, v>>] \in V
    <2>1. st[<<i, v>>] = FailingDeep(sys, b, v)
      OBVIOUS
    <2>2. FailingDeep(sys, b, v) \in V
      BY DEF FailingDeep
    <2> QED BY <2>1, <2>2
  <1> HIDE DEF V, st, n
  <1>2. \A i \in 0 + 1 .. n : \A v \in V : st[<<i, v>>] \in V
    <2>1. 0 + 1 .. n = 1 .. n
      BY <1>0
    <2> QED BY <1>1, <2>1
  <1>3. PICK f \in [0 .. n -> V] : GoesUp(f, 0, n, {}, st)
    BY <1>0, <1>2, RecursionUp
  <1>4. ASSUME NEW i \in 1 .. n PROVE f[i] = FailingDeep(sys, b, f[i - 1])
    <2>1. i \in 0 .. n /\ i # 0 /\ i - 1 \in 0 .. n
      BY <1>0
    <2>2. f[i] = st[<<i, f[i - 1]>>] /\ f[i - 1] \in V
      BY <1>3, <2>1 DEF GoesUp
    <2> QED BY <2>2, <1>1
  <1>5. f = [i \in 0 .. n |-> IF i = 0 THEN {} ELSE FailingDeep(sys, b, f[i - 1])]
    <2>1. f[0] = {}
      BY <1>0, <1>3 DEF GoesUp
    <2> QED BY <1>0, <1>3, <1>4, <2>1
  <1>6. Is(f)
    BY <1>5 DEF FailingDeep
  <1> DEFINE Q == CHOOSE R : Is(R)
  <1>7. Is(Q)
    <2> HIDE DEF Is
    <2> QED BY <1>6
  <1>8. BoundedFails(sys, b) = Q[n]
    BY DEF BoundedFails, n
  <1> HIDE DEF Q
  <1>9. Q = [i \in 0 .. n |-> IF i = 0 THEN {} ELSE FailingDeep(sys, b, Q[i - 1])]
    BY <1>7 DEF FailingDeep
  <1> HIDE DEF Is
  <1>10. 0 \in 0 .. n /\ \A i \in 1 .. n : i \in 0 .. n /\ i # 0
    BY <1>0
  <1>11. Q[0] = {} /\ \A i \in 1 .. n : Q[i] = FailingDeep(sys, b, Q[i - 1])
    BY <1>9, <1>10
  <1> QED BY <1>8, <1>11 DEF n

\* How often a chain enters each procedure.
Counting(q) == [p \in Procs \ {Main} |-> Cardinality({i \in DOMAIN q : q[i] = p})]

\* The empty chain enters none.
LEMMA CountingNone == Counting(<<>>) = [p \in Procs \ {Main} |-> 0]
  <1>1. ASSUME NEW p PROVE Cardinality({i \in DOMAIN <<>> : <<>>[i] = p}) = 0
    <2>1. {i \in DOMAIN <<>> : <<>>[i] = p} = {}
      OBVIOUS
    <2> QED BY <2>1, FS_EmptySet
  <1> QED BY <1>1 DEF Counting

\* If errors are in the main automaton only, an input that fails within the
\* bound leads main to one of its error locations over calls that return
\* within the bound.
LEMMA BoundedFailsLead ==
    ASSUME NEW sys \in Programs, OnlyMainFails(sys), NEW b \in Nat, NEW w \in BoundedErrorInputs(sys, b)
    PROVE  \E l \in sys[Main].err :
             Leads(Entry, l, Passable(sys, Main, w, Below(BoundedReturns(sys, b), Counting(<<>>), b)))
  <1> DEFINE n == MaxDepth(b)
             zero == [p \in Procs \ {Main} |-> 0]
             x == <<zero, <<Main, w>>>>
             ret == BoundedReturns(sys, b)
  <1>0. n \in Nat /\ 0 \in Nat /\ n > 0
    BY MaxDepthPositive
  <1>1. PICK F : /\ F[0] = {} /\ \A i \in 1 .. n : F[i] = FailingDeep(sys, b, F[i - 1])
                 /\ BoundedFails(sys, b) = F[n]
    BY BoundedFailsIs
  <1>2. \A p \in Procs : \A e \in EdgesOf(sys[p]) : e.callee # Main
    BY ProgramsAssumption DEF IsSystem
  <1>3. x \in F[n]
    BY <1>1 DEF BoundedErrorInputs
  <1>4. x[1] = zero /\ x[2][1] = Main /\ x[2][2] = w
    OBVIOUS
  <1> HIDE DEF n, x, zero, ret
  <1> DEFINE I == {i \in 0 .. n : \A d \in F[i] : d[2][1] = Main}
  <1>5. 0 \in I
    BY <1>0, <1>1
  <1>6. ASSUME NEW X, \A d \in X : d[2][1] = Main, NEW cnt, NEW p \in Procs, NEW v,
               NEW e \in EdgesOf(sys[p])
        PROVE  <<e.callee, e.arg[v]>> \notin Below(X, cnt, b)
    <2> SUFFICES ASSUME <<e.callee, e.arg[v]>> \in Below(X, cnt, b) PROVE FALSE
      OBVIOUS
    <2> DEFINE a == <<e.callee, e.arg[v]>>
               d == <<[cnt EXCEPT ![a[1]] = @ + 1], a>>
    <2>1. d \in X
      BY DEF Below
    <2>2. d[2] = a /\ a[1] = e.callee
      OBVIOUS
    <2> HIDE DEF d, a
    <2> QED BY <1>2, <1>6, <2>1, <2>2
  <1>7. ASSUME NEW i \in 0 .. n, i \in I, i < n PROVE i + 1 \in I
    <2>1. i + 1 \in 1 .. n /\ i + 1 \in 0 .. n /\ i + 1 - 1 = i
      BY <1>0, <1>7
    <2>2. SUFFICES ASSUME NEW d \in F[i + 1], d[2][1] # Main PROVE FALSE
      BY <2>1
    <2>3. d \in DeepActivations(b) /\ FailsIn(sys, d[2][1], d[2][2], Below(ret, d[1], b), Below(F[i], d[1], b))
      BY <1>1, <2>1, <2>2 DEF FailingDeep, ret
    <2>4. d[2][1] \in Procs
      BY <2>3 DEF DeepActivations, Activations
    <2>5. sys[d[2][1]].err = {}
      BY <2>2, <2>4 DEF OnlyMainFails
    <2>6. PICK e \in EdgesOf(sys[d[2][1]]) : <<e.callee, e.arg[d[2][2]]>> \in Below(F[i], d[1], b)
      BY <2>3, <2>5, Zenon DEF FailsIn
    <2>7. \A z \in F[i] : z[2][1] = Main
      BY <1>7
    <2> QED BY <1>6, <2>4, <2>6, <2>7
  <1>8. 0 .. n \subseteq I
    <2>1. 0 <= n => 0 \in I
      BY <1>5
    <2> HIDE DEF I
    <2> QED BY <1>0, <1>7, <2>1, IntervalInduction
  <1>9. n \in 1 .. n /\ n - 1 \in 0 .. n
    BY <1>0
  <1>10. FailsIn(sys, Main, w, Below(ret, zero, b), Below(F[n - 1], zero, b))
    BY <1>1, <1>3, <1>4, <1>9 DEF FailingDeep, ret
  <1>11. Main \in Procs
    BY ProcsAssumption
  <1>12. ~\E e \in EdgesOf(sys[Main]) : <<e.callee, e.arg[w]>> \in Below(F[n - 1], zero, b)
    <2>1. \A z \in F[n - 1] : z[2][1] = Main
      BY <1>8, <1>9
    <2> QED BY <1>6, <1>11, <2>1
  <1>13. Visits(sys, Main, w, Below(ret, zero, b)) \cap sys[Main].err # {}
    BY <1>10, <1>12, Zenon DEF FailsIn
  <1>14. PICK l \in sys[Main].err : l \in Visits(sys, Main, w, Below(ret, zero, b))
    BY <1>13
  <1>15. Leads(Entry, l, Passable(sys, Main, w, Below(ret, zero, b)))
    BY <1>11, <1>14, VisitsLead
  <1> QED BY <1>14, <1>15, CountingNone DEF ret, zero

\* A chain that is one longer enters one procedure once more.
LEMMA CountingMore ==
    ASSUME NEW q \in Seq(Procs), NEW p \in Procs \ {Main}
    PROVE  Counting(Append(q, p)) = [Counting(q) EXCEPT ![p] = @ + 1]
  <1> DEFINE At(s, r) == {i \in DOMAIN s : s[i] = r}
             m == Len(q) + 1
             z == Append(q, p)
  <1>1. Len(q) \in Nat /\ DOMAIN q = 1 .. Len(q) /\ DOMAIN z = 1 .. m
    OBVIOUS
  <1>2. z[m] = p /\ \A i \in 1 .. Len(q) : z[i] = q[i]
    OBVIOUS
  <1>3. m \notin DOMAIN q /\ DOMAIN z = DOMAIN q \cup {m}
    BY <1>1
  <1> HIDE DEF z, m
  <1>4. ASSUME NEW r PROVE At(z, r) = IF r = p THEN At(q, r) \cup {m} ELSE At(q, r)
    BY <1>1, <1>2, <1>3
  <1>5. ASSUME NEW r PROVE IsFiniteSet(At(q, r)) /\ m \notin At(q, r)
    <2>1. IsFiniteSet(1 .. Len(q))
      BY <1>1, FS_Interval
    <2>2. At(q, r) \subseteq 1 .. Len(q)
      BY <1>1
    <2>3. m \notin At(q, r)
      BY <1>3
    <2> HIDE DEF At
    <2> QED BY <2>1, <2>2, <2>3, FS_Subset
  <1>6. Cardinality(At(z, p)) = Cardinality(At(q, p)) + 1
    <2>1. At(z, p) = At(q, p) \cup {m}
      BY <1>4
    <2>2. IsFiniteSet(At(q, p)) /\ m \notin At(q, p)
      BY <1>5
    <2> HIDE DEF At
    <2> QED BY <2>1, <2>2, FS_AddElement
  <1>7. ASSUME NEW r, r # p PROVE Cardinality(At(z, r)) = Cardinality(At(q, r))
    <2>1. At(z, r) = At(q, r)
      BY <1>4, <1>7
    <2> HIDE DEF At
    <2> QED BY <2>1
  <1>8. /\ Counting(z) = [r \in Procs \ {Main} |-> Cardinality(At(z, r))]
        /\ Counting(q) = [r \in Procs \ {Main} |-> Cardinality(At(q, r))]
    BY DEF Counting
  <1> HIDE DEF At
  <1>9. Counting(z) = [Counting(q) EXCEPT ![p] = @ + 1]
    <2>1. \A r \in Procs \ {Main} :
            Cardinality(At(z, r)) = IF r = p THEN Cardinality(At(q, r)) + 1 ELSE Cardinality(At(q, r))
      BY <1>6, <1>7
    <2> QED BY <1>8, <2>1
  <1> QED BY <1>9 DEF z

-----------------------------------------------------------------------------
(* What inlining preserves *)

\* The call chain of a transition: a call of the main automaton that has no
\* entry in mCalls yet gets one with this chain.
Chain(e) == IF e.id \in DOMAIN calls THEN calls[e.id].chain ELSE <<e.callee>>

\* The transitions an input can take if the calls on their chains stay within
\* the bound.
Bounded(w) ==
    {e \in edges : w \in e.guard /\
        (IsCall(e) => <<Counting(Chain(e)), <<e.callee, e.arg[w]>>>> \in BoundedReturns(prog, maxBound))}

\* They are free but for calls.
LEMMA BoundedFacts ==
    ASSUME NEW w
    PROVE  /\ Bounded(w) \in SUBSET edges /\ Free(w) \in SUBSET Bounded(w)
           /\ Bounded(w) \ Free(w) \subseteq CallEdges
  BY DEF Bounded, Free, CallEdges

\* Steps that change neither transitions nor chains.
LEMMA SameBounded ==
    ASSUME UNCHANGED <<edges, prog, maxBound>>, \A e \in CallEdges : Chain(e)' = Chain(e)
    PROVE  \A w : Bounded(w)' = Bounded(w)
  <1> TAKE w
  <1>1. \A e \in edges : IsCall(e) => Chain(e)' = Chain(e)
    BY DEF CallEdges
  <1>2. Bounded(w)' = {e \in edges : w \in e.guard /\
          (IsCall(e) => <<Counting(Chain(e)'), <<e.callee, e.arg[w]>>>> \in BoundedReturns(prog, maxBound))}
    BY DEF Bounded, IsCall, Counting
  <1> QED BY <1>1, <1>2 DEF Bounded

\* Approximating calls changes no chain.
LEMMA ApproximateChains ==
    ASSUME NEW S, calls' = Approximate(calls, S)
    PROVE  \A e : Chain(e)' = Chain(e)
  <1> TAKE e
  <1>1. DOMAIN calls' = DOMAIN calls
    BY DEF Approximate
  <1>2. e.id \in DOMAIN calls => calls'[e.id].chain = calls[e.id].chain
    BY DEF Approximate
  <1> QED BY <1>1, <1>2 DEF Chain

\* A way along transitions within the bound is kept by inlining.
LEMMA InlineKeepsBounded ==
    ASSUME GraphInv, CallInv, maxBound \in Nat, NEW c \in CallEdges, InlineCallIntoRoot(c),
           UNCHANGED <<prog, maxBound>>,
           NEW w \in World, NEW a, NEW b, Leads(a, b, Bounded(w))
    PROVE  Leads(a, b, Bounded(w)')
  <1> DEFINE p == c.callee
             v == c.arg[w]
             ret == BoundedReturns(prog, maxBound)
             cnt == Counting(Chain(c))
             G == Passable(prog, p, v, Below(ret, cnt, maxBound))
             E == Bounded(w)
             F == Bounded(w)'
             Fits(e) == <<Counting(Chain(e)'), <<e.callee, e.arg[w]>>>> \in ret
  <1>0. /\ c \in edges /\ p \in Procs /\ prog \in Programs /\ IsCall(c) /\ c.id \in DOMAIN calls
        /\ calls[c.id].chain \in Seq(Procs)
    BY DEF GraphInv, CallEdges, CallInv
  <1>1. E \in SUBSET edges /\ G \in SUBSET EdgesOf(prog[c.callee])
    BY DEF Bounded, Passable
  <1>2. F = {e \in edges' : w \in e.guard /\ (IsCall(e) => Fits(e))}
    BY DEF Bounded, IsCall, Counting
  <1>3. E \ {c} \subseteq F
    <2> SUFFICES ASSUME NEW e \in E \ {c} PROVE e \in F
      OBVIOUS
    <2>1. e \in edges' /\ w \in e.guard
      BY InlineEdges DEF Bounded
    <2>2. ASSUME IsCall(e) PROVE Fits(e)
      <3>1. e \in CallEdges \ {c}
        BY <2>2 DEF CallEdges, Bounded
      <3>2. e.id \in DOMAIN calls' /\ calls'[e.id] = calls[e.id] /\ e.id \in DOMAIN calls
        BY <3>1, InlineChains DEF CallInv
      <3>3. Chain(e)' = Chain(e)
        BY <3>2 DEF Chain
      <3> QED BY <2>2, <3>3 DEF Bounded
    <2> QED BY <1>2, <2>1, <2>2
  <1>4. ASSUME c \in E
        PROVE  /\ Leads(Entry, Exit, G)
               /\ EnterEdge(c) \in F /\ LeaveEdge(c) \in F
               /\ \A k \in DOMAIN prog[c.callee].edges :
                           prog[c.callee].edges[k] \in G => CopiedEdge(c, k) \in F
    <2>1. w \in c.guard /\ <<cnt, <<p, v>>>> \in ret
      BY <1>0, <1>4 DEF Bounded
    <2>2. Leads(Entry, Exit, G)
      <3> HIDE DEF cnt, p, v
      <3> QED BY <1>0, <2>1, BoundedReturnsLead
    <2>3. EnterEdge(c).guard = c.guard /\ LeaveEdge(c).guard = World
      BY DEF EnterEdge, LeaveEdge, AssignEdge
    <2>4. ~IsCall(EnterEdge(c)) /\ ~IsCall(LeaveEdge(c))
      BY InlinedEdgeFacts
    <2>5. EnterEdge(c) \in F /\ LeaveEdge(c) \in F
      BY <1>2, <2>1, <2>3, <2>4, InlineEdges
    <2>6. ASSUME NEW k \in DOMAIN prog[c.callee].edges, prog[c.callee].edges[k] \in G
          PROVE  CopiedEdge(c, k) \in F
      <3>0. PICK e, f : e = prog[c.callee].edges[k] /\ f = CopiedEdge(c, k)
        OBVIOUS
      <3>1. /\ f.guard = {x \in World : c.arg[x] \in e.guard} /\ f.callee = e.callee
            /\ f.arg = [x \in World |-> e.arg[c.arg[x]]] /\ f.id = CopyId(c, k)
        BY <3>0 DEF CopiedEdge
      <3>2. v \in e.guard /\ (IsCall(e) => <<e.callee, e.arg[v]>> \in Below(ret, cnt, maxBound))
        BY <2>6, <3>0 DEF Passable
      <3>3. f \in edges'
        BY <3>0, InlineEdges
      <3>4. IsCall(e) => k \in CopiedCalls(c)
        BY <3>0 DEF CopiedCalls
      <3>5. IsCall(e) => /\ CopyId(c, k) \in DOMAIN calls'
                         /\ calls'[CopyId(c, k)].chain = Append(calls[c.id].chain, e.callee)
        BY <3>0, <3>4, InlineChains
      <3>6. w \in f.guard /\ f.arg[w] = e.arg[v]
        BY <3>1, <3>2
      <3>7. ASSUME IsCall(f) PROVE Fits(f)
        <4>1. IsCall(e) /\ Chain(f)' = Append(Chain(c), e.callee) /\ Chain(c) \in Seq(Procs)
          BY <1>0, <3>1, <3>5, <3>7 DEF IsCall, Chain
        <4>2. /\ e.callee \in Procs \ {Main}
              /\ <<[cnt EXCEPT ![e.callee] = @ + 1], <<e.callee, e.arg[v]>>>> \in ret
          <5> DEFINE x == <<e.callee, e.arg[v]>>
          <5>1. x \in Below(ret, cnt, maxBound) /\ x[1] = e.callee
            BY <3>2, <4>1
          <5> HIDE DEF x, cnt, ret
          <5>2. /\ x[1] \in Procs /\ x[1] # Main /\ <<[cnt EXCEPT ![x[1]] = @ + 1], x>> \in ret
            BY <5>1 DEF Below, Activations
          <5> QED BY <5>1, <5>2 DEF x
        <4>3. Counting(Append(Chain(c), e.callee)) = [cnt EXCEPT ![e.callee] = @ + 1]
          <5> DEFINE q == Chain(c)
          <5>1. q \in Seq(Procs)
            BY <4>1
          <5> HIDE DEF q
          <5> QED BY <4>2, <5>1, CountingMore DEF q
        <4> HIDE DEF cnt, ret
        <4> QED BY <3>1, <3>6, <4>1, <4>2, <4>3
      <3> QED BY <1>2, <3>0, <3>3, <3>6, <3>7
    <2> QED BY <2>2, <2>5, <2>6
  <1> HIDE DEF E, F, G
  <1>5. Leads(a, b, E)
    BY DEF E
  <1>6. Leads(a, b, F)
    BY <1>1, <1>3, <1>4, <1>5, InlineLeads
  <1> QED BY <1>6 DEF F

\* A call within the largest bound is open when the bound has reached it.
LEMMA BoundedHolds ==
    ASSUME GraphInv, CallInv, maxBound \in Nat, NEW w
    PROVE  \A e \in Bounded(w) : HoldsFor(e, w, Approximate(calls, Cheap(calls, maxBound)))
  <1> DEFINE S == Cheap(calls, maxBound)
  <1> TAKE e \in Bounded(w)
  <1> SUFFICES ASSUME IsCall(e) PROVE Approximate(calls, S)[e.id].approx
    BY DEF HoldsFor, Bounded
  <1>1. /\ e \in CallEdges /\ <<Counting(Chain(e)), <<e.callee, e.arg[w]>>>> \in BoundedReturns(prog, maxBound)
        /\ e.callee \in Procs \ {Main} /\ prog \in Programs
    BY DEF Bounded, CallEdges, GraphInv
  <1>2. /\ e.id \in DOMAIN calls /\ Chain(e) = calls[e.id].chain
        /\ calls[e.id].chain[Len(calls[e.id].chain)] = e.callee
    BY <1>1 DEF CallInv, Chain
  <1> DEFINE cnt == Counting(Chain(e))
  <1>3. cnt \in [Procs \ {Main} -> 0 .. maxBound]
    <2>1. <<cnt, <<e.callee, e.arg[w]>>>> \in BoundedReturns(prog, maxBound) /\ e.callee \in Procs
      BY <1>1
    <2> DEFINE v == e.arg[w]
    <2> HIDE DEF cnt, v
    <2> QED BY <1>1, <2>1, BoundedReturnsLead DEF v
  <1>4. Cost(calls[e.id].chain) = cnt[e.callee]
    BY <1>1, <1>2 DEF Cost, Counting
  <1>5. cnt[e.callee] <= maxBound
    <2> HIDE DEF cnt
    <2>1. cnt[e.callee] \in 0 .. maxBound
      BY <1>1, <1>3
    <2> QED BY <2>1
  <1>6. e.id \in S
    <2> HIDE DEF cnt
    <2> QED BY <1>2, <1>4, <1>5 DEF Cheap
  <1> HIDE DEF S
  <1> QED BY <1>2, <1>6 DEF Approximate

-----------------------------------------------------------------------------
(***************************************************************************)
(* The invariant.  EagerInv: the eager phase stays below maxBound, so it   *)
(* does not end with BoundReached, and mCalls is empty before the graph is *)
(* sorted.  WithinInv: as long as the solver has decided every query, an   *)
(* input that leads to an error within the bound satisfies what is         *)
(* asserted and has a way through the region within the bound.             *)
(***************************************************************************)
EagerInv ==
    /\ maxBound \in Nat /\ eagerUnroll \in Nat
    /\ pc \in {"errorField", "remove", "sort"} => DOMAIN calls = {}
    /\ pc = "eager" => bound \in Nat /\ bound <= eagerUnroll + 1
    /\ pc = "eagerInline" => bound \in Nat /\ bound <= eagerUnroll

KeptWithin(w) ==
    /\ pc = "errorField" => \E l \in prog[Main].err : Leads(Entry, l, Bounded(w))
    /\ pc \in {"remove", "sort", "eager", "eagerInline"} => Leads(Entry, error, Bounded(w))
    /\ pc \in {"under", "start"} => w \in Satisfying(asserted) /\ Leads(top, bottom, Bounded(w))
    /\ pc = "start" \/ (pc = "under" /\ skipUnderApprox) => ~Leads(top, bottom, Free(w))
    /\ pc \in {"over", "inline"} => Leads(lca[1], lca[2], Bounded(w))
    /\ pc = "over" => w \in Satisfying(asserted)
    /\ pc = "inline" => w \in Satisfying(Popped)
    /\ verdict \notin {"Success", "BoundReached"}

WithinInv ==
    unknowns = 0 /\ OnlyMainFails(prog) /\ eagerUnroll < maxBound
      => \A w \in BoundedErrorInputs(prog, maxBound) : KeptWithin(w)

\* The bounds of the eager phase.
LEMMA EagerInit == Init => EagerInv
  <1> SUFFICES ASSUME Init PROVE EagerInv
    OBVIOUS
  <1>1. maxBound \in Nat /\ eagerUnroll \in Nat /\ pc = "errorField"
    BY SettingsAssumption DEF Init
  <1>2. DOMAIN calls = {}
    BY DEF Init, EmptyScope
  <1> QED BY <1>1, <1>2 DEF EagerInv

\* Every step keeps them.
LEMMA EagerNext ==
    ASSUME EagerInv, [Next]_vars
    PROVE  EagerInv'
  <1>1. maxBound' = maxBound /\ eagerUnroll' = eagerUnroll
    BY DEF Next, vars, fixedVars, settings, InitializeErrorField, RemoveIrrelevantLocations,
           CreateTopologicalSorts, EagerIteration, EagerInline, UnderApproximate,
           SkipUnderApproximation, SetStartAndTarget, OverApproximate, InlineNext, FinishInlining, Done
  <1>2. maxBound' \in Nat /\ eagerUnroll' \in Nat
    BY <1>1 DEF EagerInv
  <1>3. CASE InitializeErrorField
    <2>1. pc = "errorField" /\ pc' \in {"remove", "done"} /\ calls' = calls
      BY <1>3 DEF InitializeErrorField, Finish
    <2> QED BY <1>2, <2>1 DEF EagerInv
  <1>4. CASE RemoveIrrelevantLocations
    <2>1. pc = "remove" /\ pc' = "sort" /\ calls' = calls
      BY <1>4 DEF RemoveIrrelevantLocations
    <2> QED BY <1>2, <2>1 DEF EagerInv
  <1>5. CASE CreateTopologicalSorts
    <2>1. pc' = "done" \/ (pc' = "eager" /\ bound' = 1)
      BY <1>5 DEF CreateTopologicalSorts, Finish
    <2> QED BY <1>2, <2>1 DEF EagerInv
  <1>6. CASE EagerIteration
    <2>1. /\ pc = "eager" /\ bound' = bound
          /\ pc' \in {"done", "under"} \/ (pc' = "eagerInline" /\ bound <= eagerUnroll)
      BY <1>6 DEF EagerIteration, Finish
    <2> QED BY <1>1, <1>2, <2>1 DEF EagerInv
  <1>7. CASE EagerInline
    <2>1. /\ pc = "eagerInline"
          /\ (pc' = "eager" /\ bound' = bound + 1) \/ (pc' = pc /\ bound' = bound)
      BY <1>7 DEF EagerInline
    <2> QED BY <1>1, <1>2, <2>1 DEF EagerInv
  <1>8. CASE \/ UnderApproximate \/ SkipUnderApproximation \/ SetStartAndTarget
             \/ OverApproximate \/ InlineNext \/ FinishInlining
    <2>1. CASE UnderApproximate \/ SetStartAndTarget
      BY <1>2, <2>1 DEF UnderApproximate, SetStartAndTarget, Finish, EagerInv
    <2>2. CASE OverApproximate
      BY <1>2, <2>2 DEF OverApproximate, Finish, EagerInv
    <2>3. CASE SkipUnderApproximation \/ InlineNext \/ FinishInlining
      BY <1>2, <2>3 DEF SkipUnderApproximation, InlineNext, FinishInlining, EagerInv
    <2> QED BY <1>8, <2>1, <2>2, <2>3
  <1>9. CASE Done \/ UNCHANGED vars
    <2>1. UNCHANGED <<pc, bound, calls>>
      BY <1>9 DEF Done, vars, graphVars, loopVars
    <2>2. CASE pc = "eager"
      BY <1>1, <2>1, <2>2 DEF EagerInv
    <2>3. CASE pc # "eager"
      BY <1>1, <2>1, <2>3 DEF EagerInv
    <2> QED BY <2>2, <2>3
  <1> QED BY <1>3, <1>4, <1>5, <1>6, <1>7, <1>8, <1>9, SMTT(30) DEF Next

\* Initially the graph is the main automaton.
LEMMA WithinInit == Init => WithinInv
  <1> SUFFICES ASSUME Init, OnlyMainFails(prog), NEW w \in BoundedErrorInputs(prog, maxBound)
               PROVE  KeptWithin(w)
    BY DEF WithinInv
  <1> DEFINE main == prog[Main]
             EdgeOf(k) == [id |-> k, src |-> main.edges[k].src, dst |-> main.edges[k].dst,
                           guard |-> main.edges[k].guard, callee |-> main.edges[k].callee,
                           arg |-> main.edges[k].arg]
             ret == BoundedReturns(prog, maxBound)
             none == Counting(<<>>)
             G == Passable(prog, Main, w, Below(ret, none, maxBound))
  <1>1. /\ pc = "errorField" /\ prog \in Programs /\ maxBound \in Nat /\ verdict = "Running"
        /\ edges = {EdgeOf(k) : k \in DOMAIN main.edges} /\ DOMAIN calls = {}
    BY SettingsAssumption DEF Init, EmptyScope
  <1>2. ASSUME NEW e \in EdgesOf(main)
        PROVE  \E f \in edges : /\ f.src = e.src /\ f.dst = e.dst /\ f.guard = e.guard
                                /\ f.callee = e.callee /\ f.arg = e.arg
    <2>1. PICK k \in DOMAIN main.edges : e = main.edges[k]
      BY DEF EdgesOf
    <2>2. EdgeOf(k) \in edges
      BY <1>1
    <2> QED BY <2>1, <2>2
  <1>3. PICK l \in main.err : Leads(Entry, l, G)
    BY <1>1, BoundedFailsLead
  <1> HIDE DEF EdgeOf, main
  <1>4. ASSUME NEW e \in G PROVE Leads(e.src, e.dst, Bounded(w))
    <2>1. /\ e \in EdgesOf(main) /\ w \in e.guard
          /\ IsCall(e) => <<e.callee, e.arg[w]>> \in Below(ret, none, maxBound)
      BY DEF Passable, main
    <2>2. PICK f \in edges : /\ f.src = e.src /\ f.dst = e.dst /\ f.guard = e.guard
                             /\ f.callee = e.callee /\ f.arg = e.arg
      BY <1>2, <2>1
    <2>3. ASSUME IsCall(e) PROVE <<Counting(Chain(f)), <<f.callee, f.arg[w]>>>> \in ret
      <3> DEFINE x == <<e.callee, e.arg[w]>>
      <3>1. x \in Below(ret, none, maxBound) /\ x[1] = e.callee
        BY <2>1, <2>3
      <3>2. Chain(f) = <<e.callee>>
        BY <1>1, <2>2 DEF Chain
      <3> HIDE DEF x, ret, none
      <3>3. x[1] \in Procs \ {Main} /\ <<[none EXCEPT ![x[1]] = @ + 1], x>> \in ret
        BY <3>1 DEF Below, Activations
      <3>4. Counting(<<e.callee>>) = [none EXCEPT ![e.callee] = @ + 1]
        <4> DEFINE q == <<>>
        <4>1. q \in Seq(Procs) /\ Append(q, e.callee) = <<e.callee>>
          OBVIOUS
        <4>2. e.callee \in Procs \ {Main}
          BY <3>1, <3>3
        <4> HIDE DEF q
        <4>3. Counting(Append(q, e.callee)) = [Counting(q) EXCEPT ![e.callee] = @ + 1]
          BY <4>1, <4>2, CountingMore
        <4> QED BY <4>1, <4>3 DEF none, q
      <3>5. <<[none EXCEPT ![e.callee] = @ + 1], <<e.callee, e.arg[w]>>>> \in ret
        BY <3>1, <3>3 DEF x
      <3> QED BY <2>2, <3>2, <3>4, <3>5
    <2>4. f \in Bounded(w)
      BY <2>1, <2>2, <2>3 DEF Bounded, IsCall
    <2> QED BY <2>2, <2>4, LeadsStep
  <1> HIDE DEF G
  <1>5. Leads(Entry, l, Bounded(w))
    BY <1>3, <1>4, LeadsReplace
  <1> QED BY <1>1, <1>3, <1>5 DEF KeptWithin, main

-----------------------------------------------------------------------------
(* The steps *)

\* The error goal is reached from the error locations of main.
LEMMA WithinErrorField ==
    ASSUME Inv, InitializeErrorField, NEW w \in World, KeptWithin(w)
    PROVE  KeptWithin(w)'
  <1> DEFINE main == prog[Main]
             goal == {AssignEdge(nextEdge + 1 + l, l, nextLoc, World) : l \in main.err}
  <1>1. pc = "errorField" /\ UNCHANGED <<prog, calls, maxBound>>
    BY DEF InitializeErrorField, settings
  <1>2. PICK l \in main.err : Leads(Entry, l, Bounded(w))
    BY <1>1 DEF KeptWithin
  <1>3. main.err # {} /\ ~\A p \in Procs : prog[p].err = {}
    BY <1>2, ProcsAssumption
  <1>4. /\ error' = nextLoc /\ pc' = "remove" /\ verdict' = verdict
        /\ edges \subseteq edges' /\ goal \subseteq edges'
    BY <1>3 DEF InitializeErrorField
  <1>5. \E f \in goal : f.src = l /\ f.dst = nextLoc /\ f.guard = World /\ ~IsCall(f)
    <2>1. AssignEdge(nextEdge + 1 + l, l, nextLoc, World) \in goal
      BY <1>2
    <2> HIDE DEF goal
    <2> QED BY <2>1 DEF AssignEdge, IsCall
  <1>6. PICK f \in goal : f.src = l /\ f.dst = nextLoc /\ f.guard = World /\ ~IsCall(f)
    BY <1>5
  <1>7. \A e : Chain(e)' = Chain(e)
    BY <1>1 DEF Chain
  <1>8. Bounded(w)' = {e \in edges' : w \in e.guard /\
          (IsCall(e) => <<Counting(Chain(e)'), <<e.callee, e.arg[w]>>>> \in BoundedReturns(prog, maxBound))}
    BY <1>1 DEF Bounded, IsCall, Counting
  <1>9. Bounded(w) \subseteq Bounded(w)' /\ f \in Bounded(w)'
    <2> HIDE DEF goal
    <2> QED BY <1>4, <1>6, <1>7, <1>8 DEF Bounded
  <1>10. Leads(Entry, l, Bounded(w)')
    BY <1>2, <1>9, LeadsMore
  <1>11. Leads(Entry, error', Bounded(w)')
    BY <1>4, <1>6, <1>9, <1>10, LeadsOn
  <1> QED BY <1>4, <1>11 DEF KeptWithin

\* removeIrrelevantLocations keeps the ways to the error goal.
LEMMA WithinRemove ==
    ASSUME Inv, RemoveIrrelevantLocations, NEW w \in World, KeptWithin(w)
    PROVE  KeptWithin(w)'
  <1>1. /\ pc = "remove" /\ pc' = "sort" /\ GraphInv /\ EarlyInv
        /\ edges' = {e \in edges : e.src \in nodes' /\ e.dst \in nodes'}
        /\ UNCHANGED <<prog, error, verdict, calls, maxBound>>
    BY DEF RemoveIrrelevantLocations, Inv, fixedVars, settings
  <1>2. error \in nodes' \ {Exit}
    <2>1. EarlyInv'
      BY <1>1, RemoveStep
    <2> QED BY <1>1, <2>1 DEF EarlyInv
  <1>3. Leads(Entry, error, Bounded(w)) /\ Bounded(w) \in SUBSET edges
    BY <1>1, BoundedFacts DEF KeptWithin
  <1>4. \A e : Chain(e)' = Chain(e)
    BY <1>1 DEF Chain
  <1>5. Bounded(w)' = {e \in edges' : w \in e.guard /\
          (IsCall(e) => <<Counting(Chain(e)'), <<e.callee, e.arg[w]>>>> \in BoundedReturns(prog, maxBound))}
    BY <1>1 DEF Bounded, IsCall, Counting
  <1>6. Bounded(w)' = Bounded(w) \cap edges'
    BY <1>1, <1>4, <1>5 DEF Bounded
  <1>7. Leads(Entry, error, Bounded(w) \cap edges')
    BY <1>1, <1>2, <1>3, RelevantWays
  <1> QED BY <1>1, <1>6, <1>7 DEF KeptWithin

\* The first entries of mCalls have the chains that the calls of main had.
LEMMA WithinSort ==
    ASSUME Inv, EagerInv, CreateTopologicalSorts, NEW w \in World, KeptWithin(w)
    PROVE  KeptWithin(w)'
  <1>1. /\ pc = "sort" /\ pc' \in {"eager", "done"} /\ (verdict' = verdict \/ verdict' = "Unknown")
        /\ UNCHANGED <<edges, prog, error, maxBound>> /\ GraphInv
    BY DEF CreateTopologicalSorts, Finish, settings, Inv
  <1>2. calls' = [i \in {e.id : e \in CallEdges} |->
                    [approx |-> FALSE, chain |-> <<(CHOOSE e \in edges : e.id = i).callee>>]]
    BY DEF CreateTopologicalSorts
  <1>3. ASSUME NEW e \in CallEdges PROVE Chain(e)' = Chain(e)
    <2>1. e \in edges /\ \A f \in edges : f.id = e.id => f = e
      BY <1>1 DEF GraphInv, CallEdges
    <2>2. (CHOOSE f \in edges : f.id = e.id) = e
      BY <2>1
    <2>3. /\ e.id \in DOMAIN calls'
          /\ calls'[e.id] = [approx |-> FALSE, chain |-> <<(CHOOSE f \in edges : f.id = e.id).callee>>]
      BY <1>2
    <2>4. e.id \notin DOMAIN calls
      BY <1>1 DEF EagerInv
    <2>5. Chain(e) = <<e.callee>>
      BY <2>4 DEF Chain
    <2>6. Chain(e)' = calls'[e.id].chain
      BY <2>3 DEF Chain
    <2>7. calls'[e.id].chain = <<e.callee>>
      <3>1. PICK g : g = CHOOSE f \in edges : f.id = e.id
        OBVIOUS
      <3>2. calls'[e.id] = [approx |-> FALSE, chain |-> <<g.callee>>]
        BY <2>3, <3>1, Zenon
      <3>3. calls'[e.id].chain = <<g.callee>>
        BY <3>2
      <3>4. g = e
        BY <2>2, <3>1
      <3> QED BY <3>3, <3>4
    <2> QED BY <2>5, <2>6, <2>7
  <1>4. Bounded(w)' = Bounded(w)
    BY <1>1, <1>3, SameBounded
  <1> QED BY <1>1, <1>4 DEF KeptWithin

\* The eager phase ends below the largest bound.
LEMMA WithinEagerIteration ==
    ASSUME Inv, SoundInv, EagerInv, eagerUnroll < maxBound, EagerIteration,
           NEW w \in World, KeptWithin(w)
    PROVE  KeptWithin(w)'
  <1>1. /\ pc = "eager" /\ UNCHANGED <<edges, prog, error, maxBound, calls, asserted, skipUnderApprox>>
    BY DEF EagerIteration, solverVars, settings, fixedVars, graphVars
  <1>2. bound \in Nat /\ bound <= eagerUnroll + 1 /\ eagerUnroll \in Nat /\ maxBound \in Nat
    BY <1>1 DEF EagerInv
  <1>3. bound <= eagerUnroll \/ bound <= maxBound
    BY <1>2
  <1>4. /\ verdict' = verdict
        /\ pc' = "eagerInline" \/ (pc' = "under" /\ top' = Entry /\ bottom' = error)
    BY <1>3 DEF EagerIteration
  <1>5. asserted = <<>> /\ ~skipUnderApprox
    BY <1>1 DEF SoundInv, SolverInv
  <1>6. Bounded(w)' = Bounded(w) /\ Leads(Entry, error, Bounded(w))
    <2>1. \A e : Chain(e)' = Chain(e)
      BY <1>1 DEF Chain
    <2> QED BY <1>1, <2>1, SameBounded DEF KeptWithin
  <1>7. w \in Satisfying(asserted)'
    BY <1>1, <1>5 DEF Satisfying
  <1> QED BY <1>1, <1>4, <1>5, <1>6, <1>7 DEF KeptWithin

\* Inlining keeps the ways through the region.
LEMMA WithinInline ==
    ASSUME Inv, EagerInv, pc \in {"eagerInline", "inline"}, NEW c \in CallEdges, InlineCallIntoRoot(c),
           UNCHANGED <<pc, prog, maxBound, error, verdict, solverVars, top, bottom, lca, skipUnderApprox>>,
           NEW w \in World, KeptWithin(w)
    PROVE  KeptWithin(w)'
  <1>1. UNCHANGED <<asserted, marks>> /\ GraphInv /\ CallInv /\ maxBound \in Nat
    BY DEF solverVars, Inv, EarlyInv, EagerInv
  <1>2. ASSUME NEW a, NEW b, Leads(a, b, Bounded(w)) PROVE Leads(a, b, Bounded(w)')
    BY <1>1, <1>2, InlineKeepsBounded
  <1>3. Satisfying(Popped)' = Satisfying(Popped)
    BY <1>1 DEF Popped, Satisfying
  <1>4. pc = "eagerInline" => Leads(Entry, error, Bounded(w)')
    BY <1>2 DEF KeptWithin
  <1>5. pc = "inline" => Leads(lca[1], lca[2], Bounded(w)')
    BY <1>2 DEF KeptWithin
  <1> QED BY <1>1, <1>3, <1>4, <1>5 DEF KeptWithin

\* If the under-approximation fails, no failing input has a way without calls.
LEMMA WithinUnder ==
    ASSUME Inv, SoundInv, UnderApproximate, unknowns' = 0, NEW w \in World, KeptWithin(w)
    PROVE  KeptWithin(w)'
  <1> DEFINE cs == Approximate(calls, {})
             f == Encode(top, bottom, cs, encodings).formula
             fs == Append(asserted, f)
  <1>1. /\ pc = "under" /\ calls' = cs
        /\ UNCHANGED <<nodes, edges, prog, maxBound, top, bottom, skipUnderApprox>>
    BY DEF UnderApproximate, fixedVars, settings
  <1>2. PICK status \in SolverStatus :
          /\ Run(fs, status)
          /\ status = "SAT" => pc' = "done" /\ verdict' = "Fail"
          /\ status # "SAT" => pc' = "start" /\ UNCHANGED <<verdict, asserted>>
    BY DEF UnderApproximate, Finish
  <1>3. GraphInv /\ OrderInv
    BY <1>1, LoopFacts
  <1>4. /\ encodings \in Nat /\ unknowns \in Nat /\ asserted \in Seq(Formula) /\ Between(top, bottom)
    BY <1>1 DEF SoundInv, SolverInv, RegionInv
  <1>5. f \in Formula
    BY <1>3, <1>4, RegionFormula DEF Between
  <1>6. status = IF Satisfying(fs) = {} THEN "UNSAT" ELSE "SAT"
    <2> HIDE DEF fs
    <2> QED BY <1>2, <1>4, RunFacts
  <1>7. Bounded(w)' = Bounded(w) /\ Free(w)' = Free(w)
    BY <1>1, ApproximateChains, SameBounded, SameGraph
  <1> HIDE DEF f
  <1>8. w \in Satisfying(asserted) /\ Leads(top, bottom, Bounded(w)) /\ verdict \notin {"Success", "BoundReached"}
    BY <1>1 DEF KeptWithin
  <1>9. CASE status = "SAT"
    BY <1>2, <1>9 DEF KeptWithin
  <1>10. CASE status # "SAT"
    <2>1. w \notin Satisfying(fs)
      BY <1>6, <1>10
    <2>2. f[w] = {}
      BY <1>4, <1>5, <1>8, <2>1, SatisfyingAppend
    <2>3. ASSUME Leads(top, bottom, Free(w)) PROVE FALSE
      <3>1. Free(w) \in SUBSET edges /\ \A e \in Free(w) : HoldsFor(e, w, cs)
        BY FreeHolds
      <3>2. top \in nodes
        BY <1>4 DEF Between
      <3> HIDE DEF cs
      <3>3. f[w] # {}
        BY <1>3, <1>4, <2>3, <3>1, <3>2, EncodeComplete DEF f
      <3> QED BY <2>2, <3>3
    <2>4. Satisfying(asserted)' = Satisfying(asserted)
      BY <1>2, <1>10 DEF Satisfying
    <2> QED BY <1>1, <1>2, <1>7, <1>8, <1>10, <2>3, <2>4 DEF KeptWithin
  <1> QED BY <1>9, <1>10

\* Skipping the under-approximation loses nothing.
LEMMA WithinSkip ==
    ASSUME SkipUnderApproximation, NEW w \in World, KeptWithin(w)
    PROVE  KeptWithin(w)'
  <1>1. /\ pc = "under" /\ skipUnderApprox /\ pc' = "start"
        /\ UNCHANGED <<nodes, edges, prog, maxBound, calls, asserted, verdict, top, bottom>>
    BY DEF SkipUnderApproximation, fixedVars, settings, graphVars, solverVars
  <1>2. Bounded(w)' = Bounded(w) /\ Free(w)' = Free(w)
    <2>1. \A e : Chain(e)' = Chain(e)
      BY <1>1 DEF Chain
    <2> QED BY <1>1, <2>1, SameBounded, SameGraph
  <1>3. Satisfying(asserted)' = Satisfying(asserted)
    BY <1>1 DEF Satisfying
  <1> QED BY <1>1, <1>2, <1>3 DEF KeptWithin

\* What is asserted before the new start and after the new target lies on the
\* way of every failing input.
LEMMA WithinStart ==
    ASSUME Inv, SoundInv, SetStartAndTarget, unknowns' = 0, NEW w \in World, KeptWithin(w)
    PROVE  KeptWithin(w)'
  <1> DEFINE new == FindCommonCallAncestor(top, bottom)
             d1 == new[1]
             d2 == new[2]
             f1 == Encode(top, d1, calls, encodings).formula
             f2 == Encode(d2, bottom, calls, encodings + 1).formula
             fs == asserted \o <<f1, f2>>
             P == Bounded(w)
  <1>1. pc = "start" /\ UNCHANGED <<nodes, edges, prog, maxBound, calls, top, bottom>>
    BY DEF SetStartAndTarget, fixedVars, settings, graphVars
  <1>2. GraphInv /\ OrderInv /\ CallInv
    BY <1>1, LoopFacts
  <1>3. encodings \in Nat /\ unknowns \in Nat /\ asserted \in Seq(Formula) /\ Between(top, bottom)
    BY <1>1 DEF SoundInv, SolverInv, RegionInv
  <1>4. /\ w \in Satisfying(asserted) /\ Leads(top, bottom, P)
        /\ ~Leads(top, bottom, Free(w)) /\ verdict \notin {"Success", "BoundReached"}
    BY <1>1 DEF KeptWithin
  <1>5. Bounded(w)' = P
    <2>1. \A e : Chain(e)' = Chain(e)
      BY <1>1 DEF Chain
    <2> QED BY <1>1, <2>1, SameBounded
  <1>6. CASE d1 = Null
    <2>1. lca' = <<top, bottom>> /\ pc' = "over" /\ UNCHANGED <<asserted, verdict>>
      BY <1>6 DEF SetStartAndTarget
    <2>2. lca'[1] = top /\ lca'[2] = bottom
      BY <2>1
    <2>3. Satisfying(asserted)' = Satisfying(asserted)
      BY <2>1 DEF Satisfying
    <2> QED BY <1>4, <1>5, <2>1, <2>2, <2>3 DEF KeptWithin
  <1>7. CASE d1 # Null /\ d2 = Null
    BY <1>7 DEF SetStartAndTarget, Finish, KeptWithin
  <1>8. CASE d1 # Null /\ d2 # Null
    <2>1. /\ asserted' = fs /\ lca' = new
          /\ \E status \in SolverStatus :
                /\ Run(fs, status)
                /\ status # "UNSAT" => pc' = "over" /\ UNCHANGED verdict
      BY <1>8 DEF SetStartAndTarget, Finish
    <2>2. PICK status \in SolverStatus :
                /\ Run(fs, status)
                /\ status # "UNSAT" => pc' = "over" /\ UNCHANGED verdict
      BY <2>1
    <2>3. /\ Between(d1, d2) /\ Leads(top, d1, edges) /\ Leads(d2, bottom, edges)
          /\ \A e \in CallEdges : Through(top, d1, e.src) /\ Through(e.dst, d2, bottom)
      BY <1>2, <1>3, <1>8, AncestorCases
    <2>4. top \in nodes /\ d1 \in nodes /\ d2 \in nodes /\ encodings + 1 \in Nat
      BY <1>3, <2>3 DEF Between
    <2>5. lca'[1] = d1 /\ lca'[2] = d2
      BY <2>1
    <2> HIDE DEF new, d1, d2
    <2>6. f1 \in Formula /\ f2 \in Formula
      BY <1>2, <1>3, <2>3, <2>4, RegionFormula
    <2>7. status = IF Satisfying(fs) = {} THEN "UNSAT" ELSE "SAT"
      <3> HIDE DEF fs
      <3> QED BY <1>3, <2>2, RunFacts
    <2>8. Leads(top, d1, Free(w)) /\ Leads(d1, d2, P) /\ Leads(d2, bottom, Free(w))
      <3>1. Free(w) \in SUBSET P /\ P \ Free(w) \subseteq CallEdges
        BY BoundedFacts
      <3> HIDE DEF P
      <3> QED BY <1>4, <2>3, <3>1, AncestorSplits
    <2>9. Free(w) \in SUBSET edges /\ \A e \in Free(w) : HoldsFor(e, w, calls)
      BY FreeHolds
    <2>10. f1[w] # {} /\ f2[w] # {}
      BY <1>2, <1>3, <2>4, <2>8, <2>9, EncodeComplete
    <2> HIDE DEF f1, f2
    <2>11. w \in Satisfying(fs)
      <3> DEFINE gs == Append(asserted, f1)
      <3>1. gs \in Seq(Formula) /\ fs = Append(gs, f2)
        BY <1>3, <2>6
      <3>2. w \in Satisfying(gs)
        BY <1>3, <1>4, <2>6, <2>10, SatisfyingAppend
      <3> HIDE DEF gs, fs
      <3> QED BY <2>6, <2>10, <3>1, <3>2, SatisfyingAppend
    <2>12. status # "UNSAT"
      BY <2>7, <2>11
    <2>13. w \in Satisfying(asserted)'
      BY <2>1, <2>11 DEF Satisfying
    <2> HIDE DEF P
    <2> QED BY <1>4, <1>5, <2>2, <2>5, <2>8, <2>12, <2>13 DEF KeptWithin
  <1> QED BY <1>6, <1>7, <1>8

\* If the over-approximation fails with calls left and the bound at its largest
\* value, an input within the bound would have satisfied it: its calls are open.
LEMMA WithinOver ==
    ASSUME Inv, SoundInv, EagerInv, OverApproximate, unknowns' = 0, NEW w \in World, KeptWithin(w)
    PROVE  KeptWithin(w)'
  <1> DEFINE open == Cheap(calls, bound)
             cs == Approximate(calls, open)
             left == Cardinality(Unhandled(calls, open))
             f == Encode(lca[1], lca[2], cs, encodings).formula
             fs == Append(asserted, f)
             P == Bounded(w)
  <1>1. /\ pc = "over" /\ calls' = cs
        /\ UNCHANGED <<nodes, edges, prog, maxBound, lca>>
    BY DEF OverApproximate, fixedVars, settings
  <1>2. PICK status \in SolverStatus :
          /\ Run(fs, status)
          /\ \/ /\ status = "SAT" /\ pc' = "inline"
                /\ marks' = Append(marks, Len(asserted)) /\ asserted' = fs
                /\ verdict' = verdict
             \/ /\ status # "SAT" /\ pc' = "under"
                /\ top' = lca[1] /\ bottom' = lca[2] /\ verdict' = verdict /\ asserted' = asserted
             \/ /\ status # "SAT" /\ (left = 0 \/ bound = maxBound) /\ pc' = "done"
             \/ status = "UNKNOWN"
    BY DEF OverApproximate, Push, Finish
  <1>3. GraphInv /\ OrderInv /\ CallInv /\ maxBound \in Nat
    BY <1>1, LoopFacts DEF EagerInv
  <1>4. /\ encodings \in Nat /\ unknowns \in Nat /\ asserted \in Seq(Formula) /\ marks \in Seq(Nat)
        /\ Between(lca[1], lca[2])
    BY <1>1 DEF SoundInv, SolverInv, RegionInv
  <1>5. PICK a, b : a = lca[1] /\ b = lca[2]
    OBVIOUS
  <1>6. a \in nodes /\ Leads(a, b, edges) /\ f = Encode(a, b, cs, encodings).formula
    BY <1>4, <1>5 DEF Between
  <1>7. Bounded(w)' = P /\ Free(w)' = Free(w)
    <2>1. \A e : Chain(e)' = Chain(e)
      <3> HIDE DEF open
      <3> QED BY <1>1, ApproximateChains
    <2> QED BY <1>1, <2>1, SameBounded, SameGraph
  <1>8. ASSUME bound = maxBound \/ left = 0 PROVE \A e \in P : HoldsFor(e, w, cs)
    <2>1. CASE bound = maxBound
      BY <1>3, <2>1, BoundedHolds
    <2>2. CASE left = 0
      <3>1. DOMAIN calls \subseteq open
        <4> HIDE DEF open
        <4> QED BY <1>3, <2>2, AllCallsOpen
      <3>2. ASSUME NEW e \in edges, IsCall(e) PROVE cs[e.id].approx
        <4>1. e.id \in DOMAIN calls
          BY <1>3, <3>2 DEF CallInv, CallEdges
        <4> HIDE DEF open
        <4> QED BY <3>1, <4>1 DEF Approximate
      <3> HIDE DEF cs
      <3> QED BY <3>2 DEF Bounded, HoldsFor
    <2> QED BY <1>8, <2>1, <2>2
  <1>9. Free(w) \in SUBSET edges /\ \A e \in Free(w) : HoldsFor(e, w, cs)
    BY FreeHolds
  <1>10. P \in SUBSET edges
    BY BoundedFacts
  <1> HIDE DEF cs, left, P
  <1>11. f \in Formula
    BY <1>3, <1>4, <1>6, RegionFormula
  <1>12. ASSUME NEW E \in SUBSET edges, Leads(a, b, E), \A e \in E : HoldsFor(e, w, cs)
         PROVE  f[w] # {}
    BY <1>3, <1>4, <1>6, <1>12, EncodeComplete
  <1>13. status = IF Satisfying(fs) = {} THEN "UNSAT" ELSE "SAT"
    <2> HIDE DEF fs
    <2> QED BY <1>2, <1>4, RunFacts
  <1> HIDE DEF f
  <1>14. w \in Satisfying(asserted) /\ Leads(a, b, P) /\ verdict \notin {"Success", "BoundReached"}
    BY <1>1, <1>5 DEF KeptWithin, P
  <1>15. lca'[1] = a /\ lca'[2] = b
    BY <1>1, <1>5
  <1>16. ASSUME status # "SAT" PROVE f[w] = {}
    <2>1. w \notin Satisfying(fs)
      BY <1>13, <1>16
    <2> QED BY <1>4, <1>11, <1>14, <2>1, SatisfyingAppend
  <1>17. CASE status = "SAT"
    <2>1. /\ pc' = "inline" /\ marks' = Append(marks, Len(asserted)) /\ asserted' = fs
          /\ verdict' = verdict
      BY <1>2, <1>17
    <2>2. Len(asserted) \in Nat
      BY <1>4
    <2>3. marks'[Len(marks')] = Len(asserted)
      BY <1>4, <2>1, <2>2
    <2>4. Popped' = asserted
      BY <1>4, <1>11, <2>1, <2>3, PopAfterAppend DEF Popped
    <2>5. Satisfying(Popped)' = Satisfying(asserted)
      BY <2>4 DEF Satisfying
    <2> QED BY <1>7, <1>14, <1>15, <2>1, <2>5 DEF KeptWithin
  <1>18. CASE status # "SAT"
    <2>1. ~(bound = maxBound \/ left = 0)
      BY <1>8, <1>10, <1>12, <1>14, <1>16, <1>18
    <2>2. status # "UNKNOWN"
      BY <1>13
    <2>3. pc' = "under" /\ top' = a /\ bottom' = b /\ verdict' = verdict /\ asserted' = asserted
      BY <1>2, <1>5, <1>18, <2>1, <2>2
    <2>4. Satisfying(asserted)' = Satisfying(asserted)
      BY <2>3 DEF Satisfying
    <2>5. ~Leads(a, b, Free(w))
      BY <1>9, <1>12, <1>16, <1>18
    <2> QED BY <1>7, <1>14, <2>3, <2>4, <2>5 DEF KeptWithin
  <1> QED BY <1>17, <1>18

\* Dropping the scope gives back what was asserted before it.
LEMMA WithinFinish ==
    ASSUME SoundInv, FinishInlining, NEW w \in World, KeptWithin(w)
    PROVE  KeptWithin(w)'
  <1>1. /\ pc = "inline" /\ pc' = "under" /\ asserted' = Popped
        /\ top' = lca[1] /\ bottom' = lca[2]
        /\ UNCHANGED <<edges, prog, maxBound, calls, verdict, skipUnderApprox>>
    BY DEF FinishInlining, fixedVars, settings, graphVars
  <1>2. ~skipUnderApprox
    BY <1>1 DEF SoundInv, SolverInv
  <1>3. Bounded(w)' = Bounded(w)
    <2>1. \A e : Chain(e)' = Chain(e)
      BY <1>1 DEF Chain
    <2> QED BY <1>1, <2>1, SameBounded
  <1>4. Satisfying(asserted)' = Satisfying(Popped)
    BY <1>1 DEF Satisfying
  <1> QED BY <1>1, <1>2, <1>3, <1>4 DEF KeptWithin

\* Every step keeps the inputs that lead to an error within the bound.
LEMMA WithinNext ==
    ASSUME Inv, SoundInv, EagerInv, WithinInv, [Next]_vars
    PROVE  WithinInv'
  <1>1. UNCHANGED <<prog, maxBound, eagerUnroll>>
    BY DEF Next, vars, fixedVars, settings, InitializeErrorField, RemoveIrrelevantLocations,
           CreateTopologicalSorts, EagerIteration, EagerInline, UnderApproximate,
           SkipUnderApproximation, SetStartAndTarget, OverApproximate, InlineNext, FinishInlining, Done
  <1>2. unknowns \in Nat
    BY DEF SoundInv, SolverInv
  <1>3. unknowns' = 0 => unknowns = 0
    <2>1. \/ unknowns' = unknowns
          \/ \E fs, status : Run(fs, status)
      BY DEF Next, vars, solverVars, InitializeErrorField, RemoveIrrelevantLocations,
             CreateTopologicalSorts, EagerIteration, EagerInline, UnderApproximate,
             SkipUnderApproximation, SetStartAndTarget, OverApproximate, InlineNext, FinishInlining, Done
    <2> QED BY <2>1, <1>2, RunFacts
  <1> SUFFICES ASSUME unknowns' = 0, OnlyMainFails(prog), eagerUnroll < maxBound,
                      NEW w \in BoundedErrorInputs(prog, maxBound)
               PROVE  KeptWithin(w)'
    <2>1. unknowns' = 0 /\ OnlyMainFails(prog) /\ eagerUnroll < maxBound
            => \A w \in BoundedErrorInputs(prog, maxBound) : KeptWithin(w)'
      OBVIOUS
    <2> QED BY <1>1, <2>1 DEF WithinInv
  <1>4. KeptWithin(w)
    BY <1>3 DEF WithinInv
  <1>5. w \in World
    BY DEF BoundedErrorInputs
  <1>6. CASE InitializeErrorField
    BY <1>4, <1>5, <1>6, WithinErrorField
  <1>7. CASE RemoveIrrelevantLocations
    BY <1>4, <1>5, <1>7, WithinRemove
  <1>8. CASE CreateTopologicalSorts
    BY <1>4, <1>5, <1>8, WithinSort
  <1>9. CASE EagerIteration
    BY <1>4, <1>5, <1>9, WithinEagerIteration
  <1>10. CASE EagerInline
    <2>1. CASE openCalls = {}
      <3>1. /\ pc = "eagerInline" /\ pc' = "eager"
            /\ UNCHANGED <<edges, prog, maxBound, error, verdict, calls>>
        BY <1>10, <2>1 DEF EagerInline, graphVars, fixedVars, settings
      <3>2. \A e : Chain(e)' = Chain(e)
        BY <3>1 DEF Chain
      <3>3. Bounded(w)' = Bounded(w)
        BY <1>5, <3>1, <3>2, SameBounded
      <3> QED BY <1>4, <3>1, <3>3 DEF KeptWithin
    <2>2. CASE openCalls # {}
      <3>1. PICK c \in CallEdges : InlineCallIntoRoot(c)
        BY <1>10, <2>2 DEF EagerInline
      <3>2. /\ pc = "eagerInline"
            /\ UNCHANGED <<pc, prog, maxBound, error, verdict, solverVars, top, bottom, lca, skipUnderApprox>>
        BY <1>10, <2>2 DEF EagerInline, fixedVars, settings
      <3> QED BY <1>4, <1>5, <3>1, <3>2, WithinInline
    <2> QED BY <2>1, <2>2
  <1>11. CASE UnderApproximate
    BY <1>4, <1>5, <1>11, WithinUnder
  <1>12. CASE SkipUnderApproximation
    BY <1>4, <1>5, <1>12, WithinSkip
  <1>13. CASE SetStartAndTarget
    BY <1>4, <1>5, <1>13, WithinStart
  <1>14. CASE OverApproximate
    BY <1>4, <1>5, <1>14, WithinOver
  <1>15. CASE InlineNext
    <2>1. PICK c \in CallEdges : InlineCallIntoRoot(c)
      BY <1>15 DEF InlineNext
    <2>2. /\ pc = "inline"
          /\ UNCHANGED <<pc, prog, maxBound, error, verdict, solverVars, top, bottom, lca, skipUnderApprox>>
      BY <1>15 DEF InlineNext, fixedVars, settings
    <2> QED BY <1>4, <1>5, <2>1, <2>2, WithinInline
  <1>16. CASE FinishInlining
    BY <1>4, <1>5, <1>16, WithinFinish
  <1>17. CASE Done \/ UNCHANGED vars
    <2>1. UNCHANGED <<pc, edges, prog, maxBound, error, verdict, calls, asserted, marks, top, bottom,
                      lca, skipUnderApprox>>
      BY <1>17 DEF Done, vars, graphVars, solverVars, fixedVars, loopVars, settings
    <2>2. \A e : Chain(e)' = Chain(e)
      BY <2>1 DEF Chain
    <2>3. Bounded(w)' = Bounded(w)
      BY <1>5, <2>1, <2>2, SameBounded
    <2>4. Free(w)' = Free(w)
      BY <2>1 DEF Free, IsCall
    <2>5. Satisfying(asserted)' = Satisfying(asserted) /\ Satisfying(Popped)' = Satisfying(Popped)
      BY <2>1 DEF Satisfying, Popped
    <2> QED BY <1>4, <2>1, <2>3, <2>4, <2>5 DEF KeptWithin
  <1> QED BY <1>6, <1>7, <1>8, <1>9, <1>10, <1>11, <1>12, <1>13, <1>14, <1>15, <1>16, <1>17, SMTT(30) DEF Next

-----------------------------------------------------------------------------
(* The theorem *)

\* A verdict BoundReached is honest, if the solver has decided every query and
\* the errors are in the main automaton: no input leads to an error without
\* entering some procedure more than maxBound times.
THEOREM BoundReachedStaysHonest ==
    Spec => [](unknowns = 0 /\ OnlyMainFails(prog) => BoundReachedIsHonest)
  <1>1. Spec => []EagerInv
    BY EagerInit, EagerNext, PTL DEF Spec
  <1>2. Spec => []WithinInv
    BY <1>1, Invariance, Soundness, WithinInit, WithinNext, PTL DEF Spec
  <1>3. WithinInv => (unknowns = 0 /\ OnlyMainFails(prog) => BoundReachedIsHonest)
    <2> SUFFICES ASSUME WithinInv, unknowns = 0, OnlyMainFails(prog), verdict = "BoundReached",
                        eagerUnroll < maxBound, NEW w \in BoundedErrorInputs(prog, maxBound)
                 PROVE  FALSE
      BY DEF BoundReachedIsHonest
    <2>1. KeptWithin(w)
      BY DEF WithinInv
    <2> QED BY <2>1 DEF KeptWithin
  <1> QED BY <1>2, <1>3, PTL

=============================================================================
