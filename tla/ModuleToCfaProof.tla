-------------------------- MODULE ModuleToCfaProof --------------------------
(***************************************************************************)
(* As long as no assertion of the translation has failed, every call that  *)
(* it has generated fits the interface of the procedure it calls, for all  *)
(* modules that LLVM's verifier and LoopSimplify accept.                   *)
(***************************************************************************)
EXTENDS ModuleToCfa, PathsProof, FiniteSetTheorems, TLAPS

-----------------------------------------------------------------------------
(* Sequences *)

\* A sequence over a set is one over a larger set.
LEMMA SeqOver ==
  ASSUME NEW S, NEW T, S \subseteq T, NEW q \in Seq(S)
  PROVE  q \in Seq(T)
<1>1. Len(q) \in Nat /\ q \in [1 .. Len(q) -> S]
  OBVIOUS
<1>2. q \in [1 .. Len(q) -> T]
  BY <1>1
<1> QED BY <1>1, <1>2

\* What is left of a sequence behind its head.
LEMMA TailFacts ==
  ASSUME NEW S, NEW q \in Seq(S), q # <<>>
  PROVE  /\ Tail(q) \in Seq(S) /\ Len(Tail(q)) = Len(q) - 1 /\ DOMAIN Tail(q) = 1 .. Len(q) - 1
         /\ Len(q) \in Nat \ {0} /\ DOMAIN q = 1 .. Len(q)
         /\ q[1] = Head(q) /\ Head(q) \in S
         /\ \A k \in 1 .. Len(q) - 1 : Tail(q)[k] = q[k + 1]
OBVIOUS

-----------------------------------------------------------------------------
(* Enumerating a finite set in an order *)

\* The members of S before x in the order R.
Before(S, R, x) == {y \in S : <<y, x>> \in R}

\* R orders S.
Orders(R, S) ==
  /\ \A x \in S : <<x, x>> \notin R
  /\ \A x, y \in S : x # y => <<x, y>> \in R \/ <<y, x>> \in R
  /\ \A x, y, z \in S : <<x, y>> \in R /\ <<y, z>> \in R => <<x, z>> \in R

\* What comes first has fewer predecessors.
LEMMA FewerBefore ==
  ASSUME NEW S, IsFiniteSet(S), NEW R, Orders(R, S), NEW x \in S, NEW y \in S, <<x, y>> \in R
  PROVE  Cardinality(Before(S, R, x)) < Cardinality(Before(S, R, y))
<1> DEFINE X == Before(S, R, x)
           Y == Before(S, R, y)
           Z == X \cup {x}
<1>1. X \in SUBSET S /\ Y \in SUBSET S /\ x \notin X
  BY DEF Before, Orders
<1>2. Z \in SUBSET Y
  BY DEF Before, Orders
<1>3. IsFiniteSet(X) /\ IsFiniteSet(Y)
  <2> HIDE DEF X, Y
  <2> QED BY <1>1, FS_Subset
<1> HIDE DEF X, Y
<1>4. Cardinality(Z) = Cardinality(X) + 1
  BY <1>1, <1>3, FS_AddElement
<1> HIDE DEF Z
<1>5. Cardinality(Z) <= Cardinality(Y)
  BY <1>2, <1>3, FS_Subset
<1>6. Cardinality(X) \in Nat /\ Cardinality(Y) \in Nat
  BY <1>3, FS_CardinalityType
<1>7. Cardinality(X) < Cardinality(Y)
  BY <1>4, <1>5, <1>6
<1> QED BY <1>7 DEF X, Y

\* The n-th member of S.
Nth(S, R, n) == CHOOSE x \in S : Cardinality(Before(S, R, x)) = n - 1

\* There is one for every number up to the size of the set, and every member
\* is one.
LEMMA NthFacts ==
  ASSUME NEW S, IsFiniteSet(S), NEW R, Orders(R, S)
  PROVE  /\ Cardinality(S) \in Nat
         /\ \A n \in 1 .. Cardinality(S) : Nth(S, R, n) \in S
         /\ \A x \in S : \E n \in 1 .. Cardinality(S) : Nth(S, R, n) = x
<1> DEFINE m == Cardinality(S)
           T == 0 .. m - 1
           r == [x \in S |-> Cardinality(Before(S, R, x))]
<1>1. m \in Nat
  BY FS_CardinalityType
<1>2. ASSUME NEW x \in S PROVE Cardinality(Before(S, R, x)) \in T
  <2> DEFINE X == Before(S, R, x)
             U == S \ {x}
  <2>1. X \in SUBSET U
    BY DEF Before, Orders
  <2> HIDE DEF X
  <2>2. IsFiniteSet(U) /\ Cardinality(U) = m - 1
    BY FS_RemoveElement
  <2> HIDE DEF U, m
  <2>3. IsFiniteSet(X) /\ Cardinality(X) <= m - 1
    BY <2>1, <2>2, FS_Subset
  <2>4. Cardinality(X) \in Nat
    BY <2>3, FS_CardinalityType
  <2>5. Cardinality(X) \in T
    BY <1>1, <2>3, <2>4
  <2> QED BY <2>5 DEF X
<1>3. ASSUME NEW x \in S, NEW y \in S, x # y
      PROVE  Cardinality(Before(S, R, x)) # Cardinality(Before(S, R, y))
  <2>1. CASE <<x, y>> \in R
    <3>1. Cardinality(Before(S, R, x)) < Cardinality(Before(S, R, y))
      BY <2>1, FewerBefore
    <3> QED BY <1>2, <3>1
  <2>2. CASE <<y, x>> \in R
    <3>1. Cardinality(Before(S, R, y)) < Cardinality(Before(S, R, x))
      BY <2>2, FewerBefore
    <3> QED BY <1>2, <3>1
  <2> QED BY <1>3, <2>1, <2>2 DEF Orders
<1>4. r \in [S -> T]
  BY <1>2
<1>5. \A x, y \in S : r[x] = r[y] => x = y
  BY <1>3
<1>6. IsFiniteSet(T) /\ Cardinality(T) = m
  <2> HIDE DEF m
  <2>1. 0 \in Int /\ m - 1 \in Int
    BY <1>1
  <2>2. IsFiniteSet(T) /\ Cardinality(T) = IF 0 > m - 1 THEN 0 ELSE (m - 1) - 0 + 1
    BY <2>1, FS_Interval
  <2> QED BY <1>1, <2>2
<1> HIDE DEF r, T
<1>7. r \in Injection(S, T)
  BY <1>4, <1>5 DEF Injection, IsInjective
<1>8. r \in Surjection(S, T)
  BY <1>6, <1>7, FS_Injection DEF m
<1>9. ASSUME NEW n \in 1 .. m PROVE \E x \in S : Cardinality(Before(S, R, x)) = n - 1
  <2>1. n - 1 \in T
    BY <1>1, <1>9 DEF T, m
  <2>2. \E x \in S : r[x] = n - 1
    BY <1>8, <2>1 DEF Surjection
  <2> QED BY <2>2 DEF r
<1>10. ASSUME NEW n \in 1 .. m
       PROVE  Nth(S, R, n) \in S /\ Cardinality(Before(S, R, Nth(S, R, n))) = n - 1
  BY <1>9, <1>10 DEF Nth
<1>11. ASSUME NEW x \in S PROVE \E n \in 1 .. m : Nth(S, R, n) = x
  <2> DEFINE n == Cardinality(Before(S, R, x)) + 1
  <2>1. n \in 1 .. m /\ n - 1 = Cardinality(Before(S, R, x))
    BY <1>1, <1>2 DEF T, m
  <2> HIDE DEF n
  <2>2. Nth(S, R, n) \in S /\ Cardinality(Before(S, R, Nth(S, R, n))) = Cardinality(Before(S, R, x))
    BY <1>10, <2>1
  <2> QED BY <1>3, <2>1, <2>2
<1> QED BY <1>1, <1>10, <1>11 DEF m

\* The order of the numbers, forwards and backwards, and of call sites.
LEMMA NumbersOrdered ==
  ASSUME NEW S \in SUBSET Nat
  PROVE  /\ Orders({p \in S \X S : p[1] < p[2]}, S)
         /\ Orders({p \in S \X S : p[1] > p[2]}, S)
         /\ \A x \in S : /\ Before(S, {p \in S \X S : p[1] < p[2]}, x) = {y \in S : y < x}
                        /\ Before(S, {p \in S \X S : p[1] > p[2]}, x) = {y \in S : y > x}
BY DEF Orders, Before

\* Ascending lists the members of a set.
LEMMA AscendingFacts ==
  ASSUME NEW S \in SUBSET Nat, IsFiniteSet(S)
  PROVE  Ascending(S) \in Seq(S) /\ \A x \in S : \E n \in DOMAIN Ascending(S) : Ascending(S)[n] = x
<1> DEFINE R == {p \in S \X S : p[1] < p[2]}
           m == Cardinality(S)
           Pick(n) == CHOOSE b \in S : Cardinality({a \in S : a < b}) = n - 1
<1>1. Orders(R, S) /\ \A x \in S : Before(S, R, x) = {y \in S : y < x}
  BY NumbersOrdered
<1> HIDE DEF R
<1>2. m \in Nat /\ (\A n \in 1 .. m : Nth(S, R, n) \in S) /\ \A x \in S : \E n \in 1 .. m : Nth(S, R, n) = x
  BY <1>1, NthFacts
<1>3. \A n : Nth(S, R, n) = Pick(n)
  BY <1>1 DEF Nth
<1>4. Ascending(S) = [n \in 1 .. m |-> Pick(n)]
  BY DEF Ascending
<1> HIDE DEF m, Pick
<1>5. Ascending(S) = [n \in 1 .. m |-> Nth(S, R, n)]
  BY <1>3, <1>4
<1> QED BY <1>2, <1>5

\* The procedures of function f.
ProcsOf(f) == {<<f, 0>>} \cup {<<f, h>> : h \in DOMAIN loops[f]}

\* Procedures lists the loops of a function and then the function itself.
LEMMA ProceduresFacts ==
  ASSUME NEW f, DOMAIN loops[f] \in SUBSET (Nat \ {0}), IsFiniteSet(DOMAIN loops[f])
  PROVE  LET q == Procedures(f)
         IN  /\ q \in Seq(ProcsOf(f)) /\ q # <<>>
             /\ \A k \in DOMAIN q : q[k][2] = 0 <=> k = Len(q)
             /\ \A p \in ProcsOf(f) : \E k \in DOMAIN q : q[k] = p
<1> DEFINE S == DOMAIN loops[f]
           R == {p \in S \X S : p[1] > p[2]}
           m == Cardinality(S)
           Pick(n) == CHOOSE h \in S : Cardinality({g \in S : g > h}) = n - 1
           q == Procedures(f)
<1>1. S \in SUBSET Nat /\ 0 \notin S
  OBVIOUS
<1>2. q = [n \in 1 .. m + 1 |-> <<f, IF n > m THEN 0 ELSE Pick(n)>>]
  BY DEF Procedures
<1>3. ProcsOf(f) = {<<f, 0>>} \cup {<<f, h>> : h \in S}
  BY DEF ProcsOf
<1>f. IsFiniteSet(S)
  OBVIOUS
<1> HIDE DEF S, q
<1>4. Orders(R, S) /\ \A x \in S : Before(S, R, x) = {y \in S : y > x}
  BY <1>1, NumbersOrdered
<1> HIDE DEF R
<1>5. m \in Nat /\ (\A n \in 1 .. m : Nth(S, R, n) \in S) /\ \A x \in S : \E n \in 1 .. m : Nth(S, R, n) = x
  BY <1>4, <1>f, NthFacts
<1>6. \A n : Nth(S, R, n) = Pick(n)
  BY <1>4 DEF Nth
<1> HIDE DEF m, Pick
<1>7. \A n \in 1 .. m : n # m + 1 /\ n \in 1 .. m + 1 /\ q[n] = <<f, Nth(S, R, n)>> /\ q[n][2] \in S
  BY <1>2, <1>5, <1>6
<1>8. q[m + 1] = <<f, 0>> /\ \A n \in 1 .. m + 1 : n = m + 1 \/ n \in 1 .. m
  BY <1>2, <1>5
<1>9. ASSUME NEW n \in 1 .. m + 1 PROVE q[n] \in ProcsOf(f)
  <2>1. CASE n \in 1 .. m
    BY <2>1, <1>3, <1>5, <1>7
  <2>2. CASE n = m + 1
    BY <2>2, <1>3, <1>8
  <2> QED BY <1>8, <2>1, <2>2
<1>10. q \in Seq(ProcsOf(f)) /\ Len(q) = m + 1 /\ DOMAIN q = 1 .. m + 1
  BY <1>2, <1>5, <1>9
<1>11. q # <<>>
  BY <1>5, <1>10
<1>12. \A k \in DOMAIN q : q[k][2] = 0 <=> k = Len(q)
  BY <1>1, <1>7, <1>8, <1>10
<1>13. ASSUME NEW p \in ProcsOf(f) PROVE \E k \in DOMAIN q : q[k] = p
  <2>1. CASE p = <<f, 0>>
    BY <2>1, <1>5, <1>8, <1>10
  <2>2. ASSUME NEW h \in S, p = <<f, h>> PROVE \E k \in DOMAIN q : q[k] = p
    BY <2>2, <1>5, <1>7, <1>10
  <2> QED BY <1>3, <2>1, <2>2
<1> QED BY <1>10, <1>11, <1>12, <1>13 DEF q

\* The loops of all functions.
AllLoops == UNION {{<<f, h>> : h \in DOMAIN loops[f]} : f \in DOMAIN mod}

\* There are finitely many loops.
LEMMA LoopsFinite ==
  ASSUME IsFiniteSet(DOMAIN mod), \A f \in DOMAIN mod : IsFiniteSet(DOMAIN loops[f])
  PROVE  IsFiniteSet(AllLoops)
<1> DEFINE Of(f) == {<<f, h>> : h \in DOMAIN loops[f]}
           D == DOMAIN mod
           T == {Of(f) : f \in D}
           g == [f \in D |-> Of(f)]
<1>1. ASSUME NEW f \in D PROVE IsFiniteSet(Of(f))
  <2> DEFINE A == {f}
             H == DOMAIN loops[f]
             P == A \X H
  <2>1. IsFiniteSet(A) /\ IsFiniteSet(H)
    BY FS_Singleton
  <2>2. Of(f) \in SUBSET P
    OBVIOUS
  <2> HIDE DEF A, H
  <2>3. IsFiniteSet(P)
    BY <2>1, FS_Product
  <2> HIDE DEF P, Of
  <2> QED BY <2>2, <2>3, FS_Subset
<1>2. g \in Surjection(D, T)
  <2> HIDE DEF Of
  <2> QED BY DEF Surjection
<1>3. AllLoops = UNION T
  BY DEF AllLoops
<1>4. \A x \in T : IsFiniteSet(x)
  <2> HIDE DEF Of
  <2> QED BY <1>1
<1>5. IsFiniteSet(D)
  OBVIOUS
<1> HIDE DEF D, T, g
<1>6. IsFiniteSet(T)
  BY <1>2, <1>5, FS_Surjection
<1> QED BY <1>3, <1>4, <1>6, FS_UNION

\* LoopsInPreorder lists the loops.
LEMMA LoopsFacts ==
  ASSUME AllLoops \in SUBSET (Nat \X Nat), IsFiniteSet(AllLoops)
  PROVE  LoopsInPreorder \in Seq(AllLoops)
<1> DEFINE S == AllLoops
           R == {p \in S \X S : Precedes(p[1], p[2])}
           m == Cardinality(S)
           Pick(n) == CHOOSE p \in S : Cardinality({q \in S : Precedes(q, p)}) = n - 1
<1>1. LoopsInPreorder = [n \in 1 .. m |-> Pick(n)]
  BY DEF LoopsInPreorder, AllLoops
<1>s. S \in SUBSET (Nat \X Nat) /\ IsFiniteSet(S)
  OBVIOUS
<1> HIDE DEF S
<1>2. \A x \in S : x[1] \in Nat /\ x[2] \in Nat /\ x = <<x[1], x[2]>>
  BY <1>s
<1>3. Orders(R, S) /\ \A x \in S : Before(S, R, x) = {y \in S : Precedes(y, x)}
  <2>1. \A x, y \in S : <<x, y>> \in R <=> Precedes(x, y)
    OBVIOUS
  <2> HIDE DEF R
  <2>2. \A x \in S : ~Precedes(x, x)
    BY <1>2 DEF Precedes
  <2>3. \A x, y \in S : x # y => Precedes(x, y) \/ Precedes(y, x)
    BY <1>2 DEF Precedes
  <2>4. \A x, y, z \in S : Precedes(x, y) /\ Precedes(y, z) => Precedes(x, z)
    BY <1>2 DEF Precedes
  <2> HIDE DEF m, Pick
  <2>5. Orders(R, S)
    BY ONLY <2>1, <2>2, <2>3, <2>4 DEF Orders
  <2> QED BY <2>1, <2>5 DEF Before
<1> HIDE DEF R
<1>4. m \in Nat /\ (\A n \in 1 .. m : Nth(S, R, n) \in S)
  BY <1>3, <1>s, NthFacts
<1>5. \A n : Nth(S, R, n) = Pick(n)
  BY <1>3 DEF Nth
<1> HIDE DEF m, Pick
<1>6. LoopsInPreorder = [n \in 1 .. m |-> Nth(S, R, n)]
  BY <1>1, <1>5
<1>7. LoopsInPreorder \in Seq(S)
  BY <1>4, <1>6
<1> QED BY <1>7 DEF S

-----------------------------------------------------------------------------
(* Loops *)

\* What is reached contains the start and stays where the edges go.
LEMMA ReachWithinIn ==
  ASSUME NEW S, NEW es, NEW k \in Nat, NEW T, S \subseteq T, \A e \in es : e.dst \in T
  PROVE  S \subseteq ReachWithin(S, es, k) /\ ReachWithin(S, es, k) \subseteq T
<1>1. PICK R : Spreads(R, S, es, k) /\ ReachWithin(S, es, k) = R[k]
  BY ReachIs
<1> DEFINE I == {i \in 0 .. k : S \subseteq R[i] /\ R[i] \subseteq T}
<1>2. 0 \in I
  BY <1>1 DEF Spreads
<1>3. ASSUME NEW i \in 0 .. k, i \in I, i < k PROVE i + 1 \in I
  <2>1. R[i + 1] = Wave(R[i], es)
    BY <1>1, <1>3 DEF Spreads
  <2> QED BY <1>3, <2>1 DEF Wave
<1>4. 0 .. k \subseteq I
  <2> HIDE DEF I
  <2> QED BY <1>2, <1>3, IntervalInduction
<1> QED BY <1>1, <1>4

\* A loop has its header and consists of blocks.
LEMMA LoopInfoFacts ==
  ASSUME NEW F, Len(F.blocks) \in Nat
  PROVE  \A h \in DOMAIN LoopInfo(F) : /\ h \in BlocksOf(F) /\ h \in LoopInfo(F)[h]
                                       /\ LoopInfo(F)[h] \subseteq BlocksOf(F)
<1> DEFINE Latches(h) == {e.src : e \in {e \in Flow(F) : e.dst = h /\ Dominates(F, h, e.src)}}
           Back(h) == Backwards({e \in Flow(F) : e.dst # h})
           H == {h \in BlocksOf(F) : Latches(h) # {}}
<1>1. LoopInfo(F) = [h \in H |-> ReachWithin({h} \cup Latches(h), Back(h), Len(F.blocks))]
  BY DEF LoopInfo
<1>2. ASSUME NEW h \in H
      PROVE  h \in ReachWithin({h} \cup Latches(h), Back(h), Len(F.blocks))
             /\ ReachWithin({h} \cup Latches(h), Back(h), Len(F.blocks)) \subseteq BlocksOf(F)
  <2> DEFINE S == {h} \cup Latches(h)
             E == Back(h)
  <2>0. \A e \in Flow(F) : e.src \in BlocksOf(F)
    BY DEF Flow
  <2>1. S \subseteq BlocksOf(F) /\ h \in S
    BY <2>0
  <2>2. \A e \in E : e.dst \in BlocksOf(F)
    BY <2>0 DEF Backwards
  <2> HIDE DEF S, E
  <2>3. S \subseteq ReachWithin(S, E, Len(F.blocks)) /\ ReachWithin(S, E, Len(F.blocks)) \subseteq BlocksOf(F)
    BY <2>1, <2>2, ReachWithinIn
  <2> QED BY <2>1, <2>3 DEF S, E
<1> HIDE DEF Latches, Back
<1>3. H \subseteq BlocksOf(F)
  OBVIOUS
<1> HIDE DEF H
<1> QED BY <1>1, <1>2, <1>3

-----------------------------------------------------------------------------
(* Functions, and the blocks that the canonization of loop exits adds *)

\* No block goes back to the entry block.
NoWayBack(F) == \A b \in BlocksOf(F) : \A i \in DOMAIN Succs(F, b) : Succs(F, b)[i] # 1

\* The instruction keeps everything but `from' and `succs'.
SameInst(d, e) ==
  DOMAIN d = DOMAIN e /\ d.kind = e.kind /\ d.def = e.def /\ d.ops = e.ops

\* G has the instructions of F in the same places and one more block, a jump;
\* its calls are those of F.
Extends(G, F) ==
  /\ DOMAIN G = DOMAIN F /\ G.args = F.args
  /\ Len(G.blocks) = Len(F.blocks) + 1 /\ DOMAIN G.blocks = 1 .. Len(F.blocks) + 1
  /\ \A k \in BlocksOf(F) :
       /\ Len(G.blocks[k]) = Len(F.blocks[k]) /\ DOMAIN G.blocks[k] = DOMAIN F.blocks[k]
       /\ \A n \in DOMAIN F.blocks[k] :
            /\ SameInst(G.blocks[k][n], F.blocks[k][n])
            /\ F.blocks[k][n].kind = "call" => G.blocks[k][n] = F.blocks[k][n]
  /\ LET new == Len(F.blocks) + 1
     IN  /\ Len(G.blocks[new]) = 1 /\ DOMAIN G.blocks[new] = {1}
         /\ {"kind", "def", "ops", "succs"} \subseteq DOMAIN G.blocks[new][1]
         /\ G.blocks[new][1].kind = "br" /\ G.blocks[new][1].def = NoName

\* The canonization only adds a block, and no way back to the entry block.
LEMMA ExitBlockExtends ==
  ASSUME NEW F, IsFunction(F), NoWayBack(F), NEW b \in BlocksOf(F), NEW i \in DOMAIN Succs(F, b)
  PROVE  Extends(WithExitBlock(F, b, i), F) /\ NoWayBack(WithExitBlock(F, b, i))
<1> DEFINE G == WithExitBlock(F, b, i)
           L == Len(F.blocks)
           new == L + 1
           target == Succs(F, b)[i]
           Redirected(inst) == [inst EXCEPT !.succs = [inst.succs EXCEPT ![i] = new]]
           Adjusted(phi) ==
             [phi EXCEPT !.from = [k \in DOMAIN phi.from |-> IF phi.from[k] = b THEN new ELSE phi.from[k]]]
           Changed(k, n) ==
             IF k = target /\ F.blocks[k][n].kind = "phi" THEN Adjusted(F.blocks[k][n])
             ELSE IF k = b /\ n = Len(F.blocks[k]) THEN Redirected(F.blocks[k][n])
             ELSE F.blocks[k][n]
           jump == [kind |-> "br", def |-> NoName, ops |-> <<>>, succs |-> <<target>>]
           bs == [k \in 1 .. new |->
                    IF k = new THEN <<jump>> ELSE [n \in DOMAIN F.blocks[k] |-> Changed(k, n)]]
<1>1. G = [F EXCEPT !.blocks = bs]
  BY DEF WithExitBlock
<1>2. /\ L \in Nat \ {0} /\ DOMAIN F.blocks = 1 .. L /\ {"args", "void", "blocks"} \subseteq DOMAIN F
      /\ \A k \in 1 .. L : Len(F.blocks[k]) \in Nat \ {0} /\ DOMAIN F.blocks[k] = 1 .. Len(F.blocks[k])
  BY DEF IsFunction, BlocksOf
<1>3. DOMAIN G = DOMAIN F /\ G.args = F.args /\ G.blocks = bs
  <2> HIDE DEF bs
  <2> QED BY <1>1, <1>2
<1>4. ASSUME NEW k \in 1 .. L, NEW n \in DOMAIN F.blocks[k]
      PROVE  SameInst(Changed(k, n), F.blocks[k][n]) /\ (F.blocks[k][n].kind = "call" => Changed(k, n) = F.blocks[k][n])
  <2> DEFINE d == F.blocks[k][n]
  <2>1. {"kind", "def", "ops"} \subseteq DOMAIN d
    BY <1>2, SMTT(60) DEF IsFunction, BlocksOf
  <2>2. k = b /\ n = Len(F.blocks[k]) => d.kind # "call"
    BY <1>2 DEF IsFunction, BlocksOf, Terminator, Terminators
  <2> HIDE DEF d
  <2>3. SameInst(Adjusted(d), d)
    BY <2>1 DEF SameInst
  <2>4. SameInst(Redirected(d), d)
    BY <2>1 DEF SameInst
  <2>5. SameInst(d, d)
    BY DEF SameInst
  <2>6. Changed(k, n) = (IF k = target /\ d.kind = "phi" THEN Adjusted(d)
                         ELSE IF k = b /\ n = Len(F.blocks[k]) THEN Redirected(d) ELSE d)
    BY DEF d
  <2> HIDE DEF Adjusted, Redirected, Changed, target
  <2>7. SameInst(Changed(k, n), d) /\ (d.kind = "call" => Changed(k, n) = d)
    BY <2>2, <2>3, <2>4, <2>5, <2>6
  <2> QED BY <2>7 DEF d
<1> HIDE DEF Changed
<1>5. DOMAIN bs = 1 .. L + 1 /\ Len(bs) = L + 1
  BY <1>2
<1>6. ASSUME NEW k \in 1 .. L
      PROVE  /\ bs[k] = [n \in DOMAIN F.blocks[k] |-> Changed(k, n)]
             /\ Len(bs[k]) = Len(F.blocks[k])
  <2>1. k \in 1 .. new /\ k # new
    BY <1>2
  <2>2. bs[k] = [n \in DOMAIN F.blocks[k] |-> Changed(k, n)]
    BY <2>1
  <2> HIDE DEF bs
  <2>3. Len(bs[k]) = Len(F.blocks[k])
    BY <1>2, <2>2
  <2> QED BY <2>2, <2>3
<1>7. bs[new] = <<jump>>
  BY <1>2
<1> HIDE DEF bs
<1>8. Len(bs[new]) = 1 /\ DOMAIN bs[new] = {1} /\ bs[new][1] = jump
  BY <1>7
<1>9. /\ {"kind", "def", "ops", "succs"} \subseteq DOMAIN jump
      /\ jump.kind = "br" /\ jump.def = NoName
  OBVIOUS
<1> HIDE DEF jump, G
<1>10. ASSUME NEW k \in BlocksOf(F)
       PROVE  /\ Len(G.blocks[k]) = Len(F.blocks[k]) /\ DOMAIN G.blocks[k] = DOMAIN F.blocks[k]
              /\ \A n \in DOMAIN F.blocks[k] :
                   /\ G.blocks[k][n] = Changed(k, n)
                   /\ SameInst(G.blocks[k][n], F.blocks[k][n])
                   /\ F.blocks[k][n].kind = "call" => G.blocks[k][n] = F.blocks[k][n]
  <2>1. k \in 1 .. L
    BY <1>2 DEF BlocksOf
  <2>2. G.blocks[k] = [n \in DOMAIN F.blocks[k] |-> Changed(k, n)] /\ Len(G.blocks[k]) = Len(F.blocks[k])
    BY <2>1, <1>3, <1>6
  <2>3. \A n \in DOMAIN F.blocks[k] : G.blocks[k][n] = Changed(k, n)
    BY <2>2
  <2> QED BY <2>1, <2>2, <2>3, <1>4
<1>11. /\ Len(G.blocks[new]) = 1 /\ DOMAIN G.blocks[new] = {1} /\ G.blocks[new][1] = jump
  BY <1>3, <1>8
<1>12. Extends(G, F)
  BY <1>3, <1>5, <1>9, <1>10, <1>11 DEF Extends
<1>13. NoWayBack(G)
  <2>1. ASSUME NEW k \in BlocksOf(F), NEW j \in DOMAIN Succs(G, k) PROVE Succs(G, k)[j] # 1
    <3> DEFINE n == Len(F.blocks[k])
               d == F.blocks[k][n]
    <3>1. n \in DOMAIN F.blocks[k] /\ d = Terminator(F, k) /\ d.succs = Succs(F, k)
      BY <1>2 DEF Terminator, BlocksOf, Succs
    <3>2. d.kind # "phi" /\ "succs" \in DOMAIN d
      BY <3>1, <1>2 DEF IsFunction, BlocksOf, Terminators
    <3>3. Succs(G, k) = Changed(k, n).succs
      BY <3>1, <1>10 DEF Succs, Terminator
    <3>4. Changed(k, n) = (IF k = b THEN Redirected(d) ELSE d)
      BY <3>2 DEF Changed
    <3> HIDE DEF d
    <3>5. Redirected(d).succs = [d.succs EXCEPT ![i] = new]
      BY <3>2
    <3>6. new # 1
      BY <1>2
    <3> HIDE DEF Redirected, new, n
    <3>7. \A l \in DOMAIN d.succs : d.succs[l] # 1
      BY <3>1 DEF NoWayBack
    <3> QED BY <3>3, <3>4, <3>5, <3>6, <3>7, <2>1
  <2>2. ASSUME NEW j \in DOMAIN Succs(G, new) PROVE Succs(G, new)[j] # 1
    <3>1. Succs(G, new) = <<target>>
      BY <1>11 DEF Succs, Terminator, jump
    <3>2. target # 1
      BY DEF NoWayBack
    <3> HIDE DEF target
    <3> QED BY <3>1, <3>2, <2>2
  <2>3. \A k \in BlocksOf(G) : k \in BlocksOf(F) \/ k = new
    BY <1>2, <1>3, <1>5 DEF BlocksOf
  <2> HIDE DEF new
  <2> QED BY <2>1, <2>2, <2>3 DEF NoWayBack
<1> QED BY <1>12, <1>13 DEF G

\* What LLVM's verifier guarantees is preserved.
LEMMA ExtendsFunction ==
  ASSUME NEW G, NEW F, IsFunction(F), Extends(G, F)
  PROVE  IsFunction(G)
<1> DEFINE L == Len(F.blocks)
           new == L + 1
<1>1. /\ L \in Nat \ {0} /\ BlocksOf(F) = 1 .. L /\ {"args", "void", "blocks"} \subseteq DOMAIN F
      /\ \A j, k \in DOMAIN F.args : F.args[j] = F.args[k] => j = k
  BY DEF IsFunction, BlocksOf
<1>2. /\ DOMAIN G = DOMAIN F /\ Args(G) = Args(F) /\ G.args = F.args
      /\ Len(G.blocks) = new /\ BlocksOf(G) = 1 .. new
      /\ \A b \in BlocksOf(G) : b \in BlocksOf(F) \/ b = new
  BY <1>1 DEF Extends, Args, BlocksOf
<1>3. ASSUME NEW b \in BlocksOf(F)
      PROVE  /\ Len(F.blocks[b]) \in Nat \ {0} /\ DOMAIN F.blocks[b] = 1 .. Len(F.blocks[b])
             /\ Len(G.blocks[b]) = Len(F.blocks[b]) /\ DOMAIN G.blocks[b] = DOMAIN F.blocks[b]
  BY DEF IsFunction, Extends
<1>4. ASSUME NEW b \in BlocksOf(F), NEW i \in DOMAIN F.blocks[b]
      PROVE  /\ {"kind", "def", "ops"} \subseteq DOMAIN F.blocks[b][i]
             /\ SameInst(G.blocks[b][i], F.blocks[b][i])
             /\ F.blocks[b][i].kind = "phi" => F.blocks[b][i].def # NoName
             /\ F.blocks[b][i].def # NoName => F.blocks[b][i].def \notin Args(F)
  BY DEF IsFunction, Extends
<1>5. /\ Len(G.blocks[new]) = 1 /\ DOMAIN G.blocks[new] = {1}
      /\ {"kind", "def", "ops", "succs"} \subseteq DOMAIN G.blocks[new][1]
      /\ G.blocks[new][1].kind = "br" /\ G.blocks[new][1].def = NoName
  BY DEF Extends
<1> HIDE DEF new
<1>6. ASSUME NEW b \in BlocksOf(G)
      PROVE  /\ Len(G.blocks[b]) \in Nat \ {0} /\ DOMAIN G.blocks[b] = 1 .. Len(G.blocks[b])
             /\ Terminator(G, b).kind \in Terminators /\ "succs" \in DOMAIN Terminator(G, b)
  <2>1. CASE b = new
    BY <2>1, <1>5 DEF Terminator, Terminators
  <2>2. CASE b \in BlocksOf(F)
    <3>1. Terminator(F, b).kind \in Terminators /\ "succs" \in DOMAIN Terminator(F, b)
      BY <2>2 DEF IsFunction
    <3>2. SameInst(Terminator(G, b), Terminator(F, b))
      BY <2>2, <1>3, <1>4 DEF Terminator
    <3> QED BY <2>2, <3>1, <3>2, <1>3 DEF SameInst
  <2> QED BY <1>2, <2>1, <2>2
<1>7. ASSUME NEW b \in BlocksOf(G), NEW i \in DOMAIN G.blocks[b]
      PROVE  /\ {"kind", "def", "ops"} \subseteq DOMAIN G.blocks[b][i]
             /\ G.blocks[b][i].kind = "phi" => G.blocks[b][i].def # NoName
             /\ G.blocks[b][i].def # NoName =>
                  /\ G.blocks[b][i].def \notin Args(G)
                  /\ b \in BlocksOf(F) /\ i \in DOMAIN F.blocks[b] /\ F.blocks[b][i].def = G.blocks[b][i].def
  <2>1. CASE b = new
    BY <2>1, <1>5, <1>7
  <2>2. CASE b \in BlocksOf(F)
    BY <2>2, <1>2, <1>3, <1>4, <1>7 DEF SameInst
  <2> QED BY <1>2, <2>1, <2>2
<1>8. ASSUME NEW b \in BlocksOf(G), NEW c \in BlocksOf(G), NEW i \in DOMAIN G.blocks[b], NEW j \in DOMAIN G.blocks[c],
             G.blocks[b][i].def = G.blocks[c][j].def /\ G.blocks[b][i].def # NoName
      PROVE  b = c /\ i = j
  <2>1. /\ b \in BlocksOf(F) /\ i \in DOMAIN F.blocks[b] /\ F.blocks[b][i].def = G.blocks[b][i].def
        /\ c \in BlocksOf(F) /\ j \in DOMAIN F.blocks[c] /\ F.blocks[c][j].def = G.blocks[c][j].def
    BY <1>7, <1>8
  <2> QED BY <2>1, <1>8 DEF IsFunction
<1>9. Len(G.blocks) \in Nat \ {0} /\ DOMAIN G.blocks = 1 .. Len(G.blocks)
  BY <1>1, <1>2 DEF new, BlocksOf
<1> QED BY <1>1, <1>2, <1>6, <1>7, <1>8, <1>9 DEF IsFunction

-----------------------------------------------------------------------------
(* The module and its loops *)

\* The loops of a function have their headers and consist of its blocks.
LoopsInv(l, m) ==
  /\ DOMAIN l = DOMAIN m
  /\ \A f \in DOMAIN m : \A h \in DOMAIN l[f] :
       h \in BlocksOf(m[f]) /\ h \in l[f][h] /\ l[f][h] \subseteq BlocksOf(m[f])

\* The module is verified, simplified as far as the entry block goes, and its
\* loops are loops.
ProgInv ==
  IsVerified(mod) /\ (\A f \in DOMAIN mod : NoWayBack(mod[f])) /\ LoopsInv(loops, mod)

\* Functions, headers and loops are finitely many positive numbers and pairs.
LEMMA ProgFacts ==
  ASSUME ProgInv
  PROVE  /\ DOMAIN mod \in SUBSET (Nat \ {0}) /\ IsFiniteSet(DOMAIN mod)
         /\ \A f \in DOMAIN mod : DOMAIN loops[f] \in SUBSET (Nat \ {0}) /\ IsFiniteSet(DOMAIN loops[f])
         /\ AllLoops \in SUBSET (Nat \X Nat) /\ IsFiniteSet(AllLoops)
<1>1. Len(mod) \in Nat \ {0} /\ DOMAIN mod = 1 .. Len(mod)
  BY DEF ProgInv, IsVerified
<1>2. IsFiniteSet(DOMAIN mod)
  <2>1. IsFiniteSet(1 .. Len(mod))
    BY <1>1, FS_Interval
  <2> QED BY <1>1, <2>1
<1>3. ASSUME NEW f \in DOMAIN mod
      PROVE  DOMAIN loops[f] \in SUBSET (Nat \ {0}) /\ IsFiniteSet(DOMAIN loops[f])
  <2> DEFINE L == Len(mod[f].blocks)
             B == 1 .. L
             H == DOMAIN loops[f]
  <2>1. L \in Nat \ {0} /\ BlocksOf(mod[f]) = B
    BY DEF ProgInv, IsVerified, IsFunction, BlocksOf
  <2>2. H \in SUBSET B
    BY <2>1 DEF ProgInv, LoopsInv
  <2>3. IsFiniteSet(B)
    <3> HIDE DEF L
    <3> QED BY <2>1, FS_Interval
  <2>4. B \in SUBSET (Nat \ {0})
    BY <2>1
  <2> HIDE DEF B
  <2>5. IsFiniteSet(H)
    <3> HIDE DEF H
    <3> QED BY <2>2, <2>3, FS_Subset
  <2> QED BY <2>2, <2>4, <2>5
<1>4. AllLoops \in SUBSET (Nat \X Nat)
  BY <1>1, <1>3 DEF AllLoops
<1>5. IsFiniteSet(AllLoops)
  BY <1>2, <1>3, LoopsFinite
<1> QED BY <1>1, <1>2, <1>3, <1>4, <1>5

\* LoopInfo finds loops.
LEMMA LoopsAnalyzed ==
  ASSUME NEW m, IsVerified(m)
  PROVE  LoopsInv([f \in DOMAIN m |-> LoopInfo(m[f])], m)
<1> DEFINE l == [f \in DOMAIN m |-> LoopInfo(m[f])]
<1>1. ASSUME NEW f \in DOMAIN m, NEW h \in DOMAIN l[f]
      PROVE  h \in BlocksOf(m[f]) /\ h \in l[f][h] /\ l[f][h] \subseteq BlocksOf(m[f])
  <2> DEFINE F == m[f]
  <2>1. Len(F.blocks) \in Nat
    BY DEF IsVerified, IsFunction
  <2>2. l[f] = LoopInfo(F)
    OBVIOUS
  <2> HIDE DEF F, l
  <2>3. \A g \in DOMAIN LoopInfo(F) : /\ g \in BlocksOf(F) /\ g \in LoopInfo(F)[g]
                                     /\ LoopInfo(F)[g] \subseteq BlocksOf(F)
    BY <2>1, LoopInfoFacts
  <2> QED BY <1>1, <2>2, <2>3 DEF F
<1>2. DOMAIN l = DOMAIN m
  OBVIOUS
<1> HIDE DEF l
<1>3. LoopsInv(l, m)
  BY <1>1, <1>2 DEF LoopsInv
<1> QED BY <1>3 DEF l

\* The passes hand over such modules.
LEMMA InitProg ==
  ASSUME Init
  PROVE  ProgInv /\ declare \in Seq(AllLoops)
<1>1. mod \in Modules /\ loops = [f \in DOMAIN mod |-> LoopInfo(mod[f])] /\ declare = LoopsInPreorder
  BY DEF Init
<1>2. IsVerified(mod) /\ \A f \in DOMAIN mod : IsSimplified(mod[f])
  BY <1>1, ModulesAssumption
<1>3. ASSUME NEW f \in DOMAIN mod PROVE NoWayBack(mod[f])
  <2> DEFINE F == mod[f]
  <2>1. \A e \in Flow(F) : e.dst # 1
    BY <1>2 DEF IsSimplified
  <2>2. 1 \in BlocksOf(F)
    BY <1>2 DEF IsVerified, IsFunction, BlocksOf
  <2> HIDE DEF F
  <2>3. ASSUME NEW b \in BlocksOf(F), NEW i \in DOMAIN Succs(F, b), Succs(F, b)[i] = 1 PROVE FALSE
    <3> DEFINE e == [src |-> b, dst |-> 1]
    <3>1. e \in Flow(F)
      BY <2>2, <2>3 DEF Flow
    <3> QED BY <2>1, <3>1
  <2>4. NoWayBack(F)
    BY <2>3 DEF NoWayBack
  <2> QED BY <2>4 DEF F
<1>4. LoopsInv(loops, mod)
  BY <1>1, <1>2, LoopsAnalyzed
<1>5. ProgInv
  BY <1>2, <1>3, <1>4 DEF ProgInv
<1>6. LoopsInPreorder \in Seq(AllLoops)
  BY <1>5, ProgFacts, LoopsFacts
<1> QED BY <1>1, <1>5, <1>6

\* The canonization keeps the module verified and the loops loops.
LEMMA CanonizeExitProg ==
  ASSUME ProgInv, declare \in Seq(AllLoops), CanonizeExit
  PROVE  ProgInv' /\ declare' \in Seq(AllLoops')
<1> DEFINE p == Head(declare)
           f == p[1]
           h == p[2]
           F == mod[f]
           new == Len(F.blocks) + 1
<1>1. PICK s \in DeepExits(p) : mod' = [mod EXCEPT ![f] = WithExitBlock(F, s[1], s[2])]
  BY DEF CanonizeExit
<1>2. f \in DOMAIN mod /\ h \in DOMAIN loops[f] /\ p = <<f, h>>
  <2>1. p \in AllLoops
    BY DEF CanonizeExit
  <2> QED BY <2>1 DEF AllLoops
<1>3. h # 0 /\ IsFunction(F) /\ NoWayBack(F) /\ loops[f][h] \subseteq BlocksOf(F)
  BY <1>2, ProgFacts DEF ProgInv, IsVerified, LoopsInv
<1> HIDE DEF F
<1>4. PICK b \in BlocksOf(F) : \E i \in DOMAIN Succs(F, b) : s = <<b, i>>
  <2>1. s \in ExitSites(p)
    BY DEF DeepExits
  <2>2. Region(p) = loops[f][h]
    BY <1>2, <1>3 DEF Region
  <2>3. \E b \in Region(p) : \E i \in DOMAIN Succs(F, b) : s = <<b, i>>
    BY <2>1 DEF ExitSites, F
  <2> HIDE DEF p, f, h
  <2> QED BY <2>2, <2>3, <1>3
<1>i. PICK i \in DOMAIN Succs(F, b) : s = <<b, i>>
  BY <1>4
<1> DEFINE G == WithExitBlock(F, b, i)
<1>5. mod' = [mod EXCEPT ![f] = G]
  BY <1>1, <1>i
<1>6. Extends(G, F) /\ NoWayBack(G)
  BY <1>3, ExitBlockExtends
<1>7. IsFunction(G)
  <2> HIDE DEF G
  <2> QED BY <1>3, <1>6, ExtendsFunction
<1>8. loops' = [loops EXCEPT ![f] = [g \in DOMAIN loops[f] |->
                  IF ParentLoop(f, h) \in loops[f][g] THEN loops[f][g] \cup {new} ELSE loops[f][g]]]
  BY DEF CanonizeExit, F
<1>m. mod[f] = F
  BY DEF F
<1>u. declare' = declare
  BY DEF CanonizeExit, declVars
<1> HIDE DEF p, f, h, G
<1>9. Len(mod) \in Nat \ {0} /\ DOMAIN mod = 1 .. Len(mod) /\ DOMAIN loops = DOMAIN mod
  BY DEF ProgInv, IsVerified, LoopsInv
<1>10. /\ DOMAIN mod' = DOMAIN mod /\ Len(mod') = Len(mod) /\ mod'[f] = G
       /\ \A g \in DOMAIN mod : g # f => mod'[g] = mod[g]
  BY <1>2, <1>5, <1>9
<1>11. \A g \in DOMAIN mod : mod'[g].args = mod[g].args
  BY <1>6, <1>10, <1>m DEF Extends
<1>12. /\ \A g \in DOMAIN mod : IsFunction(mod[g]) /\ CallsFit(mod, mod[g]) /\ NoWayBack(mod[g])
       /\ \A g \in DOMAIN mod : \A k \in DOMAIN loops[g] :
            k \in BlocksOf(mod[g]) /\ k \in loops[g][k] /\ loops[g][k] \subseteq BlocksOf(mod[g])
  BY DEF ProgInv, IsVerified, LoopsInv
<1>13. ASSUME NEW g \in DOMAIN mod PROVE CallsFit(mod', mod'[g])
  <2>1. CASE g # f
    <3>1. mod'[g] = mod[g]
      BY <2>1, <1>10
    <3> QED BY <3>1, <1>10, <1>11, <1>12 DEF CallsFit
  <2>2. CASE g = f
    <3>1. ASSUME NEW c \in BlocksOf(G), NEW n \in DOMAIN G.blocks[c], G.blocks[c][n].kind = "call"
          PROVE  c \in BlocksOf(F) /\ n \in DOMAIN F.blocks[c] /\ G.blocks[c][n] = F.blocks[c][n]
      <4>1. c # new
        BY <3>1, <1>6 DEF Extends
      <4>2. c \in BlocksOf(F)
        BY <4>1, <1>3, <1>6 DEF Extends, BlocksOf, IsFunction
      <4> QED BY <3>1, <4>2, <1>6 DEF Extends, SameInst
    <3>2. CallsFit(mod, F)
      BY <1>2, <1>12, <1>m
    <3>3. CallsFit(mod', G)
      BY <3>1, <3>2, <1>10, <1>11, SMTT(60) DEF CallsFit
    <3> QED BY <2>2, <3>3, <1>10
  <2> QED BY <2>1, <2>2
<1>14. IsVerified(mod')
  BY <1>7, <1>9, <1>10, <1>12, <1>13 DEF IsVerified
<1>15. \A g \in DOMAIN mod' : NoWayBack(mod'[g])
  BY <1>6, <1>10, <1>12
<1>16. BlocksOf(F) \subseteq BlocksOf(G) /\ new \in BlocksOf(G)
  BY <1>3, <1>6 DEF Extends, BlocksOf, IsFunction
<1> HIDE DEF new
<1>17. /\ DOMAIN loops' = DOMAIN mod' /\ (\A g \in DOMAIN mod : DOMAIN loops'[g] = DOMAIN loops[g])
       /\ \A g \in DOMAIN mod : g # f => loops'[g] = loops[g]
       /\ \A k \in DOMAIN loops[f] : loops[f][k] \subseteq loops'[f][k] /\ loops'[f][k] \subseteq loops[f][k] \cup {new}
  BY <1>2, <1>8, <1>9, <1>10
<1>18. LoopsInv(loops', mod')
  BY <1>10, <1>12, <1>16, <1>17, <1>m DEF LoopsInv
<1>19. AllLoops' = AllLoops
  BY <1>10, <1>17 DEF AllLoops
<1>20. declare' \in Seq(AllLoops')
  BY <1>19, <1>u
<1> QED BY <1>14, <1>15, <1>18, <1>20 DEF ProgInv

-----------------------------------------------------------------------------
(* Declarations *)

\* What callers rely on in the declaration i of procedure p.
Interface(p, i) ==
  LET F == mod[p[1]]
  IN  /\ i.blocks \in Seq(BlocksOf(F))
      /\ p[2] = 0 => /\ i.inputs = Args(F) /\ i.phiInputs = {} /\ i.outputs = {}
                     /\ i.extra = {v \in {RetVal} : ~F.void}
      /\ p[2] # 0 => /\ \A x \in i.inputs : DefinedInCaller(F, x, loops[p[1]][p[2]])
                     /\ i.phiInputs = PhiDefs(F, p[2])
                     /\ i.extra \subseteq {Selector(0)}

\* Every declared procedure is one of the module, with such an interface, and
\* has an automaton.
InfoInv ==
  /\ \A p \in DOMAIN info : /\ \E f \in DOMAIN mod : p \in ProcsOf(f)
                           /\ Interface(p, info[p])
  /\ DOMAIN cfa = DOMAIN info
  /\ \A p \in DOMAIN cfa : {"next", "locs", "edges", "vars"} \subseteq DOMAIN cfa[p]

NoEdges == \A p \in DOMAIN cfa : cfa[p].edges = {}

\* The procedures of function f are being declared: what is left to declare of
\* them ends with the function, and the other ones are declared.
Declaring(f) ==
  /\ declare \in Seq(ProcsOf(f)) /\ declare # <<>>
  /\ \A k \in DOMAIN declare : declare[k][2] = 0 <=> k = Len(declare)
  /\ \A p \in ProcsOf(f) : p \in DOMAIN info \/ \E k \in DOMAIN declare : declare[k] = p
  /\ \A g \in DOMAIN mod : g < f => ProcsOf(g) \subseteq DOMAIN info

AllDeclared == \A f \in DOMAIN mod : ProcsOf(f) \subseteq DOMAIN info

\* A new declaration.
LEMMA DeclareOne ==
  ASSUME InfoInv, NoEdges, NEW f \in DOMAIN mod, NEW p \in ProcsOf(f), NEW i, Interface(p, i),
         NEW F, NEW bs, NEW vs,
         info' = Extended(info, p, i), cfa' = Extended(cfa, p, NewCfa(F, bs, vs)),
         mod' = mod, loops' = loops
  PROVE  InfoInv' /\ NoEdges' /\ DOMAIN info' = DOMAIN info \cup {p}
<1> DEFINE c == NewCfa(F, bs, vs)
<1>1. c.edges = {} /\ {"next", "locs", "edges", "vars"} \subseteq DOMAIN c
  BY DEF NewCfa
<1> HIDE DEF c
<1>2. /\ DOMAIN info' = DOMAIN info \cup {p} /\ info'[p] = i
      /\ \A q \in DOMAIN info : q # p => info'[q] = info[q]
  BY DEF Extended
<1>3. /\ DOMAIN cfa' = DOMAIN cfa \cup {p} /\ cfa'[p] = c
      /\ \A q \in DOMAIN cfa : q # p => cfa'[q] = cfa[q]
  BY DEF Extended, c
<1>4. ASSUME NEW q \in DOMAIN info'
      PROVE  (\E g \in DOMAIN mod' : q \in ProcsOf(g)') /\ Interface(q, info[q])'
  <2>1. CASE q = p
    <3>1. Interface(p, i)' /\ ProcsOf(f)' = ProcsOf(f)
      BY DEF Interface, ProcsOf, Args, BlocksOf, PhiDefs, Phis, DefinedInCaller, DefsIn
    <3> QED BY <2>1, <3>1, <1>2, SMTT(60)
  <2>2. CASE q # p
    <3>1. q \in DOMAIN info /\ info'[q] = info[q]
      BY <2>2, <1>2
    <3>2. PICK g \in DOMAIN mod : q \in ProcsOf(g)
      BY <3>1 DEF InfoInv
    <3>3. Interface(q, info[q])
      BY <3>1 DEF InfoInv
    <3>4. Interface(q, info[q])'
      BY <3>1, <3>3 DEF Interface
    <3> QED BY <3>2, <3>4 DEF ProcsOf
  <2> QED BY <2>1, <2>2
<1>5. DOMAIN cfa' = DOMAIN info'
  BY <1>2, <1>3 DEF InfoInv
<1>6. \A q \in DOMAIN cfa' : {"next", "locs", "edges", "vars"} \subseteq DOMAIN cfa'[q] /\ cfa'[q].edges = {}
  BY <1>1, <1>3 DEF InfoInv, NoEdges
<1> QED BY <1>2, <1>4, <1>5, <1>6 DEF InfoInv, NoEdges

\* The blocks that are listed for a procedure are blocks of its function.
LEMMA OwnBlocksListed ==
  ASSUME ProgInv, NEW f \in DOMAIN mod, NEW S \in SUBSET BlocksOf(mod[f])
  PROVE  Ascending(S) \in Seq(BlocksOf(mod[f]))
<1> DEFINE L == Len(mod[f].blocks)
           B == 1 .. L
<1>1. L \in Nat /\ BlocksOf(mod[f]) = B
  BY DEF ProgInv, IsVerified, IsFunction, BlocksOf
<1>2. IsFiniteSet(B)
  <2> HIDE DEF L
  <2> QED BY <1>1, FS_Interval
<1>3. B \in SUBSET Nat /\ S \in SUBSET B
  BY <1>1
<1> HIDE DEF B
<1>4. IsFiniteSet(S)
  BY <1>2, <1>3, FS_Subset
<1>5. Ascending(S) \in Seq(S)
  BY <1>3, <1>4, AscendingFacts
<1> QED BY <1>5, SeqOver

\* A loop is declared with what its callers rely on.
LEMMA DeclareLoopStep ==
  ASSUME ProgInv, InfoInv, NoEdges, NEW f \in DOMAIN mod, Declaring(f), DeclareLoop
  PROVE  ProgInv' /\ InfoInv' /\ NoEdges' /\ Declaring(f)'
<1>p. PICK p : p = Head(declare)
  OBVIOUS
<1> DEFINE F == mod[p[1]]
           h == p[2]
           region == loops[p[1]][h]
           own == region \ visited
           defs == UNION {DefsIn(F, b) : b \in region} \ PhiDefs(F, h)
           locals == {x \in defs : \/ \E b \in own : x \in DefsIn(F, b)
                                   \/ UsesIn(F, own, x) # {}}
           outputs == {x \in defs \cup PhiDefs(F, h) : UsesIn(F, BlocksOf(F) \ region, x) # {}}
           new == [inputs |-> {x \in ReadsIn(F, region, h) : DefinedInCaller(F, x, region)},
                   phiInputs |-> PhiDefs(F, h),
                   locals |-> locals, outputs |-> outputs,
                   extra |-> {v \in {Selector(0)} : Len(ExitEdges(p)) # 1},
                   exits |-> ExitEdges(p), blocks |-> Ascending(own)]
<1>1. /\ h # 0 /\ info' = Extended(info, p, new)
      /\ cfa' = Extended(cfa, p, NewCfa(F, new.blocks, VarsOf(new)))
      /\ declare' = Tail(declare) /\ mod' = mod /\ loops' = loops
  BY <1>p, ZenonT(60) DEF DeclareLoop, progVars
<1>2. p \in ProcsOf(f) /\ p[1] = f
  BY <1>p DEF Declaring, ProcsOf
<1>3. own \in SUBSET BlocksOf(mod[f])
  <2>1. h \in DOMAIN loops[f]
    BY <1>1, <1>2 DEF ProcsOf
  <2> QED BY <2>1, <1>2 DEF ProgInv, LoopsInv
<1>4. Ascending(own) \in Seq(BlocksOf(F))
  <2> HIDE DEF own
  <2>1. Ascending(own) \in Seq(BlocksOf(mod[f]))
    BY <1>3, OwnBlocksListed
  <2> QED BY <1>2, <2>1
<1>5. /\ new.blocks = Ascending(own) /\ new.phiInputs = PhiDefs(F, h)
      /\ \A x \in new.inputs : DefinedInCaller(F, x, region)
      /\ new.extra \subseteq {Selector(0)}
  <2> HIDE DEF own, F, region, locals, outputs, h
  <2> QED OBVIOUS
<1> HIDE DEF new, own
<1>6. Interface(p, new)
  BY <1>1, <1>4, <1>5 DEF Interface
<1>7. PICK i : i = new
  OBVIOUS
<1>8. PICK G, bs, vs : cfa' = Extended(cfa, p, NewCfa(G, bs, vs))
  BY <1>1
<1>9. InfoInv' /\ NoEdges' /\ DOMAIN info' = DOMAIN info \cup {p}
  <2>1. Interface(p, i) /\ info' = Extended(info, p, i)
    BY <1>1, <1>6, <1>7
  <2> HIDE DEF F, h, region, locals, outputs
  <2> QED BY ONLY <2>1, <1>1, <1>2, <1>8, InfoInv, NoEdges, f \in DOMAIN mod, DeclareOne, ZenonT(60)
<1>10. ProgInv'
  BY <1>1 DEF ProgInv
<1>11. Declaring(f)'
  <2>1. ProcsOf(f)' = ProcsOf(f) /\ \A g : ProcsOf(g)' = ProcsOf(g)
    BY <1>1 DEF ProcsOf
  <2>2. declare \in Seq(ProcsOf(f)) /\ declare # <<>> /\ declare[1] = p /\ 1 \in DOMAIN declare
    BY <1>p DEF Declaring
  <2>3. Len(declare) # 1
    BY <1>1, <2>2 DEF Declaring
  <2>4. /\ declare' \in Seq(ProcsOf(f)) /\ declare' # <<>> /\ Len(declare') = Len(declare) - 1
        /\ \A k \in DOMAIN declare' : k + 1 \in DOMAIN declare /\ declare'[k] = declare[k + 1]
        /\ \A k \in DOMAIN declare : k # 1 => k - 1 \in DOMAIN declare' /\ declare'[k - 1] = declare[k]
    <3> DEFINE t == Tail(declare)
               n == Len(declare)
    <3>1. /\ t \in Seq(ProcsOf(f)) /\ Len(t) = n - 1 /\ DOMAIN t = 1 .. n - 1
          /\ n \in Nat \ {0} /\ DOMAIN declare = 1 .. n
          /\ \A k \in 1 .. n - 1 : t[k] = declare[k + 1]
      BY <2>2, TailFacts
    <3>2. declare' = t
      BY <1>1
    <3> HIDE DEF t, n
    <3>3. n # 1
      BY <2>3 DEF n
    <3>4. t # <<>>
      BY <3>1, <3>3
    <3>5. /\ \A k \in DOMAIN t : k + 1 \in DOMAIN declare /\ t[k] = declare[k + 1]
          /\ \A k \in DOMAIN declare : k # 1 => k - 1 \in DOMAIN t /\ t[k - 1] = declare[k]
      BY <3>1
    <3>6. Len(t) = Len(declare) - 1
      BY <3>1 DEF n
    <3> QED BY <3>1, <3>2, <3>4, <3>5, <3>6
  <2>5. \A k \in DOMAIN declare' : declare'[k][2] = 0 <=> k = Len(declare')
    BY <2>2, <2>4 DEF Declaring
  <2>6. \A q \in ProcsOf(f) : q \in DOMAIN info' \/ \E k \in DOMAIN declare' : declare'[k] = q
    <3> TAKE q \in ProcsOf(f)
    <3>1. CASE q \in DOMAIN info
      BY <3>1, <1>9
    <3>2. ASSUME NEW k \in DOMAIN declare, declare[k] = q PROVE q = p \/ \E j \in DOMAIN declare' : declare'[j] = q
      BY <3>2, <2>2, <2>4
    <3> QED BY <3>1, <3>2, <1>9 DEF Declaring
  <2>7. \A g \in DOMAIN mod' : g < f => ProcsOf(g)' \subseteq DOMAIN info'
    BY <2>1, <1>1, <1>9 DEF Declaring
  <2> QED BY <2>1, <2>4, <2>5, <2>6, <2>7 DEF Declaring
<1> QED BY <1>9, <1>10, <1>11

\* Procedures starts the declarations of a function.
Listed(f) ==
  /\ Procedures(f) \in Seq(ProcsOf(f)) /\ Procedures(f) # <<>>
  /\ \A k \in DOMAIN Procedures(f) : Procedures(f)[k][2] = 0 <=> k = Len(Procedures(f))
  /\ \A p \in ProcsOf(f) : \E k \in DOMAIN Procedures(f) : Procedures(f)[k] = p

LEMMA AllListed == ProgInv => \A f \in DOMAIN mod : Listed(f)
<1> SUFFICES ASSUME ProgInv, NEW f \in DOMAIN mod PROVE Listed(f)
  OBVIOUS
<1>1. DOMAIN loops[f] \in SUBSET (Nat \ {0}) /\ IsFiniteSet(DOMAIN loops[f])
  BY ProgFacts
<1> QED BY <1>1, ProceduresFacts DEF Listed

\* A function is declared last, with what its callers rely on.
LEMMA DeclareFunctionStep ==
  ASSUME ProgInv, InfoInv, NoEdges, NEW f \in DOMAIN mod, Declaring(f), DeclareFunction
  PROVE  /\ ProgInv' /\ InfoInv' /\ NoEdges'
         /\ \/ pc' = pc /\ \E g \in DOMAIN mod' : Declaring(g)'
            \/ pc' = "encode" /\ AllDeclared' /\ left' = DOMAIN info'
<1>p. PICK p : p = Head(declare)
  OBVIOUS
<1> DEFINE q == Head(declare)[1]
           F == mod[q]
           own == BlocksOf(F) \ visited
           OfLoop(b, x) == LoopFor(q, b) # 0 /\ x \in info[<<q, LoopFor(q, b)>>].outputs
           locals == UNION {{x \in DefsIn(F, b) : \/ LoopFor(q, b) = 0
                                                  \/ OfLoop(b, x)
                                                  \/ UsesIn(F, own, x) # {}} : b \in BlocksOf(F)}
           new == [inputs |-> Args(F), phiInputs |-> {}, locals |-> locals, outputs |-> {},
                   extra |-> {v \in {RetVal} : ~F.void},
                   exits |-> <<>>, blocks |-> Ascending(own)]
<1>1. /\ p[2] = 0 /\ info' = Extended(info, p, new)
      /\ cfa' = Extended(cfa, p, NewCfa(F, new.blocks, VarsOf(new)))
      /\ mod' = mod /\ loops' = loops
      /\ IF p[1] = Len(mod)
         THEN /\ declare' = <<>> /\ pc' = "encode"
              /\ left' = DOMAIN info'
         ELSE declare' = Procedures(p[1] + 1) /\ pc' = pc
  <2>1. p[2] = 0 /\ mod' = mod /\ loops' = loops
    BY <1>p DEF DeclareFunction, progVars
  <2>2. /\ info' = Extended(info, Head(declare), new)
        /\ cfa' = Extended(cfa, Head(declare), NewCfa(F, new.blocks, VarsOf(new)))
    BY ZenonT(30) DEF DeclareFunction
  <2>3. IF p[1] = Len(mod)
        THEN declare' = <<>> /\ pc' = "encode" /\ left' = DOMAIN info'
        ELSE declare' = Procedures(p[1] + 1) /\ UNCHANGED <<pc, left>>
    BY <1>p, ZenonT(30) DEF DeclareFunction
  <2> HIDE DEF new, F
  <2> QED BY <1>p, <2>1, <2>2, <2>3, SMTT(60)
<1>F. F = mod[p[1]]
  BY <1>p
<1>2. p \in ProcsOf(f) /\ p[1] = f
  BY <1>p DEF Declaring, ProcsOf
<1>3. own \in SUBSET BlocksOf(mod[f])
  BY <1>2, <1>F
<1>4. Ascending(own) \in Seq(BlocksOf(F))
  <2> HIDE DEF own
  <2>1. Ascending(own) \in Seq(BlocksOf(mod[f]))
    BY <1>3, OwnBlocksListed
  <2> QED BY <1>2, <1>F, <2>1
<1>5. /\ new.blocks = Ascending(own) /\ new.phiInputs = {} /\ new.outputs = {}
      /\ new.inputs = Args(F) /\ new.extra = {v \in {RetVal} : ~F.void}
  <2> HIDE DEF own, F, locals
  <2> QED OBVIOUS
<1> HIDE DEF new, own
<1>6. Interface(p, new)
  <2> HIDE DEF F
  <2> QED BY <1>1, <1>4, <1>5, <1>F DEF Interface
<1>7. PICK i : i = new
  OBVIOUS
<1>8. PICK G, bs, vs : cfa' = Extended(cfa, p, NewCfa(G, bs, vs))
  BY <1>1
<1>9. InfoInv' /\ NoEdges' /\ DOMAIN info' = DOMAIN info \cup {p}
  <2>1. Interface(p, i) /\ info' = Extended(info, p, i)
    BY <1>1, <1>6, <1>7
  <2> HIDE DEF F, locals
  <2> QED BY ONLY <2>1, <1>1, <1>2, <1>8, InfoInv, NoEdges, f \in DOMAIN mod, DeclareOne, ZenonT(60)
<1>10. ProgInv'
  BY <1>1 DEF ProgInv
<1> HIDE DEF F, locals
<1>11. \A g : ProcsOf(g)' = ProcsOf(g) /\ Procedures(g)' = Procedures(g)
  BY <1>1 DEF ProcsOf, Procedures
<1>12. ProcsOf(f) \subseteq DOMAIN info'
  <2>1. declare \in Seq(ProcsOf(f)) /\ declare # <<>> /\ declare[1] = p /\ 1 \in DOMAIN declare
    BY <1>p DEF Declaring
  <2>2. Len(declare) = 1
    BY <1>1, <2>1 DEF Declaring
  <2>3. \A k \in DOMAIN declare : declare[k] = p
    BY <2>1, <2>2
  <2> QED BY <2>3, <1>9 DEF Declaring
<1>13. Len(mod) \in Nat /\ DOMAIN mod = 1 .. Len(mod)
  BY DEF ProgInv, IsVerified
<1>14. \A g \in DOMAIN mod : g <= f => ProcsOf(g) \subseteq DOMAIN info'
  BY <1>9, <1>12, <1>13 DEF Declaring
<1>15. CASE f = Len(mod)
  <2>1. AllDeclared'
    BY <1>1, <1>11, <1>13, <1>14, <1>15 DEF AllDeclared
  <2> QED BY <1>1, <1>2, <1>9, <1>10, <1>15, <2>1
<1>16. CASE f # Len(mod)
  <2>1. f + 1 \in DOMAIN mod
    BY <1>13, <1>16
  <2>2. Listed(f + 1)
    BY <2>1, AllListed
  <2>3. declare' = Procedures(f + 1) /\ pc' = pc
    BY <1>1, <1>2, <1>16
  <2>4. PICK g : g = f + 1
    OBVIOUS
  <2>5. \A k \in DOMAIN mod : k < g => ProcsOf(k) \subseteq DOMAIN info'
    BY <1>13, <1>14, <2>4
  <2>6. Declaring(g)'
    BY <1>1, <1>11, <2>2, <2>3, <2>4, <2>5 DEF Declaring, Listed
  <2> QED BY <1>1, <1>9, <1>10, <2>1, <2>3, <2>4, <2>6
<1> QED BY <1>15, <1>16

\* The translation starts with the first function.
LEMMA AnalyzeLoopsStep ==
  ASSUME ProgInv, info = Empty, cfa = Empty, AnalyzeLoops
  PROVE  ProgInv' /\ InfoInv' /\ NoEdges' /\ 1 \in DOMAIN mod' /\ Declaring(1)'
<1>1. /\ mod' = mod /\ loops' = [f \in DOMAIN mod |-> LoopInfo(mod[f])]
      /\ declare' = Procedures(1)' /\ info' = Empty /\ cfa' = Empty
  BY DEF AnalyzeLoops
<1>2. IsVerified(mod) /\ \A f \in DOMAIN mod : NoWayBack(mod[f])
  BY DEF ProgInv
<1>3. LoopsInv(loops', mod)
  <2>1. LoopsInv([f \in DOMAIN mod |-> LoopInfo(mod[f])], mod)
    BY <1>2, LoopsAnalyzed
  <2> QED BY <1>1, <2>1
<1>4. ProgInv'
  BY <1>1, <1>2, <1>3 DEF ProgInv
<1>5. 1 \in DOMAIN mod /\ DOMAIN mod \subseteq Nat \ {0}
  BY <1>2 DEF IsVerified
<1>6. Listed(1)'
  <2>1. (\A f \in DOMAIN mod : Listed(f))'
    BY <1>4, AllListed, PTL
  <2> QED BY <2>1, <1>1, <1>5
<1>7. DOMAIN Empty = {}
  BY DEF Empty
<1>8. InfoInv' /\ NoEdges'
  BY <1>1, <1>7 DEF InfoInv, NoEdges
<1>9. Declaring(1)'
  BY <1>1, <1>5, <1>6 DEF Declaring, Listed
<1> QED BY <1>1, <1>4, <1>5, <1>8, <1>9

-----------------------------------------------------------------------------
(* Calls *)

\* Transition e, if it is a call, gives every input of the callee one value,
\* and takes every output once.
InsFit(ins, q) == {a.var : a \in ins} = InputVars(q) /\ \A a, b \in ins : a.var = b.var => a = b
OutsFit(outs, q) == {a.val.var : a \in outs} = OutputVars(q) /\ \A a, b \in outs : a.var = b.var => a = b
Fits(e) == e.callee # NoProc => InsFit(e.ins, e.callee) /\ OutsFit(e.outs, e.callee)

\* The parts of a call.
LEMMA EdgeFacts ==
  \A s, d, g, p, ins, outs :
    LET e == CallEdge(s, d, g, p, ins, outs)
    IN  e.callee = p /\ e.ins = ins /\ e.outs = outs
BY DEF CallEdge

\* What is not a call fits.
LEMMA AssignEdgesFit == \A s, d, g, as : Fits(AssignEdge(s, d, g, as))
<1> TAKE s, d, g, as
<1> DEFINE e == AssignEdge(s, d, g, as)
<1>1. e.callee = NoProc
  BY DEF AssignEdge
<1> HIDE DEF e
<1>2. Fits(e)
  BY <1>1 DEF Fits
<1> QED BY <1>2 DEF e

\* The parts of an assignment, and what tells variables apart.
LEMMA AssignFacts ==
  /\ \A v, e : Assign(v, e).var = v /\ Assign(v, e).val = e
  /\ \A v : Ref(v).var = v
  /\ \A x : /\ ValueVar(x).name = x /\ ValueVar(x).kind = "value"
            /\ OutVar(x).name = x /\ OutVar(x).kind = "out"
            /\ Selector(x).kind = "selector"
  /\ NoVar.kind = "null"
BY DEF Assign, Ref, ValueVar, OutVar, Selector, NoVar, Var

\* The program and the declarations are left alone.
Same == mod' = mod /\ loops' = loops /\ info' = info

\* New transitions that fit leave the automata right.
LEMMA EdgesAdded ==
  ASSUME InfoInv, Same, DOMAIN cfa' = DOMAIN cfa,
         \A p \in DOMAIN cfa : /\ DOMAIN cfa'[p] = DOMAIN cfa[p]
                               /\ \A e \in cfa'[p].edges : e \in cfa[p].edges \/ Fits(e)
  PROVE  InfoInv' /\ (CallsMatchInterfaces => CallsMatchInterfaces')
<1>1. \A p \in DOMAIN info : Interface(p, info[p])' <=> Interface(p, info[p])
  BY DEF Interface, Same
<1>2. \A f : ProcsOf(f)' = ProcsOf(f)
  BY DEF ProcsOf, Same
<1>3. \A p \in DOMAIN cfa' : {"next", "locs", "edges", "vars"} \subseteq DOMAIN cfa'[p]
  BY DEF InfoInv
<1>4. InfoInv'
  BY <1>1, <1>2, <1>3 DEF InfoInv, Same
<1>5. ASSUME CallsMatchInterfaces PROVE CallsMatchInterfaces'
  <2>1. \A q : InputVars(q)' = InputVars(q) /\ OutputVars(q)' = OutputVars(q)
    BY DEF InputVars, OutputVars, Same
  <2>2. \A p \in DOMAIN cfa : \A e \in cfa[p].edges : Fits(e)
    BY <1>5 DEF CallsMatchInterfaces, Fits, InsFit, OutsFit
  <2>3. \A p \in DOMAIN cfa' : \A e \in cfa'[p].edges : Fits(e)
    BY <2>2
  <2> QED BY <2>1, <2>3 DEF CallsMatchInterfaces, Fits, InsFit, OutsFit
<1> QED BY <1>4, <1>5

\* Some transitions more in the current automaton.
LEMMA EmitEdges ==
  ASSUME InfoInv, Same, cur \in DOMAIN info, NEW es, NEW k, NEW next, Emit(es, k, next),
         \A e \in es : Fits(e)
  PROVE  InfoInv' /\ (CallsMatchInterfaces => CallsMatchInterfaces')
<1>1. cur \in DOMAIN cfa /\ {"next", "locs", "edges", "vars"} \subseteq DOMAIN cfa[cur]
  BY DEF InfoInv
<1>2. cfa' = [cfa EXCEPT ![cur].next = @ + k, ![cur].locs = @ \cup Fresh .. Fresh + k - 1,
                         ![cur].edges = @ \cup es, ![cur].vars = @ \cup UNION {NewSelectors(e) : e \in es}]
  BY DEF Emit
<1>3. DOMAIN cfa' = DOMAIN cfa /\ \A p \in DOMAIN cfa : p # cur => cfa'[p] = cfa[p]
  BY <1>2
<1>4. DOMAIN cfa'[cur] = DOMAIN cfa[cur] /\ cfa'[cur].edges = cfa[cur].edges \cup es
  BY <1>1, <1>2
<1>5. \A p \in DOMAIN cfa : /\ DOMAIN cfa'[p] = DOMAIN cfa[p]
                            /\ \A e \in cfa'[p].edges : e \in cfa[p].edges \/ Fits(e)
  BY <1>3, <1>4
<1> QED BY <1>3, <1>5, EdgesAdded

\* The current procedure belongs to a function that is verified.
LEMMA CurrentFunction ==
  ASSUME ProgInv, InfoInv, cur \in DOMAIN info
  PROVE  /\ cur[1] \in DOMAIN mod /\ cur \in ProcsOf(cur[1]) /\ Interface(cur, info[cur])
         /\ IsFunction(Func) /\ CallsFit(mod, Func) /\ NoWayBack(Func)
<1>1. PICK f \in DOMAIN mod : cur \in ProcsOf(f)
  BY DEF InfoInv
<1>2. cur[1] = f
  BY <1>1 DEF ProcsOf
<1> QED BY <1>1, <1>2 DEF ProgInv, IsVerified, InfoInv, Func

\* A call of a function.
LEMMA FunctionCallFits ==
  ASSUME ProgInv, InfoInv, AllDeclared, cur \in DOMAIN info,
         bb \in BlocksOf(Func), at \in DOMAIN Func.blocks[bb], Inst.kind = "call"
  PROVE  LET callee == mod[Inst.callee]
             ins == {Assign(ValueVar(callee.args[k]), Operand(Inst.ops[k])) : k \in DOMAIN Inst.ops}
             outs == {Assign(FindVariable(cur, Inst.def), Ref(RetVal)) : c \in {c \in {callee} : ~c.void}}
         IN  InsFit(ins, <<Inst.callee, 0>>) /\ OutsFit(outs, <<Inst.callee, 0>>)
<1> DEFINE n == Inst.callee
           callee == mod[n]
           ops == Inst.ops
           O(k) == Operand(ops[k])
           ins == {Assign(ValueVar(callee.args[k]), O(k)) : k \in DOMAIN ops}
           v == FindVariable(cur, Inst.def)
           outs == {Assign(v, Ref(RetVal)) : c \in {c \in {callee} : ~c.void}}
           q == <<n, 0>>
<1>1. n \in DOMAIN mod /\ DOMAIN ops = DOMAIN callee.args
  <2>1. CallsFit(mod, Func)
    BY CurrentFunction
  <2> QED BY <2>1 DEF CallsFit, Inst
<1>2. \A j, k \in DOMAIN callee.args : callee.args[j] = callee.args[k] => j = k
  BY <1>1 DEF ProgInv, IsVerified, IsFunction
<1>3. /\ info[q].inputs = Args(callee) /\ info[q].phiInputs = {} /\ info[q].outputs = {}
      /\ info[q].extra = {w \in {RetVal} : ~callee.void}
  <2>1. q \in ProcsOf(n) /\ q[2] = 0 /\ q[1] = n
    BY DEF ProcsOf
  <2>2. Interface(q, info[q])
    BY <1>1, <2>1 DEF AllDeclared, InfoInv
  <2> QED BY <2>1, <2>2 DEF Interface
<1> HIDE DEF O, v, ops, n, callee, q
<1>4. InputVars(q) = {ValueVar(callee.args[k]) : k \in DOMAIN callee.args}
  BY <1>3 DEF InputVars, Args
<1>5. {a.var : a \in ins} = InputVars(q)
  BY <1>1, <1>4, AssignFacts
<1>6. \A a, b \in ins : a.var = b.var => a = b
  BY <1>1, <1>2, AssignFacts
<1>7. OutputVars(q) = {w \in {RetVal} : ~callee.void}
  BY <1>3 DEF OutputVars
<1>8. {a.val.var : a \in outs} = OutputVars(q)
  BY <1>7, AssignFacts
<1>9. \A a, b \in outs : a = b
  OBVIOUS
<1>10. InsFit(ins, q) /\ OutsFit(outs, q)
  BY <1>5, <1>6, <1>8, <1>9 DEF InsFit, OutsFit
<1> QED BY <1>10 DEF n, callee, ops, O, v, q

\* A call of a loop gives every input a value: the PHI nodes of its header and
\* what it reads from outside are different values.
LEMMA LoopArgsFit ==
  ASSUME ProgInv, InfoInv, cur \in DOMAIN info, NEW q \in DOMAIN info, q[1] = cur[1], q[2] # 0, NEW source
  PROVE  InsFit(LoopArgs(q, source), q)
<1> DEFINE F == Func
           h == q[2]
           region == loops[q[1]][h]
           X == info[q].inputs
           P == Phis(F, h)
           V(phi) == Operand(IncomingValue(phi, source))
           W(x) == Operand(x)
           ins == {Assign(ValueVar(phi.def), V(phi)) : phi \in P} \cup {Assign(ValueVar(x), W(x)) : x \in X}
<1>1. IsFunction(F) /\ F = mod[q[1]] /\ q[1] \in DOMAIN mod
  BY CurrentFunction DEF Func
<1>2. h \in BlocksOf(F) /\ h \in region
  <2>1. q \in ProcsOf(q[1])
    BY DEF InfoInv, ProcsOf
  <2>2. h \in DOMAIN loops[q[1]]
    BY <2>1 DEF ProcsOf
  <2> QED BY <1>1, <2>2 DEF ProgInv, LoopsInv
<1>3. (\A x \in X : DefinedInCaller(F, x, region)) /\ info[q].phiInputs = PhiDefs(F, h)
  <2>1. Interface(q, info[q])
    BY SMTT(60) DEF InfoInv
  <2> QED BY <2>1, <1>1 DEF Interface
<1> HIDE DEF F, region, X, V, W, h
<1>4. ASSUME NEW phi \in P
      PROVE  \E i \in DOMAIN F.blocks[h] : phi = F.blocks[h][i] /\ phi.def # NoName /\ phi.def \notin Args(F)
  <2>1. PICK i \in DOMAIN F.blocks[h] : phi = F.blocks[h][i] /\ phi.kind = "phi"
    BY <1>4 DEF Phis
  <2> QED BY <1>1, <1>2, <2>1 DEF IsFunction
<1>5. ASSUME NEW phi \in P, NEW psi \in P, phi.def = psi.def PROVE phi = psi
  <2>1. PICK i \in DOMAIN F.blocks[h] : phi = F.blocks[h][i] /\ phi.def # NoName
    BY <1>4
  <2>2. PICK j \in DOMAIN F.blocks[h] : psi = F.blocks[h][j]
    BY <1>4, SMTT(60)
  <2>3. i = j
    BY <1>1, <1>2, <1>5, <2>1, <2>2 DEF IsFunction
  <2> QED BY <2>1, <2>2, <2>3
<1>6. ASSUME NEW phi \in P, NEW x \in X PROVE phi.def # x
  <2>1. PICK i \in DOMAIN F.blocks[h] : phi = F.blocks[h][i] /\ phi.def # NoName /\ phi.def \notin Args(F)
    BY <1>4, SMTT(60)
  <2>2. ASSUME NEW c \in BlocksOf(F) \ region, x \in DefsIn(F, c) PROVE phi.def # x
    <3>1. PICK j \in DOMAIN F.blocks[c] : x = F.blocks[c][j].def
      BY <2>2 DEF DefsIn
    <3>2. c # h
      BY <1>2
    <3> QED BY <1>1, <1>2, <2>1, <3>1, <3>2 DEF IsFunction
  <2> QED BY <1>3, <2>1, <2>2 DEF DefinedInCaller
<1> HIDE DEF P
<1>7. InputVars(q) = {ValueVar(x) : x \in X \cup {phi.def : phi \in P}}
  BY <1>3 DEF InputVars, PhiDefs, P, X
<1>8. {a.var : a \in ins} = InputVars(q)
  BY <1>7, AssignFacts
<1>9. ASSUME NEW a \in ins, NEW b \in ins, a.var = b.var PROVE a = b
  <2>1. \A c \in ins : (\E phi \in P : c = Assign(ValueVar(phi.def), V(phi)) /\ c.var.name = phi.def)
                       \/ (\E x \in X : c = Assign(ValueVar(x), W(x)) /\ c.var.name = x)
    BY AssignFacts
  <2> HIDE DEF ins
  <2> QED BY <2>1, <1>5, <1>6, <1>9
<1>10. InsFit(ins, q)
  BY <1>8, <1>9 DEF InsFit
<1>11. LoopArgs(q, source) = ins
  BY DEF LoopArgs, F, h, P, V, W, X
<1> HIDE DEF ins
<1> QED BY <1>10, <1>11

\* A call of a loop takes every output once, as long as every output has a
\* variable: into the caller's variable for it, the selector into one of its own.
LEMMA LoopOutsFit ==
  ASSUME NEW q, info[q].extra \subseteq {Selector(0)}, NEW n,
         \A a \in OutputAssignments(q) : a.var # NoVar
  PROVE  OutsFit(OutputAssignments(q) \cup
                   {Assign(Selector(n), Ref(Selector(0))) : p \in {p \in {q} : HasSelector(p)}}, q)
<1> DEFINE X == info[q].outputs
           V(x) == IF x \in info[cur].outputs THEN OutVar(x) ELSE FindVariable(cur, x)
           A == {Assign(V(x), Ref(OutVar(x))) : x \in X}
           s == Assign(Selector(n), Ref(Selector(0)))
           B == {s : p \in {p \in {q} : HasSelector(p)}}
           outs == A \cup B
<1>1. OutputAssignments(q) = A
  BY DEF OutputAssignments
<1>2. \A x : V(x) \in {OutVar(x), ValueVar(x), NoVar}
  BY DEF FindVariable
<1> HIDE DEF V
<1>3. \A a \in A : \E x \in X : a = Assign(V(x), Ref(OutVar(x))) /\ a.var = V(x) /\ a.val.var = OutVar(x)
  BY AssignFacts
<1>4. \A a \in A : \E x \in X : a = Assign(V(x), Ref(OutVar(x))) /\ a.var.name = x /\ a.var.kind # "selector"
  BY <1>1, <1>2, <1>3, AssignFacts
<1>5. s.var = Selector(n) /\ s.var.kind = "selector" /\ s.val.var = Selector(0)
  BY AssignFacts
<1> HIDE DEF s
<1>6. B = (IF HasSelector(q) THEN {s} ELSE {}) /\ info[q].extra = (IF HasSelector(q) THEN {Selector(0)} ELSE {})
  BY DEF HasSelector
<1>7. ASSUME NEW x \in X PROVE \E a \in A : a.val.var = OutVar(x)
  <2> DEFINE a == Assign(V(x), Ref(OutVar(x)))
  <2>1. a \in A
    OBVIOUS
  <2>2. a.val.var = OutVar(x)
    BY AssignFacts
  <2> QED BY <2>1, <2>2
<1> HIDE DEF A, B
<1>8. {a.val.var : a \in outs} = {OutVar(x) : x \in X} \cup info[q].extra
  BY <1>3, <1>5, <1>6, <1>7
<1>9. \A a, b \in outs : a.var = b.var => a = b
  BY <1>4, <1>5, <1>6
<1>10. OutsFit(outs, q)
  BY <1>8, <1>9 DEF OutsFit, OutputVars
<1> QED BY <1>1, <1>10 DEF B, s

\* The loop around a block is one of the function's loops.
LEMMA LoopForFacts ==
  ASSUME ProgInv, NEW f \in DOMAIN mod, NEW b, LoopFor(f, b) # 0
  PROVE  LoopFor(f, b) \in DOMAIN loops[f]
<1> DEFINE H == {h \in DOMAIN loops[f] : b \in loops[f][h]}
           L == Len(mod[f].blocks)
           C(h) == Cardinality(loops[f][h])
           T == {C(h) : h \in H}
<1>1. LoopFor(f, b) = IF H = {} THEN 0 ELSE CHOOSE h \in H : \A g \in H : C(h) <= C(g)
  BY DEF LoopFor
<1>2. ASSUME NEW h \in H PROVE C(h) \in Nat
  <2> DEFINE B == 1 .. L
             S == loops[f][h]
  <2>1. L \in Nat /\ S \in SUBSET B
    BY <1>2 DEF ProgInv, IsVerified, IsFunction, BlocksOf, LoopsInv
  <2>2. IsFiniteSet(B)
    <3> HIDE DEF L
    <3> QED BY <2>1, FS_Interval
  <2> HIDE DEF B, S
  <2>3. IsFiniteSet(S)
    BY <2>1, <2>2, FS_Subset
  <2>4. Cardinality(S) \in Nat
    BY <2>3, FS_CardinalityType
  <2> QED BY <2>4 DEF S
<1>3. H # {}
  <2> HIDE DEF H, C
  <2> QED BY <1>1
<1> HIDE DEF C
<1>4. T \in SUBSET Nat /\ T # {}
  BY <1>2, <1>3
<1>5. PICK t \in T : \A u \in T : t <= u
  <2> HIDE DEF T
  <2> QED BY <1>4, LeastNatural
<1>6. \E h \in H : \A g \in H : C(h) <= C(g)
  BY <1>5
<1>7. LoopFor(f, b) \in H
  <2> HIDE DEF H
  <2> QED BY <1>1, <1>3, <1>6
<1> QED BY <1>7

-----------------------------------------------------------------------------
(* Places in a function *)

\* The first instruction behind the PHI nodes is one of the block.
LEMMA FirstInst ==
  ASSUME NEW F, IsFunction(F), NEW b \in BlocksOf(F)
  PROVE  Cardinality(Phis(F, b)) + 1 \in DOMAIN F.blocks[b]
<1> DEFINE L == Len(F.blocks[b])
           I == 1 .. L - 1
           T == {F.blocks[b][i] : i \in I}
           g == [i \in I |-> F.blocks[b][i]]
           P == Phis(F, b)
<1>1. L \in Nat \ {0} /\ DOMAIN F.blocks[b] = 1 .. L /\ F.blocks[b][L].kind \in Terminators
  BY DEF IsFunction, Terminator
<1>2. P \in SUBSET T
  BY <1>1 DEF Phis, Terminators
<1>3. g \in Surjection(I, T)
  BY DEF Surjection
<1>4. IsFiniteSet(I) /\ Cardinality(I) = L - 1
  <2> HIDE DEF L
  <2>1. 1 \in Int /\ L - 1 \in Int
    BY <1>1
  <2>2. IsFiniteSet(I) /\ Cardinality(I) = IF 1 > L - 1 THEN 0 ELSE (L - 1) - 1 + 1
    BY <2>1, FS_Interval
  <2> QED BY <1>1, <2>2
<1> HIDE DEF I, T, g, P
<1>5. IsFiniteSet(T) /\ Cardinality(T) <= Cardinality(I)
  BY <1>3, <1>4, FS_Surjection
<1>6. IsFiniteSet(P) /\ Cardinality(P) <= Cardinality(T)
  BY <1>2, <1>5, FS_Subset
<1>7. Cardinality(P) \in Nat /\ Cardinality(T) \in Nat
  BY <1>5, <1>6, FS_CardinalityType
<1>8. Cardinality(P) + 1 \in 1 .. L
  BY <1>1, <1>4, <1>5, <1>6, <1>7
<1> QED BY <1>1, <1>8 DEF P

\* Behind an instruction that is not a terminator there is another one.
LEMMA NextInst ==
  ASSUME NEW F, IsFunction(F), NEW b \in BlocksOf(F), NEW i \in DOMAIN F.blocks[b],
         F.blocks[b][i].kind \notin Terminators
  PROVE  i + 1 \in DOMAIN F.blocks[b]
<1>1. /\ Len(F.blocks[b]) \in Nat \ {0} /\ DOMAIN F.blocks[b] = 1 .. Len(F.blocks[b])
      /\ F.blocks[b][Len(F.blocks[b])].kind \in Terminators
  BY DEF IsFunction, Terminator
<1> QED BY <1>1

-----------------------------------------------------------------------------
(* The inductive invariant *)

\* While the automata are filled, every procedure is declared, the place that
\* is being encoded is one of the current function, and the calls fit.
EncodeInv ==
  /\ AllDeclared /\ left \subseteq DOMAIN info
  /\ pc \in {"next", "inst", "succ"} => cur \in DOMAIN info /\ rest \in Seq(BlocksOf(Func))
  /\ pc \in {"inst", "succ"} => bb \in BlocksOf(Func)
  /\ pc = "inst" => at \in DOMAIN Func.blocks[bb]
  /\ CallsMatchInterfaces

Inv ==
  NoAssertionFails =>
    /\ ProgInv /\ InfoInv
    /\ pc = "canonize" => declare \in Seq(AllLoops) /\ info = Empty /\ cfa = Empty
    /\ pc = "declare" => NoEdges /\ \E f \in DOMAIN mod : Declaring(f)
    /\ pc \notin {"canonize", "declare"} => EncodeInv

\* The invariant holds before anything is declared.
LEMMA InvInit == Init => Inv
<1> SUFFICES ASSUME Init PROVE Inv
  OBVIOUS
<1>1. pc = "canonize" /\ info = Empty /\ cfa = Empty
  BY DEF Init
<1>2. ProgInv /\ declare \in Seq(AllLoops)
  BY InitProg
<1>3. InfoInv
  BY <1>1 DEF InfoInv, Empty
<1> QED BY <1>1, <1>2, <1>3 DEF Inv

\* A step within a block that adds transitions which fit.
LEMMA BlockStep ==
  ASSUME ProgInv, InfoInv, EncodeInv, pc \in {"inst", "succ"}, Same,
         UNCHANGED <<left, cur, rest, bb>>,
         InfoInv', CallsMatchInterfaces', pc' \in {"next", "inst", "succ"},
         pc' = "inst" => at' \in DOMAIN Func.blocks[bb]
  PROVE  ProgInv' /\ EncodeInv'
<1>1. ProgInv'
  BY DEF ProgInv, Same
<1>2. AllDeclared'
  BY DEF EncodeInv, AllDeclared, ProcsOf, Same
<1>3. Func' = Func
  BY DEF Func, Same
<1> QED BY <1>1, <1>2, <1>3 DEF EncodeInv, Same

LEMMA EmitStep ==
  ASSUME ProgInv, InfoInv, EncodeInv, pc \in {"inst", "succ"}, Same,
         UNCHANGED <<left, cur, rest, bb>>,
         NEW es, NEW k, NEW next, Emit(es, k, next), \A e \in es : Fits(e),
         pc' \in {"next", "inst", "succ"},
         pc' = "inst" => at' \in DOMAIN Func.blocks[bb]
  PROVE  ProgInv' /\ InfoInv' /\ EncodeInv'
<1>1. cur \in DOMAIN info /\ CallsMatchInterfaces
  BY DEF EncodeInv
<1>2. InfoInv' /\ CallsMatchInterfaces'
  BY <1>1, EmitEdges
<1> QED BY <1>2, BlockStep

LEMMA QuietStep ==
  ASSUME ProgInv, InfoInv, EncodeInv, pc \in {"inst", "succ"}, Same,
         UNCHANGED <<cfa, left, cur, rest, bb>>, pc' \in {"next", "inst", "succ"},
         pc' = "inst" => at' \in DOMAIN Func.blocks[bb]
  PROVE  ProgInv' /\ InfoInv' /\ EncodeInv'
<1>1. CallsMatchInterfaces
  BY DEF EncodeInv
<1>2. InfoInv' /\ CallsMatchInterfaces'
  BY <1>1, EdgesAdded
<1> QED BY <1>2, BlockStep

\* The place being encoded.
LEMMA Place ==
  ASSUME ProgInv, InfoInv, EncodeInv, pc \in {"inst", "succ"}
  PROVE  /\ cur \in DOMAIN info /\ bb \in BlocksOf(Func) /\ IsFunction(Func)
         /\ pc = "inst" => /\ at \in DOMAIN Func.blocks[bb]
                           /\ Inst.kind \notin Terminators => at + 1 \in DOMAIN Func.blocks[bb]
<1>1. cur \in DOMAIN info /\ bb \in BlocksOf(Func) /\ (pc = "inst" => at \in DOMAIN Func.blocks[bb])
  BY DEF EncodeInv
<1>2. IsFunction(Func)
  BY <1>1, CurrentFunction
<1>3. ASSUME pc = "inst", Inst.kind \notin Terminators PROVE at + 1 \in DOMAIN Func.blocks[bb]
  <2> DEFINE F == Func
  <2>1. IsFunction(F) /\ bb \in BlocksOf(F) /\ at \in DOMAIN F.blocks[bb] /\ F.blocks[bb][at].kind \notin Terminators
    BY <1>1, <1>2, <1>3 DEF Inst
  <2> HIDE DEF F
  <2>2. at + 1 \in DOMAIN F.blocks[bb]
    BY <2>1, NextInst
  <2> QED BY <2>2 DEF F
<1> QED BY <1>1, <1>2, <1>3

\* Instructions.
LEMMA EncodeInstStep ==
  ASSUME ProgInv, InfoInv, EncodeInv, NoAssertionFails',
         \/ EncodeCalc \/ EncodeUnknownCall \/ EncodeErrorCall \/ EncodeAssume \/ EncodeCall \/ EndOfBlock
  PROVE  ProgInv' /\ InfoInv' /\ EncodeInv' /\ pc' \notin {"canonize", "declare"}
<1>1. pc = "inst" /\ pc' # "abort"
  BY DEF NoAssertionFails, EncodeCalc, EncodeUnknownCall, EncodeErrorCall, EncodeAssume, EncodeCall, EndOfBlock
<1>2. /\ cur \in DOMAIN info /\ bb \in BlocksOf(Func) /\ IsFunction(Func) /\ at \in DOMAIN Func.blocks[bb]
      /\ Inst.kind \notin Terminators => at + 1 \in DOMAIN Func.blocks[bb]
  BY <1>1, Place
<1>3. \A s, d, g, as : Fits(AssignEdge(s, d, g, as))
  BY AssignEdgesFit
<1>4. CASE EncodeCalc \/ EncodeUnknownCall \/ EncodeErrorCall
  <2>1. /\ Inst.kind \in {"calc", "nondet", "error"} /\ at' = at + 1 /\ pc' \in {pc, "abort"}
        /\ Same /\ UNCHANGED <<cfa, left, cur, rest, bb>>
    BY <1>4 DEF EncodeCalc, EncodeUnknownCall, EncodeErrorCall, Same, progVars, declVars, procVars
  <2>2. at' \in DOMAIN Func.blocks[bb] /\ pc' = "inst"
    BY <1>1, <1>2, <2>1 DEF Terminators
  <2> QED BY <1>1, <2>1, <2>2, QuietStep
<1>5. CASE EncodeAssume
  <2> DEFINE es == {AssignEdge(entry, Fresh, True, assigns),
                    AssignEdge(Fresh, Fresh + 1, Operand(Inst.ops[1]), {})}
  <2>1. /\ Inst.kind = "assume" /\ at' = at + 1 /\ Emit(es, 2, pc)
        /\ Same /\ UNCHANGED <<left, cur, rest, bb>>
    BY <1>5 DEF EncodeAssume, Same, progVars, declVars, procVars
  <2>2. \A e \in es : Fits(e)
    BY <1>3
  <2> HIDE DEF es
  <2>3. at' \in DOMAIN Func.blocks[bb] /\ pc' = "inst"
    BY <1>1, <1>2, <2>1 DEF Terminators, Emit
  <2> QED BY <1>1, <2>1, <2>2, <2>3, EmitStep
<1>6. CASE EncodeCall
  <2> DEFINE callee == mod[Inst.callee]
             ins == {Assign(ValueVar(callee.args[k]), Operand(Inst.ops[k])) : k \in DOMAIN Inst.ops}
             outs == {Assign(FindVariable(cur, Inst.def), Ref(RetVal)) : c \in {c \in {callee} : ~c.void}}
             q == <<Inst.callee, 0>>
             d == CallEdge(Fresh, Fresh + 1, True, q, ins, outs)
             es == {AssignEdge(entry, Fresh, True, assigns), d}
  <2>1. /\ Inst.kind = "call" /\ at' = at + 1 /\ Emit(es, 2, pc)
        /\ Same /\ UNCHANGED <<left, cur, rest, bb>>
    BY <1>6 DEF EncodeCall, Same, progVars, declVars, procVars
  <2>2. InsFit(ins, q) /\ OutsFit(outs, q)
    <3>1. AllDeclared
      BY DEF EncodeInv
    <3> QED BY <1>2, <2>1, <3>1, FunctionCallFits
  <2> HIDE DEF ins, outs, q
  <2>3. Fits(d)
    BY <2>2, EdgeFacts DEF Fits
  <2> HIDE DEF d
  <2>4. \A e \in es : Fits(e)
    BY <1>3, <2>3
  <2> HIDE DEF es
  <2>5. at' \in DOMAIN Func.blocks[bb] /\ pc' = "inst"
    BY <1>1, <1>2, <2>1 DEF Terminators, Emit
  <2> QED BY <1>1, <2>1, <2>4, <2>5, EmitStep
<1>7. CASE EndOfBlock
  <2> DEFINE es == {AssignEdge(entry, BlockExit(cur, bb), True, assigns)}
  <2>1. Emit(es, 0, "succ") /\ Same /\ UNCHANGED <<left, cur, rest, bb>>
    BY <1>7 DEF EndOfBlock, Same, progVars, declVars, procVars
  <2>2. \A e \in es : Fits(e)
    BY <1>3
  <2> HIDE DEF es
  <2>3. pc' = "succ"
    BY <1>1, <2>1 DEF Emit
  <2> QED BY <1>1, <2>1, <2>2, <2>3, EmitStep
<1> QED BY <1>4, <1>5, <1>6, <1>7

\* Successors that are not calls.
LEMMA SuccStep ==
  ASSUME ProgInv, InfoInv, EncodeInv, NoAssertionFails',
         \/ GoToBlock \/ LeaveLoop \/ AfterSuccessors \/ Return \/ Unreachable
  PROVE  ProgInv' /\ InfoInv' /\ EncodeInv' /\ pc' \notin {"canonize", "declare"}
<1>1. pc = "succ" /\ pc' # "abort"
  BY DEF NoAssertionFails, GoToBlock, LeaveLoop, AfterSuccessors, Return, Unreachable, AtSuccessor
<1>2. \A s, d, g, as : Fits(AssignEdge(s, d, g, as))
  BY AssignEdgesFit
<1>3. CASE AfterSuccessors
  <2>1. pc' = "next" /\ Same /\ UNCHANGED <<cfa, left, cur, rest, bb>>
    BY <1>3 DEF AfterSuccessors, Same, progVars, declVars, procVars, blockVars
  <2> QED BY <1>1, <2>1, QuietStep
<1>4. ASSUME NEW e, Fits(e), Same, UNCHANGED <<left, cur, rest, bb>>, NEW next \in {"succ", "next"}, Emit({e}, 0, next)
      PROVE  ProgInv' /\ InfoInv' /\ EncodeInv' /\ pc' \notin {"canonize", "declare"}
  <2>1. pc' \in {"succ", "next"}
    BY <1>1, <1>4 DEF Emit
  <2> DEFINE es == {e}
  <2>2. Emit(es, 0, next) /\ \A d \in es : Fits(d)
    BY <1>4
  <2> HIDE DEF es
  <2> QED BY <1>1, <1>4, <2>1, <2>2, EmitStep
<1>5. CASE GoToBlock
  <2> DEFINE e == AssignEdge(BlockExit(cur, bb), BlockEntry(cur, Succ), SuccCondition(at), PhiAssignments(bb, Succ))
  <2>1. Emit({e}, 0, "succ") /\ Same /\ UNCHANGED <<left, cur, rest, bb>>
    BY <1>5, <1>1 DEF GoToBlock, Same, progVars, declVars, procVars
  <2>2. Fits(e)
    BY <1>2
  <2> HIDE DEF e
  <2> QED BY <1>4, <2>1, <2>2
<1>6. CASE LeaveLoop
  <2> DEFINE e == ExitTransition(bb, Succ, BlockExit(cur, bb), SuccCondition(at))
  <2>1. Emit({e}, 0, "succ") /\ Same /\ UNCHANGED <<left, cur, rest, bb>>
    BY <1>6, <1>1 DEF LeaveLoop, Same, progVars, declVars, procVars
  <2>2. Fits(e)
    BY <1>2 DEF ExitTransition
  <2> HIDE DEF e
  <2> QED BY <1>4, <2>1, <2>2
<1>7. CASE Return
  <2> DEFINE e == AssignEdge(BlockExit(cur, bb), Exit, True,
                             {Assign(RetVal, Operand(Term.ops[k])) : k \in DOMAIN Term.ops})
  <2>1. Emit({e}, 0, "next") /\ Same /\ UNCHANGED <<left, cur, rest, bb>>
    BY <1>7, <1>1 DEF Return, Same, progVars, declVars, procVars, blockVars
  <2>2. Fits(e)
    BY <1>2
  <2> HIDE DEF e
  <2> QED BY <1>4, <2>1, <2>2
<1>8. CASE Unreachable
  <2> DEFINE e == AssignEdge(BlockExit(cur, bb), Exit, False, {})
  <2>1. Emit({e}, 0, "next") /\ Same /\ UNCHANGED <<left, cur, rest, bb>>
    BY <1>8, <1>1 DEF Unreachable, Same, progVars, declVars, procVars, blockVars
  <2>2. Fits(e)
    BY <1>2
  <2> HIDE DEF e
  <2> QED BY <1>4, <2>1, <2>2
<1> QED BY <1>3, <1>5, <1>6, <1>7, <1>8

\* The outputs of a call that was added without an abort have variables.
LEMMA EmittedOutputs ==
  ASSUME NEW es, NEW k, NEW next, Emit(es, k, next), pc' # "abort", NEW e \in es
  PROVE  \A a \in e.outs : a.var # NoVar
BY DEF Emit, Written

\* The call of a loop to itself.
LEMMA CallSelfStep ==
  ASSUME ProgInv, InfoInv, EncodeInv, NoAssertionFails', CallSelf
  PROVE  ProgInv' /\ InfoInv' /\ EncodeInv' /\ pc' \notin {"canonize", "declare"}
<1> DEFINE ins == LoopArgs(cur, bb)
           outs == OutputAssignments(cur) \cup
                     {Assign(Selector(0), Ref(Selector(0))) : p \in {p \in {cur} : HasSelector(p)}}
           d == CallEdge(Fresh, Exit, True, cur, ins, outs)
           c == AssignEdge(BlockExit(cur, bb), Fresh, SuccCondition(at), {})
           es == {c, d}
<1>1. pc = "succ" /\ pc' # "abort" /\ at \in DOMAIN Term.succs /\ Succ = EntryBlock(cur)
  BY DEF NoAssertionFails, CallSelf, AtSuccessor
<1>2. Emit(es, 1, "succ") /\ Same /\ UNCHANGED <<left, cur, rest, bb>>
  BY <1>1 DEF CallSelf, Same, progVars, declVars, procVars
<1>3. cur \in DOMAIN info /\ bb \in BlocksOf(Func)
  BY <1>1, Place
<1>4. cur[2] # 0 /\ info[cur].extra \subseteq {Selector(0)}
  <2>1. NoWayBack(Func) /\ Interface(cur, info[cur])
    BY <1>3, CurrentFunction
  <2>2. Succ # 1
    BY <1>1, <1>3, <2>1 DEF NoWayBack, Succ, Succs, Term
  <2>3. cur[2] # 0
    BY <1>1, <2>2 DEF EntryBlock
  <2> QED BY <2>1, <2>3 DEF Interface
<1>5. InsFit(ins, cur)
  BY <1>3, <1>4, LoopArgsFit
<1>6. \A a \in OutputAssignments(cur) : a.var # NoVar
  <2>1. d.outs = outs /\ d \in es
    BY EdgeFacts
  <2> HIDE DEF d, es
  <2>2. \A a \in d.outs : a.var # NoVar
    BY <1>1, <1>2, <2>1, EmittedOutputs
  <2> QED BY <2>1, <2>2
<1>7. OutsFit(outs, cur)
  BY <1>4, <1>6, LoopOutsFit
<1> HIDE DEF ins, outs
<1>8. Fits(d)
  BY <1>5, <1>7, EdgeFacts DEF Fits
<1>9. Fits(c)
  BY AssignEdgesFit
<1> HIDE DEF c, d
<1>10. \A e \in es : Fits(e)
  BY <1>8, <1>9
<1> HIDE DEF es
<1>11. pc' = "succ"
  BY <1>1, <1>2 DEF Emit
<1> QED BY <1>1, <1>2, <1>10, <1>11, EmitStep

\* The call of a nested loop.
LEMMA CallLoopStep ==
  ASSUME ProgInv, InfoInv, EncodeInv, NoAssertionFails', CallLoop
  PROVE  ProgInv' /\ InfoInv' /\ EncodeInv' /\ pc' \notin {"canonize", "declare"}
<1> DEFINE n == NestedLoopOf(cur, Succ)
           q == <<cur[1], n>>
           selector == Selector(counter + 1)
           Leave(b, t) ==
             IF t \in OwnBlocks(cur)
             THEN AssignEdge(Fresh, BlockEntry(cur, t), ExitCondition(q, b, t, selector), PhiAssignments(b, t))
             ELSE ExitTransition(b, t, BlockExit(cur, bb), SuccCondition(at))
           exits == {info[q].exits[k] : k \in DOMAIN info[q].exits}
           hasPhis == \A x \in exits : \A a \in PhiAssignments(x[1], x[2]) : a.var # NoVar
           ins == LoopArgs(q, bb)
           outs == OutputAssignments(q) \cup
                     {Assign(selector, Ref(Selector(0))) : p \in {p \in {q} : HasSelector(p)}}
           d == CallEdge(BlockExit(cur, bb), Fresh, SuccCondition(at), q, ins, outs)
           cs == {Leave(x[1], x[2]) : x \in exits}
           es == {d} \cup cs
           next == IF hasPhis THEN pc ELSE "abort"
<1>1. pc = "succ" /\ pc' # "abort" /\ n # 0
  BY DEF NoAssertionFails, CallLoop, AtSuccessor
<1>2. Emit(es, 1, next)
  BY DEF CallLoop
<1>3. Same /\ UNCHANGED <<left, cur, rest, bb>>
  BY DEF CallLoop, Same, progVars, declVars
<1>4. cur \in DOMAIN info /\ cur[1] \in DOMAIN mod
  BY <1>1, Place, CurrentFunction
<1>5. q \in DOMAIN info /\ q[1] = cur[1] /\ q[2] # 0 /\ info[q].extra \subseteq {Selector(0)}
  <2>1. n = LoopFor(cur[1], Succ)
    BY <1>1 DEF NestedLoopOf
  <2>2. n \in DOMAIN loops[cur[1]]
    <3> HIDE DEF n
    <3> QED BY <1>1, <1>4, <2>1, LoopForFacts
  <2> HIDE DEF n
  <2>3. q \in ProcsOf(cur[1]) /\ q[1] = cur[1] /\ q[2] # 0
    BY <1>1, <2>2 DEF ProcsOf
  <2>4. q \in DOMAIN info
    BY <1>4, <2>3 DEF EncodeInv, AllDeclared
  <2>5. Interface(q, info[q])
    BY <2>4 DEF InfoInv
  <2> QED BY <2>3, <2>4, <2>5 DEF Interface
<1> HIDE DEF q
<1>6. InsFit(ins, q)
  BY <1>4, <1>5, LoopArgsFit
<1> HIDE DEF next, exits
<1>7. \A a \in OutputAssignments(q) : a.var # NoVar
  <2>1. d.outs = outs /\ d \in es
    BY EdgeFacts
  <2> HIDE DEF d, es
  <2>2. \A a \in d.outs : a.var # NoVar
    BY <1>1, <1>2, <2>1, EmittedOutputs
  <2> QED BY <2>1, <2>2
<1>8. OutsFit(outs, q)
  BY <1>5, <1>7, LoopOutsFit
<1> HIDE DEF ins, outs
<1>9. Fits(d)
  BY <1>6, <1>8, EdgeFacts DEF Fits
<1>10. \A e \in cs : Fits(e)
  <2>1. ASSUME NEW b, NEW t PROVE Fits(Leave(b, t))
    BY AssignEdgesFit DEF ExitTransition
  <2> HIDE DEF Leave
  <2> QED BY <2>1
<1> HIDE DEF d, cs
<1>11. \A e \in es : Fits(e)
  BY <1>9, <1>10
<1> HIDE DEF es
<1>12. pc' = "succ"
  BY <1>1, <1>2 DEF Emit, next
<1> QED BY <1>1, <1>2, <1>3, <1>11, <1>12, EmitStep

\* The steps between procedures and blocks.
LEMMA ProcedureStep ==
  ASSUME ProgInv, InfoInv, EncodeInv, BeginProcedure \/ BeginBlock \/ EndProcedure \/ Connect
  PROVE  ProgInv' /\ InfoInv' /\ EncodeInv' /\ pc' \notin {"canonize", "declare"}
<1>1. Same
  BY DEF BeginProcedure, BeginBlock, EndProcedure, Connect, Same, progVars, declVars
<1>2. ProgInv' /\ AllDeclared'
  BY <1>1 DEF ProgInv, EncodeInv, AllDeclared, ProcsOf, Same
<1>3. left \subseteq DOMAIN info /\ CallsMatchInterfaces /\ DOMAIN info' = DOMAIN info
  BY <1>1 DEF EncodeInv, Same
<1>4. \A p \in DOMAIN cfa : {"next", "locs", "edges", "vars"} \subseteq DOMAIN cfa[p]
  BY DEF InfoInv
<1>5. CASE BeginProcedure
  <2> DEFINE E(p) == AssignEdge(Entry, BlockEntry(p, EntryBlock(p)), True, {})
  <2>1. PICK p \in left : /\ cur' = p /\ rest' = info[p].blocks
                          /\ cfa' = [cfa EXCEPT ![p].edges = @ \cup {E(p)}]
    BY <1>5 DEF BeginProcedure
  <2>2. Fits(E(p))
    BY AssignEdgesFit
  <2> HIDE DEF E
  <2>3. pc' = "next" /\ left' = left
    BY <1>5 DEF BeginProcedure
  <2>4. /\ DOMAIN cfa' = DOMAIN cfa
        /\ \A q \in DOMAIN cfa : /\ DOMAIN cfa'[q] = DOMAIN cfa[q]
                                 /\ \A e \in cfa'[q].edges : e \in cfa[q].edges \/ Fits(e)
    BY <1>4, <2>1, <2>2
  <2>5. InfoInv' /\ CallsMatchInterfaces'
    BY <1>1, <1>3, <2>4, EdgesAdded
  <2>6. cur' \in DOMAIN info' /\ rest' \in Seq(BlocksOf(Func'))
    <3>1. p \in DOMAIN info /\ Interface(p, info[p])
      BY <1>3 DEF InfoInv
    <3>2. info[p].blocks \in Seq(BlocksOf(mod[p[1]]))
      BY <3>1 DEF Interface
    <3> QED BY <1>1, <2>1, <3>1, <3>2 DEF Func, Same
  <2> QED BY <1>2, <1>3, <2>3, <2>5, <2>6 DEF EncodeInv
<1>6. CASE BeginBlock
  <2>1. /\ pc = "next" /\ rest # <<>> /\ bb' = Head(rest) /\ rest' = Tail(rest)
        /\ at' = Cardinality(Phis(Func, bb')) + 1 /\ pc' = "inst" /\ UNCHANGED <<cfa, left, cur>>
    BY <1>6 DEF BeginBlock
  <2>2. cur \in DOMAIN info /\ rest \in Seq(BlocksOf(Func))
    BY <2>1 DEF EncodeInv
  <2>3. IsFunction(Func) /\ Func' = Func
    BY <1>1, <2>1, <2>2, CurrentFunction DEF Func, Same
  <2>4. bb' \in BlocksOf(Func) /\ rest' \in Seq(BlocksOf(Func))
    BY <2>1, <2>2
  <2>5. at' \in DOMAIN Func.blocks[bb']
    <3> DEFINE F == Func
    <3>1. IsFunction(F) /\ bb' \in BlocksOf(F)
      BY <2>3, <2>4
    <3> HIDE DEF F
    <3>2. Cardinality(Phis(F, bb')) + 1 \in DOMAIN F.blocks[bb']
      BY <3>1, FirstInst
    <3> QED BY <2>1, <3>2 DEF F
  <2>6. InfoInv' /\ CallsMatchInterfaces'
    BY <1>1, <1>3, <2>1, EdgesAdded
  <2> QED BY <1>2, <1>3, <2>1, <2>2, <2>3, <2>4, <2>5, <2>6 DEF EncodeInv
<1>7. CASE EndProcedure
  <2>1. /\ cfa' = [cfa EXCEPT ![cur].vars = @ \ {ValueVar(x) : x \in DOMAIN inlined}]
        /\ left' = left \ {cur} /\ pc' \in {"connect", "encode"}
    BY <1>7 DEF EndProcedure
  <2>2. /\ DOMAIN cfa' = DOMAIN cfa
        /\ \A q \in DOMAIN cfa : /\ DOMAIN cfa'[q] = DOMAIN cfa[q]
                                 /\ \A e \in cfa'[q].edges : e \in cfa[q].edges \/ Fits(e)
    BY <1>4, <2>1
  <2>3. InfoInv' /\ CallsMatchInterfaces'
    BY <1>1, <1>3, <2>2, EdgesAdded
  <2> QED BY <1>2, <1>3, <2>1, <2>3 DEF EncodeInv
<1>8. CASE Connect
  <2>1. cfa' = [p \in DOMAIN cfa |-> Connected(cfa[p])] /\ pc' = "done" /\ left' = left
    BY <1>8 DEF Connect, procVars
  <2>2. ASSUME NEW p \in DOMAIN cfa
        PROVE  /\ DOMAIN cfa'[p] = DOMAIN cfa[p]
               /\ \A e \in cfa'[p].edges : e \in cfa[p].edges \/ Fits(e)
    <3> DEFINE c == cfa[p]
               z == AssignEdge(Entry, Exit, False, {})
               es == c.edges \cup {e \in {z} : \A d \in c.edges : d.dst # Exit}
               live == ReachWithin({Entry}, es, c.next)
               fs == {e \in es : e.src \in live}
    <3>1. cfa'[p] = [c EXCEPT !.locs = live, !.err = c.err \cap live, !.edges = fs]
      BY <2>1 DEF Connected
    <3>2. Fits(z)
      BY AssignEdgesFit
    <3>3. "edges" \in DOMAIN c
      BY <1>4
    <3>4. \A e \in fs : e \in c.edges \/ e = z
      OBVIOUS
    <3> HIDE DEF c, z, fs, live
    <3>5. DOMAIN cfa'[p] = DOMAIN c /\ cfa'[p].edges = fs
      BY <3>1, <3>3
    <3> QED BY <3>2, <3>4, <3>5 DEF c
  <2>3. DOMAIN cfa' = DOMAIN cfa
    BY <2>1
  <2>4. InfoInv' /\ CallsMatchInterfaces'
    BY <1>1, <1>3, <2>2, <2>3, EdgesAdded
  <2> QED BY <1>2, <1>3, <2>1, <2>4 DEF EncodeInv
<1> QED BY <1>5, <1>6, <1>7, <1>8

-----------------------------------------------------------------------------
(* The theorem *)

\* Every step preserves the invariant.
LEMMA InvStep == Inv /\ [Next]_vars => Inv'
<1> SUFFICES ASSUME Inv, [Next]_vars, NoAssertionFails' PROVE Inv'
  BY DEF Inv
<1>1. CASE UNCHANGED vars
  <2>1. /\ UNCHANGED <<pc, mod, loops, declare, info, cfa>>
        /\ UNCHANGED <<left, cur, rest, bb, at>>
    BY <1>1 DEF vars, progVars, declVars, procVars, blockVars
  <2>2. NoAssertionFails /\ Same
    BY <2>1 DEF NoAssertionFails, Same
  <2>3. ProgInv' <=> ProgInv
    BY <2>1 DEF ProgInv
  <2>4. InfoInv => InfoInv' /\ (CallsMatchInterfaces => CallsMatchInterfaces')
    BY <2>1, <2>2, EdgesAdded
  <2>5. (\A f : ProcsOf(f)' = ProcsOf(f)) /\ AllLoops' = AllLoops /\ Func' = Func
    BY <2>1 DEF ProcsOf, AllLoops, Func
  <2>6. (\A f : Declaring(f)' <=> Declaring(f)) /\ (NoEdges' <=> NoEdges) /\ (AllDeclared' <=> AllDeclared)
    BY <2>1, <2>5 DEF Declaring, NoEdges, AllDeclared
  <2>7. InfoInv => (EncodeInv => EncodeInv')
    BY <2>1, <2>4, <2>5, <2>6 DEF EncodeInv
  <2> QED BY <2>1, <2>2, <2>3, <2>4, <2>5, <2>6, <2>7 DEF Inv, Empty
<1>2. ASSUME Next, ~UNCHANGED vars PROVE Inv'
  <2>1. NoAssertionFails
    BY <1>2 DEF Next, NoAssertionFails, CanonizeExit, CanonizeNext, AnalyzeLoops, DeclareLoop, DeclareFunction,
       BeginProcedure, BeginBlock, EndProcedure, EncodeCalc, EncodeUnknownCall, EncodeErrorCall, EncodeAssume,
       EncodeCall, EndOfBlock, CallSelf, GoToBlock, CallLoop, LeaveLoop, AfterSuccessors, Return, Unreachable,
       AtSuccessor, Connect, Done
  <2>2. ProgInv /\ InfoInv
    BY <2>1 DEF Inv
  <2>3. CASE CanonizeExit
    <3>1. pc = "canonize" /\ pc' = pc /\ info' = info /\ cfa' = cfa
      BY <2>3 DEF CanonizeExit, declVars
    <3>2. declare \in Seq(AllLoops) /\ info = Empty /\ cfa = Empty
      BY <2>1, <3>1 DEF Inv
    <3>3. ProgInv' /\ declare' \in Seq(AllLoops')
      BY <2>2, <2>3, <3>2, CanonizeExitProg
    <3>4. InfoInv'
      BY <3>1, <3>2 DEF InfoInv, Empty
    <3> QED BY <3>1, <3>2, <3>3, <3>4 DEF Inv, Empty
  <2>4. CASE CanonizeNext
    <3>1. pc = "canonize" /\ declare # <<>> /\ declare' = Tail(declare)
          /\ UNCHANGED <<pc, mod, loops, info, cfa>>
      BY <2>4 DEF CanonizeNext, progVars
    <3>2. declare \in Seq(AllLoops) /\ info = Empty /\ cfa = Empty
      BY <2>1, <3>1 DEF Inv
    <3>3. Tail(declare) \in Seq(AllLoops)
      BY <3>1, <3>2, TailFacts
    <3>4. ProgInv' /\ AllLoops' = AllLoops
      BY <2>2, <3>1 DEF ProgInv, AllLoops
    <3>5. InfoInv'
      BY <3>1, <3>2 DEF InfoInv, Empty
    <3> QED BY <3>1, <3>2, <3>3, <3>4, <3>5 DEF Inv, Empty
  <2>5. CASE AnalyzeLoops
    <3>1. pc = "canonize" /\ pc' = "declare"
      BY <2>5 DEF AnalyzeLoops
    <3>2. info = Empty /\ cfa = Empty
      BY <2>1, <3>1 DEF Inv
    <3>3. ProgInv' /\ InfoInv' /\ NoEdges' /\ 1 \in DOMAIN mod' /\ Declaring(1)'
      BY <2>2, <2>5, <3>2, AnalyzeLoopsStep
    <3> QED BY <3>1, <3>3 DEF Inv
  <2>6. CASE DeclareLoop
    <3>1. pc = "declare" /\ pc' \in {pc, "abort"} /\ mod' = mod
      BY <2>6 DEF DeclareLoop, progVars
    <3>2. pc' = "declare"
      BY <3>1 DEF NoAssertionFails
    <3>3. NoEdges /\ \E f \in DOMAIN mod : Declaring(f)
      BY <2>1, <3>1 DEF Inv
    <3>4. PICK f \in DOMAIN mod : Declaring(f)
      BY <3>3
    <3>5. ProgInv' /\ InfoInv' /\ NoEdges' /\ Declaring(f)'
      BY <2>2, <2>6, <3>3, <3>4, DeclareLoopStep
    <3> QED BY <3>1, <3>2, <3>5, SMTT(60) DEF Inv
  <2>7. CASE DeclareFunction
    <3>1. pc = "declare"
      BY <2>7 DEF DeclareFunction
    <3>2. NoEdges /\ \E f \in DOMAIN mod : Declaring(f)
      BY <2>1, <3>1 DEF Inv
    <3>3. PICK f \in DOMAIN mod : Declaring(f)
      BY <3>2
    <3>4. /\ ProgInv' /\ InfoInv' /\ NoEdges'
          /\ \/ pc' = pc /\ \E g \in DOMAIN mod' : Declaring(g)'
             \/ pc' = "encode" /\ AllDeclared' /\ left' = DOMAIN info'
      BY <2>2, <2>7, <3>2, <3>3, DeclareFunctionStep
    <3>5. CallsMatchInterfaces'
      BY <3>4 DEF NoEdges, CallsMatchInterfaces
    <3> QED BY <3>1, <3>4, <3>5, SMTT(60) DEF Inv, EncodeInv
  <2>8. CASE ~(CanonizeExit \/ CanonizeNext \/ AnalyzeLoops \/ DeclareLoop \/ DeclareFunction)
    <3>1. \/ BeginProcedure \/ BeginBlock \/ EndProcedure \/ Connect
          \/ EncodeCalc \/ EncodeUnknownCall \/ EncodeErrorCall \/ EncodeAssume \/ EncodeCall \/ EndOfBlock
          \/ GoToBlock \/ LeaveLoop \/ AfterSuccessors \/ Return \/ Unreachable
          \/ CallSelf \/ CallLoop
      BY <1>2, <2>8 DEF Next, Done
    <3>2. pc \in {"encode", "next", "inst", "succ", "connect"}
      BY <3>1 DEF BeginProcedure, BeginBlock, EndProcedure, EncodeCalc, EncodeUnknownCall, EncodeErrorCall,
         EncodeAssume, EncodeCall, EndOfBlock, CallSelf, GoToBlock, CallLoop, LeaveLoop, AfterSuccessors, Return,
         Unreachable, AtSuccessor, Connect
    <3>3. EncodeInv
      BY <2>1, <3>2 DEF Inv
    <3>4. ProgInv' /\ InfoInv' /\ EncodeInv' /\ pc' \notin {"canonize", "declare"}
      BY <2>2, <3>1, <3>3, EncodeInstStep, SuccStep, CallSelfStep, CallLoopStep, ProcedureStep
    <3> QED BY <3>4 DEF Inv
  <2> QED BY <2>3, <2>4, <2>5, <2>6, <2>7, <2>8, SMTT(60)
<1> QED BY <1>1, <1>2

\* ModuleToCfa and BlocksToCfa: as long as no assertion of the translation has
\* failed, every call transition gives each input of the procedure it calls one
\* value and takes each of its outputs once.  For every module that the
\* verifier and the preceding passes accept, and every -elim-vars.
THEOREM InterfacesMatch == Spec => [](NoAssertionFails => CallsMatchInterfaces)
<1>1. Init => Inv
  BY InvInit
<1>2. Inv /\ [Next]_vars => Inv'
  BY InvStep
<1>3. Inv => (NoAssertionFails => CallsMatchInterfaces)
  <2> SUFFICES ASSUME Inv, NoAssertionFails PROVE CallsMatchInterfaces
    OBVIOUS
  <2>1. CASE pc = "canonize"
    BY <2>1 DEF Inv, CallsMatchInterfaces, Empty
  <2>2. CASE pc = "declare"
    BY <2>2 DEF Inv, NoEdges, CallsMatchInterfaces
  <2>3. CASE pc \notin {"canonize", "declare"}
    BY <2>3 DEF Inv, EncodeInv
  <2> QED BY <2>1, <2>2, <2>3
<1> QED BY <1>1, <1>2, <1>3, PTL DEF Spec

=============================================================================
