------------------------------ MODULE BmcProof ------------------------------
(***************************************************************************)
(* Proofs about the graph that the bounded model checker works on: its     *)
(* topological order and its table of calls survive every inlining, for    *)
(* any automata systems, settings and answers of the solver.               *)
(***************************************************************************)
EXTENDS Bmc, SequenceTheorems, TLAPS

(***************************************************************************)
(* The inductive invariant.  GraphInv: the graph is well formed and new    *)
(* identities are fresh.  EarlyInv: what holds before the order exists; in *)
(* particular, after removeIrrelevantLocations every location but the exit *)
(* lies in each predecessor-closed set that holds the error goal.  That    *)
(* gives ErrorIsLast: no location but the exit follows the error goal in   *)
(* the order, without which the transitions from inlined error locations   *)
(* to the goal could go backward.                                          *)
(***************************************************************************)
GraphInv ==
    /\ prog \in Programs
    /\ nextLoc \in Nat /\ nextEdge \in Nat
    /\ \A l \in nodes : l \in Nat /\ l < nextLoc
    /\ Exit \in nodes
    /\ \A e \in edges : /\ e.id \in Nat /\ e.id <= nextEdge
                        /\ e.src \in nodes /\ e.dst \in nodes
                        /\ IsCall(e) => e.dst # Exit /\ e.callee \in Procs \ {Main}
    /\ \A e, f \in edges : e.id = f.id => e = f

ClosedUnderPredecessors(S) == error \in S /\ \A e \in edges : e.dst \in S => e.src \in S

EarlyInv ==
    /\ pc = "errorField" => nodes = LocsOf(prog[Main]) /\ nextLoc = prog[Main].n
    /\ pc \in {"errorField", "remove"} => \A e \in edges : e.src # Exit
    /\ pc \notin {"errorField", "done"} => error \in nodes \ {Exit}
    /\ pc = "sort" => \A l \in nodes \ {Exit} : \A S \in SUBSET nodes :
                         ClosedUnderPredecessors(S) => l \in S
    /\ pc \in {"errorField", "remove", "sort"} => ~Sorted
    /\ pc \notin {"errorField", "remove", "sort", "done"} => Sorted

OrderInv ==
    /\ topo \in Seq(nodes)
    /\ DOMAIN locNum = nodes
    /\ \A i \in DOMAIN topo : topo[i] \in nodes /\ locNum[topo[i]] = i
    /\ \A l \in nodes : locNum[l] \in DOMAIN topo /\ topo[locNum[l]] = l
    /\ \A e \in edges : locNum[e.src] < locNum[e.dst]

ErrorIsLast == error \in nodes /\ \A l \in nodes \ {Exit} : locNum[l] <= locNum[error]

SortsInv == \A p \in Procs \ {Main} :
                IsTopologicalOrder(topoSort[p], LocsOf(prog[p]), EdgesOf(prog[p]))

CallInv ==
    /\ DOMAIN calls = {e.id : e \in CallEdges}
    /\ \A e \in CallEdges : /\ calls[e.id].chain \in Seq(Procs)
                            /\ calls[e.id].chain[Len(calls[e.id].chain)] = e.callee

Inv == GraphInv /\ EarlyInv /\ (Sorted => OrderInv /\ ErrorIsLast /\ SortsInv /\ CallInv)

-----------------------------------------------------------------------------
(* Automata *)

\* What IsSystem says of each automaton of a program.
LEMMA CfaFacts ==
    ASSUME NEW sys \in Programs, NEW p \in Procs
    PROVE  /\ sys[p].n \in Nat /\ sys[p].n >= 2
           /\ sys[p].edges \in Seq(Transition)
           /\ sys[p].err \subseteq LocsOf(sys[p]) \ {Entry, Exit}
           /\ \A k \in DOMAIN sys[p].edges :
                /\ sys[p].edges[k] \in Transition
                /\ sys[p].edges[k].src \in LocsOf(sys[p]) \ {Exit}
                /\ sys[p].edges[k].dst \in LocsOf(sys[p]) \ {Entry}
                /\ sys[p].edges[k].callee # Main
  <1>1. IsCfa(sys[p]) /\ \A e \in EdgesOf(sys[p]) : e.callee # Main
    BY ProgramsAssumption DEF IsSystem
  <1>2. /\ sys[p].n \in Nat /\ sys[p].n >= 2
        /\ sys[p].edges \in Seq(Transition)
        /\ sys[p].err \subseteq LocsOf(sys[p]) \ {Entry, Exit}
        /\ \A e \in EdgesOf(sys[p]) : /\ e.src \in LocsOf(sys[p]) \ {Exit}
                                      /\ e.dst \in LocsOf(sys[p]) \ {Entry}
    BY <1>1, Zenon DEF IsCfa
  <1>3. \A k \in DOMAIN sys[p].edges : sys[p].edges[k] \in EdgesOf(sys[p])
    BY DEF EdgesOf
  <1>4. \A k \in DOMAIN sys[p].edges : sys[p].edges[k] \in Transition
    BY <1>2
  <1> QED BY <1>1, <1>2, <1>3, <1>4, Zenon

\* A call of the main automaton does not end in its exit.
LEMMA MainCallFacts ==
    ASSUME NEW sys \in Programs, NEW k \in DOMAIN sys[Main].edges, IsCall(sys[Main].edges[k])
    PROVE  sys[Main].edges[k].dst # Exit
  BY ProgramsAssumption DEF IsSystem, EdgesOf

-----------------------------------------------------------------------------
(* Splicing *)

\* r has the elements of q in front of pos, those of s, and the rest of q.
HasElements(r, q, pos, s, S) ==
    /\ r \in Seq(S) /\ Len(r) = Len(q) + Len(s)
    /\ \A i \in 1 .. pos - 1 : r[i] = q[i]
    /\ \A i \in 1 .. Len(s) : r[pos - 1 + i] = s[i]
    /\ \A i \in pos .. Len(q) : r[Len(s) + i] = q[i]

\* The elements of a spliced sequence.
LEMMA SplicedElements ==
    ASSUME NEW S, NEW q \in Seq(S), NEW pos \in 1 .. Len(q), NEW s \in Seq(S)
    PROVE  HasElements(Spliced(q, pos, s), q, pos, s, S)
  <1> DEFINE a == SubSeq(q, 1, pos - 1)
             b == SubSeq(q, pos, Len(q))
  <1>1. a \in Seq(S) /\ Len(a) = pos - 1 /\ \A i \in 1 .. pos - 1 : a[i] = q[i]
    OBVIOUS
  <1>2. b \in Seq(S) /\ Len(b) = Len(q) - pos + 1
    OBVIOUS
  <1>3. \A j \in 1 .. Len(q) - pos + 1 : b[j] = q[pos + j - 1]
    OBVIOUS
  <1>4. Spliced(q, pos, s) = (a \o s) \o b
    BY DEF Spliced
  <1> HIDE DEF a, b
  <1> DEFINE r == a \o s
  <1>5. /\ r \in Seq(S) /\ Len(r) = pos - 1 + Len(s)
        /\ \A i \in 1 .. Len(r) : r[i] = IF i <= pos - 1 THEN a[i] ELSE s[i - (pos - 1)]
    <2>1. /\ r \in Seq(S) /\ Len(r) = Len(a) + Len(s)
          /\ \A i \in 1 .. Len(a) + Len(s) : r[i] = IF i <= Len(a) THEN a[i] ELSE s[i - Len(a)]
      BY <1>1, ConcatProperties, Zenon
    <2> QED BY <1>1, <2>1
  <1>6. \A i \in 1 .. pos - 1 : r[i] = q[i]
    BY <1>5, <1>1
  <1>7. \A i \in 1 .. Len(s) : r[pos - 1 + i] = s[i]
    BY <1>5
  <1> HIDE DEF r
  <1>8. /\ r \o b \in Seq(S) /\ Len(r \o b) = Len(q) + Len(s)
        /\ \A i \in 1 .. Len(r) + Len(b) :
              (r \o b)[i] = IF i <= Len(r) THEN r[i] ELSE b[i - Len(r)]
    <2>1. /\ r \o b \in Seq(S) /\ Len(r \o b) = Len(r) + Len(b)
          /\ \A i \in 1 .. Len(r) + Len(b) :
                (r \o b)[i] = IF i <= Len(r) THEN r[i] ELSE b[i - Len(r)]
      BY <1>5, <1>2, ConcatProperties, Zenon
    <2> QED BY <1>2, <1>5, <2>1
  <1>9. \A i \in 1 .. Len(r) : (r \o b)[i] = r[i]
    BY <1>8, <1>5, <1>2
  <1>11. \A i \in pos .. Len(q) : (r \o b)[Len(s) + i] = q[i]
    <2> TAKE i \in pos .. Len(q)
    <2>1. /\ Len(s) + i \in 1 .. Len(r) + Len(b) /\ ~(Len(s) + i <= Len(r))
          /\ Len(s) + i - Len(r) = i - pos + 1 /\ i - pos + 1 \in 1 .. Len(q) - pos + 1
      BY <1>2, <1>5
    <2>2. (r \o b)[Len(s) + i] = b[i - pos + 1]
      BY <2>1, <1>8
    <2>3. pos + (i - pos + 1) - 1 = i
      OBVIOUS
    <2> DEFINE j == i - pos + 1
    <2>4. j \in 1 .. Len(q) - pos + 1 /\ pos + j - 1 = i
      BY <2>1, <2>3
    <2> HIDE DEF j
    <2>5. b[j] = q[i]
      BY <2>4, <1>3
    <2> QED BY <2>2, <2>5 DEF j
  <1>12. Spliced(q, pos, s) = r \o b
    BY <1>4 DEF r
  <1>13. /\ \A i \in 1 .. pos - 1 : (r \o b)[i] = q[i]
         /\ \A i \in 1 .. Len(s) : (r \o b)[pos - 1 + i] = s[i]
    <2>1. ASSUME NEW i \in 1 .. pos - 1 PROVE (r \o b)[i] = q[i]
      <3>1. i \in 1 .. Len(r)
        BY <1>5
      <3> QED BY <3>1, <1>6, <1>9
    <2>2. ASSUME NEW i \in 1 .. Len(s) PROVE (r \o b)[pos - 1 + i] = s[i]
      <3>1. pos - 1 + i \in 1 .. Len(r)
        BY <1>5
      <3> QED BY <3>1, <1>7, <1>9
    <2> QED BY <2>1, <2>2
  <1> QED BY <1>8, <1>11, <1>12, <1>13, Zenon DEF HasElements

-----------------------------------------------------------------------------
(* Inlining *)

\* The transitions that inlining adds: fresh identities, and end points among
\* the copied locations, the ends of the call and the error goal.
LEMMA InlinedEdgeFacts ==
    ASSUME GraphInv, NEW c \in CallEdges
    PROVE  LET n == prog[c.callee].n
               es == prog[c.callee].edges
           IN  /\ \A k \in DOMAIN es : /\ CopiedEdge(c, k).id = nextEdge + n + k
                                       /\ CopiedEdge(c, k).src = nextLoc + es[k].src
                                       /\ CopiedEdge(c, k).dst = nextLoc + es[k].dst
                                       /\ CopiedEdge(c, k).callee = es[k].callee
               /\ \A l \in prog[c.callee].err : /\ ToErrorEdge(c, l).id = nextEdge + 1 + l
                                                /\ ToErrorEdge(c, l).src = nextLoc + l
                                                /\ ToErrorEdge(c, l).dst = error
                                                /\ ~IsCall(ToErrorEdge(c, l))
               /\ EnterEdge(c).id = nextEdge + n + Len(es) + 1
               /\ EnterEdge(c).src = c.src /\ EnterEdge(c).dst = nextLoc
               /\ ~IsCall(EnterEdge(c))
               /\ LeaveEdge(c).id = nextEdge + n + Len(es) + 2
               /\ LeaveEdge(c).src = nextLoc + 1 /\ LeaveEdge(c).dst = c.dst
               /\ ~IsCall(LeaveEdge(c))
  <1> DEFINE n == prog[c.callee].n
             es == prog[c.callee].edges
  <1>1. c \in edges /\ c.callee \in Procs \ {Main} /\ prog \in Programs
    BY DEF GraphInv, CallEdges
  <1>2. n \in Nat /\ es \in Seq(Transition) /\ Len(es) \in Nat /\ nextEdge \in Nat /\ nextLoc \in Nat
    BY <1>1, CfaFacts DEF GraphInv
  <1>3. \A k \in DOMAIN es : /\ CopiedEdge(c, k).id = nextEdge + n + k
                             /\ CopiedEdge(c, k).src = nextLoc + es[k].src
                             /\ CopiedEdge(c, k).dst = nextLoc + es[k].dst
                             /\ CopiedEdge(c, k).callee = es[k].callee
    BY DEF CopiedEdge, CopyId
  <1>4. \A l \in prog[c.callee].err : /\ ToErrorEdge(c, l).id = nextEdge + 1 + l
                                      /\ ToErrorEdge(c, l).src = nextLoc + l
                                      /\ ToErrorEdge(c, l).dst = error
                                      /\ ~IsCall(ToErrorEdge(c, l))
    BY DEF ToErrorEdge, AssignEdge, IsCall
  <1>5. /\ EnterEdge(c).id = nextEdge + n + Len(es) + 1
        /\ EnterEdge(c).src = c.src /\ EnterEdge(c).dst = nextLoc
        /\ ~IsCall(EnterEdge(c))
    <2>1. /\ EnterEdge(c).id = CopyId(c, Len(es) + 1) /\ EnterEdge(c).src = c.src
          /\ EnterEdge(c).dst = nextLoc + Entry /\ ~IsCall(EnterEdge(c))
      BY DEF EnterEdge, AssignEdge, IsCall
    <2>2. CopyId(c, Len(es) + 1) = nextEdge + n + (Len(es) + 1)
      BY DEF CopyId
    <2> HIDE DEF n, es
    <2> QED BY <1>2, <2>1, <2>2 DEF Entry
  <1>6. /\ LeaveEdge(c).id = nextEdge + n + Len(es) + 2
        /\ LeaveEdge(c).src = nextLoc + 1 /\ LeaveEdge(c).dst = c.dst
        /\ ~IsCall(LeaveEdge(c))
    <2>1. /\ LeaveEdge(c).id = CopyId(c, Len(es) + 2) /\ LeaveEdge(c).src = nextLoc + Exit
          /\ LeaveEdge(c).dst = c.dst /\ ~IsCall(LeaveEdge(c))
      BY DEF LeaveEdge, AssignEdge, IsCall
    <2>2. CopyId(c, Len(es) + 2) = nextEdge + n + (Len(es) + 2)
      BY DEF CopyId
    <2> HIDE DEF n, es
    <2> QED BY <1>2, <2>1, <2>2 DEF Exit
  <1> QED BY <1>3, <1>4, <1>5, <1>6

\* Inlining keeps the graph well formed and new identities fresh.
LEMMA InlineGraph ==
    ASSUME GraphInv, error \in nodes, NEW c \in CallEdges, InlineCallIntoRoot(c), UNCHANGED prog
    PROVE  GraphInv'
  <1> DEFINE n == prog[c.callee].n
             es == prog[c.callee].edges
             err == prog[c.callee].err
  <1>1. c \in edges /\ c.callee \in Procs \ {Main} /\ prog \in Programs
    BY DEF GraphInv, CallEdges
  <1>2. /\ n \in Nat /\ n >= 2 /\ es \in Seq(Transition)
        /\ \A l \in err : l \in 0 .. n - 1
        /\ \A k \in DOMAIN es : /\ es[k].src \in 0 .. n - 1 /\ es[k].dst \in 0 .. n - 1
                                /\ es[k].callee \in Procs \cup {NoProc} /\ es[k].callee # Main
    <2>1. c.callee \in Procs
      BY <1>1
    <2>2. /\ n \in Nat /\ n >= 2 /\ es \in Seq(Transition)
          /\ err \subseteq 0 .. n - 1
          /\ \A k \in DOMAIN es : /\ es[k] \in Transition /\ es[k].callee # Main
                                  /\ es[k].src \in 0 .. n - 1 /\ es[k].dst \in 0 .. n - 1
      BY <1>1, <2>1, CfaFacts DEF LocsOf
    <2> HIDE DEF n, es, err
    <2>3. ASSUME NEW k \in DOMAIN es PROVE es[k].callee \in Procs \cup {NoProc}
      BY <2>2 DEF Transition
    <2> QED BY <2>2, <2>3
  <1>3. /\ nextLoc \in Nat /\ nextEdge \in Nat /\ nextLoc > 1
        /\ \A l \in nodes : l \in Nat /\ l < nextLoc
    BY DEF GraphInv, Exit
  <1>4. /\ edges' = (edges \ {c}) \cup InlinedEdges(c)
        /\ nodes' = nodes \cup nextLoc .. nextLoc + n - 1
        /\ nextLoc' = nextLoc + n
        /\ nextEdge' = nextEdge + n + (Len(es) + 2)
    BY DEF InlineCallIntoRoot, CopyId
  <1>5. DOMAIN es = 1 .. Len(es) /\ Len(es) \in Nat
    BY <1>2
  <1>0. InlinedEdges(c) = {CopiedEdge(c, k) : k \in DOMAIN es} \cup {ToErrorEdge(c, l) : l \in err}
                            \cup {EnterEdge(c), LeaveEdge(c)}
    BY DEF InlinedEdges
  <1>c. \A k \in DOMAIN es :
          /\ CopiedEdge(c, k).id = nextEdge + n + k
          /\ CopiedEdge(c, k).src = nextLoc + es[k].src /\ CopiedEdge(c, k).dst = nextLoc + es[k].dst
          /\ CopiedEdge(c, k).callee = es[k].callee
    BY InlinedEdgeFacts
  <1>t. \A l \in err :
          /\ ToErrorEdge(c, l).id = nextEdge + 1 + l
          /\ ToErrorEdge(c, l).src = nextLoc + l /\ ToErrorEdge(c, l).dst = error
          /\ ~IsCall(ToErrorEdge(c, l))
    BY InlinedEdgeFacts
  <1>e. /\ EnterEdge(c).id = nextEdge + n + Len(es) + 1
        /\ EnterEdge(c).src = c.src /\ EnterEdge(c).dst = nextLoc
        /\ LeaveEdge(c).id = nextEdge + n + Len(es) + 2
        /\ LeaveEdge(c).src = nextLoc + 1 /\ LeaveEdge(c).dst = c.dst
        /\ ~IsCall(EnterEdge(c)) /\ ~IsCall(LeaveEdge(c))
    BY InlinedEdgeFacts
  <1> HIDE DEF n, es, err
  <1>6. \A l \in nodes' : l \in Nat /\ l < nextLoc'
    BY <1>2, <1>3, <1>4
  <1>a. /\ n \in Nat /\ n >= 2 /\ Len(es) \in Nat /\ nextLoc \in Nat /\ nextEdge \in Nat /\ nextLoc > 1
        /\ nextEdge' = nextEdge + n + (Len(es) + 2)
    BY <1>2, <1>3, <1>4, <1>5
  <1>7. ASSUME NEW e \in InlinedEdges(c)
        PROVE  /\ e.id \in Nat /\ nextEdge < e.id /\ e.id <= nextEdge'
               /\ e.src \in nodes' /\ e.dst \in nodes'
               /\ IsCall(e) => e.dst # Exit /\ e.callee \in Procs \ {Main}
    <2>1. CASE \E k \in DOMAIN es : e = CopiedEdge(c, k)
      <3> PICK k \in DOMAIN es : e = CopiedEdge(c, k)
        BY <2>1
      <3>1. /\ e.id = nextEdge + n + k /\ e.src = nextLoc + es[k].src
            /\ e.dst = nextLoc + es[k].dst /\ e.callee = es[k].callee
        BY <1>c
      <3>2. e.id \in Nat /\ nextEdge < e.id /\ e.id <= nextEdge'
        <4>1. k \in 1 .. Len(es)
          BY <1>5
        <4>2. e.id = nextEdge + n + k
          BY <3>1
        <4> QED BY <4>1, <4>2, <1>a
      <3>3. e.src \in nodes' /\ e.dst \in nodes' /\ e.dst # Exit
        <4>1. es[k].src \in 0 .. n - 1 /\ es[k].dst \in 0 .. n - 1
          BY <1>2
        <4>2. ASSUME NEW x \in 0 .. n - 1
              PROVE  nextLoc + x \in nextLoc .. nextLoc + n - 1 /\ nextLoc + x # 1
          BY <1>2, <1>3
        <4> QED BY <3>1, <4>1, <4>2, <1>4 DEF Exit
      <3> QED BY <3>1, <3>2, <3>3, <1>2 DEF IsCall
    <2>2. CASE \E l \in err : e = ToErrorEdge(c, l)
      <3> PICK l \in err : e = ToErrorEdge(c, l)
        BY <2>2
      <3>1. e.id = nextEdge + 1 + l /\ e.src = nextLoc + l /\ e.dst = error /\ ~IsCall(e)
        BY <1>t
      <3>2. l \in 0 .. n - 1
        BY <1>2
      <3>3. e.id \in Nat /\ nextEdge < e.id /\ e.id <= nextEdge'
        BY <3>1, <3>2, <1>a
      <3>4. nextLoc + l \in nextLoc .. nextLoc + n - 1
        BY <3>2, <1>a
      <3> QED BY <3>1, <3>3, <3>4, <1>4
    <2>3. CASE e \in {EnterEdge(c), LeaveEdge(c)}
      <3>1. /\ e.id \in {nextEdge + n + Len(es) + 1, nextEdge + n + Len(es) + 2}
            /\ e.src \in {c.src, nextLoc + 1} /\ e.dst \in {nextLoc, c.dst} /\ ~IsCall(e)
        BY <2>3, <1>e
      <3>2. c.src \in nodes /\ c.dst \in nodes
        BY <1>1 DEF GraphInv
      <3>3. e.id \in Nat /\ nextEdge < e.id /\ e.id <= nextEdge'
        BY <3>1, <1>a
      <3>4. nextLoc \in nodes' /\ nextLoc + 1 \in nodes' /\ c.src \in nodes' /\ c.dst \in nodes'
        BY <3>2, <1>2, <1>3, <1>4
      <3> QED BY <3>1, <3>3, <3>4
    <2> QED BY <2>1, <2>2, <2>3, <1>0
  <1>8. ASSUME NEW e \in InlinedEdges(c), NEW f \in InlinedEdges(c), e.id = f.id PROVE e = f
    <2>1. ASSUME NEW g \in InlinedEdges(c)
          PROVE  \/ \E k \in 1 .. Len(es) : g = CopiedEdge(c, k) /\ g.id = nextEdge + n + k
                 \/ \E l \in 0 .. n - 1 : g = ToErrorEdge(c, l) /\ g.id = nextEdge + 1 + l
                 \/ g = EnterEdge(c) /\ g.id = nextEdge + n + Len(es) + 1
                 \/ g = LeaveEdge(c) /\ g.id = nextEdge + n + Len(es) + 2
      BY <1>0, <1>2, <1>5, <1>c, <1>t, <1>e
    <2> QED BY <1>8, <2>1, <1>a
  <1>9. \A e, f \in edges' : e.id = f.id => e = f
    <2>1. \A e \in edges \ {c} : e.id <= nextEdge
      BY DEF GraphInv
    <2>2. \A e, f \in edges : e.id = f.id => e = f
      BY DEF GraphInv
    <2>3. \A e \in edges : e.id \in Nat
      BY DEF GraphInv
    <2>4. ASSUME NEW e \in edges, NEW f \in InlinedEdges(c) PROVE e.id # f.id
      <3>1. e.id \in Nat /\ e.id <= nextEdge /\ f.id \in Nat /\ nextEdge < f.id
        BY <1>7 DEF GraphInv
      <3> QED BY <3>1, <1>3
    <2> QED BY <2>2, <2>4, <1>4, <1>8
  <1>10. \A e \in edges' : /\ e.id \in Nat /\ e.id <= nextEdge'
                           /\ e.src \in nodes' /\ e.dst \in nodes'
                           /\ IsCall(e) => e.dst # Exit /\ e.callee \in Procs \ {Main}
    <2>1. ASSUME NEW e \in edges PROVE e.id <= nextEdge'
      <3>1. e.id \in Nat /\ e.id <= nextEdge
        BY DEF GraphInv
      <3> QED BY <3>1, <1>2, <1>3, <1>4, <1>5
    <2> QED BY <2>1, <1>4, <1>7 DEF GraphInv
  <1>11. nextLoc' \in Nat /\ nextEdge' \in Nat /\ Exit \in nodes'
    BY <1>2, <1>3, <1>4, <1>5 DEF GraphInv
  <1> QED BY <1>1, <1>6, <1>9, <1>10, <1>11 DEF GraphInv, IsCall

\* Splicing a callee in front of the target of the call keeps the numbers a
\* bijection and every transition forward.
LEMMA InlineOrder ==
    ASSUME GraphInv, OrderInv, ErrorIsLast, SortsInv, NEW c \in CallEdges,
           InlineCallIntoRoot(c), UNCHANGED error
    PROVE  OrderInv' /\ ErrorIsLast' /\ topo' # <<>>
  <1> DEFINE n == prog[c.callee].n
             es == prog[c.callee].edges
             err == prog[c.callee].err
             pos == locNum[c.dst]
             sorted == topoSort[c.callee]
             len == Len(sorted)
             copy == [i \in DOMAIN sorted |-> nextLoc + sorted[i]]
  <1>1. c \in edges /\ c.callee \in Procs \ {Main} /\ prog \in Programs /\ c.dst # Exit
    BY DEF GraphInv, CallEdges
  <1>2. /\ n \in Nat /\ n >= 2 /\ DOMAIN es = 1 .. Len(es)
        /\ \A l \in err : l \in 0 .. n - 1
        /\ \A k \in DOMAIN es : es[k].src \in 0 .. n - 1 /\ es[k].dst \in 0 .. n - 1
    <2>1. /\ n \in Nat /\ n >= 2 /\ es \in Seq(Transition)
          /\ \A l \in err : l \in LocsOf(prog[c.callee])
          /\ \A k \in DOMAIN es : /\ es[k].src \in LocsOf(prog[c.callee])
                                  /\ es[k].dst \in LocsOf(prog[c.callee])
      BY <1>1, CfaFacts
    <2> QED BY <2>1 DEF LocsOf
  <1>3. /\ nextLoc \in Nat /\ nextLoc > 1
        /\ \A l \in nodes : l \in Nat /\ l < nextLoc
        /\ \A e \in edges : e.src \in nodes /\ e.dst \in nodes
    BY DEF GraphInv, Exit
  <1>4. /\ edges' = (edges \ {c}) \cup InlinedEdges(c)
        /\ nodes' = nodes \cup nextLoc .. nextLoc + n - 1
        /\ topo' = Spliced(topo, pos, copy)
        /\ locNum' = [l \in nodes' |-> IF l >= nextLoc THEN pos - 1 + PositionOf(sorted, l - nextLoc)
                                      ELSE Shifted(locNum[l], pos, len)]
    BY DEF InlineCallIntoRoot
  <1>n. \A l \in nodes' : locNum'[l] = IF l >= nextLoc THEN pos - 1 + PositionOf(sorted, l - nextLoc)
                                    ELSE Shifted(locNum[l], pos, len)
    BY <1>4
  \* The callee's order.
  <1>5. /\ sorted \in Seq(0 .. n - 1)
        /\ \A j \in 0 .. n - 1 : \E i \in DOMAIN sorted : sorted[i] = j
        /\ \A i, j \in DOMAIN sorted : sorted[i] = sorted[j] => i = j
        /\ \A k \in DOMAIN es : \A i, j \in DOMAIN sorted :
              sorted[i] = es[k].src /\ sorted[j] = es[k].dst => i < j
    <2>1. IsTopologicalOrder(sorted, LocsOf(prog[c.callee]), EdgesOf(prog[c.callee]))
      BY <1>1 DEF SortsInv
    <2> QED BY <2>1 DEF IsTopologicalOrder, LocsOf, EdgesOf
  <1>6. DOMAIN sorted = 1 .. len /\ len \in Nat /\ len = Len(sorted)
    BY <1>5
  <1>7. \A j \in 0 .. n - 1 : /\ PositionOf(sorted, j) \in DOMAIN sorted
                            /\ sorted[PositionOf(sorted, j)] = j
    BY <1>5 DEF PositionOf
  <1>e. /\ InlinedEdges(c) = {CopiedEdge(c, k) : k \in DOMAIN es} \cup {ToErrorEdge(c, l) : l \in err}
                              \cup {EnterEdge(c), LeaveEdge(c)}
        /\ \A k \in DOMAIN es : /\ CopiedEdge(c, k).src = nextLoc + es[k].src
                                /\ CopiedEdge(c, k).dst = nextLoc + es[k].dst
        /\ \A l \in err : ToErrorEdge(c, l).src = nextLoc + l /\ ToErrorEdge(c, l).dst = error
        /\ EnterEdge(c).src = c.src /\ EnterEdge(c).dst = nextLoc + 0
        /\ LeaveEdge(c).src = nextLoc + 1 /\ LeaveEdge(c).dst = c.dst
    BY <1>3, InlinedEdgeFacts DEF InlinedEdges
  <1> HIDE DEF n, es, err, sorted, len
  <1>8. \A i \in DOMAIN sorted : sorted[i] \in 0 .. n - 1 /\ PositionOf(sorted, sorted[i]) = i
    <2> TAKE i \in DOMAIN sorted
    <2>1. sorted[i] \in 0 .. n - 1
      BY <1>5, <1>6, ElementOfSeq
    <2>2. /\ PositionOf(sorted, sorted[i]) \in DOMAIN sorted
          /\ sorted[PositionOf(sorted, sorted[i])] = sorted[i]
      BY <2>1, <1>7
    <2> QED BY <2>1, <2>2, <1>5
  <1>9. \A k \in DOMAIN es : PositionOf(sorted, es[k].src) < PositionOf(sorted, es[k].dst)
    <2> TAKE k \in DOMAIN es
    <2>1. es[k].src \in 0 .. n - 1 /\ es[k].dst \in 0 .. n - 1
      BY <1>2
    <2>2. /\ PositionOf(sorted, es[k].src) \in DOMAIN sorted
          /\ PositionOf(sorted, es[k].dst) \in DOMAIN sorted
          /\ sorted[PositionOf(sorted, es[k].src)] = es[k].src
          /\ sorted[PositionOf(sorted, es[k].dst)] = es[k].dst
      BY <2>1, <1>7, Zenon
    <2> QED BY <2>2, <1>5, <1>6
  \* The old order.
  <1>10. /\ topo \in Seq(nodes) /\ DOMAIN topo = 1 .. Len(topo) /\ Len(topo) \in Nat
         /\ DOMAIN locNum = nodes
         /\ \A i \in DOMAIN topo : topo[i] \in nodes /\ locNum[topo[i]] = i
         /\ \A l \in nodes : locNum[l] \in DOMAIN topo /\ topo[locNum[l]] = l
         /\ \A e \in edges : locNum[e.src] < locNum[e.dst]
    BY DEF OrderInv
  <1>11. pos \in 1 .. Len(topo) /\ locNum[c.src] < pos /\ pos <= locNum[error] /\ error \in nodes
    BY <1>1, <1>3, <1>10 DEF ErrorIsLast
  <1> HIDE DEF pos
  \* The new numbers.
  <1>12. \A l \in nodes : l \in nodes' /\ locNum'[l] = Shifted(locNum[l], pos, len)
    BY <1>3, <1>4
  <1>13. \A j \in 0 .. n - 1 : /\ nextLoc + j \in nodes'
                             /\ locNum'[nextLoc + j] = pos - 1 + PositionOf(sorted, j)
    <2> TAKE j \in 0 .. n - 1
    <2>1. /\ nextLoc + j \in nextLoc .. nextLoc + n - 1
          /\ nextLoc + j >= nextLoc /\ nextLoc + j - nextLoc = j
      BY <1>2, <1>3
    <2>2. nextLoc + j \in nodes'
      BY <2>1, <1>4
    <2>3. \A l \in nodes' : l >= nextLoc => locNum'[l] = pos - 1 + PositionOf(sorted, l - nextLoc)
      BY <1>n
    <2>4. \A l \in nodes' : l = nextLoc + j => l >= nextLoc /\ l - nextLoc = j
      <3>1. nextLoc \in Nat /\ j \in Nat
        BY <1>2, <1>3
      <3> QED BY <3>1
    <2> QED BY <2>2, <2>3, <2>4, Zenon
  <1>14. \A l \in nodes' : l \in nodes \/ \E j \in 0 .. n - 1 : l = nextLoc + j
    <2> TAKE l \in nodes'
    <2>1. CASE l \in nextLoc .. nextLoc + n - 1
      <3>1. l - nextLoc \in 0 .. n - 1 /\ l = nextLoc + (l - nextLoc)
        BY <2>1, <1>2, <1>3
      <3> QED BY <3>1
    <2> QED BY <2>1, <1>4
  <1>15. \A l \in nodes : \/ locNum[l] < pos /\ locNum'[l] = locNum[l]
                          \/ locNum[l] >= pos /\ locNum'[l] = locNum[l] + len
    BY <1>6, <1>10, <1>11, <1>12 DEF Shifted
  <1>16. \A j \in 0 .. n - 1 : pos <= locNum'[nextLoc + j] /\ locNum'[nextLoc + j] < pos + len
    BY <1>6, <1>7, <1>11, <1>13
  \* The new order.
  <1>17. copy \in Seq(nodes') /\ Len(copy) = len /\ \A i \in 1 .. len : copy[i] = nextLoc + sorted[i]
    BY <1>6, <1>8, <1>13
  <1>18. topo \in Seq(nodes')
    BY <1>4, <1>10
  <1> HIDE DEF copy
  <1>19. /\ topo' \in Seq(nodes') /\ Len(topo') = Len(topo) + len
         /\ \A i \in 1 .. pos - 1 : topo'[i] = topo[i]
         /\ \A i \in 1 .. len : topo'[pos - 1 + i] = nextLoc + sorted[i]
         /\ \A i \in pos .. Len(topo) : topo'[len + i] = topo[i]
    <2>0. /\ Spliced(topo, pos, copy) \in Seq(nodes')
          /\ Len(Spliced(topo, pos, copy)) = Len(topo) + Len(copy)
          /\ \A i \in 1 .. pos - 1 : Spliced(topo, pos, copy)[i] = topo[i]
          /\ \A i \in 1 .. Len(copy) : Spliced(topo, pos, copy)[pos - 1 + i] = copy[i]
          /\ \A i \in pos .. Len(topo) : Spliced(topo, pos, copy)[Len(copy) + i] = topo[i]
      <3> DEFINE N == nodes'
      <3>1. topo \in Seq(N) /\ copy \in Seq(N) /\ pos \in 1 .. Len(topo)
        BY <1>11, <1>17, <1>18
      <3> HIDE DEF N, pos
      <3>2. HasElements(Spliced(topo, pos, copy), topo, pos, copy, N)
        BY <3>1, SplicedElements
      <3> QED BY <3>2, Zenon DEF N, HasElements
    <2>1. /\ topo' \in Seq(nodes')
          /\ Len(topo') = Len(topo) + Len(copy)
          /\ \A i \in 1 .. pos - 1 : topo'[i] = topo[i]
          /\ \A i \in 1 .. Len(copy) : topo'[pos - 1 + i] = copy[i]
          /\ \A i \in pos .. Len(topo) : topo'[Len(copy) + i] = topo[i]
      BY <2>0, <1>4
    <2> QED BY <2>1, <1>17
  <1>20. \A i \in DOMAIN topo' : topo'[i] \in nodes' /\ locNum'[topo'[i]] = i
    <2> TAKE i \in DOMAIN topo'
    <2>1. i \in 1 .. Len(topo) + len
      BY <1>19
    <2>2. CASE i \in 1 .. pos - 1
      BY <2>2, <1>10, <1>11, <1>12, <1>15, <1>19
    <2>3. CASE i \in pos .. pos + len - 1
      <3>1. PICK k \in 1 .. len : i = pos - 1 + k
        <4>1. i - pos + 1 \in 1 .. len /\ i = pos - 1 + (i - pos + 1)
          BY <2>3, <1>6, <1>11
        <4> QED BY <4>1
      <3>2. /\ topo'[i] = nextLoc + sorted[k] /\ sorted[k] \in 0 .. n - 1
            /\ PositionOf(sorted, sorted[k]) = k
        BY <3>1, <1>6, <1>8, <1>19
      <3> QED BY <3>1, <3>2, <1>13
    <2>4. CASE i \in pos + len .. Len(topo) + len
      <3>1. PICK k \in pos .. Len(topo) : i = len + k
        <4>1. i - len \in pos .. Len(topo) /\ i = len + (i - len)
          BY <2>4, <1>6, <1>10, <1>11
        <4> QED BY <4>1
      <3>2. topo'[i] = topo[k] /\ k \in DOMAIN topo
        BY <3>1, <1>10, <1>11, <1>19
      <3>3. topo[k] \in nodes /\ locNum[topo[k]] = k
        BY <3>2, <1>10
      <3>4. locNum'[topo'[i]] = Shifted(k, pos, len)
        BY <3>2, <3>3, <1>12
      <3>5. k \in Nat /\ len \in Nat /\ pos \in Nat /\ ~(k < pos)
        BY <3>1, <1>6, <1>11, <1>10
      <3>6. locNum'[topo'[i]] = i
        BY <3>1, <3>4, <3>5 DEF Shifted
      <3>7. topo'[i] \in nodes'
        BY <3>2, <3>3, <1>12
      <3> QED BY <3>6, <3>7
    <2>5. \/ i \in 1 .. pos - 1
          \/ i \in pos .. pos + len - 1
          \/ i \in pos + len .. Len(topo) + len
      <3>1. len \in Nat /\ pos \in Nat /\ Len(topo) \in Nat
        BY <1>6, <1>10, <1>11
      <3> QED BY <2>1, <3>1
    <2> QED BY <2>2, <2>3, <2>4, <2>5
  <1>21. \A l \in nodes' : locNum'[l] \in DOMAIN topo' /\ topo'[locNum'[l]] = l
    <2> TAKE l \in nodes'
    <2>0. DOMAIN topo' = 1 .. Len(topo) + len
      BY <1>19
    <2>1. CASE l \in nodes
      <3>1. locNum[l] \in 1 .. Len(topo) /\ topo[locNum[l]] = l
        BY <2>1, <1>10
      <3>2. CASE locNum[l] < pos /\ locNum'[l] = locNum[l]
        BY <3>1, <3>2, <2>0, <1>6, <1>11, <1>19
      <3>3. CASE locNum[l] >= pos /\ locNum'[l] = locNum[l] + len
        <4>1. locNum'[l] \in 1 .. Len(topo) + len /\ locNum'[l] = len + locNum[l]
          BY <3>1, <3>3, <1>6, <1>10
        <4>2. locNum[l] \in pos .. Len(topo)
          BY <3>1, <3>3, <1>11
        <4> DEFINE j == locNum[l]
        <4>3. j \in pos .. Len(topo) /\ topo[j] = l
          BY <4>2, <3>1
        <4> HIDE DEF j
        <4>4. topo'[len + j] = l
          BY <4>3, <1>19
        <4> QED BY <4>1, <4>4, <2>0 DEF j
      <3> QED BY <2>1, <3>2, <3>3, <1>15
    <2>2. ASSUME NEW j \in 0 .. n - 1, l = nextLoc + j
          PROVE  locNum'[l] \in DOMAIN topo' /\ topo'[locNum'[l]] = l
      <3>1. /\ PositionOf(sorted, j) \in 1 .. len /\ sorted[PositionOf(sorted, j)] = j
            /\ locNum'[l] = pos - 1 + PositionOf(sorted, j)
        BY <2>2, <1>6, <1>7, <1>13
      <3> DEFINE p == PositionOf(sorted, j)
      <3>2. p \in 1 .. len /\ sorted[p] = j
        BY <3>1
      <3> HIDE DEF p
      <3>3. pos - 1 + p \in 1 .. Len(topo) + len
        BY <3>2, <1>6, <1>10, <1>11
      <3>4. topo'[pos - 1 + p] = nextLoc + j
        BY <3>2, <1>19
      <3> QED BY <3>1, <3>3, <3>4, <2>0, <2>2 DEF p
    <2> QED BY <2>1, <2>2, <1>14
  <1>22. \A e \in edges' : locNum'[e.src] < locNum'[e.dst]
    <2> TAKE e \in edges'
    <2>1. CASE e \in edges
      <3>1. /\ e.src \in nodes /\ e.dst \in nodes /\ locNum[e.src] < locNum[e.dst]
            /\ locNum[e.src] \in Nat /\ locNum[e.dst] \in Nat
        BY <2>1, <1>3, <1>10
      <3>2. /\ locNum'[e.src] = locNum[e.src] \/ locNum'[e.src] = locNum[e.src] + len
            /\ locNum[e.src] >= pos => locNum'[e.dst] = locNum[e.dst] + len
            /\ locNum[e.src] < pos => locNum'[e.src] = locNum[e.src]
            /\ locNum'[e.dst] \in {locNum[e.dst], locNum[e.dst] + len}
        BY <3>1, <1>11, <1>15
      <3> QED BY <3>1, <3>2, <1>6, <1>11
    <2>2. CASE \E k \in DOMAIN es : e = CopiedEdge(c, k)
      <3> PICK k \in DOMAIN es : e = CopiedEdge(c, k)
        BY <2>2
      <3>1. /\ es[k].src \in 0 .. n - 1 /\ es[k].dst \in 0 .. n - 1
            /\ PositionOf(sorted, es[k].src) \in Nat /\ PositionOf(sorted, es[k].dst) \in Nat
            /\ PositionOf(sorted, es[k].src) < PositionOf(sorted, es[k].dst)
        BY <1>2, <1>6, <1>7, <1>9
      <3>2. /\ locNum'[e.src] = pos - 1 + PositionOf(sorted, es[k].src)
            /\ locNum'[e.dst] = pos - 1 + PositionOf(sorted, es[k].dst)
        BY <3>1, <1>13, <1>e
      <3> QED BY <3>1, <3>2, <1>11
    <2>3. CASE \E l \in err : e = ToErrorEdge(c, l)
      <3> PICK l \in err : e = ToErrorEdge(c, l)
        BY <2>3
      <3>1. e.src = nextLoc + l /\ e.dst = error /\ l \in 0 .. n - 1
        BY <1>2, <1>e
      <3>2. locNum'[error] = locNum[error] + len /\ locNum[error] \in Nat
        <4>1. error \in nodes /\ locNum[error] \in Nat /\ pos \in Nat /\ pos <= locNum[error]
          BY <1>10, <1>11
        <4>2. ~(locNum[error] < pos)
          BY <4>1
        <4> QED BY <4>1, <4>2, <1>15
      <3>3. pos <= locNum'[e.src] /\ locNum'[e.src] < pos + len /\ locNum'[e.src] \in Nat
        BY <3>1, <1>6, <1>7, <1>11, <1>13, <1>16
      <3> QED BY <3>1, <3>2, <3>3, <1>6, <1>11
    <2>4. CASE e = EnterEdge(c)
      <3>1. c.src \in nodes /\ locNum[c.src] \in Nat /\ locNum'[c.src] = locNum[c.src]
        <4>1. c.src \in nodes
          BY <1>1, <1>3
        <4>2. locNum[c.src] \in Nat /\ pos \in Nat /\ ~(locNum[c.src] >= pos)
          BY <4>1, <1>10, <1>11
        <4> QED BY <4>1, <4>2, <1>15
      <3>2. 0 \in 0 .. n - 1
        BY <1>2
      <3>3. pos <= locNum'[nextLoc + 0] /\ locNum'[nextLoc + 0] \in Nat
        BY <3>2, <1>6, <1>7, <1>11, <1>13, <1>16
      <3> QED BY <3>1, <3>3, <2>4, <1>11, <1>e
    <2>5. CASE e = LeaveEdge(c)
      <3>1. c.dst \in nodes /\ locNum'[c.dst] = pos + len
        BY <1>1, <1>3, <1>6, <1>11, <1>15 DEF pos
      <3>2. 1 \in 0 .. n - 1
        BY <1>2
      <3>3. locNum'[nextLoc + 1] < pos + len
        BY <3>2, <1>16
      <3> QED BY <3>1, <3>3, <2>5, <1>e
    <2> QED BY <2>1, <2>2, <2>3, <2>4, <2>5, <1>4, <1>e
  <1>23. \A l \in nodes' \ {Exit} : locNum'[l] <= locNum'[error]
    <2> TAKE l \in nodes' \ {Exit}
    <2>1. locNum'[error] = locNum[error] + len /\ locNum[error] \in Nat
      BY <1>10, <1>11, <1>15
    <2>2. CASE l \in nodes
      <3>1. locNum[l] \in Nat /\ locNum[l] <= locNum[error]
        BY <2>2, <1>10 DEF ErrorIsLast
      <3> QED BY <3>1, <2>1, <2>2, <1>6, <1>11, <1>15
    <2>3. ASSUME NEW j \in 0 .. n - 1, l = nextLoc + j PROVE locNum'[l] <= locNum'[error]
      <3>1. locNum'[l] < pos + len /\ locNum'[l] \in Nat
        BY <2>3, <1>6, <1>7, <1>11, <1>13, <1>16
      <3> QED BY <3>1, <2>1, <1>6, <1>11
    <2> QED BY <2>2, <2>3, <1>14
  <1>24. DOMAIN locNum' = nodes'
    BY <1>4
  <1>25. error' \in nodes' /\ topo' # <<>>
    BY <1>6, <1>10, <1>11, <1>12, <1>19
  <1> QED BY <1>19, <1>20, <1>21, <1>22, <1>23, <1>24, <1>25 DEF OrderInv, ErrorIsLast

\* Inlining keeps the chains of the other calls, and the copied calls extend the
\* chain of the one that is inlined.
LEMMA InlineChains ==
    ASSUME GraphInv, CallInv, NEW c \in CallEdges, InlineCallIntoRoot(c)
    PROVE  /\ \A e \in CallEdges \ {c} : e.id \in DOMAIN calls' /\ calls'[e.id] = calls[e.id]
           /\ \A k \in CopiedCalls(c) :
                /\ CopyId(c, k) \in DOMAIN calls'
                /\ calls'[CopyId(c, k)].chain
                     = Append(calls[c.id].chain, prog[c.callee].edges[k].callee)
  <1> DEFINE n == prog[c.callee].n
             es == prog[c.callee].edges
             chain == calls[c.id].chain
             new == {CopyId(c, k) : k \in CopiedCalls(c)}
  <1>1. c \in edges /\ c.callee \in Procs /\ prog \in Programs /\ nextEdge \in Nat
    BY DEF GraphInv, CallEdges
  <1>2. n \in Nat /\ DOMAIN es = 1 .. Len(es) /\ Len(es) \in Nat
    BY <1>1, CfaFacts
  <1>3. calls' = [i \in (DOMAIN calls \ {c.id}) \cup new |->
                    IF i <= nextEdge THEN calls[i]
                    ELSE [approx |-> FALSE,
                          chain |-> Append(chain, es[i - CopyId(c, 0)].callee)]]
    BY DEF InlineCallIntoRoot, Remaining
  <1>4. \A e \in edges : e.id \in Nat /\ e.id <= nextEdge /\ (e.id = c.id => e = c)
    BY <1>1 DEF GraphInv
  <1>5. \A k \in CopiedCalls(c) : k \in DOMAIN es
    BY DEF CopiedCalls
  <1>6. \A k \in CopiedCalls(c) : /\ CopyId(c, k) \in Nat /\ ~(CopyId(c, k) <= nextEdge)
                                 /\ CopyId(c, k) - CopyId(c, 0) = k
    <2> TAKE k \in CopiedCalls(c)
    <2>1. CopyId(c, k) = nextEdge + n + k /\ CopyId(c, 0) = nextEdge + n + 0
      BY DEF CopyId
    <2>2. k \in Nat /\ k >= 1
      BY <1>2, <1>5
    <2> HIDE DEF n
    <2> QED BY <2>1, <2>2, <1>1, <1>2
  <1> HIDE DEF n, es, chain
  \* Calls that stay.
  <1>7. ASSUME NEW e \in CallEdges \ {c}
        PROVE  e.id \in DOMAIN calls' /\ calls'[e.id] = calls[e.id]
    <2>1. e.id \in DOMAIN calls /\ e.id <= nextEdge /\ e.id # c.id
      BY <1>1, <1>4 DEF CallInv, CallEdges
    <2>2. e.id \in (DOMAIN calls \ {c.id}) \cup new
      BY <2>1
    <2> QED BY <2>1, <2>2, <1>3
  \* Calls that are copied.
  <1>8. ASSUME NEW k \in CopiedCalls(c)
        PROVE  /\ CopyId(c, k) \in DOMAIN calls'
               /\ calls'[CopyId(c, k)].chain = Append(chain, es[k].callee)
    <2>1. CopyId(c, k) \in (DOMAIN calls \ {c.id}) \cup new
      OBVIOUS
    <2> HIDE DEF new
    <2>2. calls'[CopyId(c, k)] = [approx |-> FALSE,
                                  chain |-> Append(chain, es[CopyId(c, k) - CopyId(c, 0)].callee)]
      BY <2>1, <1>3, <1>6
    <2> QED BY <2>1, <2>2, <1>3, <1>6
  <1> QED BY <1>7, <1>8 DEF es, chain

\* Inlining takes the call out of mCalls and puts the calls of the copy in.
LEMMA InlineCalls ==
    ASSUME GraphInv, CallInv, NEW c \in CallEdges, InlineCallIntoRoot(c)
    PROVE  CallInv'
  <1> DEFINE n == prog[c.callee].n
             es == prog[c.callee].edges
             chain == calls[c.id].chain
             new == {CopyId(c, k) : k \in CopiedCalls(c)}
  <1>1. /\ c \in edges /\ IsCall(c) /\ c.callee \in Procs /\ prog \in Programs
        /\ nextEdge \in Nat /\ c.id \in DOMAIN calls /\ chain \in Seq(Procs)
    BY DEF GraphInv, CallInv, CallEdges
  <1>2. /\ n \in Nat /\ DOMAIN es = 1 .. Len(es)
        /\ \A k \in DOMAIN es : es[k].callee \in Procs \cup {NoProc}
    BY <1>1, CfaFacts DEF Transition
  <1>3. /\ edges' = (edges \ {c}) \cup InlinedEdges(c)
        /\ calls' = [i \in (DOMAIN calls \ {c.id}) \cup new |->
                       IF i <= nextEdge THEN calls[i]
                       ELSE [approx |-> FALSE,
                             chain |-> Append(chain, es[i - CopyId(c, 0)].callee)]]
    BY DEF InlineCallIntoRoot, Remaining
  <1>4. \A e \in edges : e.id \in Nat /\ e.id <= nextEdge /\ (e.id = c.id => e = c)
    BY <1>1 DEF GraphInv
  <1>5. \A k \in CopiedCalls(c) : /\ k \in DOMAIN es /\ k \in Nat /\ IsCall(CopiedEdge(c, k))
                                 /\ CopiedEdge(c, k) \in InlinedEdges(c)
                                 /\ CopiedEdge(c, k).id = CopyId(c, k)
                                 /\ CopiedEdge(c, k).callee = es[k].callee
                                 /\ es[k].callee \in Procs
    <2> TAKE k \in CopiedCalls(c)
    <2>1. k \in DOMAIN es /\ es[k].callee # NoProc
      BY DEF CopiedCalls, IsCall
    <2>2. CopiedEdge(c, k).id = CopyId(c, k) /\ CopiedEdge(c, k).callee = es[k].callee
      BY DEF CopiedEdge
    <2>3. CopiedEdge(c, k) \in InlinedEdges(c)
      BY <2>1 DEF InlinedEdges
    <2> HIDE DEF es
    <2> QED BY <2>1, <2>2, <2>3, <1>2 DEF IsCall
  <1>6. \A e \in InlinedEdges(c) : IsCall(e) => \E k \in CopiedCalls(c) : e = CopiedEdge(c, k)
    <2> TAKE e \in InlinedEdges(c)
    <2>1. ~IsCall(EnterEdge(c)) /\ ~IsCall(LeaveEdge(c)) /\ \A l : ~IsCall(ToErrorEdge(c, l))
      BY DEF EnterEdge, LeaveEdge, ToErrorEdge, AssignEdge, IsCall
    <2>2. \A k \in DOMAIN es : CopiedEdge(c, k).callee = es[k].callee
      BY DEF CopiedEdge
    <2> QED BY <2>1, <2>2 DEF InlinedEdges, CopiedCalls, IsCall
  <1> HIDE DEF n, es, chain
  <1>8. ASSUME NEW e \in CallEdges \ {c}
        PROVE  e.id \in DOMAIN calls' /\ calls'[e.id] = calls[e.id]
    BY InlineChains
  <1>9. ASSUME NEW k \in CopiedCalls(c)
        PROVE  /\ CopyId(c, k) \in DOMAIN calls'
               /\ calls'[CopyId(c, k)].chain = Append(chain, es[k].callee)
    BY InlineChains DEF es, chain
  <1>10. CallEdges' = (CallEdges \ {c}) \cup {CopiedEdge(c, k) : k \in CopiedCalls(c)}
    BY <1>3, <1>5, <1>6 DEF CallEdges, IsCall
  <1>11. ASSUME NEW e \in CallEdges'
         PROVE  /\ e.id \in DOMAIN calls' /\ calls'[e.id].chain \in Seq(Procs)
                /\ calls'[e.id].chain[Len(calls'[e.id].chain)] = e.callee
    <2>1. CASE e \in CallEdges \ {c}
      BY <2>1, <1>8 DEF CallInv
    <2>2. CASE \E k \in CopiedCalls(c) : e = CopiedEdge(c, k)
      <3> PICK k \in CopiedCalls(c) : e = CopiedEdge(c, k)
        BY <2>2
      <3>1. /\ e.id \in DOMAIN calls' /\ calls'[e.id].chain = Append(chain, es[k].callee)
            /\ e.callee = es[k].callee /\ es[k].callee \in Procs
        BY <1>5, <1>9
      <3>2. ASSUME NEW x \in Procs
            PROVE  Append(chain, x) \in Seq(Procs) /\ Append(chain, x)[Len(Append(chain, x))] = x
        BY <1>1
      <3> QED BY <3>1, <3>2
    <2> QED BY <2>1, <2>2, <1>10
  <1>12. ASSUME NEW i \in DOMAIN calls' PROVE \E e \in CallEdges' : e.id = i
    <2>1. i \in (DOMAIN calls \ {c.id}) \cup new
      BY <1>3
    <2>2. CASE i \in DOMAIN calls \ {c.id}
      BY <2>2, <1>10 DEF CallInv
    <2>3. CASE i \in new
      BY <2>3, <1>5, <1>10
    <2> QED BY <2>1, <2>2, <2>3
  <1>13. DOMAIN calls' = {e.id : e \in CallEdges'}
    BY <1>11, <1>12
  <1> QED BY <1>11, <1>13 DEF CallInv

-----------------------------------------------------------------------------
(* Preparation *)

\* The new error goal is fresh, and nothing leaves the exit yet but from it.
LEMMA ErrorFieldStep ==
    ASSUME GraphInv, EarlyInv, InitializeErrorField
    PROVE  GraphInv' /\ EarlyInv' /\ ~Sorted'
  <1> DEFINE main == prog[Main]
             goal == IF main.err = {}
                     THEN {AssignEdge(nextEdge + 1, Entry, nextLoc, {})}
                     ELSE {AssignEdge(nextEdge + 1 + l, l, nextLoc, World) : l \in main.err}
             leave == AssignEdge(nextEdge + 1 + nextLoc, nextLoc, Exit, {})
  <1>1. /\ pc = "errorField" /\ prog \in Programs /\ UNCHANGED <<prog, topo>> /\ topo = <<>>
        /\ nodes = 0 .. nextLoc - 1 /\ \A e \in edges : e.src # Exit
    BY DEF InitializeErrorField, GraphInv, EarlyInv, LocsOf, Sorted
  <1>2. /\ nextLoc \in Nat /\ nextLoc >= 2 /\ nextEdge \in Nat
        /\ \A l \in main.err : l \in 2 .. nextLoc - 1
    <2>1. main.n \in Nat /\ main.n >= 2 /\ main.err \subseteq LocsOf(main) \ {Entry, Exit}
      BY <1>1, CfaFacts, ProcsAssumption
    <2>2. nextLoc = main.n /\ nextEdge \in Nat
      BY <1>1 DEF EarlyInv, GraphInv
    <2> QED BY <2>1, <2>2 DEF LocsOf, Entry, Exit
  <1>3. CASE pc' = "done"
    <2>1. UNCHANGED <<nodes, edges, nextLoc, nextEdge>>
      BY <1>3 DEF InitializeErrorField
    <2> QED BY <2>1, <1>1, <1>3 DEF GraphInv, EarlyInv, Sorted
  <1>4. CASE pc' = "remove"
    <2>1. /\ error' = nextLoc /\ nodes' = nodes \cup {nextLoc}
          /\ edges' = edges \cup goal \cup {leave}
          /\ nextLoc' = nextLoc + 1 /\ nextEdge' = nextEdge + 1 + nextLoc
      BY <1>4 DEF InitializeErrorField, Finish
    <2>2. ASSUME NEW e \in goal \cup {leave}
          PROVE  \E l \in 0 .. nextLoc :
                    /\ e.id = nextEdge + 1 + l /\ e.src = l /\ ~IsCall(e) /\ e.src # Exit
                    /\ e = leave <=> l = nextLoc
                    /\ e \in goal => e = IF main.err = {} THEN AssignEdge(nextEdge + 1, Entry, nextLoc, {})
                                         ELSE AssignEdge(nextEdge + 1 + l, l, nextLoc, World)
                    /\ e.dst \in {nextLoc, Exit}
      <3>1. CASE e = leave
        <4>1. /\ e.id = nextEdge + 1 + nextLoc /\ e.src = nextLoc /\ e.dst = Exit /\ ~IsCall(e)
          BY <3>1 DEF AssignEdge, IsCall
        <4>2. ASSUME e \in goal PROVE FALSE
          BY <4>2, <4>1, <1>2 DEF AssignEdge, Exit
        <4> QED BY <4>1, <4>2, <3>1, <1>2 DEF Exit
      <3>2. CASE main.err = {} /\ e \in goal
        <4>1. e = AssignEdge(nextEdge + 1, Entry, nextLoc, {})
          BY <3>2
        <4>2. e.id = nextEdge + 1 /\ e.src = 0 /\ e.dst = nextLoc /\ ~IsCall(e)
          BY <4>1 DEF AssignEdge, IsCall, Entry
        <4>3. leave.src = nextLoc
          BY DEF AssignEdge
        <4> HIDE DEF leave, goal
        <4> QED BY <4>1, <4>2, <4>3, <3>2, <1>2 DEF Exit
      <3>3. CASE main.err # {} /\ e \in goal
        <4>1. PICK l \in main.err : e = AssignEdge(nextEdge + 1 + l, l, nextLoc, World)
          BY <3>3
        <4>2. e.id = nextEdge + 1 + l /\ e.src = l /\ e.dst = nextLoc /\ ~IsCall(e)
          BY <4>1 DEF AssignEdge, IsCall
        <4>3. leave.src = nextLoc
          BY DEF AssignEdge
        <4> HIDE DEF leave, goal
        <4> QED BY <4>1, <4>2, <4>3, <3>3, <1>2 DEF Exit
      <3> QED BY <3>1, <3>2, <3>3
    <2> HIDE DEF goal, leave
    <2>3. \A e \in edges : e.id \in Nat /\ e.id <= nextEdge /\ e.src \in nodes /\ e.dst \in nodes
      BY DEF GraphInv
    <2>4. \A e \in edges' : /\ e.id \in Nat /\ e.id <= nextEdge'
                            /\ e.src \in nodes' /\ e.dst \in nodes' /\ e.src # Exit
                            /\ IsCall(e) => e.dst # Exit /\ e.callee \in Procs \ {Main}
      <3> TAKE e \in edges'
      <3>1. CASE e \in edges
        BY <3>1, <2>1, <2>3, <1>1, <1>2 DEF GraphInv
      <3>2. CASE e \in goal \cup {leave}
        BY <3>2, <2>1, <2>2, <1>1, <1>2 DEF Exit
      <3> QED BY <3>1, <3>2, <2>1
    <2>5. \A e, f \in edges' : e.id = f.id => e = f
      <3>1. ASSUME NEW e \in edges, NEW f \in goal \cup {leave} PROVE e.id # f.id
        BY <2>2, <2>3, <1>2
      <3>2. ASSUME NEW e \in goal \cup {leave}, NEW f \in goal \cup {leave}, e.id = f.id PROVE e = f
        BY <3>2, <2>2, <1>2
      <3>3. \A e, f \in edges : e.id = f.id => e = f
        BY DEF GraphInv
      <3> QED BY <3>1, <3>2, <3>3, <2>1
    <2>6. \A l \in nodes' : l \in Nat /\ l < nextLoc'
      BY <2>1, <1>1, <1>2
    <2>7. GraphInv'
      BY <2>1, <2>4, <2>5, <2>6, <1>1, <1>2 DEF GraphInv, IsCall
    <2>8. error' \in nodes' \ {Exit}
      BY <2>1, <1>2 DEF Exit
    <2> QED BY <2>4, <2>7, <2>8, <1>1, <1>4 DEF EarlyInv, Sorted
  <1> QED BY <1>3, <1>4 DEF InitializeErrorField, Finish

\* What removeIrrelevantLocations keeps all leads to the error goal.
LEMMA RemoveStep ==
    ASSUME GraphInv, EarlyInv, RemoveIrrelevantLocations
    PROVE  GraphInv' /\ EarlyInv' /\ ~Sorted'
  <1>1. /\ pc = "remove" /\ pc' = "sort" /\ nodes' = Relevant
        /\ edges' = {e \in edges : e.src \in nodes' /\ e.dst \in nodes'}
        /\ UNCHANGED <<prog, error, topo, nextLoc, nextEdge>>
    BY DEF RemoveIrrelevantLocations, fixedVars
  <1>2. error \in nodes \ {Exit} /\ Exit \in nodes /\ ~Sorted /\ \A e \in edges : e.src # Exit
    BY <1>1 DEF EarlyInv, GraphInv
  <1>3. Relevant = {l \in nodes : \A S \in SUBSET nodes : ClosedUnderPredecessors(S) => l \in S}
                     \cup {Exit}
    BY DEF Relevant, ClosedUnderPredecessors
  <1>4. nodes' \subseteq nodes /\ error \in nodes' /\ Exit \in nodes'
    BY <1>1, <1>2, <1>3 DEF ClosedUnderPredecessors
  <1>5. GraphInv'
    BY <1>1, <1>4 DEF GraphInv, IsCall
  \* A set closed under the transitions left is, without the exit, closed under
  \* the old ones: a predecessor of a relevant location is relevant.
  <1>6. ASSUME NEW e \in edges, e.dst \in nodes' \ {Exit} PROVE e \in edges'
    <2>1. \A S \in SUBSET nodes : ClosedUnderPredecessors(S) => e.dst \in S
      BY <1>1, <1>3, <1>6
    <2>2. \A S \in SUBSET nodes : ClosedUnderPredecessors(S) => e.src \in S
      BY <2>1 DEF ClosedUnderPredecessors
    <2>3. e.src \in nodes
      BY DEF GraphInv
    <2> QED BY <2>2, <2>3, <1>1, <1>3, <1>6
  <1>7. ASSUME NEW l \in nodes' \ {Exit}, NEW S \in SUBSET nodes', ClosedUnderPredecessors(S)'
        PROVE  l \in S
    <2> DEFINE T == S \ {Exit}
    <2>1. T \in SUBSET nodes
      BY <1>4
    <2>2. error \in T
      BY <1>1, <1>2, <1>7 DEF ClosedUnderPredecessors
    <2>3. ASSUME NEW e \in edges, e.dst \in T PROVE e.src \in T
      <3>1. e \in edges'
        BY <2>3, <1>6
      <3>2. e.src \in S
        BY <3>1, <2>3, <1>7 DEF ClosedUnderPredecessors
      <3> QED BY <3>2, <1>2
    <2>4. ClosedUnderPredecessors(T)
      BY <2>2, <2>3 DEF ClosedUnderPredecessors
    <2>5. \A R \in SUBSET nodes : ClosedUnderPredecessors(R) => l \in R
      BY <1>1, <1>3
    <2> QED BY <2>1, <2>4, <2>5
  <1>8. ~Sorted'
    BY <1>1, <1>2 DEF Sorted
  <1>9. error' \in nodes' \ {Exit}
    BY <1>1, <1>2, <1>4
  <1> QED BY <1>1, <1>5, <1>7, <1>8, <1>9 DEF EarlyInv

\* The order that is computed puts the error goal behind all but the exit.
LEMMA SortStep ==
    ASSUME GraphInv, EarlyInv, CreateTopologicalSorts
    PROVE  Inv'
  <1>1. /\ pc = "sort" /\ pc' \in {"eager", "done"}
        /\ UNCHANGED <<nodes, edges, nextLoc, nextEdge, prog, error>>
    BY DEF CreateTopologicalSorts, Finish
  <1>2. PICK s : /\ IsTopologicalOrder(s, nodes, edges) /\ topo' = s
                 /\ locNum' = [l \in nodes |-> PositionOf(s, l)]
    BY DEF CreateTopologicalSorts
  <1>3. SortsInv'
    BY <1>1 DEF CreateTopologicalSorts, SortsInv
  <1>4. calls' = [i \in {e.id : e \in CallEdges} |->
                    [approx |-> FALSE, chain |-> <<(CHOOSE e \in edges : e.id = i).callee>>]]
    BY DEF CreateTopologicalSorts
  <1>5. /\ error \in nodes /\ Exit \in nodes
        /\ \A e \in edges : e.src \in nodes /\ e.dst \in nodes
    BY <1>1 DEF EarlyInv, GraphInv
  <1>6. \A l \in nodes : PositionOf(s, l) \in DOMAIN s /\ s[PositionOf(s, l)] = l
    BY <1>2 DEF IsTopologicalOrder, PositionOf
  <1>7. s \in Seq(nodes) /\ \A i \in DOMAIN s : s[i] \in nodes /\ PositionOf(s, s[i]) = i
    <2>1. s \in Seq(nodes) /\ \A i, j \in DOMAIN s : s[i] = s[j] => i = j
      BY <1>2 DEF IsTopologicalOrder
    <2>2. \A i \in DOMAIN s : s[i] \in nodes
      BY <2>1
    <2> QED BY <2>1, <2>2, <1>6
  <1>8. \A e \in edges : PositionOf(s, e.src) < PositionOf(s, e.dst)
    BY <1>2, <1>5, <1>6 DEF IsTopologicalOrder
  <1>9. OrderInv'
    BY <1>1, <1>2, <1>6, <1>7, <1>8, <1>5 DEF OrderInv
  <1>10. ErrorIsLast'
    <2> DEFINE S == {l \in nodes : PositionOf(s, l) <= PositionOf(s, error)}
    <2>1. \A l \in nodes : PositionOf(s, l) \in Nat
      BY <1>6, <1>7
    <2>2. error \in S /\ \A e \in edges : e.dst \in S => e.src \in S
      BY <2>1, <1>5, <1>8
    <2>3. ClosedUnderPredecessors(S) /\ S \in SUBSET nodes
      BY <2>2 DEF ClosedUnderPredecessors
    <2>4. \A l \in nodes \ {Exit} : \A R \in SUBSET nodes : ClosedUnderPredecessors(R) => l \in R
      BY <1>1 DEF EarlyInv
    <2>5. \A l \in nodes \ {Exit} : l \in S
      BY <2>3, <2>4
    <2> QED BY <2>5, <1>1, <1>2, <1>5 DEF ErrorIsLast
  <1>11. CallInv'
    <2>1. CallEdges' = CallEdges
      BY <1>1 DEF CallEdges, IsCall
    <2>2. ASSUME NEW e \in CallEdges
          PROVE  calls'[e.id].chain = <<e.callee>> /\ e.callee \in Procs
      <3>1. e \in edges /\ e.callee \in Procs /\ \A f \in edges : f.id = e.id => f = e
        BY DEF GraphInv, CallEdges
      <3>2. (CHOOSE f \in edges : f.id = e.id) = e
        BY <3>1
      <3>3. calls'[e.id] = [approx |-> FALSE, chain |-> <<(CHOOSE f \in edges : f.id = e.id).callee>>]
        BY <1>4
      <3> QED BY <3>1, <3>2, <3>3
    <2>3. DOMAIN calls' = {e.id : e \in CallEdges}
      BY <1>4
    <2>4. ASSUME NEW e \in CallEdges
          PROVE  /\ calls'[e.id].chain \in Seq(Procs)
                 /\ calls'[e.id].chain[Len(calls'[e.id].chain)] = e.callee
      <3>1. \A x \in Procs : <<x>> \in Seq(Procs) /\ <<x>>[Len(<<x>>)] = x
        OBVIOUS
      <3> QED BY <2>2, <3>1, Zenon
    <2> QED BY <2>1, <2>3, <2>4 DEF CallInv
  <1>12. Sorted'
    <2>1. PositionOf(s, Exit) \in DOMAIN s
      BY <1>5, <1>6
    <2> QED BY <2>1, <1>2, <1>7 DEF Sorted
  <1>13. GraphInv'
    BY <1>1 DEF GraphInv, IsCall
  <1>14. EarlyInv'
    BY <1>1, <1>12 DEF EarlyInv
  <1> QED BY <1>3, <1>9, <1>10, <1>11, <1>12, <1>13, <1>14 DEF Inv

-----------------------------------------------------------------------------
(* The loop *)

InLoop == pc \notin {"errorField", "remove", "sort", "done"}

\* Inlining a call in the loop keeps the invariant.
LEMMA InlineStep ==
    ASSUME Inv, InLoop, UNCHANGED <<pc, prog, error, topoSort>>,
           NEW c \in CallEdges, InlineCallIntoRoot(c)
    PROVE  Inv'
  <1>1. /\ GraphInv /\ EarlyInv /\ Sorted /\ OrderInv /\ ErrorIsLast /\ SortsInv /\ CallInv
        /\ error \in nodes \ {Exit}
    BY DEF Inv, EarlyInv, InLoop
  <1>2. GraphInv'
    BY <1>1, InlineGraph
  <1>3. OrderInv' /\ ErrorIsLast' /\ topo' # <<>>
    BY <1>1, InlineOrder
  <1>4. CallInv'
    BY <1>1, InlineCalls
  <1>5. SortsInv'
    BY <1>1 DEF SortsInv
  <1>6. EarlyInv'
    BY <1>1, <1>3 DEF EarlyInv, InLoop, ErrorIsLast, Sorted
  <1> QED BY <1>2, <1>3, <1>4, <1>5, <1>6 DEF Inv

\* A step that leaves the graph alone, and of the calls at most replaces the
\* approximations.
LEMMA OtherStep ==
    ASSUME Inv, pc' \notin {"errorField", "remove", "sort"},
           InLoop \/ UNCHANGED pc,
           UNCHANGED <<nodes, edges, nextLoc, nextEdge, topo, locNum, prog, error, topoSort>>,
           UNCHANGED calls \/ \E S : calls' = Approximate(calls, S)
    PROVE  Inv'
  <1>1. GraphInv' /\ EarlyInv'
    BY DEF Inv, GraphInv, EarlyInv, InLoop, IsCall, Sorted
  <1>2. SUFFICES ASSUME Sorted PROVE OrderInv' /\ ErrorIsLast' /\ SortsInv' /\ CallInv'
    BY <1>1 DEF Inv, Sorted
  <1>3. OrderInv' /\ ErrorIsLast' /\ SortsInv'
    BY <1>2 DEF Inv, OrderInv, ErrorIsLast, SortsInv
  <1>4. CallEdges' = CallEdges
    BY DEF CallEdges, IsCall
  <1>5. DOMAIN calls' = DOMAIN calls /\ \A i \in DOMAIN calls : calls'[i].chain = calls[i].chain
    BY DEF Approximate
  <1>6. CallInv
    BY <1>2 DEF Inv
  <1>7. ASSUME NEW e \in CallEdges PROVE calls'[e.id].chain = calls[e.id].chain
    BY <1>5, <1>6 DEF CallInv
  <1>8. CallInv'
    BY <1>4, <1>5, <1>6, <1>7 DEF CallInv
  <1> QED BY <1>3, <1>8

\* The main automaton is a well-formed graph.
LEMMA InvInit == Init => Inv
  <1> SUFFICES ASSUME Init PROVE Inv
    OBVIOUS
  <1> DEFINE main == prog[Main]
             EdgeOf(k) == [id |-> k, src |-> main.edges[k].src, dst |-> main.edges[k].dst,
                           guard |-> main.edges[k].guard, callee |-> main.edges[k].callee,
                           arg |-> main.edges[k].arg]
  <1>1. /\ pc = "errorField" /\ prog \in Programs /\ topo = <<>>
        /\ edges = {EdgeOf(k) : k \in DOMAIN main.edges}
        /\ nodes = LocsOf(main) /\ nextLoc = main.n /\ nextEdge = Len(main.edges)
    BY DEF Init
  <1>2. /\ main.n \in Nat /\ main.n >= 2 /\ main.edges \in Seq(Transition)
        /\ \A k \in DOMAIN main.edges : /\ main.edges[k].src \in LocsOf(main) \ {Exit}
                                        /\ main.edges[k].dst \in LocsOf(main)
                                        /\ main.edges[k].callee \in Procs \cup {NoProc}
                                        /\ main.edges[k].callee # Main
                                        /\ IsCall(main.edges[k]) => main.edges[k].dst # Exit
    BY <1>1, CfaFacts, MainCallFacts, ProcsAssumption DEF Transition
  <1>3. \A k \in DOMAIN main.edges : k \in Nat /\ k <= nextEdge
    BY <1>1, <1>2
  <1>4. ASSUME NEW e \in edges
        PROVE  \E k \in DOMAIN main.edges :
                  /\ e = EdgeOf(k) /\ e.id = k /\ e.src = main.edges[k].src
                  /\ e.dst = main.edges[k].dst /\ e.callee = main.edges[k].callee
    BY <1>1
  <1> HIDE DEF EdgeOf
  <1>5. \A e, f \in edges : e.id = f.id => e = f
    BY <1>4
  <1>6. \A e \in edges : /\ e.id \in Nat /\ e.id <= nextEdge
                         /\ e.src \in nodes /\ e.dst \in nodes /\ e.src # Exit
                         /\ IsCall(e) => e.dst # Exit /\ e.callee \in Procs \ {Main}
    <2> TAKE e \in edges
    <2>1. PICK k \in DOMAIN main.edges :
                  /\ e = EdgeOf(k) /\ e.id = k /\ e.src = main.edges[k].src
                  /\ e.dst = main.edges[k].dst /\ e.callee = main.edges[k].callee
      BY <1>4
    <2> QED BY <2>1, <1>1, <1>2, <1>3 DEF IsCall
  <1>7. nextEdge \in Nat /\ Exit \in nodes /\ \A l \in nodes : l \in Nat /\ l < nextLoc
    BY <1>1, <1>2 DEF LocsOf, Exit
  <1>8. GraphInv
    BY <1>1, <1>2, <1>5, <1>6, <1>7 DEF GraphInv
  <1> QED BY <1>1, <1>6, <1>8 DEF Inv, EarlyInv, Sorted

\* Every step keeps the invariant.
LEMMA InvNext ==
    ASSUME Inv, [Next]_vars
    PROVE  Inv'
  <1> USE DEF graphVars, solverVars, fixedVars, loopVars
  <1>1. CASE InitializeErrorField
    BY <1>1, ErrorFieldStep DEF Inv
  <1>2. CASE RemoveIrrelevantLocations
    BY <1>2, RemoveStep DEF Inv
  <1>3. CASE CreateTopologicalSorts
    BY <1>3, SortStep DEF Inv
  <1>4. CASE EagerIteration
    BY <1>4, OtherStep DEF EagerIteration, Finish, InLoop
  <1>5. CASE EagerInline
    <2>1. CASE openCalls = {}
      BY <1>5, <2>1, OtherStep DEF EagerInline, InLoop
    <2>2. CASE openCalls # {}
      <3>1. /\ pc = "eagerInline" /\ UNCHANGED <<pc, prog, error, topoSort>>
            /\ \E c \in CallEdges : InlineCallIntoRoot(c)
        BY <1>5, <2>2 DEF EagerInline
      <3> QED BY <3>1, InlineStep DEF InLoop
    <2> QED BY <2>1, <2>2
  <1>6. CASE UnderApproximate
    <2>1. pc = "under" /\ pc' \in {"done", "start"} /\ calls' = Approximate(calls, {})
      BY <1>6 DEF UnderApproximate, Finish
    <2>2. UNCHANGED <<nodes, edges, nextLoc, nextEdge, topo, locNum, prog, error, topoSort>>
      BY <1>6 DEF UnderApproximate
    <2> QED BY <2>1, <2>2, OtherStep DEF InLoop
  <1>7. CASE SkipUnderApproximation
    BY <1>7, OtherStep DEF SkipUnderApproximation, InLoop
  <1>8. CASE SetStartAndTarget
    <2>1. pc = "start" /\ pc' \in {"done", "over"}
      BY <1>8 DEF SetStartAndTarget, Finish
    <2>2. UNCHANGED <<nodes, edges, nextLoc, nextEdge, topo, locNum, prog, error, topoSort, calls>>
      BY <1>8 DEF SetStartAndTarget
    <2> QED BY <2>1, <2>2, OtherStep DEF InLoop
  <1>9. CASE OverApproximate
    <2>1. pc = "over" /\ calls' = Approximate(calls, Cheap(calls, bound))
      BY <1>9 DEF OverApproximate
    <2>2. pc' \in {"done", "inline", "under"}
      BY <1>9 DEF OverApproximate, Finish
    <2>3. UNCHANGED <<nodes, edges, nextLoc, nextEdge, topo, locNum, prog, error, topoSort>>
      BY <1>9 DEF OverApproximate
    <2> QED BY <2>1, <2>2, <2>3, OtherStep DEF InLoop
  <1>10. CASE InlineNext
    <2>1. /\ pc = "inline" /\ UNCHANGED <<pc, prog, error, topoSort>>
          /\ \E c \in CallEdges : InlineCallIntoRoot(c)
      BY <1>10 DEF InlineNext
    <2> QED BY <2>1, InlineStep DEF InLoop
  <1>11. CASE FinishInlining
    BY <1>11, OtherStep DEF FinishInlining, InLoop
  <1>12. CASE Done \/ UNCHANGED vars
    <2>1. UNCHANGED <<pc, nodes, edges, nextLoc, nextEdge, topo, locNum, prog, error, topoSort, calls>>
      BY <1>12 DEF Done, vars
    <2> QED BY <2>1 DEF Inv, GraphInv, EarlyInv, OrderInv, ErrorIsLast, SortsInv, CallInv, Sorted,
                        CallEdges, IsCall, ClosedUnderPredecessors
  <1> QED BY <1>1, <1>2, <1>3, <1>4, <1>5, <1>6, <1>7, <1>8, <1>9, <1>10, <1>11, <1>12 DEF Next

(***************************************************************************)
(* The graph, its order and its calls stay well formed in every execution. *)
(***************************************************************************)
THEOREM Invariance == Spec => []Inv
  BY InvInit, InvNext, PTL DEF Spec

\* Location numbers and topological order stay each other's inverse and every
\* transition goes forward in it, however many callees are inlined.
THEOREM OrderStaysTopological == Spec => []OrderIsTopological
  <1>1. Inv => OrderIsTopological
    BY DEF Inv, OrderInv, GraphInv, OrderIsTopological
  <1> QED BY <1>1, Invariance, PTL

\* mCalls has an entry, with the right call chain, for exactly the calls that
\* are left in the graph.
THEOREM CallsStayExact == Spec => []CallsAreExact
  <1>1. Inv => CallsAreExact
    BY DEF Inv, CallInv, CallsAreExact
  <1> QED BY <1>1, Invariance, PTL

=============================================================================
