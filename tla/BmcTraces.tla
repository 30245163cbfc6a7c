----------------------------- MODULE BmcTraces -----------------------------
(***************************************************************************)
(* The errors that the bounded model checker reports are real: the         *)
(* counterexample that it reads from a model of the solver is a run of     *)
(* the program, through calls and returns that the input really takes, to  *)
(* an error location, for any automata systems, settings and answers of    *)
(* the solver.  And the type invariant of the engine.                      *)
(***************************************************************************)
EXTENDS BmcPrecision

-----------------------------------------------------------------------------
(* The transitions of the graph *)

\* What GraphInv does not say of the transitions: nothing leads to the entry,
\* no input leaves the error goal, and no call touches it.
EdgeInv ==
    /\ error \in Nat \cup {Null} /\ error # Entry
    /\ edges \subseteq Edge
    /\ \A e \in edges : /\ e.dst # Entry
                        /\ e.src = error => e.guard = {}
                        /\ IsCall(e) => e.src # error /\ e.dst # error

\* A transition that assigns is a transition.
LEMMA AssignEdgeFacts ==
    ASSUME NEW id \in Nat, NEW s \in Nat, NEW d \in Nat, NEW g \in SUBSET World
    PROVE  LET e == AssignEdge(id, s, d, g)
           IN  /\ e \in Edge /\ ~IsCall(e)
               /\ e.id = id /\ e.src = s /\ e.dst = d /\ e.guard = g
  BY DEF AssignEdge, Edge, Identity, IsCall

\* What a transition of an automaton is.
LEMMA TransitionFacts ==
    ASSUME NEW sys \in Programs, NEW p \in Procs, NEW k \in DOMAIN sys[p].edges
    PROVE  LET e == sys[p].edges[k]
           IN  /\ e.src \in Nat /\ e.src < sys[p].n
               /\ e.dst \in Nat /\ e.dst < sys[p].n /\ e.dst # Entry
               /\ e.guard \in SUBSET World /\ e.callee \in Procs \cup {NoProc}
               /\ e.arg \in [World -> World]
  <1>1. /\ sys[p].n \in Nat /\ sys[p].edges[k] \in Transition
        /\ sys[p].edges[k].src \in LocsOf(sys[p]) \ {Exit}
        /\ sys[p].edges[k].dst \in LocsOf(sys[p]) \ {Entry}
    BY CfaFacts
  <1> QED BY <1>1 DEF Transition, LocsOf

\* The transitions of the main automaton.
LEMMA EdgeInit == Init => EdgeInv
  <1> SUFFICES ASSUME Init PROVE EdgeInv
    OBVIOUS
  <1> DEFINE main == prog[Main]
             EdgeOf(k) == [id |-> k, src |-> main.edges[k].src, dst |-> main.edges[k].dst,
                           guard |-> main.edges[k].guard, callee |-> main.edges[k].callee,
                           arg |-> main.edges[k].arg]
  <1>1. /\ prog \in Programs /\ error = Null /\ edges = {EdgeOf(k) : k \in DOMAIN main.edges}
        /\ Main \in Procs
    BY ProcsAssumption DEF Init
  <1>2. error \in Nat \cup {Null} /\ error \notin Nat /\ error # Entry
    BY <1>1, NullAssumption DEF Entry
  <1>3. ASSUME NEW k \in DOMAIN main.edges
        PROVE  EdgeOf(k) \in Edge /\ EdgeOf(k).dst # Entry /\ EdgeOf(k).src \in Nat /\ EdgeOf(k).dst \in Nat
    <2>1. /\ main.edges[k].src \in Nat /\ main.edges[k].dst \in Nat /\ main.edges[k].dst # Entry
          /\ main.edges[k].guard \in SUBSET World /\ main.edges[k].callee \in Procs \cup {NoProc}
          /\ main.edges[k].arg \in [World -> World]
      BY <1>1, TransitionFacts
    <2>2. k \in Nat
      BY <1>1, CfaFacts
    <2> QED BY <2>1, <2>2 DEF Edge
  <1> HIDE DEF EdgeOf
  <1> QED BY <1>1, <1>2, <1>3 DEF EdgeInv

\* The error goal and the transitions to and from it.
LEMMA EdgeErrorField ==
    ASSUME Inv, EdgeInv, InitializeErrorField
    PROVE  EdgeInv'
  <1> DEFINE main == prog[Main]
             goal == IF main.err = {}
                     THEN {AssignEdge(nextEdge + 1, Entry, nextLoc, {})}
                     ELSE {AssignEdge(nextEdge + 1 + l, l, nextLoc, World) : l \in main.err}
             leave == AssignEdge(nextEdge + 1 + nextLoc, nextLoc, Exit, {})
  <1>1. /\ prog \in Programs /\ nextLoc \in Nat /\ nextEdge \in Nat /\ Main \in Procs
        /\ pc = "errorField" /\ nextLoc = main.n
        /\ \A e \in edges : e.src < nextLoc /\ e.dst < nextLoc /\ e.src \in Nat /\ e.dst \in Nat
    BY ProcsAssumption DEF Inv, GraphInv, EarlyInv, InitializeErrorField
  <1>2. /\ nextLoc >= 2 /\ \A l \in main.err : l \in Nat /\ l < nextLoc
    BY <1>1, CfaFacts DEF LocsOf
  <1>3. CASE pc' = "done"
    <2>1. UNCHANGED <<edges, error>>
      BY <1>3 DEF InitializeErrorField
    <2> QED BY <2>1 DEF EdgeInv, IsCall
  <1>4. CASE pc' = "remove"
    <2>1. error' = nextLoc /\ edges' = edges \cup goal \cup {leave}
      BY <1>4 DEF InitializeErrorField, Finish
    <2>2. /\ leave \in Edge /\ ~IsCall(leave) /\ leave.src = nextLoc /\ leave.dst = Exit /\ leave.guard = {}
      <3>1. nextEdge + 1 + nextLoc \in Nat /\ Exit \in Nat /\ {} \in SUBSET World
        BY <1>1 DEF Exit
      <3> QED BY ONLY <3>1, <1>1, AssignEdgeFacts
    <2>3. ASSUME NEW e \in goal
          PROVE  e \in Edge /\ ~IsCall(e) /\ e.src # nextLoc /\ e.dst = nextLoc
      <3>1. CASE main.err = {}
        <4>1. e = AssignEdge(nextEdge + 1, Entry, nextLoc, {}) /\ Entry \in Nat
          BY <3>1 DEF Entry
        <4>2. nextEdge + 1 \in Nat /\ {} \in SUBSET World /\ Entry # nextLoc
          BY <1>1, <1>2 DEF Entry
        <4>3. /\ e \in Edge /\ ~IsCall(e) /\ e.src = Entry /\ e.dst = nextLoc
          BY ONLY <4>1, <4>2, <1>1, AssignEdgeFacts
        <4> QED BY <4>2, <4>3
      <3>2. CASE main.err # {}
        <4>1. PICK l \in main.err : e = AssignEdge(nextEdge + 1 + l, l, nextLoc, World)
          BY <3>2
        <4>2. nextEdge + 1 + l \in Nat /\ l \in Nat /\ l < nextLoc
          BY <1>1, <1>2
        <4> QED BY <4>1, <4>2, <1>1, AssignEdgeFacts
      <3> QED BY <3>1, <3>2
    <2>4. error' \in Nat /\ error' # Entry
      BY <2>1, <1>1, <1>2 DEF Entry
    <2> HIDE DEF leave, goal
    <2>5. ASSUME NEW e \in edges'
          PROVE  /\ e \in Edge /\ e.dst # Entry
                 /\ e.src = error' => e.guard = {}
                 /\ IsCall(e) => e.src # error' /\ e.dst # error'
      <3>1. CASE e \in edges
        BY <3>1, <2>1, <1>1 DEF EdgeInv
      <3>2. CASE e = leave
        BY <3>2, <2>2, <2>1 DEF Entry, Exit
      <3>3. CASE e \in goal
        BY <3>3, <2>3, <2>1, <1>2 DEF Entry
      <3> QED BY <2>1, <3>1, <3>2, <3>3
    <2> QED BY <2>4, <2>5 DEF EdgeInv, IsCall
  <1> QED BY <1>3, <1>4 DEF InitializeErrorField, Finish

\* The transitions that inlining adds.
LEMMA InlinedEdgeTypes ==
    ASSUME GraphInv, EdgeInv, error \in nodes, NEW c \in CallEdges, NEW e \in InlinedEdges(c)
    PROVE  /\ e \in Edge /\ e.dst # Entry /\ e.src # error
           /\ IsCall(e) => e.dst # error
  <1> DEFINE n == prog[c.callee].n
             es == prog[c.callee].edges
             err == prog[c.callee].err
  <1>1. /\ c \in edges /\ IsCall(c) /\ c.callee \in Procs /\ prog \in Programs
        /\ nextLoc \in Nat /\ nextEdge \in Nat /\ error \in Nat /\ error < nextLoc /\ nextLoc > 1
        /\ error # Entry
    BY DEF GraphInv, EdgeInv, CallEdges, Exit
  <1>2. /\ c.src \in Nat /\ c.dst \in Nat /\ c.src # error /\ c.dst # Entry
        /\ c.guard \in SUBSET World /\ c.arg \in [World -> World]
    BY <1>1 DEF EdgeInv, Edge
  <1>3. /\ n \in Nat /\ Len(es) \in Nat /\ DOMAIN es = 1 .. Len(es)
        /\ err \subseteq LocsOf(prog[c.callee])
    BY <1>1, CfaFacts
  <1>4. CASE \E k \in DOMAIN es : e = CopiedEdge(c, k)
    <2>1. PICK k \in DOMAIN es : e = CopiedEdge(c, k)
      BY <1>4
    <2>2. /\ es[k].src \in Nat /\ es[k].dst \in Nat /\ es[k].guard \in SUBSET World
          /\ es[k].callee \in Procs \cup {NoProc} /\ es[k].arg \in [World -> World]
      BY <1>1, TransitionFacts
    <2>3. e = [id |-> nextEdge + n + k, src |-> nextLoc + es[k].src, dst |-> nextLoc + es[k].dst,
               guard |-> {w \in World : c.arg[w] \in es[k].guard},
               callee |-> es[k].callee, arg |-> [w \in World |-> es[k].arg[c.arg[w]]]]
      BY <2>1 DEF CopiedEdge, CopyId
    <2>4. [w \in World |-> es[k].arg[c.arg[w]]] \in [World -> World]
      BY <1>2, <2>2
    <2>5. nextEdge + n + k \in Nat
      BY <1>1, <1>3
    <2> HIDE DEF n, es
    <2>6. e \in Edge
      BY <1>1, <2>2, <2>3, <2>4, <2>5 DEF Edge
    <2>7. e.src = nextLoc + es[k].src /\ e.dst = nextLoc + es[k].dst
      BY <2>3
    <2> QED BY <1>1, <2>2, <2>6, <2>7 DEF Entry
  <1>5. CASE \E l \in err : e = ToErrorEdge(c, l)
    <2>1. PICK l \in err : e = ToErrorEdge(c, l)
      BY <1>5
    <2>2. l \in Nat
      BY <1>3 DEF LocsOf
    <2>3. nextEdge + 1 + l \in Nat /\ nextLoc + l \in Nat /\ World \in SUBSET World
      BY <1>1, <2>2
    <2>4. /\ e \in Edge /\ ~IsCall(e) /\ e.src = nextLoc + l /\ e.dst = error
      BY <1>1, <2>1, <2>3, AssignEdgeFacts DEF ToErrorEdge
    <2> QED BY <1>1, <2>2, <2>4
  <1>6. CopyId(c, Len(es) + 1) \in Nat /\ CopyId(c, Len(es) + 2) \in Nat
    <2>1. /\ CopyId(c, Len(es) + 1) = nextEdge + n + (Len(es) + 1)
          /\ CopyId(c, Len(es) + 2) = nextEdge + n + (Len(es) + 2)
      BY DEF CopyId
    <2> HIDE DEF n, es
    <2> QED BY <1>1, <1>3, <2>1
  <1>7. CASE e = EnterEdge(c)
    <2>1. e \in Edge /\ ~IsCall(e) /\ e.src = c.src /\ e.dst = nextLoc + Entry
      BY <1>1, <1>2, <1>6, <1>7, AssignEdgeFacts DEF EnterEdge, Entry
    <2> QED BY <1>1, <1>2, <2>1 DEF Entry
  <1>8. CASE e = LeaveEdge(c)
    <2>1. World \in SUBSET World /\ nextLoc + Exit \in Nat
      BY <1>1 DEF Exit
    <2>2. e \in Edge /\ ~IsCall(e) /\ e.src = nextLoc + Exit /\ e.dst = c.dst
      BY <1>1, <1>2, <1>6, <1>8, <2>1, AssignEdgeFacts DEF LeaveEdge
    <2> QED BY <1>1, <1>2, <2>2 DEF Exit
  <1> QED BY <1>4, <1>5, <1>7, <1>8 DEF InlinedEdges

\* Inlining keeps the transitions what they are.
LEMMA EdgeInline ==
    ASSUME GraphInv, EdgeInv, error \in nodes, NEW c \in CallEdges, InlineCallIntoRoot(c),
           UNCHANGED error
    PROVE  EdgeInv'
  <1>1. edges' = (edges \ {c}) \cup InlinedEdges(c)
    BY InlineEdges
  <1>2. ASSUME NEW e \in edges'
        PROVE  /\ e \in Edge /\ e.dst # Entry
               /\ e.src = error => e.guard = {}
               /\ IsCall(e) => e.src # error /\ e.dst # error
    <2>1. CASE e \in edges
      BY <2>1 DEF EdgeInv
    <2>2. CASE e \in InlinedEdges(c)
      BY <2>2, InlinedEdgeTypes
    <2> QED BY <1>1, <2>1, <2>2
  <1>3. error \in Nat \cup {Null} /\ error # Entry
    BY DEF EdgeInv
  <1> QED BY <1>2, <1>3 DEF EdgeInv, IsCall

\* What a step does to the graph.
LEMMA GraphSteps ==
    ASSUME [Next]_vars
    PROVE  \/ InitializeErrorField
           \/ RemoveIrrelevantLocations
           \/ /\ pc \in {"eagerInline", "inline"} /\ UNCHANGED <<pc, prog, error, solverVars, lca>>
              /\ \E c \in CallEdges : InlineCallIntoRoot(c)
           \/ UNCHANGED <<nodes, edges, nextLoc, origin, prog, error>>
  <1> USE DEF graphVars, solverVars, fixedVars, loopVars
  <1>1. CASE InitializeErrorField \/ RemoveIrrelevantLocations
    BY <1>1
  <1>2. CASE CreateTopologicalSorts
    BY <1>2 DEF CreateTopologicalSorts
  <1>3. CASE EagerIteration
    BY <1>3 DEF EagerIteration
  <1>4. CASE EagerInline
    BY <1>4 DEF EagerInline
  <1>5. CASE UnderApproximate
    BY <1>5 DEF UnderApproximate
  <1>6. CASE SkipUnderApproximation
    BY <1>6 DEF SkipUnderApproximation
  <1>7. CASE SetStartAndTarget
    BY <1>7 DEF SetStartAndTarget
  <1>8. CASE OverApproximate
    BY <1>8 DEF OverApproximate
  <1>9. CASE InlineNext
    BY <1>9 DEF InlineNext
  <1>10. CASE FinishInlining
    BY <1>10 DEF FinishInlining
  <1>11. CASE Done \/ UNCHANGED vars
    BY <1>11 DEF Done, vars
  <1> QED BY <1>1, <1>2, <1>3, <1>4, <1>5, <1>6, <1>7, <1>8, <1>9, <1>10, <1>11 DEF Next

\* Every step keeps the transitions what they are.
LEMMA EdgeNext ==
    ASSUME Inv, EdgeInv, [Next]_vars
    PROVE  EdgeInv'
  <1>1. CASE InitializeErrorField
    BY <1>1, EdgeErrorField
  <1>2. CASE RemoveIrrelevantLocations
    <2>1. edges' \subseteq edges /\ UNCHANGED error
      BY <1>2 DEF RemoveIrrelevantLocations, fixedVars
    <2> QED BY <2>1 DEF EdgeInv, IsCall
  <1>3. CASE /\ pc \in {"eagerInline", "inline"} /\ UNCHANGED <<pc, prog, error, solverVars, lca>>
             /\ \E c \in CallEdges : InlineCallIntoRoot(c)
    <2>1. GraphInv /\ error \in nodes
      BY <1>3 DEF Inv, EarlyInv
    <2> QED BY <1>3, <2>1, EdgeInline
  <1>4. CASE UNCHANGED <<nodes, edges, nextLoc, origin, prog, error>>
    BY <1>4 DEF EdgeInv, IsCall
  <1> QED BY <1>1, <1>2, <1>3, <1>4, GraphSteps

-----------------------------------------------------------------------------
(* Call stacks *)

\* Call stacks of the program: nonempty lists of frames.
Frames == [proc : Procs, loc : Nat, in : World]
Stacks == Seq(Frames) \ {<<>>}
TopFrame(st) == st[Len(st)]
IsAt(st, at) == <<TopFrame(st).proc, TopFrame(st).loc>> = at

(***************************************************************************)
(* S gives the call stack with which each input passes each location of    *)
(* the graph.  Its top frame is at the source location; a transition is a  *)
(* step of the interpreter; a transition to the error goal leaves an error *)
(* location; and at a call that an input takes, the callee's frame would   *)
(* go on top of the stack of the location behind the call.                 *)
(***************************************************************************)
Suspends(S, c, w) ==
    LET f == TopFrame(S[c.src][w])
    IN  \E e \in EdgesOf(prog[f.proc]) :
           /\ e.src = f.loc /\ f.in \in e.guard /\ IsCall(e)
           /\ e.callee = c.callee /\ e.arg[f.in] = c.arg[w]
           /\ S[c.dst][w] = Append(ButLast(S[c.src][w]), Frame(f.proc, e.dst, f.in))

Performs(S, e, w) ==
    IF IsCall(e) THEN Suspends(S, e, w)
    ELSE IF e.dst = error THEN TopFrame(S[e.src][w]).loc \in prog[TopFrame(S[e.src][w]).proc].err
    ELSE S[e.dst][w] \in StackSteps(S[e.src][w], SourceOf(e.dst))

IsStackMap(S) ==
    /\ \A w \in World : S[Entry][w] = <<Frame(Main, Entry, w)>>
    /\ \A l \in nodes \ {error} : \A w \in World : S[l][w] \in Stacks /\ IsAt(S[l][w], SourceOf(l))
    /\ \A e \in edges : \A w \in e.guard : Performs(S, e, w)

StackInv == /\ pc = "errorField" => error = Null /\ origin = EmptyScope
            /\ \E S : IsStackMap(S)

\* Taking the top off a stack undoes putting it on.
LEMMA StackFacts ==
    ASSUME NEW st \in Stacks, NEW f \in Frames
    PROVE  /\ Append(st, f) \in Stacks /\ TopFrame(Append(st, f)) = f
           /\ ButLast(Append(st, f)) = st /\ Len(Append(st, f)) > 1
           /\ TopFrame(st) \in Frames
  <1>1. st \in Seq(Frames) /\ Len(st) \in Nat /\ Len(st) > 0
    BY DEF Stacks
  <1>2. Append(st, f) \in Seq(Frames) /\ Len(Append(st, f)) = Len(st) + 1 /\ Append(st, f)[Len(st) + 1] = f
    BY <1>1
  <1>3. Append(st, f) # <<>>
    BY <1>1, <1>2
  <1>4. SubSeq(Append(st, f), 1, Len(st)) = st
    BY <1>1
  <1>5. Len(st) + 1 - 1 = Len(st)
    BY <1>1
  <1>6. ButLast(Append(st, f)) = st
    BY <1>2, <1>4, <1>5 DEF ButLast
  <1>7. st[Len(st)] \in Frames
    BY <1>1
  <1> QED BY <1>1, <1>2, <1>3, <1>6, <1>7 DEF Stacks, TopFrame

\* The steps of the interpreter.
LEMMA StepAssigns ==
    ASSUME NEW st, NEW e, e \in EdgesOf(prog[TopFrame(st).proc]), e.src = TopFrame(st).loc,
           TopFrame(st).in \in e.guard, ~IsCall(e)
    PROVE  Append(ButLast(st), Frame(TopFrame(st).proc, e.dst, TopFrame(st).in))
             \in StackSteps(st, <<TopFrame(st).proc, e.dst>>)
  <1> DEFINE f == TopFrame(st)
             at == <<f.proc, e.dst>>
             Taking == {d \in EdgesOf(prog[f.proc]) : d.src = f.loc /\ f.in \in d.guard}
             here == {Append(ButLast(st), Frame(f.proc, at[2], f.in)) :
                        d \in {d \in Taking : ~IsCall(d) /\ <<f.proc, d.dst>> = at}}
  <1>1. here \subseteq StackSteps(st, at)
    BY DEF StackSteps, TopFrame
  <1>2. e \in Taking /\ at[2] = e.dst
    OBVIOUS
  <1> HIDE DEF f, Taking
  <1>3. Append(ButLast(st), Frame(f.proc, e.dst, f.in)) \in here
    BY <1>2
  <1> QED BY <1>1, <1>3 DEF f

LEMMA StepEnters ==
    ASSUME NEW st, NEW e, e \in EdgesOf(prog[TopFrame(st).proc]), e.src = TopFrame(st).loc,
           TopFrame(st).in \in e.guard, IsCall(e),
           ButLast(st) \in Seq(Frames), Frame(TopFrame(st).proc, e.dst, TopFrame(st).in) \in Frames,
           Frame(e.callee, Entry, e.arg[TopFrame(st).in]) \in Frames
    PROVE  Append(Append(ButLast(st), Frame(TopFrame(st).proc, e.dst, TopFrame(st).in)),
                  Frame(e.callee, Entry, e.arg[TopFrame(st).in]))
             \in StackSteps(st, <<e.callee, Entry>>)
  <1> DEFINE f == TopFrame(st)
             at == <<e.callee, Entry>>
             Taking == {d \in EdgesOf(prog[f.proc]) : d.src = f.loc /\ f.in \in d.guard}
             New(d) == <<Frame(f.proc, d.dst, f.in), Frame(d.callee, Entry, d.arg[f.in])>>
             calling == {ButLast(st) \o New(d) : d \in {d \in Taking : IsCall(d) /\ <<d.callee, Entry>> = at}}
  <1>1. calling \subseteq StackSteps(st, at)
    BY DEF StackSteps, TopFrame
  <1>2. e \in Taking
    OBVIOUS
  <1> HIDE DEF f, Taking, New
  <1>3. ButLast(st) \o New(e) \in calling
    BY <1>2
  <1>4. ASSUME NEW q \in Seq(Frames), NEW a \in Frames, NEW b \in Frames
        PROVE  q \o <<a, b>> = Append(Append(q, a), b)
    OBVIOUS
  <1>5. ButLast(st) \o New(e)
          = Append(Append(ButLast(st), Frame(f.proc, e.dst, f.in)), Frame(e.callee, Entry, e.arg[f.in]))
    BY <1>4 DEF New, f
  <1> QED BY <1>1, <1>3, <1>5 DEF f

LEMMA StepLeaves ==
    ASSUME NEW st, Len(st) > 1, TopFrame(st).loc = Exit, NEW at, IsAt(ButLast(st), at)
    PROVE  ButLast(st) \in StackSteps(st, at)
  <1> DEFINE below == ButLast(st)
             returning == IF Len(st) > 1 /\ st[Len(st)].loc = Exit
                          THEN {s \in {below} : <<s[Len(s)].proc, s[Len(s)].loc>> = at} ELSE {}
  <1>1. returning \subseteq StackSteps(st, at)
    BY DEF StackSteps
  <1>2. below \in returning
    BY DEF TopFrame, IsAt
  <1> QED BY <1>1, <1>2

\* Initially a location of the graph is one of the main automaton.
LEMMA StackInit == Init => StackInv
  <1> SUFFICES ASSUME Init PROVE StackInv
    OBVIOUS
  <1> DEFINE main == prog[Main]
             EdgeOf(k) == [id |-> k, src |-> main.edges[k].src, dst |-> main.edges[k].dst,
                           guard |-> main.edges[k].guard, callee |-> main.edges[k].callee,
                           arg |-> main.edges[k].arg]
             S == [l \in Nat |-> [w \in World |-> <<Frame(Main, l, w)>>]]
  <1>1. /\ prog \in Programs /\ error = Null /\ edges = {EdgeOf(k) : k \in DOMAIN main.edges}
        /\ Main \in Procs /\ nodes \subseteq Nat /\ origin = EmptyScope
    BY ProcsAssumption DEF Init, LocsOf
  <1>2. \A l : SourceOf(l) = <<Main, l>>
    BY <1>1 DEF SourceOf, EmptyScope
  <1>3. ASSUME NEW l \in Nat, NEW w \in World
        PROVE  /\ S[l][w] = <<Frame(Main, l, w)>> /\ S[l][w] \in Stacks
               /\ TopFrame(S[l][w]) = Frame(Main, l, w) /\ ButLast(S[l][w]) = <<>>
               /\ IsAt(S[l][w], <<Main, l>>)
    <2> DEFINE f == Frame(Main, l, w)
    <2>1. f \in Frames /\ f.proc = Main /\ f.loc = l /\ f.in = w
      BY <1>1 DEF Frame, Frames
    <2> HIDE DEF f
    <2>2. <<f>> \in Seq(Frames) /\ Len(<<f>>) = 1 /\ <<f>>[1] = f /\ <<f>> # <<>>
      BY <2>1
    <2>3. SubSeq(<<f>>, 1, 0) = <<>>
      BY <2>2
    <2>4. S[l][w] = <<f>>
      BY DEF f
    <2> HIDE DEF S
    <2> QED BY <2>1, <2>2, <2>3, <2>4 DEF Stacks, TopFrame, ButLast, IsAt, f
  <1> HIDE DEF S
  <1>4. ASSUME NEW k \in DOMAIN main.edges, NEW w \in EdgeOf(k).guard
        PROVE  Performs(S, EdgeOf(k), w)
    <2> DEFINE d == main.edges[k]
               e == EdgeOf(k)
               st == S[d.src][w]
    <2>1. /\ d.src \in Nat /\ d.dst \in Nat /\ w \in World /\ d \in EdgesOf(main)
          /\ e.src = d.src /\ e.dst = d.dst /\ e.guard = d.guard /\ e.callee = d.callee /\ e.arg = d.arg
          /\ w \in d.guard
      BY <1>1, TransitionFacts DEF EdgesOf
    <2> HIDE DEF e, d, main
    <2>2. /\ TopFrame(st) = Frame(Main, d.src, w) /\ ButLast(st) = <<>>
          /\ S[d.dst][w] = <<Frame(Main, d.dst, w)>>
      BY <2>1, <1>3
    <2>3. TopFrame(st).proc = Main /\ TopFrame(st).loc = d.src /\ TopFrame(st).in = w
      BY <2>2 DEF Frame
    <2>4. <<Frame(Main, d.dst, w)>> = Append(<<>>, Frame(Main, d.dst, w))
      OBVIOUS
    <2>5. S[e.dst][w] = Append(ButLast(st), Frame(Main, d.dst, w)) /\ S[e.src][w] = st
      BY <2>1, <2>2, <2>4
    <2>6. CASE IsCall(e)
      <3>1. IsCall(d)
        BY <2>1, <2>6 DEF IsCall
      <3>2. Suspends(S, e, w)
        BY <2>1, <2>3, <2>5, <3>1 DEF Suspends, main
      <3> QED BY <2>6, <3>2 DEF Performs, e
    <2>7. CASE ~IsCall(e)
      <3>1. ~IsCall(d) /\ e.dst # error
        BY <1>1, <2>1, <2>7, NullAssumption DEF IsCall
      <3> HIDE DEF st
      <3>2. Append(ButLast(st), Frame(Main, d.dst, w)) \in StackSteps(st, <<Main, d.dst>>)
        BY <2>1, <2>3, <3>1, StepAssigns DEF main
      <3> QED BY <1>2, <2>1, <2>5, <2>7, <3>1, <3>2 DEF Performs, e
    <2> QED BY <2>6, <2>7
  <1> HIDE DEF EdgeOf
  <1>5. \A e \in edges : \A w \in e.guard : Performs(S, e, w)
    BY <1>1, <1>4
  <1>6. \A w \in World : S[Entry][w] = <<Frame(Main, Entry, w)>>
    BY <1>3 DEF Entry
  <1>7. \A l \in nodes \ {error} : \A w \in World : S[l][w] \in Stacks /\ IsAt(S[l][w], SourceOf(l))
    BY <1>1, <1>2, <1>3
  <1> HIDE DEF main
  <1>8. IsStackMap(S)
    BY <1>5, <1>6, <1>7 DEF IsStackMap
  <1> QED BY <1>1, <1>8 DEF StackInv

\* The interpreter only looks at the program.
LEMMA InterpreterSame ==
    ASSUME UNCHANGED prog
    PROVE  /\ \A st, at : StackSteps(st, at)' = StackSteps(st, at)
           /\ \A S, e, w : Suspends(S, e, w)' <=> Suspends(S, e, w)
  <1>1. ASSUME NEW S, NEW e, NEW w PROVE Suspends(S, e, w)' <=> Suspends(S, e, w)
    BY DEF Suspends, TopFrame, Frame, ButLast, IsCall, EdgesOf
  <1>2. \A st, at : StackSteps(st, at)' = StackSteps(st, at)
    BY DEF StackSteps, Frame, ButLast, IsCall, EdgesOf
  <1> QED BY <1>1, <1>2

\* A transition performs the same step in a graph with the same goal.
LEMMA PerformsSame ==
    ASSUME NEW S, NEW e, NEW w, UNCHANGED prog, e.dst = error <=> e.dst = error',
           SourceOf(e.dst)' = SourceOf(e.dst), Performs(S, e, w)
    PROVE  Performs(S, e, w)'
  <1>1. Suspends(S, e, w)' <=> Suspends(S, e, w)
    BY InterpreterSame
  <1>2. \A st, at : StackSteps(st, at)' = StackSteps(st, at)
    BY InterpreterSame
  <1> QED BY <1>1, <1>2 DEF Performs, TopFrame, IsCall

\* Error locations of the main automaton get transitions to the goal.
LEMMA StackErrorField ==
    ASSUME Inv, StackInv, EdgeInv, InitializeErrorField
    PROVE  StackInv'
  <1> DEFINE main == prog[Main]
             goal == IF main.err = {}
                     THEN {AssignEdge(nextEdge + 1, Entry, nextLoc, {})}
                     ELSE {AssignEdge(nextEdge + 1 + l, l, nextLoc, World) : l \in main.err}
             leave == AssignEdge(nextEdge + 1 + nextLoc, nextLoc, Exit, {})
  <1>1. /\ prog \in Programs /\ nextLoc \in Nat /\ nextEdge \in Nat /\ Main \in Procs
        /\ pc = "errorField" /\ nodes = LocsOf(main) /\ nextLoc = main.n
        /\ \A e \in edges : e.src < nextLoc /\ e.dst < nextLoc /\ e.src \in Nat /\ e.dst \in Nat
        /\ \A l \in nodes : l \in Nat /\ l < nextLoc
    BY ProcsAssumption DEF Inv, GraphInv, EarlyInv, InitializeErrorField
  <1>2. main.err \subseteq nodes
    BY <1>1, CfaFacts
  <1>3. /\ error = Null /\ \A l : SourceOf(l) = <<Main, l>>
        /\ UNCHANGED <<prog, origin>> /\ pc' # "errorField" /\ pc' \in {"done", "remove"}
    BY <1>1 DEF StackInv, SourceOf, EmptyScope, InitializeErrorField, Finish
  <1>4. PICK S : IsStackMap(S)
    BY DEF StackInv
  <1>5. /\ \A w \in World : S[Entry][w] = <<Frame(Main, Entry, w)>>
        /\ \A l \in nodes : \A w \in World : S[l][w] \in Stacks /\ IsAt(S[l][w], SourceOf(l))
        /\ \A e \in edges : \A w \in e.guard : Performs(S, e, w)
    <2>1. nodes \ {error} = nodes
      BY <1>1, <1>3, NullAssumption
    <2> QED BY <1>4, <2>1 DEF IsStackMap
  <1>6. \A l : SourceOf(l)' = SourceOf(l)
    BY <1>3 DEF SourceOf
  <1>7. CASE pc' = "done"
    <2>1. UNCHANGED <<nodes, edges, error>>
      BY <1>7 DEF InitializeErrorField
    <2>2. \A e \in edges : \A w \in e.guard : Performs(S, e, w)'
      BY <1>3, <1>5, <1>6, <2>1, PerformsSame
    <2>3. IsStackMap(S)'
      BY <1>5, <1>6, <2>1, <2>2 DEF IsStackMap, Frame, IsAt, TopFrame
    <2> QED BY <1>3, <2>3 DEF StackInv
  <1>8. CASE pc' = "remove"
    <2>1. error' = nextLoc /\ nodes' = nodes \cup {nextLoc} /\ edges' = edges \cup goal \cup {leave}
      BY <1>8 DEF InitializeErrorField, Finish
    <2>2. ASSUME NEW e \in edges, NEW w \in e.guard PROVE Performs(S, e, w)'
      <3>1. e.dst # error /\ e.dst # error'
        BY <1>1, <1>3, <2>1, NullAssumption
      <3> QED BY <1>3, <1>5, <1>6, <3>1, PerformsSame
    <2>3. ASSUME NEW e \in goal, NEW w \in e.guard PROVE Performs(S, e, w)'
      <3>1. CASE main.err = {}
        <4>1. e = AssignEdge(nextEdge + 1, Entry, nextLoc, {})
          BY <3>1
        <4>2. e.guard = {}
          BY <4>1 DEF AssignEdge
        <4> QED BY <4>2
      <3>2. CASE main.err # {}
        <4>1. PICK l \in main.err : e = AssignEdge(nextEdge + 1 + l, l, nextLoc, World)
          BY <3>2
        <4>2. ~IsCall(e) /\ e.dst = nextLoc /\ e.src = l /\ w \in World
          BY <4>1 DEF AssignEdge, IsCall
        <4>3. IsAt(S[l][w], <<Main, l>>)
          BY <1>2, <1>3, <1>5, <4>2
        <4>4. TopFrame(S[l][w]).loc \in prog[TopFrame(S[l][w]).proc].err
          BY <4>3 DEF IsAt
        <4> QED BY <1>3, <2>1, <4>2, <4>4 DEF Performs, TopFrame, IsCall
      <3> QED BY <3>1, <3>2
    <2>4. leave.guard = {}
      BY DEF AssignEdge
    <2> HIDE DEF goal, leave
    <2>5. \A e \in edges' : \A w \in e.guard : Performs(S, e, w)'
      BY <2>1, <2>2, <2>3, <2>4
    <2>6. nodes' \ {error'} \subseteq nodes
      BY <2>1
    <2>7. IsStackMap(S)'
      BY <1>5, <1>6, <2>5, <2>6 DEF IsStackMap, Frame, IsAt, TopFrame
    <2> QED BY <1>3, <2>7 DEF StackInv
  <1> QED BY <1>3, <1>7, <1>8

\* A smaller graph keeps the stacks.
LEMMA StackSmaller ==
    ASSUME StackInv, nodes' \subseteq nodes, edges' \subseteq edges, UNCHANGED <<prog, error, origin>>,
           pc' = "errorField" => pc = "errorField"
    PROVE  StackInv'
  <1>1. PICK S : IsStackMap(S)
    BY DEF StackInv
  <1>2. \A l : SourceOf(l)' = SourceOf(l)
    BY DEF SourceOf
  <1>3. \A e \in edges' : \A w \in e.guard : Performs(S, e, w)'
    BY <1>1, <1>2, PerformsSame DEF IsStackMap
  <1>4. IsStackMap(S)'
    BY <1>1, <1>2, <1>3 DEF IsStackMap, Frame, IsAt, TopFrame
  <1> QED BY <1>4 DEF StackInv

\* Inlining puts the frame of the callee on the stack behind the call.
InlinedStacks(S, c) ==
    [l \in nodes \cup {Entry} \cup nextLoc .. nextLoc + prog[c.callee].n - 1 |->
       IF l < nextLoc THEN S[l]
       ELSE [w \in World |-> Append(S[c.dst][w], Frame(c.callee, l - nextLoc, c.arg[w]))]]

\* What those stacks are.
LEMMA InlinedStackFacts ==
    ASSUME GraphInv, EdgeInv, NEW S, IsStackMap(S), NEW c \in CallEdges
    PROVE  /\ \A l \in nodes \cup {Entry} : InlinedStacks(S, c)[l] = S[l]
           /\ \A i \in LocsOf(prog[c.callee]), w \in World :
                LET st == InlinedStacks(S, c)[nextLoc + i][w]
                    f == Frame(c.callee, i, c.arg[w])
                IN  /\ S[c.dst][w] \in Stacks /\ f \in Frames
                    /\ st = Append(S[c.dst][w], f) /\ st \in Stacks
                    /\ TopFrame(st) = f /\ ButLast(st) = S[c.dst][w] /\ Len(st) > 1
  <1>1. /\ c \in edges /\ IsCall(c) /\ c.callee \in Procs /\ prog \in Programs
        /\ nextLoc \in Nat /\ nextLoc > 1 /\ c.dst \in nodes \ {error} /\ c.arg \in [World -> World]
        /\ \A l \in nodes : l \in Nat /\ l < nextLoc
    BY DEF GraphInv, EdgeInv, CallEdges, Exit, Edge
  <1> DEFINE n == prog[c.callee].n
  <1>2. n \in Nat /\ LocsOf(prog[c.callee]) = 0 .. n - 1
    BY <1>1, CfaFacts DEF LocsOf
  <1>3. ASSUME NEW l \in nodes \cup {Entry} PROVE InlinedStacks(S, c)[l] = S[l]
    <2>1. l < nextLoc
      BY <1>1 DEF Entry
    <2> QED BY <2>1 DEF InlinedStacks
  <1>4. ASSUME NEW i \in LocsOf(prog[c.callee]), NEW w \in World
        PROVE  LET st == InlinedStacks(S, c)[nextLoc + i][w]
                   f == Frame(c.callee, i, c.arg[w])
               IN  /\ S[c.dst][w] \in Stacks /\ f \in Frames
                   /\ st = Append(S[c.dst][w], f) /\ st \in Stacks
                   /\ TopFrame(st) = f /\ ButLast(st) = S[c.dst][w] /\ Len(st) > 1
    <2> DEFINE st == InlinedStacks(S, c)[nextLoc + i][w]
               f == Frame(c.callee, i, c.arg[w])
               old == S[c.dst][w]
               l == nextLoc + i
    <2>1. i \in Nat /\ l \in nextLoc .. nextLoc + n - 1 /\ ~(l < nextLoc) /\ l - nextLoc = i
      <3>1. i \in 0 .. n - 1
        BY <1>2
      <3> HIDE DEF n
      <3> QED BY <1>1, <1>2, <3>1
    <2>2. f \in Frames
      BY <1>1, <2>1 DEF Frame, Frames
    <2>3. old \in Stacks
      BY <1>1 DEF IsStackMap
    <2>4. st = Append(old, f)
      <3> HIDE DEF l
      <3>1. InlinedStacks(S, c)[l] = [v \in World |-> Append(S[c.dst][v], Frame(c.callee, l - nextLoc, c.arg[v]))]
        BY <2>1 DEF InlinedStacks
      <3> QED BY <2>1, <3>1 DEF l
    <2> HIDE DEF st, f, old
    <2>5. /\ st \in Stacks /\ TopFrame(st) = f /\ ButLast(st) = old /\ Len(st) > 1
      BY <2>2, <2>3, <2>4, StackFacts
    <2> QED BY <2>2, <2>3, <2>4, <2>5 DEF st, f, old
  <1> QED BY <1>3, <1>4

\* The same for one location of the callee.
LEMMA CopyStack ==
    ASSUME GraphInv, EdgeInv, NEW S, IsStackMap(S), NEW c \in CallEdges, NEW T, T = InlinedStacks(S, c),
           NEW i \in LocsOf(prog[c.callee]), NEW w \in World
    PROVE  /\ Frame(c.callee, i, c.arg[w]) \in Frames /\ S[c.dst][w] \in Stacks
           /\ T[nextLoc + i][w] = Append(S[c.dst][w], Frame(c.callee, i, c.arg[w]))
           /\ T[nextLoc + i][w] \in Stacks /\ Len(T[nextLoc + i][w]) > 1
           /\ TopFrame(T[nextLoc + i][w]) = Frame(c.callee, i, c.arg[w])
           /\ ButLast(T[nextLoc + i][w]) = S[c.dst][w]
  BY ONLY InlinedStackFacts, GraphInv, EdgeInv, IsStackMap(S), c \in CallEdges, T = InlinedStacks(S, c),
          i \in LocsOf(prog[c.callee]), w \in World

\* The sources of the locations after a call is inlined.
LEMMA InlineSources ==
    ASSUME GraphInv, NEW c \in CallEdges, InlineCallIntoRoot(c)
    PROVE  /\ \A l \in nodes : SourceOf(l)' = SourceOf(l)
           /\ \A i \in LocsOf(prog[c.callee]) : \A l : l = nextLoc + i => SourceOf(l)' = <<c.callee, i>>
           /\ nodes' = nodes \cup nextLoc .. nextLoc + prog[c.callee].n - 1
  <1> DEFINE n == prog[c.callee].n
  <1>1. /\ c.callee \in Procs /\ prog \in Programs /\ nextLoc \in Nat
        /\ \A l \in nodes : l \in Nat /\ l < nextLoc
    BY DEF GraphInv, CallEdges
  <1>2. n \in Nat /\ LocsOf(prog[c.callee]) = 0 .. n - 1
    BY <1>1, CfaFacts DEF LocsOf
  <1>3. /\ nodes' = nodes \cup nextLoc .. nextLoc + n - 1
        /\ origin' = [l \in DOMAIN origin \cup nextLoc .. nextLoc + n - 1 |->
                        IF l >= nextLoc THEN <<c.callee, l - nextLoc>> ELSE origin[l]]
    BY DEF InlineCallIntoRoot
  <1> HIDE DEF n
  <1>4. ASSUME NEW l \in nodes PROVE SourceOf(l)' = SourceOf(l)
    <2>1. ~(l >= nextLoc) /\ l \notin nextLoc .. nextLoc + n - 1
      BY <1>1, <1>2
    <2> QED BY <1>3, <2>1 DEF SourceOf
  <1>5. ASSUME NEW i \in 0 .. n - 1, NEW l, l = nextLoc + i PROVE SourceOf(l)' = <<c.callee, i>>
    <2>1. l >= nextLoc /\ l \in nextLoc .. nextLoc + n - 1 /\ l - nextLoc = i
      BY <1>1, <1>2, <1>5
    <2>2. l \in DOMAIN origin' /\ origin'[l] = <<c.callee, i>>
      BY <1>3, <2>1
    <2> QED BY <2>2 DEF SourceOf
  <1> QED BY <1>2, <1>3, <1>4, <1>5 DEF n

\* The transitions that stay when a call is inlined perform the same steps.
LEMMA KeptPerform ==
    ASSUME GraphInv, EdgeInv, NEW S, IsStackMap(S), NEW c \in CallEdges, NEW T, T = InlinedStacks(S, c),
           InlineCallIntoRoot(c), UNCHANGED <<prog, error>>, NEW e \in edges, NEW w \in e.guard
    PROVE  Performs(T, e, w)'
  <1>1. e.src \in nodes /\ e.dst \in nodes /\ Performs(S, e, w)
    BY DEF GraphInv, IsStackMap
  <1>2. T[e.src] = S[e.src] /\ T[e.dst] = S[e.dst]
    BY <1>1, InlinedStackFacts
  <1>3. SourceOf(e.dst)' = SourceOf(e.dst)
    BY <1>1, InlineSources
  <1>4. Performs(T, e, w)
    BY <1>1, <1>2 DEF Performs, Suspends
  <1> QED BY <1>3, <1>4, PerformsSame

\* What makes a transition perform a step in the next state.
LEMMA PerformsNext ==
    ASSUME NEW S, NEW e, NEW w, NEW at, UNCHANGED prog, SourceOf(e.dst)' = at,
           \/ IsCall(e) /\ Suspends(S, e, w)
           \/ /\ ~IsCall(e) /\ e.dst = error'
              /\ TopFrame(S[e.src][w]).loc \in prog[TopFrame(S[e.src][w]).proc].err
           \/ ~IsCall(e) /\ e.dst # error' /\ S[e.dst][w] \in StackSteps(S[e.src][w], at)
    PROVE  Performs(S, e, w)'
  <1>1. Suspends(S, e, w)' <=> Suspends(S, e, w)
    BY InterpreterSame
  <1>2. \A st, x : StackSteps(st, x)' = StackSteps(st, x)
    BY InterpreterSame
  <1>3. StackSteps(S[e.src][w], SourceOf(e.dst))' = StackSteps(S[e.src][w], at)
    BY <1>2
  <1>4. IsCall(e)' <=> IsCall(e)
    BY DEF IsCall
  <1>5. TopFrame(S[e.src][w])' = TopFrame(S[e.src][w])
    BY DEF TopFrame
  <1> QED BY <1>1, <1>3, <1>4, <1>5 DEF Performs

\* A copied transition performs the step of the callee, on top of the stack.
LEMMA CopiedPerform ==
    ASSUME GraphInv, EdgeInv, error \in nodes, NEW S, IsStackMap(S), NEW c \in CallEdges, NEW T,
           T = InlinedStacks(S, c), InlineCallIntoRoot(c), UNCHANGED <<prog, error>>,
           NEW k \in DOMAIN prog[c.callee].edges, NEW e, e = CopiedEdge(c, k), NEW w \in e.guard
    PROVE  Performs(T, e, w)'
  <1> DEFINE p == c.callee
             d == prog[p].edges[k]
             v == c.arg[w]
             st == T[nextLoc + d.src][w]
             old == S[c.dst][w]
             f == Frame(p, d.src, v)
  <1>1. /\ p \in Procs /\ prog \in Programs /\ nextLoc \in Nat /\ error < nextLoc /\ error \in Nat
    BY DEF GraphInv, CallEdges
  <1>2. /\ d.src \in LocsOf(prog[p]) /\ d.dst \in LocsOf(prog[p]) /\ d \in EdgesOf(prog[p])
        /\ d.dst \in Nat
    BY <1>1, CfaFacts DEF EdgesOf, LocsOf
  <1>3. /\ e.src = nextLoc + d.src /\ e.dst = nextLoc + d.dst /\ w \in World /\ v \in d.guard
        /\ e.callee = d.callee /\ e.arg[w] = d.arg[v]
    BY DEF CopiedEdge
  <1> HIDE DEF d, v
  <1>4. /\ f \in Frames /\ TopFrame(st) = f /\ ButLast(st) = old
        /\ T[nextLoc + d.dst][w] = Append(old, Frame(p, d.dst, v))
    BY <1>2, <1>3, CopyStack DEF v
  <1>5. /\ TopFrame(st).proc = p /\ TopFrame(st).loc = d.src /\ TopFrame(st).in = v
    BY <1>4 DEF Frame
  <1>6. T[e.src][w] = st /\ T[e.dst][w] = Append(ButLast(st), Frame(p, d.dst, v))
    BY <1>3, <1>4
  <1>7. e.dst # error
    BY <1>1, <1>2, <1>3
  <1>8. SourceOf(e.dst)' = <<p, d.dst>>
    BY <1>2, <1>3, InlineSources
  <1>9. IsCall(e) <=> IsCall(d)
    BY <1>3 DEF IsCall
  <1> HIDE DEF st, f, old
  <1>10. CASE IsCall(e)
    <2>1. Suspends(T, e, w)
      BY <1>2, <1>3, <1>5, <1>6, <1>9, <1>10 DEF Suspends
    <2> QED BY <1>8, <1>10, <2>1, PerformsNext
  <1>11. CASE ~IsCall(e)
    <2>1. Append(ButLast(st), Frame(p, d.dst, v)) \in StackSteps(st, <<p, d.dst>>)
      BY <1>2, <1>3, <1>5, <1>9, <1>11, StepAssigns
    <2> QED BY <1>6, <1>7, <1>8, <1>11, <2>1, PerformsNext
  <1> QED BY <1>10, <1>11

\* An input that takes a call enters the callee, ...
LEMMA EnterPerforms ==
    ASSUME GraphInv, EdgeInv, error \in nodes, NEW S, IsStackMap(S), NEW c \in CallEdges, NEW T,
           T = InlinedStacks(S, c), InlineCallIntoRoot(c), UNCHANGED <<prog, error>>,
           NEW e, e = EnterEdge(c), NEW w \in e.guard
    PROVE  Performs(T, e, w)'
  <1> DEFINE p == c.callee
             v == c.arg[w]
             old == S[c.src][w]
             top0 == TopFrame(old)
             st == T[nextLoc + Entry][w]
  <1>1. /\ p \in Procs /\ prog \in Programs /\ nextLoc \in Nat /\ error < nextLoc /\ error \in Nat
        /\ c \in edges /\ IsCall(c) /\ c.src \in nodes \ {error} /\ c.dst \in nodes
        /\ c.guard \in SUBSET World /\ c.arg \in [World -> World]
    BY DEF GraphInv, EdgeInv, CallEdges, Edge
  <1>2. Entry \in LocsOf(prog[p]) /\ Entry = 0
    BY <1>1, CfaFacts DEF LocsOf, Entry
  <1>3. /\ ~IsCall(e) /\ e.src = c.src /\ e.dst = nextLoc + Entry /\ e.guard = c.guard
        /\ w \in World /\ w \in c.guard
    BY <1>1 DEF EnterEdge, AssignEdge, IsCall
  <1>4. /\ T[c.src] = S[c.src] /\ st = Append(S[c.dst][w], Frame(p, Entry, v))
        /\ Frame(p, Entry, v) \in Frames
    <2>1. \A l \in nodes : T[l] = S[l]
      BY ONLY InlinedStackFacts, GraphInv, EdgeInv, IsStackMap(S), c \in CallEdges, T = InlinedStacks(S, c)
    <2>2. \A i \in LocsOf(prog[c.callee]) : \A x \in World :
            /\ Frame(c.callee, i, c.arg[x]) \in Frames
            /\ T[nextLoc + i][x] = Append(S[c.dst][x], Frame(c.callee, i, c.arg[x]))
      BY ONLY CopyStack, GraphInv, EdgeInv, IsStackMap(S), c \in CallEdges, T = InlinedStacks(S, c)
    <2>3. T[c.src] = S[c.src]
      BY <1>1, <2>1
    <2>4. st = Append(S[c.dst][w], Frame(p, Entry, v)) /\ Frame(p, Entry, v) \in Frames
      BY ONLY <1>2, <1>3, <2>2
    <2> QED BY <2>3, <2>4
  <1>5. old \in Stacks
    BY <1>1, <1>3 DEF IsStackMap
  <1>6. Suspends(S, c, w)
    BY <1>1, <1>3 DEF IsStackMap, Performs
  <1>7. PICK d \in EdgesOf(prog[top0.proc]) :
           /\ d.src = top0.loc /\ top0.in \in d.guard /\ IsCall(d)
           /\ d.callee = p /\ d.arg[top0.in] = v
           /\ S[c.dst][w] = Append(ButLast(old), Frame(top0.proc, d.dst, top0.in))
    BY <1>6 DEF Suspends
  <1>8. ButLast(old) \in Seq(Frames) /\ top0 \in Frames
    <2>1. old \in Seq(Frames) /\ Len(old) \in Nat /\ Len(old) > 0
      BY <1>5 DEF Stacks
    <2> HIDE DEF old
    <2>2. Len(old) - 1 \in 0 .. Len(old) /\ Len(old) \in DOMAIN old
      BY <2>1
    <2> QED BY <2>1, <2>2, PrefixOfSeq DEF ButLast, TopFrame
  <1>9. Frame(top0.proc, d.dst, top0.in) \in Frames
    <2>1. top0.proc \in Procs /\ top0.in \in World
      BY <1>8 DEF Frames
    <2> HIDE DEF top0
    <2>2. PICK k \in DOMAIN prog[top0.proc].edges : d = prog[top0.proc].edges[k]
      BY ONLY d \in EdgesOf(prog[top0.proc]) DEF EdgesOf
    <2>3. d.dst \in Nat
      BY ONLY <1>1, <2>1, <2>2, TransitionFacts
    <2> QED BY ONLY <2>1, <2>3 DEF Frame, Frames
  <1>10. SourceOf(e.dst)' = <<p, Entry>>
    BY <1>2, <1>3, InlineSources
  <1>11. e.dst # error
    BY <1>1, <1>2, <1>3
  <1> HIDE DEF top0, v, st
  <1>12. T[e.src][w] = old /\ T[e.dst][w] = st
    BY <1>3, <1>4 DEF st
  <1> HIDE DEF old
  <1>13. st \in StackSteps(old, <<p, Entry>>)
    <2>1. st = Append(Append(ButLast(old), Frame(top0.proc, d.dst, top0.in)), Frame(p, Entry, v))
      BY <1>4, <1>7 DEF st, old
    <2>2. Append(Append(ButLast(old), Frame(top0.proc, d.dst, top0.in)), Frame(d.callee, Entry, d.arg[top0.in]))
             \in StackSteps(old, <<d.callee, Entry>>)
      BY <1>4, <1>7, <1>8, <1>9, StepEnters DEF top0
    <2> QED BY <1>7, <2>1, <2>2
  <1> QED BY <1>3, <1>10, <1>11, <1>12, <1>13, PerformsNext

\* ... leaves it at its exit, ...
LEMMA LeavePerforms ==
    ASSUME GraphInv, EdgeInv, error \in nodes, NEW S, IsStackMap(S), NEW c \in CallEdges, NEW T,
           T = InlinedStacks(S, c), InlineCallIntoRoot(c), UNCHANGED <<prog, error>>,
           NEW e, e = LeaveEdge(c), NEW w \in e.guard
    PROVE  Performs(T, e, w)'
  <1> DEFINE p == c.callee
             st == T[nextLoc + Exit][w]
             old == S[c.dst][w]
             at == SourceOf(c.dst)
  <1>1. /\ p \in Procs /\ prog \in Programs /\ c \in edges /\ IsCall(c) /\ c.dst \in nodes \ {error}
    BY DEF GraphInv, EdgeInv, CallEdges
  <1>2. Exit \in LocsOf(prog[p])
    BY <1>1, CfaFacts DEF LocsOf, Exit
  <1>3. ~IsCall(e) /\ e.src = nextLoc + Exit /\ e.dst = c.dst /\ w \in World
    BY DEF LeaveEdge, AssignEdge, IsCall
  <1>4. /\ T[c.dst] = S[c.dst] /\ TopFrame(st) = Frame(p, Exit, c.arg[w])
        /\ ButLast(st) = old /\ Len(st) > 1
    BY <1>1, <1>2, <1>3, CopyStack, InlinedStackFacts
  <1>5. IsAt(old, at)
    BY <1>1, <1>3 DEF IsStackMap
  <1>6. SourceOf(e.dst)' = at /\ e.dst # error
    BY <1>1, <1>3, InlineSources
  <1>7. TopFrame(st).loc = Exit
    BY <1>4 DEF Frame
  <1> HIDE DEF at, st
  <1>8. T[e.src][w] = st /\ T[e.dst][w] = old
    BY <1>3, <1>4 DEF st
  <1> HIDE DEF old
  <1>9. old \in StackSteps(st, at)
    BY <1>4, <1>5, <1>7, StepLeaves
  <1> QED BY <1>3, <1>6, <1>8, <1>9, PerformsNext

\* ... or fails in it.
LEMMA ToErrorPerforms ==
    ASSUME GraphInv, EdgeInv, error \in nodes, NEW S, IsStackMap(S), NEW c \in CallEdges, NEW T,
           T = InlinedStacks(S, c), InlineCallIntoRoot(c), UNCHANGED <<prog, error>>,
           NEW l \in prog[c.callee].err, NEW e, e = ToErrorEdge(c, l), NEW w \in e.guard
    PROVE  Performs(T, e, w)'
  <1> DEFINE p == c.callee
             st == T[nextLoc + l][w]
  <1>1. p \in Procs /\ prog \in Programs
    BY DEF GraphInv, CallEdges
  <1>2. l \in LocsOf(prog[p])
    BY <1>1, CfaFacts
  <1>3. ~IsCall(e) /\ e.src = nextLoc + l /\ e.dst = error /\ w \in World
    BY DEF ToErrorEdge, AssignEdge, IsCall
  <1>4. TopFrame(st) = Frame(p, l, c.arg[w])
    BY <1>2, <1>3, CopyStack
  <1>5. TopFrame(st).loc = l /\ TopFrame(st).proc = p
    BY <1>4 DEF Frame
  <1>6. T[e.src][w] = st
    BY <1>3
  <1>7. PICK at : SourceOf(e.dst)' = at
    OBVIOUS
  <1> QED BY <1>3, <1>5, <1>6, <1>7, PerformsNext

\* No step goes back to the start.
LEMMA LaterSteps ==
    ASSUME [Next]_vars
    PROVE  pc' = "errorField" => pc = "errorField"
  <1> SUFFICES ASSUME pc' = "errorField", pc # "errorField" PROVE FALSE
    OBVIOUS
  <1>1. ~Done /\ ~UNCHANGED vars
    BY DEF Done, vars
  <1>2. ~InitializeErrorField /\ ~RemoveIrrelevantLocations /\ ~CreateTopologicalSorts
    BY DEF InitializeErrorField, RemoveIrrelevantLocations, CreateTopologicalSorts, Finish
  <1>3. ~EagerIteration /\ ~EagerInline
    BY DEF EagerIteration, EagerInline, Finish
  <1>4. ~UnderApproximate /\ ~SkipUnderApproximation
    BY DEF UnderApproximate, SkipUnderApproximation, Finish
  <1>5. ~SetStartAndTarget /\ ~OverApproximate
    BY DEF SetStartAndTarget, OverApproximate, Finish
  <1>6. ~InlineNext /\ ~FinishInlining
    BY DEF InlineNext, FinishInlining
  <1> QED BY <1>1, <1>2, <1>3, <1>4, <1>5, <1>6 DEF Next

\* Inlining keeps the stacks.
LEMMA StackInline ==
    ASSUME GraphInv, EdgeInv, StackInv, error \in nodes, pc # "errorField", NEW c \in CallEdges,
           InlineCallIntoRoot(c), UNCHANGED <<pc, prog, error>>
    PROVE  StackInv'
  <1>1. PICK S : IsStackMap(S)
    BY DEF StackInv
  <1>2. PICK T : T = InlinedStacks(S, c)
    OBVIOUS
  <1>3. /\ c.callee \in Procs /\ prog \in Programs /\ nextLoc \in Nat /\ error < nextLoc
    BY DEF GraphInv, CallEdges
  <1> DEFINE n == prog[c.callee].n
  <1>4. n \in Nat /\ LocsOf(prog[c.callee]) = 0 .. n - 1
    BY <1>3, CfaFacts DEF LocsOf
  <1>5. ASSUME NEW e \in edges', NEW w \in e.guard PROVE Performs(T, e, w)'
    <2>1. edges' = (edges \ {c}) \cup InlinedEdges(c)
      BY InlineEdges
    <2>2. CASE e \in edges
      BY <1>1, <1>2, <2>2, KeptPerform
    <2>3. CASE \E k \in DOMAIN prog[c.callee].edges : e = CopiedEdge(c, k)
      BY <1>1, <1>2, <2>3, CopiedPerform
    <2>4. CASE \E l \in prog[c.callee].err : e = ToErrorEdge(c, l)
      BY <1>1, <1>2, <2>4, ToErrorPerforms
    <2>5. CASE e = EnterEdge(c)
      BY <1>1, <1>2, <2>5, EnterPerforms
    <2>6. CASE e = LeaveEdge(c)
      BY <1>1, <1>2, <2>6, LeavePerforms
    <2> QED BY <2>1, <2>2, <2>3, <2>4, <2>5, <2>6 DEF InlinedEdges
  <1>6. ASSUME NEW w \in World PROVE T[Entry][w] = <<Frame(Main, Entry, w)>>'
    <2>1. T[Entry] = S[Entry]
      BY <1>1, <1>2, InlinedStackFacts
    <2> QED BY <1>1, <2>1 DEF IsStackMap, Frame
  <1>7. ASSUME NEW l \in nodes' \ {error'}, NEW w \in World
        PROVE  T[l][w] \in Stacks /\ IsAt(T[l][w], SourceOf(l)')
    <2>1. nodes' = nodes \cup nextLoc .. nextLoc + n - 1 /\ error' = error
      BY InlineSources
    <2>2. CASE l \in nodes
      <3>1. T[l] = S[l] /\ SourceOf(l)' = SourceOf(l)
        BY <1>1, <1>2, <2>2, InlinedStackFacts, InlineSources
      <3> QED BY <1>1, <2>1, <2>2, <3>1 DEF IsStackMap
    <2>3. CASE l \in nextLoc .. nextLoc + n - 1
      <3>1. PICK i \in 0 .. n - 1 : l = nextLoc + i
        <4> HIDE DEF n
        <4>1. l - nextLoc \in 0 .. n - 1 /\ l = nextLoc + (l - nextLoc)
          BY <1>3, <1>4, <2>3
        <4> QED BY <4>1
      <3>2. i \in LocsOf(prog[c.callee])
        BY <1>4
      <3>3. T[l][w] \in Stacks /\ TopFrame(T[l][w]) = Frame(c.callee, i, c.arg[w])
        BY <1>1, <1>2, <3>1, <3>2, CopyStack
      <3>4. SourceOf(l)' = <<c.callee, i>>
        BY <3>1, <3>2, InlineSources
      <3> QED BY <3>3, <3>4 DEF IsAt, Frame
    <2> QED BY <2>1, <2>2, <2>3
  <1>8. IsStackMap(T)'
    BY <1>5, <1>6, <1>7 DEF IsStackMap, IsAt, TopFrame, Frame
  <1> QED BY <1>8 DEF StackInv

\* Every step keeps the stacks.
LEMMA StackNext ==
    ASSUME Inv, EdgeInv, StackInv, [Next]_vars
    PROVE  StackInv'
  <1>1. CASE InitializeErrorField
    BY <1>1, StackErrorField
  <1>2. CASE RemoveIrrelevantLocations
    <2>1. GraphInv
      BY DEF Inv
    <2>2. nodes' \subseteq nodes
      BY <1>2, <2>1 DEF RemoveIrrelevantLocations, Relevant, GraphInv
    <2>3. edges' \subseteq edges /\ UNCHANGED <<prog, error, origin>> /\ pc' = "sort"
      BY <1>2 DEF RemoveIrrelevantLocations, fixedVars
    <2> QED BY <2>2, <2>3, StackSmaller
  <1>3. CASE /\ pc \in {"eagerInline", "inline"} /\ UNCHANGED <<pc, prog, error, solverVars, lca>>
             /\ \E c \in CallEdges : InlineCallIntoRoot(c)
    <2>1. GraphInv /\ error \in nodes
      BY <1>3 DEF Inv, EarlyInv
    <2> QED BY <1>3, <2>1, StackInline
  <1>4. CASE UNCHANGED <<nodes, edges, nextLoc, origin, prog, error>>
    <2>1. pc' = "errorField" => pc = "errorField"
      BY LaterSteps
    <2> QED BY <1>4, <2>1, StackSmaller
  <1> QED BY <1>1, <1>2, <1>3, <1>4, GraphSteps

-----------------------------------------------------------------------------
(* The models of the solver *)

\* A model, and what one more formula makes of a set of models.
Model == [input : World, disc : SUBSET (Nat \X Nat \X Nat)]
NoChoices == {[input |-> w, disc |-> {}] : w \in World}
Extended(ms, f) ==
    UNION {{[input |-> m.input, disc |-> m.disc \cup a] : a \in f[m.input]} : m \in ms}

\* Models is the last value of a function that satisfies its equation.
AreModels(M, fs) ==
    /\ M[0] = NoChoices
    /\ \A k \in 1 .. Len(fs) : M[k] = Extended(M[k - 1], fs[k])

\* Extending models gives models.
LEMMA ExtendedType ==
    ASSUME NEW ms \in SUBSET Model, NEW f \in Formula
    PROVE  Extended(ms, f) \in SUBSET Model
  <1> DEFINE X == Nat \X Nat \X Nat
             E(m) == {[input |-> m.input, disc |-> m.disc \cup a] : a \in f[m.input]}
  <1>1. ASSUME NEW m \in ms, NEW a \in f[m.input]
        PROVE  [input |-> m.input, disc |-> m.disc \cup a] \in Model
    <2>1. m.input \in World /\ m.disc \in SUBSET X
      BY DEF Model
    <2>2. a \in SUBSET X
      BY <2>1 DEF Formula
    <2> HIDE DEF X
    <2>3. m.disc \cup a \in SUBSET X
      BY <2>1, <2>2
    <2> QED BY <2>1, <2>3 DEF Model, X
  <1>2. ASSUME NEW m \in ms PROVE E(m) \subseteq Model
    BY <1>1
  <1>3. Extended(ms, f) = UNION {E(m) : m \in ms}
    BY DEF Extended
  <1> HIDE DEF E
  <1> QED BY <1>2, <1>3

\* There is such a function for every list of formulas.
LEMMA ModelsIs ==
    ASSUME NEW fs \in Seq(Formula)
    PROVE  \E M : /\ AreModels(M, fs) /\ Models(fs) = M[Len(fs)]
                  /\ Models(fs) \in SUBSET Model
  <1> DEFINE n == Len(fs)
             V == SUBSET Model
             st == [p \in (1 .. n) \X V |-> Extended(p[2], fs[p[1]])]
             Is(M) == M = [k \in 0 .. n |->
                       IF k = 0 THEN {[input |-> w, disc |-> {}] : w \in World}
                       ELSE UNION {{[input |-> m.input, disc |-> m.disc \cup a] : a \in fs[k][m.input]} :
                                   m \in M[k - 1]}]
  <1>0. n \in Nat /\ 0 \in Nat /\ 0 <= n /\ NoChoices \in V /\ \A i \in 1 .. n : fs[i] \in Formula
    BY DEF NoChoices, Model
  <1>1. ASSUME NEW i \in 1 .. n, NEW v \in V
        PROVE  st[<<i, v>>] = Extended(v, fs[i]) /\ st[<<i, v>>] \in V
    <2>1. st[<<i, v>>] = Extended(v, fs[i])
      OBVIOUS
    <2>2. Extended(v, fs[i]) \in V
      BY <1>0, ExtendedType
    <2> QED BY <2>1, <2>2
  <1> HIDE DEF V, st, n
  <1>2. \A i \in 0 + 1 .. n : \A v \in V : st[<<i, v>>] \in V
    <2>1. 0 + 1 .. n = 1 .. n
      BY <1>0
    <2> QED BY <1>1, <2>1
  <1>3. PICK M \in [0 .. n -> V] : GoesUp(M, 0, n, NoChoices, st)
    BY <1>0, <1>2, RecursionUp
  <1>4. ASSUME NEW i \in 1 .. n PROVE M[i] = Extended(M[i - 1], fs[i])
    <2>1. i \in 0 .. n /\ i # 0 /\ i - 1 \in 0 .. n
      BY <1>0
    <2>2. M[i] = st[<<i, M[i - 1]>>] /\ M[i - 1] \in V
      BY <1>3, <2>1 DEF GoesUp
    <2> QED BY <2>2, <1>1
  <1>5. M = [k \in 0 .. n |-> IF k = 0 THEN NoChoices ELSE Extended(M[k - 1], fs[k])]
    <2>1. M[0] = NoChoices
      BY <1>0, <1>3 DEF GoesUp
    <2> QED BY <1>0, <1>3, <1>4, <2>1
  <1>6. Is(M)
    BY <1>5 DEF NoChoices, Extended
  <1> DEFINE Q == CHOOSE N : Is(N)
  <1>7. Is(Q)
    <2> HIDE DEF Is
    <2> QED BY <1>6
  <1>8. Models(fs) = Q[n]
    BY DEF Models, n
  <1> HIDE DEF Q
  <1>9. Q = [k \in 0 .. n |-> IF k = 0 THEN NoChoices ELSE Extended(Q[k - 1], fs[k])]
    BY <1>7 DEF NoChoices, Extended
  <1> HIDE DEF Is
  <1>10. 0 \in 0 .. n /\ \A i \in 1 .. n : i \in 0 .. n /\ i # 0 /\ i - 1 \in 0 .. n
    BY <1>0
  <1>11. AreModels(Q, fs)
    BY <1>9, <1>10 DEF AreModels, n
  <1>12. Q[n] \in V
    <2> DEFINE S == {i \in 0 .. n : Q[i] \in V}
    <2>1. 0 <= n => 0 \in S
      BY <1>0, <1>11 DEF AreModels
    <2>2. ASSUME NEW i \in 0 .. n, i \in S, i < n PROVE i + 1 \in S
      <3>1. i + 1 \in 1 .. n /\ i + 1 - 1 = i /\ i + 1 \in 0 .. n
        BY <1>0, <2>2
      <3>2. Q[i + 1] = Extended(Q[i], fs[i + 1])
        BY <1>11, <3>1 DEF AreModels, n
      <3>3. Q[i + 1] \in V
        BY <1>0, <2>2, <3>1, <3>2, ExtendedType DEF V
      <3> QED BY <3>1, <3>3
    <2> HIDE DEF S
    <2>3. 0 .. n \subseteq S
      BY <1>0, <2>1, <2>2, IntervalInduction
    <2> QED BY <1>0, <2>3 DEF S
  <1> QED BY <1>8, <1>11, <1>12 DEF V, n

\* The models of no formula, and of one more.
LEMMA ModelsEmpty == Models(<<>>) = NoChoices
  <1>1. <<>> \in Seq(Formula) /\ Len(<<>>) = 0
    OBVIOUS
  <1>2. PICK M : AreModels(M, <<>>) /\ Models(<<>>) = M[Len(<<>>)]
    BY <1>1, ModelsIs
  <1> QED BY <1>1, <1>2 DEF AreModels

LEMMA ModelsAppend ==
    ASSUME NEW fs \in Seq(Formula), NEW f \in Formula
    PROVE  Models(Append(fs, f)) = Extended(Models(fs), f)
  <1> DEFINE gs == Append(fs, f)
             n == Len(fs)
  <1>1. /\ gs \in Seq(Formula) /\ Len(gs) = n + 1 /\ n \in Nat
        /\ gs[n + 1] = f /\ \A i \in 1 .. n : gs[i] = fs[i]
    OBVIOUS
  <1>2. PICK M : AreModels(M, fs) /\ Models(fs) = M[n]
    BY ModelsIs
  <1> HIDE DEF gs
  <1>3. PICK N : AreModels(N, gs) /\ Models(gs) = N[n + 1]
    BY <1>1, ModelsIs
  <1> HIDE DEF n
  <1> DEFINE S == {i \in 0 .. n : M[i] = N[i]}
  <1>4. 0 <= n => 0 \in S
    BY <1>1, <1>2, <1>3 DEF AreModels
  <1>5. ASSUME NEW i \in 0 .. n, i \in S, i < n PROVE i + 1 \in S
    <2>1. i + 1 \in 1 .. n /\ i + 1 \in 1 .. n + 1 /\ i + 1 - 1 = i /\ i + 1 \in 0 .. n
      BY <1>1, <1>5
    <2>2. M[i + 1] = Extended(M[i], fs[i + 1])
      BY <1>2, <2>1 DEF AreModels, n
    <2>3. N[i + 1] = Extended(N[i], gs[i + 1])
      BY <1>1, <1>3, <2>1 DEF AreModels
    <2> QED BY <1>1, <1>5, <2>1, <2>2, <2>3
  <1> HIDE DEF S
  <1>6. 0 .. n \subseteq S
    BY <1>1, <1>4, <1>5, IntervalInduction
  <1>7. M[n] = N[n]
    BY <1>1, <1>6 DEF S
  <1>8. N[n + 1] = Extended(N[n], gs[n + 1])
    <2>1. n + 1 \in 1 .. n + 1 /\ n + 1 - 1 = n
      BY <1>1
    <2> QED BY <1>1, <1>3, <2>1 DEF AreModels
  <1> QED BY <1>1, <1>2, <1>3, <1>7, <1>8 DEF gs

\* What a model of one more formula is made of.
LEMMA ModelParts ==
    ASSUME NEW fs \in Seq(Formula), NEW f \in Formula, NEW m \in Models(Append(fs, f))
    PROVE  \E o \in Models(fs) : \E a \in f[o.input] :
              m.input = o.input /\ m.disc = o.disc \cup a /\ o \in Model
  <1>1. Models(fs) \in SUBSET Model
    BY ModelsIs
  <1>2. m \in Extended(Models(fs), f)
    BY ModelsAppend
  <1>3. PICK o \in Models(fs) : \E a \in f[o.input] : m = [input |-> o.input, disc |-> o.disc \cup a]
    BY <1>2 DEF Extended
  <1> QED BY <1>1, <1>3

-----------------------------------------------------------------------------
(* The predecessor cache *)

\* What a scope of the predecessor cache maps locations to.
Cachable == [disc : Nat, srcs : SUBSET Nat]
Scopes == UNION {[D -> Cachable] : D \in SUBSET Nat}

\* What the cache has for a location, and that two caches have the same.
Cached(ps, l) == ps[Highest(Known(ps, l))][l]
CachedAs(ps, l, p) == Known(ps, l) # {} /\ Cached(ps, l) = p
SameAt(ps, qs, l) == /\ Known(ps, l) = {} <=> Known(qs, l) = {}
                     /\ Known(ps, l) # {} => Cached(ps, l) = Cached(qs, l)

\* What a scope is.
LEMMA ScopeFacts ==
    /\ EmptyScope \in Scopes /\ DOMAIN EmptyScope = {}
    /\ \A s \in Scopes : /\ DOMAIN s \in SUBSET Nat /\ s = [l \in DOMAIN s |-> s[l]]
                         /\ \A l \in DOMAIN s : s[l] \in Cachable
    /\ \A D \in SUBSET Nat : \A s \in [D -> Cachable] : s \in Scopes
  <1>1. EmptyScope \in [{} -> Cachable] /\ DOMAIN EmptyScope = {}
    BY DEF EmptyScope
  <1>2. ASSUME NEW D \in SUBSET Nat, NEW s \in [D -> Cachable]
        PROVE  s \in Scopes /\ DOMAIN s = D /\ s = [l \in DOMAIN s |-> s[l]] /\ \A l \in D : s[l] \in Cachable
    BY DEF Scopes
  <1>3. \A s \in Scopes : \E D \in SUBSET Nat : s \in [D -> Cachable]
    BY DEF Scopes
  <1>4. EmptyScope \in Scopes
    <2>1. {} \in SUBSET Nat
      OBVIOUS
    <2> QED BY <1>1, <1>2, <2>1
  <1>5. ASSUME NEW s \in Scopes
        PROVE  /\ DOMAIN s \in SUBSET Nat /\ s = [l \in DOMAIN s |-> s[l]]
               /\ \A l \in DOMAIN s : s[l] \in Cachable
    <2>1. PICK D \in SUBSET Nat : s \in [D -> Cachable]
      BY <1>3
    <2> QED BY <1>2, <2>1
  <1> QED BY <1>1, <1>2, <1>4, <1>5

\* An encoding that is inserted into a scope hides what the scope had.
LEMMA InsertFacts ==
    ASSUME NEW s \in Scopes, NEW t \in Scopes
    PROVE  /\ Insert(s, t) \in Scopes /\ DOMAIN Insert(s, t) = DOMAIN s \cup DOMAIN t
           /\ \A l \in DOMAIN t : Insert(s, t)[l] = t[l]
           /\ \A l \in DOMAIN s \ DOMAIN t : Insert(s, t)[l] = s[l]
  <1>1. Insert(s, t) \in [DOMAIN s \cup DOMAIN t -> Cachable]
    BY ScopeFacts DEF Insert
  <1>2. DOMAIN s \cup DOMAIN t \in SUBSET Nat
    BY ScopeFacts
  <1> QED BY <1>1, <1>2, ScopeFacts DEF Insert

\* The scopes that know a location.
LEMMA KnownFacts ==
    ASSUME NEW ps \in Seq(Scopes), NEW l, Known(ps, l) # {}
    PROVE  /\ Highest(Known(ps, l)) \in DOMAIN ps /\ Cached(ps, l) \in Cachable
           /\ l \in DOMAIN ps[Highest(Known(ps, l))]
           /\ \A k \in DOMAIN ps : l \in DOMAIN ps[k] => k <= Highest(Known(ps, l))
  <1> DEFINE S == Known(ps, l)
  <1>1. S \in SUBSET (0 .. Len(ps)) /\ Len(ps) \in Nat
    BY DEF Known
  <1>2. \A k : k \in S <=> k \in DOMAIN ps /\ l \in DOMAIN ps[k]
    BY DEF Known
  <1>3. S # {}
    OBVIOUS
  <1> HIDE DEF S
  <1>4. Highest(S) \in S /\ \A j \in S : j <= Highest(S)
    BY <1>1, <1>3, HighestIs
  <1>5. Highest(S) \in DOMAIN ps /\ l \in DOMAIN ps[Highest(S)] /\ ps[Highest(S)] \in Scopes
    BY <1>2, <1>4
  <1>6. ps[Highest(S)][l] \in Cachable
    BY <1>5, ScopeFacts
  <1> QED BY <1>2, <1>4, <1>5, <1>6 DEF S, Cached

\* The scope that knows a location last is the highest.
LEMMA LastKnown ==
    ASSUME NEW ps, NEW l, NEW k \in Nat, k \in DOMAIN ps, l \in DOMAIN ps[k],
           \A j \in DOMAIN ps : l \in DOMAIN ps[j] => j <= k /\ j \in Nat
    PROVE  Known(ps, l) # {} /\ Highest(Known(ps, l)) = k
  <1> DEFINE S == Known(ps, l)
  <1>1. k \in S /\ \A j \in S : j <= k /\ j \in Nat
    BY DEF Known
  <1> HIDE DEF S
  <1>2. S \in SUBSET (0 .. k) /\ S # {}
    BY <1>1
  <1>3. Highest(S) \in S /\ \A j \in S : j <= Highest(S)
    BY <1>2, HighestIs
  <1> DEFINE h == Highest(S)
  <1>4. h \in Nat /\ k \in Nat /\ h <= k /\ k <= h
    BY <1>1, <1>3
  <1> HIDE DEF h
  <1>5. h = k
    BY <1>4
  <1> QED BY <1>2, <1>5 DEF S, h

\* Caches that know a location in the same scopes, the same way, have the same for it.
LEMMA SameKnown ==
    ASSUME NEW ps, NEW qs, NEW l, Known(ps, l) = Known(qs, l),
           \A k \in Known(ps, l) : ps[k][l] = qs[k][l],
           Known(ps, l) # {} => Highest(Known(ps, l)) \in Known(ps, l)
    PROVE  SameAt(ps, qs, l)
  BY DEF SameAt, Cached

\* A scope pushed onto the cache.
LEMMA CacheAppend ==
    ASSUME NEW ps \in Seq(Scopes), NEW s \in Scopes, NEW l
    PROVE  /\ l \in DOMAIN s => CachedAs(Append(ps, s), l, s[l])
           /\ l \notin DOMAIN s => SameAt(ps, Append(ps, s), l)
  <1> DEFINE qs == Append(ps, s)
             n == Len(ps)
  <1>1. /\ n \in Nat /\ DOMAIN ps = 1 .. n /\ DOMAIN qs = 1 .. n + 1 /\ qs[n + 1] = s
        /\ \A k \in 1 .. n : qs[k] = ps[k]
    OBVIOUS
  <1> HIDE DEF qs, n
  <1>2. ASSUME l \in DOMAIN s PROVE CachedAs(qs, l, s[l])
    <2>1. Known(qs, l) # {} /\ Highest(Known(qs, l)) = n + 1
      BY <1>1, <1>2, LastKnown
    <2> QED BY <1>1, <2>1 DEF CachedAs, Cached
  <1>3. ASSUME l \notin DOMAIN s PROVE SameAt(ps, qs, l)
    <2>1. Known(ps, l) = Known(qs, l)
      <3>1. \A k : k \in Known(ps, l) <=> k \in Known(qs, l)
        BY <1>1, <1>3 DEF Known
      <3> QED BY <3>1
    <2>2. \A k \in Known(ps, l) : ps[k][l] = qs[k][l]
      BY <1>1 DEF Known
    <2>3. Known(ps, l) # {} => Highest(Known(ps, l)) \in Known(ps, l)
      BY KnownFacts DEF Known
    <2> QED BY <2>1, <2>2, <2>3, SameKnown
  <1> QED BY <1>2, <1>3 DEF qs

\* An encoding inserted into the last scope of the cache.
LEMMA CacheInsert ==
    ASSUME NEW ps \in Seq(Scopes), ps # <<>>, NEW s \in Scopes, NEW l
    PROVE  /\ InsertLast(ps, s) \in Seq(Scopes) /\ Len(InsertLast(ps, s)) = Len(ps)
           /\ l \in DOMAIN s => CachedAs(InsertLast(ps, s), l, s[l])
           /\ l \notin DOMAIN s => SameAt(ps, InsertLast(ps, s), l)
  <1> DEFINE qs == InsertLast(ps, s)
             n == Len(ps)
             new == Insert(ps[n], s)
  <1>1. n \in Nat /\ n > 0 /\ DOMAIN ps = 1 .. n /\ n \in DOMAIN ps /\ ps[n] \in Scopes
    OBVIOUS
  <1>2. new \in Scopes
    BY <1>1, InsertFacts
  <1>3. qs = [ps EXCEPT ![n] = new]
    BY DEF InsertLast
  <1> HIDE DEF new, qs
  <1>4. qs \in Seq(Scopes) /\ Len(qs) = n /\ DOMAIN qs = 1 .. n
    BY <1>1, <1>2, <1>3
  <1>5. qs[n] = new /\ \A k \in 1 .. n : k # n => qs[k] = ps[k]
    BY <1>1, <1>3
  <1> HIDE DEF n
  <1>6. ASSUME l \in DOMAIN s PROVE CachedAs(qs, l, s[l])
    <2>1. l \in DOMAIN new /\ new[l] = s[l]
      BY <1>1, <1>6, InsertFacts DEF new
    <2>2. n \in DOMAIN qs /\ l \in DOMAIN qs[n] /\ qs[n] = new
      BY <1>1, <1>4, <1>5, <2>1
    <2>3. \A j \in DOMAIN qs : l \in DOMAIN qs[j] => j <= n /\ j \in Nat
      BY <1>1, <1>4
    <2>4. Known(qs, l) # {} /\ Highest(Known(qs, l)) = n
      BY <1>1, <2>2, <2>3, LastKnown
    <2>5. Cached(qs, l) = s[l]
      BY <2>1, <2>2, <2>4 DEF Cached
    <2> QED BY <2>4, <2>5 DEF CachedAs
  <1>7. ASSUME l \notin DOMAIN s PROVE SameAt(ps, qs, l)
    <2>0. /\ l \in DOMAIN new <=> l \in DOMAIN ps[n]
          /\ l \in DOMAIN ps[n] => new[l] = ps[n][l]
      <3>1. PICK o \in Scopes : o = ps[n]
        BY <1>1
      <3>2. DOMAIN Insert(o, s) = DOMAIN o \cup DOMAIN s
        BY InsertFacts
      <3>3. l \in DOMAIN o => Insert(o, s)[l] = o[l]
        BY <1>7, InsertFacts
      <3> QED BY <1>7, <3>1, <3>2, <3>3 DEF new
    <2>1. Known(ps, l) = Known(qs, l)
      <3>1. \A k : k \in Known(ps, l) <=> k \in Known(qs, l)
        BY <1>1, <1>4, <1>5, <2>0 DEF Known
      <3> QED BY <3>1
    <2>2. \A k \in Known(ps, l) : ps[k][l] = qs[k][l]
      BY <1>1, <1>5, <2>0 DEF Known
    <2>3. Known(ps, l) # {} => Highest(Known(ps, l)) \in Known(ps, l)
      BY KnownFacts DEF Known
    <2> QED BY <2>1, <2>2, <2>3, SameKnown
  <1> QED BY <1>4, <1>6, <1>7 DEF qs, n

-----------------------------------------------------------------------------
(* What a counterexample is read from *)

\* A scope knows locations of the graph but its entry, and mentions encodings below n.
GoodScope(s, n) ==
    /\ s \in Scopes
    /\ \A l \in DOMAIN s : l \in nodes \ {Entry} /\ s[l].disc < n /\ s[l].srcs \subseteq nodes

GoodScopes(ps, n) == ps \in Seq(Scopes) /\ ps # <<>> /\ \A k \in DOMAIN ps : GoodScope(ps[k], n)

\* The choices of a model mention encodings below n.
Made(m, n) == \A t \in m.disc : t[1] < n

\* Input w takes a transition other than a call from s to l.
Takes(w, s, l) == \E e \in edges : e.src = s /\ e.dst = l /\ ~IsCall(e) /\ w \in e.guard

\* The steps back that a reader of model m must take from the locations in L:
\* the cache and the model leave one predecessor, and the input takes the step.
IsStepBack(m, ps, p) ==
    /\ Known(ps, p[1]) # {} /\ PredecessorsIn(m, ps, p[1]) = {p[2]}
    /\ Takes(m.input, p[2], p[1])
StepsBack(m, ps, L) ==
    {[src |-> p[1], dst |-> p[2]] : p \in {p \in L \X nodes : IsStepBack(m, ps, p)}}

UpTo(a) == {l \in nodes : locNum[l] <= locNum[a]}
After(b) == {l \in nodes : locNum[l] > locNum[b]}
Stretch(a, b) == {l \in nodes : locNum[a] < locNum[l] /\ locNum[l] <= locNum[b]}

\* In every model of fs a reader gets from the error goal to b and from a to the entry.
Readable(fs, ps, a, b, n) ==
    \A m \in Models(fs) : /\ Made(m, n)
                          /\ Leads(a, Entry, StepsBack(m, ps, UpTo(a)))
                          /\ Leads(error, b, StepsBack(m, ps, After(b)))

\* A step back is an element of StepsBack, and the other way round.
LEMMA StepBackIs ==
    ASSUME NEW m, NEW ps, NEW L
    PROVE  /\ \A x \in L : \A y \in nodes : IsStepBack(m, ps, <<x, y>>)
                => [src |-> x, dst |-> y] \in StepsBack(m, ps, L)
           /\ \A e \in StepsBack(m, ps, L) : /\ e.src \in L /\ e.dst \in nodes
                                             /\ IsStepBack(m, ps, <<e.src, e.dst>>)
                                             /\ e = [src |-> e.src, dst |-> e.dst]
  <1>1. ASSUME NEW x \in L, NEW y \in nodes, IsStepBack(m, ps, <<x, y>>)
        PROVE  [src |-> x, dst |-> y] \in StepsBack(m, ps, L)
    <2> DEFINE p == <<x, y>>
    <2>1. p \in {q \in L \X nodes : IsStepBack(m, ps, q)} /\ p[1] = x /\ p[2] = y
      BY <1>1
    <2> HIDE DEF p
    <2> QED BY <2>1 DEF StepsBack
  <1>2. ASSUME NEW e \in StepsBack(m, ps, L)
        PROVE  /\ e.src \in L /\ e.dst \in nodes /\ IsStepBack(m, ps, <<e.src, e.dst>>)
               /\ e = [src |-> e.src, dst |-> e.dst]
    <2>1. PICK p \in L \X nodes : IsStepBack(m, ps, p) /\ e = [src |-> p[1], dst |-> p[2]]
      BY DEF StepsBack
    <2>2. p = <<p[1], p[2]>> /\ e.src = p[1] /\ e.dst = p[2] /\ p[1] \in L /\ p[2] \in nodes
      BY <2>1
    <2> QED BY <2>1, <2>2
  <1> QED BY <1>1, <1>2

\* Two models that agree on the encodings a cache mentions allow the same steps.
LEMMA StepsBackSame ==
    ASSUME NEW ps, NEW qs, NEW L, NEW n, NEW o, NEW m, m.input = o.input, GoodScopes(ps, n),
           \A l \in L : SameAt(ps, qs, l),
           \A k, x, y : k < n => (<<k, x, y>> \in m.disc <=> <<k, x, y>> \in o.disc)
    PROVE  StepsBack(o, ps, L) \subseteq StepsBack(m, qs, L)
  <1> SUFFICES ASSUME NEW e \in StepsBack(o, ps, L) PROVE e \in StepsBack(m, qs, L)
    OBVIOUS
  <1>1. PICK x \in L, y \in nodes : e = [src |-> x, dst |-> y] /\ IsStepBack(o, ps, <<x, y>>)
    BY StepBackIs
  <1>2. /\ Known(ps, x) # {} /\ PredecessorsIn(o, ps, x) = {y} /\ Takes(o.input, y, x)
    <2>1. <<x, y>>[1] = x /\ <<x, y>>[2] = y
      OBVIOUS
    <2> QED BY <1>1, <2>1 DEF IsStepBack
  <1>3. Known(qs, x) # {} /\ Cached(ps, x) = Cached(qs, x)
    BY <1>2 DEF SameAt
  <1> DEFINE p == Cached(ps, x)
  <1>4. p.disc < n
    <2>1. ps \in Seq(Scopes)
      BY DEF GoodScopes
    <2>2. /\ Highest(Known(ps, x)) \in DOMAIN ps /\ x \in DOMAIN ps[Highest(Known(ps, x))]
      BY <1>2, <2>1, KnownFacts
    <2> QED BY <2>2 DEF GoodScopes, GoodScope, Cached
  <1>5. PredecessorsIn(o, ps, x) = {s \in p.srcs : p.disc = 0 \/ <<p.disc, x, s>> \in o.disc}
    BY DEF PredecessorsIn, Cached
  <1>6. PredecessorsIn(m, qs, x) = {s \in p.srcs : p.disc = 0 \/ <<p.disc, x, s>> \in m.disc}
    BY <1>3 DEF PredecessorsIn, Cached
  <1> HIDE DEF p
  <1>7. PredecessorsIn(m, qs, x) = {y}
    BY <1>2, <1>4, <1>5, <1>6
  <1>8. IsStepBack(m, qs, <<x, y>>)
    <2>1. <<x, y>>[1] = x /\ <<x, y>>[2] = y
      OBVIOUS
    <2> QED BY <1>2, <1>3, <1>7, <2>1 DEF IsStepBack
  <1> QED BY <1>1, <1>8, StepBackIs

\* Fewer locations, fewer steps.
LEMMA StepsBackMore ==
    ASSUME NEW m, NEW ps, NEW L, NEW K, L \subseteq K
    PROVE  StepsBack(m, ps, L) \subseteq StepsBack(m, ps, K)
  <1> SUFFICES ASSUME NEW e \in StepsBack(m, ps, L) PROVE e \in StepsBack(m, ps, K)
    OBVIOUS
  <1>1. /\ e.src \in K /\ e.dst \in nodes /\ IsStepBack(m, ps, <<e.src, e.dst>>)
        /\ e = [src |-> e.src, dst |-> e.dst]
    BY StepBackIs
  <1>2. \A x \in K : \A y \in nodes : IsStepBack(m, ps, <<x, y>>) => [src |-> x, dst |-> y] \in StepsBack(m, ps, K)
    BY StepBackIs
  <1> QED BY <1>1, <1>2

-----------------------------------------------------------------------------
(* Path conditions are exact: every assignment is that of a path *)

\* The steps back that an assignment of the predecessor variables chooses, from l to `from'.
Chooses(a, e, s, enc) ==
    Cardinality(Within(e.dst, s)) = 1 \/ \A z : <<enc, e.dst, z>> \in a <=> z = e.src
Chosen(a, from, l, w, cs, enc) ==
    {[src |-> e.dst, dst |-> e.src] :
       e \in {e \in edges : /\ e.dst \in Stretch(from, l) /\ locNum[from] <= locNum[e.src]
                            /\ HoldsFor(e, w, cs) /\ Chooses(a, e, locNum[from], enc)}}

\* They lead there, and it assigns to locations up to l.
TraceOf(a, from, l, w, cs, enc) ==
    /\ \A t \in a : t[1] = enc /\ t[2] \in nodes /\ locNum[t[2]] <= locNum[l]
    /\ Leads(l, from, Chosen(a, from, l, w, cs, enc))

\* What one more transition does to such an assignment.
LEMMA TraceStep ==
    ASSUME GraphInv, OrderInv, NEW from \in nodes, NEW l \in nodes, locNum[from] < locNum[l],
           NEW cs, NEW enc \in Nat, NEW w, NEW e \in Within(l, locNum[from]), HoldsFor(e, w, cs),
           NEW b, TraceOf(b, from, e.src, w, cs, enc)
    PROVE  TraceOf(b \cup Choice(l, e, locNum[from], enc), from, l, w, cs, enc)
  <1> DEFINE s == locNum[from]
             a == b \cup Choice(l, e, s, enc)
             old == Chosen(b, from, e.src, w, cs, enc)
             new == Chosen(a, from, l, w, cs, enc)
             k == e.src
  <1>1. /\ e \in edges /\ e.dst = l /\ locNum[k] >= s /\ locNum[k] < locNum[l] /\ k \in nodes
        /\ locNum[k] \in Nat /\ locNum[l] \in Nat /\ s \in Nat
    BY NumberFacts DEF Within, Incoming
  <1>2. /\ \A t \in b : t[1] = enc /\ t[2] \in nodes /\ locNum[t[2]] <= locNum[k]
        /\ Leads(k, from, old)
    BY DEF TraceOf
  <1>3. Choice(l, e, s, enc) \subseteq {<<enc, l, k>>}
    BY DEF Choice
  <1>4. \A z : <<enc, l, z>> \notin b
    <2> SUFFICES ASSUME NEW z, <<enc, l, z>> \in b PROVE FALSE
      OBVIOUS
    <2> DEFINE t == <<enc, l, z>>
    <2>1. t[2] = l /\ t \in b
      OBVIOUS
    <2> HIDE DEF t
    <2> QED BY <1>1, <1>2, <2>1
  <1> HIDE DEF s, k
  <1>5. \A t \in a : t[1] = enc /\ t[2] \in nodes /\ locNum[t[2]] <= locNum[l]
    <2> SUFFICES ASSUME NEW t \in a PROVE t[1] = enc /\ t[2] \in nodes /\ locNum[t[2]] <= locNum[l]
      OBVIOUS
    <2>1. CASE t \in b
      <3>1. t[1] = enc /\ t[2] \in nodes /\ locNum[t[2]] <= locNum[k]
        BY <1>2, <2>1
      <3>2. locNum[t[2]] \in Nat
        BY <3>1, NumberFacts
      <3> QED BY <1>1, <3>1, <3>2
    <2>2. CASE t = <<enc, l, k>>
      BY <1>1, <2>2
    <2> QED BY <1>3, <2>1, <2>2
  <1>6. old \subseteq new
    <2> SUFFICES ASSUME NEW f \in edges, f.dst \in Stretch(from, e.src), locNum[from] <= locNum[f.src],
                        HoldsFor(f, w, cs), Chooses(b, f, locNum[from], enc)
                 PROVE  f.dst \in Stretch(from, l) /\ Chooses(a, f, locNum[from], enc)
      BY DEF Chosen
    <2>1. f.dst \in Stretch(from, l) /\ f.dst # l
      <3>1. f.dst \in nodes /\ locNum[f.dst] \in Nat
        BY NumberFacts
      <3> QED BY <1>1, <3>1 DEF Stretch, k
    <2>2. \A z : <<enc, f.dst, z>> \in a <=> <<enc, f.dst, z>> \in b
      BY <1>3, <2>1
    <2> HIDE DEF a
    <2> QED BY <2>1, <2>2 DEF Chooses
  <1>7. [src |-> l, dst |-> k] \in new
    <2>1. l \in Stretch(from, l)
      BY <1>1 DEF Stretch, s
    <2>2. Chooses(a, e, s, enc)
      <3>1. CASE Cardinality(Within(l, s)) = 1
        BY <1>1, <3>1 DEF Chooses
      <3>2. CASE Cardinality(Within(l, s)) # 1
        <4>1. a = b \cup {<<enc, l, k>>}
          BY <3>2 DEF Choice, k
        <4> HIDE DEF a
        <4>2. \A z : <<enc, l, z>> \in a <=> z = k
          BY <1>4, <4>1
        <4> QED BY <1>1, <4>2 DEF Chooses, k
      <3> QED BY <3>1, <3>2
    <2> HIDE DEF a
    <2> QED BY <1>1, <2>1, <2>2 DEF Chosen, s, k
  <1> HIDE DEF old, new, a
  <1>8. Leads(l, k, new)
    <2> DEFINE f == [src |-> l, dst |-> k]
    <2>1. f \in new /\ f.src = l /\ f.dst = k
      BY <1>7
    <2> HIDE DEF f
    <2> QED BY <2>1, LeadsStep
  <1>9. Leads(k, from, new)
    BY <1>2, <1>6, LeadsMore
  <1>10. Leads(l, from, new)
    BY <1>8, <1>9, LeadsOver
  <1> QED BY <1>5, <1>10 DEF TraceOf, a, new, s

\* Every assignment of an encoding is that of a path.
LEMMA ChosenLeads ==
    ASSUME GraphInv, OrderInv, NEW from \in nodes, NEW to \in nodes, locNum[from] <= locNum[to],
           NEW cs, NEW enc \in Nat, NEW A, IsEncoding(A, from, to, cs, enc), NEW w \in World
    PROVE  \A a \in A[to][w] : TraceOf(a, from, to, w, cs, enc)
  <1> DEFINE s == locNum[from]
             Good(l) == \A a \in A[l][w] : TraceOf(a, from, l, w, cs, enc)
             Bad == {i \in Nat : \E l \in nodes : i = locNum[l] /\ s <= i /\ i <= locNum[to] /\ ~Good(l)}
  <1>0. s \in Nat /\ \A l \in nodes : locNum[l] \in Nat /\ (locNum[l] = s => l = from)
    BY NumberFacts
  <1> SUFFICES ASSUME ~Good(to) PROVE FALSE
    OBVIOUS
  <1>1. locNum[to] \in Bad
    BY <1>0
  <1>2. PICK i \in Bad : \A j \in Bad : i <= j
    <2>1. Bad # {} /\ Bad \in SUBSET Nat
      BY <1>1
    <2> HIDE DEF Bad
    <2> QED BY <2>1, LeastNatural
  <1>3. PICK l \in nodes : i = locNum[l] /\ s <= i /\ i <= locNum[to] /\ ~Good(l)
    OBVIOUS
  <1>4. ASSUME NEW e \in Within(l, s) PROVE Good(e.src)
    <2>1. e.src \in nodes /\ locNum[e.src] < locNum[l] /\ s <= locNum[e.src] /\ locNum[e.src] \in Nat
      BY <1>0, NumberFacts DEF Within, Incoming
    <2>2. locNum[e.src] \notin Bad
      <3> HIDE DEF Bad
      <3> QED BY <1>0, <1>2, <1>3, <2>1
    <2>3. locNum[to] \in Nat /\ locNum[e.src] <= locNum[to]
      BY <1>0, <1>3, <2>1
    <2> HIDE DEF Good
    <2> QED BY <2>1, <2>2, <2>3
  <1>5. CASE l = from
    <2>1. A[l][w] = {{}}
      BY <1>5 DEF IsEncoding
    <2>2. Leads(l, from, Chosen({}, from, l, w, cs, enc))
      BY <1>5, LeadsSelf
    <2> QED BY <1>3, <2>1, <2>2 DEF TraceOf
  <1>6. CASE l # from
    <2>0. s < locNum[l] /\ locNum[l] <= locNum[to]
      BY <1>0, <1>3, <1>6
    <2>1. A[l] = [v \in World |->
                   UNION {{a \cup Choice(l, e, s, enc) : a \in A[e.src][v]} :
                          e \in {f \in Within(l, s) : HoldsFor(f, v, cs)}}]
      BY <2>0 DEF IsEncoding
    <2>2. A[l][w] = UNION {{a \cup Choice(l, e, s, enc) : a \in A[e.src][w]} :
                          e \in {f \in Within(l, s) : HoldsFor(f, w, cs)}}
      BY <2>1
    <2>3. PICK a \in A[l][w] : ~TraceOf(a, from, l, w, cs, enc)
      BY <1>3
    <2>4. PICK e \in Within(l, s) : HoldsFor(e, w, cs) /\ \E b \in A[e.src][w] : a = b \cup Choice(l, e, s, enc)
      BY <2>2
    <2>5. PICK b \in A[e.src][w] : a = b \cup Choice(l, e, s, enc)
      BY <2>4
    <2>6. TraceOf(b, from, e.src, w, cs, enc)
      BY <1>4
    <2>7. TraceOf(b \cup Choice(l, e, locNum[from], enc), from, l, w, cs, enc)
      BY <2>0, <2>4, <2>6, TraceStep
    <2> QED BY <2>3, <2>5, <2>7
  <1> QED BY <1>5, <1>6

-----------------------------------------------------------------------------
(* What encode stores for the locations *)

\* There are finitely many transitions, so one that is alone is the only one.
LEMMA EdgesFinite ==
    ASSUME GraphInv
    PROVE  /\ IsFiniteSet(edges)
           /\ \A S \in SUBSET edges : Cardinality(S) = 1 => \E e : S = {e}
  <1> DEFINE T == 0 .. nextEdge
             f == [e \in edges |-> e.id]
  <1>1. nextEdge \in Nat /\ \A e \in edges : e.id \in T
    BY DEF GraphInv
  <1>2. IsFiniteSet(T)
    BY <1>1, FS_Interval
  <1>3. f \in Injection(edges, T)
    BY <1>1 DEF GraphInv, Injection, IsInjective
  <1> HIDE DEF f, T
  <1>4. IsFiniteSet(edges)
    BY <1>2, <1>3, FS_Injection
  <1>5. ASSUME NEW S \in SUBSET edges, Cardinality(S) = 1 PROVE \E e : S = {e}
    <2>1. IsFiniteSet(S)
      BY <1>4, FS_Subset
    <2> QED BY <1>5, <2>1, FS_Singleton
  <1> QED BY <1>4, <1>5

\* The entry that encode makes for a location.
EntryOf(l, s, enc) == [disc |-> IF Cardinality(Within(l, s)) = 1 THEN 0 ELSE enc,
                       srcs |-> {e.src : e \in Within(l, s)}]

\* It makes one for the locations of the stretch with a predecessor in it.
LEMMA EncodePreds ==
    ASSUME GraphInv, OrderInv, EdgeInv, NEW from \in nodes, NEW to \in nodes, NEW cs, NEW enc \in Nat
    PROVE  LET p == Encode(from, to, cs, enc).preds
           IN  /\ GoodScope(p, enc + 1) /\ DOMAIN p \subseteq Stretch(from, to)
               /\ \A l \in Stretch(from, to) : Within(l, locNum[from]) # {} => l \in DOMAIN p
               /\ \A l \in DOMAIN p : p[l] = EntryOf(l, locNum[from], enc)
  <1> DEFINE s == locNum[from]
             D == {l \in Stretch(from, to) : Within(l, s) # {}}
             q == [l \in D |-> EntryOf(l, s, enc)]
             p == Encode(from, to, cs, enc).preds
             E == {l \in nodes : locNum[from] < locNum[l] /\ locNum[l] <= locNum[to] /\ Within(l, s) # {}}
  <1>1. p = [l \in E |-> EntryOf(l, s, enc)]
    BY DEF Encode, Within, EntryOf
  <1>2. E = D
    BY DEF Stretch
  <1> HIDE DEF D, E, p
  <1>3. DOMAIN p = D /\ \A l \in D : p[l] = EntryOf(l, s, enc)
    BY <1>1, <1>2
  <1>4. ASSUME NEW l \in D
        PROVE  /\ l \in nodes \ {Entry} /\ l \in Nat
               /\ EntryOf(l, s, enc).disc \in Nat /\ EntryOf(l, s, enc).disc < enc + 1
               /\ EntryOf(l, s, enc).srcs \subseteq nodes /\ EntryOf(l, s, enc) \in Cachable
    <2>1. l \in nodes /\ l \in Nat
      BY NumberFacts DEF D, Stretch
    <2>2. l # Entry
      BY DEF D, Within, Incoming, EdgeInv
    <2>3. {e.src : e \in Within(l, s)} \subseteq nodes
      BY NumberFacts DEF Within, Incoming
    <2>4. nodes \subseteq Nat
      BY NumberFacts
    <2> DEFINE S == {e.src : e \in Within(l, s)}
               d == IF Cardinality(Within(l, s)) = 1 THEN 0 ELSE enc
    <2>5. EntryOf(l, s, enc) = [disc |-> d, srcs |-> S] /\ d \in Nat /\ d < enc + 1
      BY DEF EntryOf
    <2> HIDE DEF S, d
    <2>6. S \subseteq nodes
      BY <2>3 DEF S
    <2> QED BY <2>1, <2>2, <2>4, <2>5, <2>6 DEF Cachable
  <1>5. p \in [D -> Cachable]
    BY <1>1, <1>2, <1>4
  <1>6. D \in SUBSET Nat
    BY <1>4
  <1>7. p \in Scopes
    BY <1>5, <1>6, ScopeFacts
  <1>8. GoodScope(p, enc + 1)
    BY <1>3, <1>4, <1>7 DEF GoodScope
  <1>9. D \subseteq Stretch(from, to) /\ \A l \in Stretch(from, to) : Within(l, s) # {} => l \in D
    BY DEF D
  <1> QED BY <1>3, <1>8, <1>9 DEF p

\* A model that has the choices of an assignment leads a reader back along its
\* path, where the input takes no call.
LEMMA EncodeTraces ==
    ASSUME GraphInv, OrderInv, EdgeInv, NEW from \in nodes, NEW to \in nodes, locNum[from] <= locNum[to],
           NEW cs, NEW enc \in Nat, enc > 0, NEW m, m.input \in World,
           NEW a \in Encode(from, to, cs, enc).formula[m.input],
           \A x, y : <<enc, x, y>> \in m.disc <=> <<enc, x, y>> \in a,
           NEW ps, \A l \in DOMAIN Encode(from, to, cs, enc).preds :
                      CachedAs(ps, l, Encode(from, to, cs, enc).preds[l]),
           \A e \in CallEdges : e.dst \in Stretch(from, to) /\ locNum[from] <= locNum[e.src]
                                   => ~HoldsFor(e, m.input, cs)
    PROVE  /\ \A t \in a : t[1] = enc
           /\ Leads(to, from, StepsBack(m, ps, Stretch(from, to)))
  <1> DEFINE s == locNum[from]
             w == m.input
             p == Encode(from, to, cs, enc).preds
             F == Encode(from, to, cs, enc).formula
             C == Chosen(a, from, to, w, cs, enc)
             B == StepsBack(m, ps, Stretch(from, to))
  <1>1. PICK A : IsEncoding(A, from, to, cs, enc) /\ F = A[to]
    BY EncodeIs
  <1>2. TraceOf(a, from, to, w, cs, enc)
    <2>1. a \in A[to][w]
      BY <1>1
    <2> QED BY <1>1, <2>1, ChosenLeads
  <1> HIDE DEF F, s
  <1>3. ASSUME NEW c \in C PROVE c \in B
    <2>1. PICK e \in edges : /\ e.dst \in Stretch(from, to) /\ s <= locNum[e.src]
                             /\ HoldsFor(e, w, cs) /\ Chooses(a, e, s, enc)
                             /\ c = [src |-> e.dst, dst |-> e.src]
      BY DEF Chosen, s
    <2> DEFINE l == e.dst
    <2>2. ~IsCall(e) /\ w \in e.guard /\ Takes(w, e.src, l)
      BY <2>1 DEF CallEdges, HoldsFor, Takes, s
    <2>3. e \in Within(l, s) /\ l \in Stretch(from, to) /\ l \in nodes /\ e.src \in nodes
      <3>1. locNum[e.src] \in Nat /\ s \in Nat /\ l \in nodes /\ e.src \in nodes
        BY NumberFacts DEF s
      <3> QED BY <2>1, <3>1 DEF Within, Incoming
    <2>4. l \in DOMAIN p /\ p[l] = EntryOf(l, s, enc)
      <3>1. /\ \A x \in Stretch(from, to) : Within(x, locNum[from]) # {} => x \in DOMAIN p
            /\ \A x \in DOMAIN p : p[x] = EntryOf(x, locNum[from], enc)
        BY EncodePreds
      <3> HIDE DEF p
      <3>2. Within(l, s) # {}
        BY <2>3
      <3> QED BY <2>3, <3>1, <3>2 DEF s
    <2>5. Known(ps, l) # {} /\ Cached(ps, l) = EntryOf(l, s, enc)
      BY <2>4 DEF CachedAs
    <2>6. PredecessorsIn(m, ps, l)
            = {k \in EntryOf(l, s, enc).srcs : EntryOf(l, s, enc).disc = 0 \/ <<EntryOf(l, s, enc).disc, l, k>> \in m.disc}
      BY <2>5 DEF PredecessorsIn, Cached
    <2> HIDE DEF p, l
    <2>7. PredecessorsIn(m, ps, l) = {e.src}
      <3>1. CASE Cardinality(Within(l, s)) = 1
        <4>1. Within(l, s) \in SUBSET edges
          BY DEF Within, Incoming
        <4>2. Within(l, s) = {e}
          BY <2>3, <3>1, <4>1, EdgesFinite
        <4>3. EntryOf(l, s, enc).disc = 0 /\ EntryOf(l, s, enc).srcs = {e.src}
          BY <3>1, <4>2 DEF EntryOf
        <4> QED BY <2>6, <4>3
      <3>2. CASE Cardinality(Within(l, s)) # 1
        <4>1. /\ EntryOf(l, s, enc).disc = enc /\ e.src \in EntryOf(l, s, enc).srcs
          BY <2>3, <3>2 DEF EntryOf
        <4>2. \A z : <<enc, l, z>> \in a <=> z = e.src
          BY <2>1, <3>2 DEF Chooses, l
        <4> QED BY <2>6, <4>1, <4>2
      <3> QED BY <3>1, <3>2
    <2>8. IsStepBack(m, ps, <<l, e.src>>)
      <3>1. <<l, e.src>>[1] = l /\ <<l, e.src>>[2] = e.src
        OBVIOUS
      <3> QED BY <2>2, <2>5, <2>7, <3>1 DEF IsStepBack
    <2>9. [src |-> l, dst |-> e.src] \in B
      BY <2>3, <2>8, StepBackIs
    <2> QED BY <2>1, <2>9 DEF l
  <1>4. Leads(to, from, C)
    BY <1>2 DEF TraceOf
  <1>5. C \subseteq B
    BY <1>3
  <1> HIDE DEF B, C
  <1>6. Leads(to, from, B)
    BY <1>4, <1>5, LeadsMore
  <1> QED BY <1>2, <1>6 DEF TraceOf, B

\* An encoding's assignments are its own.
LEMMA EncodeChoices ==
    ASSUME GraphInv, OrderInv, NEW from \in nodes, NEW to \in nodes, locNum[from] <= locNum[to],
           NEW cs, NEW enc \in Nat
    PROVE  \A w \in World : \A a \in Encode(from, to, cs, enc).formula[w] : \A t \in a : t[1] = enc
  <1> SUFFICES ASSUME NEW w \in World, NEW a \in Encode(from, to, cs, enc).formula[w], NEW t \in a
               PROVE  t[1] = enc
    OBVIOUS
  <1>1. PICK A : IsEncoding(A, from, to, cs, enc) /\ Encode(from, to, cs, enc).formula = A[to]
    BY EncodeIs
  <1>2. TraceOf(a, from, to, w, cs, enc)
    <2>1. a \in A[to][w]
      BY <1>1
    <2> QED BY <1>1, <2>1, ChosenLeads
  <1> QED BY <1>2 DEF TraceOf

-----------------------------------------------------------------------------
(* What the reader of a counterexample can rely on *)

\* A model of one more formula, whose choices are of a new encoding n.
LEMMA ModelGrows ==
    ASSUME NEW fs \in Seq(Formula), NEW f \in Formula, NEW n \in Nat, NEW m \in Models(Append(fs, f)),
           \A o \in Models(fs) : Made(o, n), \A w \in World : \A x \in f[w] : \A t \in x : t[1] = n
    PROVE  \E o \in Models(fs) : \E x \in f[m.input] :
              /\ m.input = o.input /\ m.input \in World /\ Made(m, n + 1)
              /\ \A k, y, z : k < n => (<<k, y, z>> \in m.disc <=> <<k, y, z>> \in o.disc)
              /\ \A y, z : <<n, y, z>> \in m.disc <=> <<n, y, z>> \in x
  <1>1. PICK o \in Models(fs) : \E x \in f[o.input] : m.input = o.input /\ m.disc = o.disc \cup x /\ o \in Model
    BY ModelParts
  <1>2. PICK x \in f[o.input] : m.input = o.input /\ m.disc = o.disc \cup x /\ o \in Model
    BY <1>1
  <1>3. o.input \in World /\ o.disc \in SUBSET (Nat \X Nat \X Nat)
    BY <1>2 DEF Model
  <1>4. \A t \in x : t[1] = n
    BY <1>3
  <1>5. \A t \in o.disc : t[1] < n /\ t[1] \in Nat
    BY <1>3 DEF Made
  <1>6. Made(m, n + 1)
    <2>1. \A t \in m.disc : t[1] < n + 1
      BY <1>2, <1>4, <1>5
    <2> QED BY <2>1 DEF Made
  <1>7. ASSUME NEW k, NEW y, NEW z, k < n PROVE <<k, y, z>> \notin x
    <2> DEFINE t == <<k, y, z>>
    <2>1. t[1] = k
      OBVIOUS
    <2> HIDE DEF t
    <2>2. t \notin x
      BY <1>4, <1>7, <2>1
    <2> QED BY <2>2 DEF t
  <1>8. ASSUME NEW y, NEW z PROVE <<n, y, z>> \notin o.disc
    <2> DEFINE t == <<n, y, z>>
    <2>1. t[1] = n
      OBVIOUS
    <2> HIDE DEF t
    <2>2. t \notin o.disc
      BY <1>5, <2>1
    <2> QED BY <2>2 DEF t
  <1>9. /\ \A k, y, z : k < n => (<<k, y, z>> \in m.disc <=> <<k, y, z>> \in o.disc)
        /\ \A y, z : <<n, y, z>> \in m.disc <=> <<n, y, z>> \in x
    BY <1>2, <1>7, <1>8
  <1> QED BY <1>2, <1>3, <1>6, <1>9

\* A cache that has the same for the locations outside of the region, and more
\* encodings.
LEMMA ReadableSame ==
    ASSUME NEW fs, NEW ps, NEW qs, NEW a, NEW b, NEW n \in Nat, NEW k \in Nat, n <= k,
           fs \in Seq(Formula), Readable(fs, ps, a, b, n), GoodScopes(ps, n),
           \A l \in UpTo(a) \cup After(b) : SameAt(ps, qs, l)
    PROVE  Readable(fs, qs, a, b, k)
  <1> SUFFICES ASSUME NEW m \in Models(fs)
               PROVE  /\ Made(m, k)
                      /\ Leads(a, Entry, StepsBack(m, qs, UpTo(a)))
                      /\ Leads(error, b, StepsBack(m, qs, After(b)))
    BY DEF Readable
  <1>1. /\ Made(m, n) /\ Leads(a, Entry, StepsBack(m, ps, UpTo(a)))
        /\ Leads(error, b, StepsBack(m, ps, After(b)))
    BY DEF Readable
  <1>2. StepsBack(m, ps, UpTo(a)) \subseteq StepsBack(m, qs, UpTo(a))
    BY StepsBackSame
  <1>3. StepsBack(m, ps, After(b)) \subseteq StepsBack(m, qs, After(b))
    BY StepsBackSame
  <1>4. Made(m, k)
    <2>1. m.disc \in SUBSET (Nat \X Nat \X Nat)
      BY ModelsIs DEF Model
    <2>2. \A t \in m.disc : t[1] \in Nat /\ t[1] < n
      BY <1>1, <2>1 DEF Made
    <2> QED BY <2>2 DEF Made
  <1> QED BY <1>1, <1>2, <1>3, <1>4, LeadsMore

\* No call is taken between two locations.
NoCalls(from, to, cs) ==
    \A w \in World : \A e \in CallEdges :
       e.dst \in Stretch(from, to) /\ locNum[from] <= locNum[e.src] => ~HoldsFor(e, w, cs)

\* qs has what ps has, and for the stretch what an encoding of it stores.
Stores(qs, ps, p) == /\ \A l \in DOMAIN p : CachedAs(qs, l, p[l])
                     /\ \A l \in nodes \ DOMAIN p : SameAt(ps, qs, l)

\* An encoding of a stretch behind a takes the readable part up to its end.
LEMMA ReadBefore ==
    ASSUME GraphInv, OrderInv, EdgeInv, NEW from \in nodes, NEW to \in nodes, NEW b \in nodes,
           locNum[from] <= locNum[to], locNum[to] <= locNum[b],
           NEW fs \in Seq(Formula), NEW ps, NEW n \in Nat, n > 0, GoodScopes(ps, n),
           Readable(fs, ps, from, b, n), NEW cs, NoCalls(from, to, cs),
           NEW qs, Stores(qs, ps, Encode(from, to, cs, n).preds)
    PROVE  Readable(Append(fs, Encode(from, to, cs, n).formula), qs, to, b, n + 1)
  <1> DEFINE f == Encode(from, to, cs, n).formula
             p == Encode(from, to, cs, n).preds
  <1>1. f \in Formula /\ \A w \in World : \A x \in f[w] : \A t \in x : t[1] = n
    BY EncodeIs, EncodeChoices
  <1>2. DOMAIN p \subseteq Stretch(from, to)
    BY EncodePreds
  <1>3. locNum[from] \in Nat /\ locNum[to] \in Nat /\ locNum[b] \in Nat /\ \A l \in nodes : locNum[l] \in Nat
    BY NumberFacts
  <1>4. /\ \A l \in UpTo(from) : SameAt(ps, qs, l) /\ l \in UpTo(to)
        /\ \A l \in After(b) : SameAt(ps, qs, l)
        /\ Stretch(from, to) \subseteq UpTo(to)
    <2> HIDE DEF p
    <2> QED BY <1>2, <1>3 DEF UpTo, After, Stretch, Stores, p
  <1> SUFFICES ASSUME NEW m \in Models(Append(fs, f))
               PROVE  /\ Made(m, n + 1)
                      /\ Leads(to, Entry, StepsBack(m, qs, UpTo(to)))
                      /\ Leads(error, b, StepsBack(m, qs, After(b)))
    BY DEF Readable
  <1> HIDE DEF f
  <1>5. PICK o \in Models(fs), x \in f[m.input] :
              /\ m.input = o.input /\ m.input \in World /\ Made(m, n + 1)
              /\ \A k, y, z : k < n => (<<k, y, z>> \in m.disc <=> <<k, y, z>> \in o.disc)
              /\ \A y, z : <<n, y, z>> \in m.disc <=> <<n, y, z>> \in x
    <2>1. \A v \in Models(fs) : Made(v, n)
      BY DEF Readable
    <2> QED BY <1>1, <2>1, ModelGrows
  <1>6. Leads(from, Entry, StepsBack(o, ps, UpTo(from))) /\ Leads(error, b, StepsBack(o, ps, After(b)))
    BY DEF Readable
  <1>7. /\ StepsBack(o, ps, UpTo(from)) \subseteq StepsBack(m, qs, UpTo(from))
        /\ StepsBack(o, ps, After(b)) \subseteq StepsBack(m, qs, After(b))
    <2>1. \A l \in UpTo(from) : SameAt(ps, qs, l)
      BY <1>4
    <2>2. \A l \in After(b) : SameAt(ps, qs, l)
      BY <1>4
    <2>3. StepsBack(o, ps, UpTo(from)) \subseteq StepsBack(m, qs, UpTo(from))
      BY <1>5, <2>1, StepsBackSame
    <2>4. StepsBack(o, ps, After(b)) \subseteq StepsBack(m, qs, After(b))
      BY <1>5, <2>2, StepsBackSame
    <2> QED BY <2>3, <2>4
  <1>8. UpTo(from) \subseteq UpTo(to)
    BY <1>4
  <1>9. Leads(from, Entry, StepsBack(m, qs, UpTo(to)))
    <2>1. StepsBack(m, qs, UpTo(from)) \subseteq StepsBack(m, qs, UpTo(to))
      BY <1>8, StepsBackMore
    <2> QED BY <1>6, <1>7, <2>1, LeadsMore
  <1>10. Leads(to, from, StepsBack(m, qs, Stretch(from, to)))
    <2>1. \A l \in DOMAIN p : CachedAs(qs, l, p[l])
      BY DEF Stores
    <2>2. \A e \in CallEdges : e.dst \in Stretch(from, to) /\ locNum[from] <= locNum[e.src]
                                   => ~HoldsFor(e, m.input, cs)
      BY <1>5 DEF NoCalls
    <2> QED BY <1>5, <2>1, <2>2, EncodeTraces DEF f
  <1>11. Leads(to, from, StepsBack(m, qs, UpTo(to)))
    BY <1>4, <1>10, StepsBackMore, LeadsMore
  <1> QED BY <1>5, <1>6, <1>7, <1>9, <1>11, LeadsOver, LeadsMore

\* An encoding of a stretch in front of b takes the readable part down to its start.
LEMMA ReadAfter ==
    ASSUME GraphInv, OrderInv, EdgeInv, NEW from \in nodes, NEW to \in nodes, NEW a \in nodes,
           locNum[from] <= locNum[to], locNum[a] <= locNum[from],
           NEW fs \in Seq(Formula), NEW ps, NEW n \in Nat, n > 0, GoodScopes(ps, n),
           Readable(fs, ps, a, to, n), NEW cs, NoCalls(from, to, cs),
           NEW qs, Stores(qs, ps, Encode(from, to, cs, n).preds)
    PROVE  Readable(Append(fs, Encode(from, to, cs, n).formula), qs, a, from, n + 1)
  <1> DEFINE f == Encode(from, to, cs, n).formula
             p == Encode(from, to, cs, n).preds
  <1>1. f \in Formula /\ \A w \in World : \A x \in f[w] : \A t \in x : t[1] = n
    BY EncodeIs, EncodeChoices
  <1>2. DOMAIN p \subseteq Stretch(from, to)
    BY EncodePreds
  <1>3. locNum[from] \in Nat /\ locNum[to] \in Nat /\ locNum[a] \in Nat /\ \A l \in nodes : locNum[l] \in Nat
    BY NumberFacts
  <1>4. /\ \A l \in UpTo(a) : SameAt(ps, qs, l)
        /\ \A l \in After(to) : SameAt(ps, qs, l) /\ l \in After(from)
        /\ Stretch(from, to) \subseteq After(from)
    <2> HIDE DEF p
    <2> QED BY <1>2, <1>3 DEF UpTo, After, Stretch, Stores, p
  <1> SUFFICES ASSUME NEW m \in Models(Append(fs, f))
               PROVE  /\ Made(m, n + 1)
                      /\ Leads(a, Entry, StepsBack(m, qs, UpTo(a)))
                      /\ Leads(error, from, StepsBack(m, qs, After(from)))
    BY DEF Readable
  <1> HIDE DEF f
  <1>5. PICK o \in Models(fs), x \in f[m.input] :
              /\ m.input = o.input /\ m.input \in World /\ Made(m, n + 1)
              /\ \A k, y, z : k < n => (<<k, y, z>> \in m.disc <=> <<k, y, z>> \in o.disc)
              /\ \A y, z : <<n, y, z>> \in m.disc <=> <<n, y, z>> \in x
    <2>1. \A v \in Models(fs) : Made(v, n)
      BY DEF Readable
    <2> QED BY <1>1, <2>1, ModelGrows
  <1>6. Leads(a, Entry, StepsBack(o, ps, UpTo(a))) /\ Leads(error, to, StepsBack(o, ps, After(to)))
    BY DEF Readable
  <1>7. /\ StepsBack(o, ps, UpTo(a)) \subseteq StepsBack(m, qs, UpTo(a))
        /\ StepsBack(o, ps, After(to)) \subseteq StepsBack(m, qs, After(to))
    <2>1. \A l \in UpTo(a) : SameAt(ps, qs, l)
      BY <1>4
    <2>2. \A l \in After(to) : SameAt(ps, qs, l)
      BY <1>4
    <2>3. StepsBack(o, ps, UpTo(a)) \subseteq StepsBack(m, qs, UpTo(a))
      BY <1>5, <2>1, StepsBackSame
    <2>4. StepsBack(o, ps, After(to)) \subseteq StepsBack(m, qs, After(to))
      BY <1>5, <2>2, StepsBackSame
    <2> QED BY <2>3, <2>4
  <1>8. After(to) \subseteq After(from)
    BY <1>4
  <1>9. Leads(error, to, StepsBack(m, qs, After(from)))
    <2>1. StepsBack(m, qs, After(to)) \subseteq StepsBack(m, qs, After(from))
      BY <1>8, StepsBackMore
    <2> QED BY <1>6, <1>7, <2>1, LeadsMore
  <1>10. Leads(to, from, StepsBack(m, qs, Stretch(from, to)))
    <2>1. \A l \in DOMAIN p : CachedAs(qs, l, p[l])
      BY DEF Stores
    <2>2. \A e \in CallEdges : e.dst \in Stretch(from, to) /\ locNum[from] <= locNum[e.src]
                                   => ~HoldsFor(e, m.input, cs)
      BY <1>5 DEF NoCalls
    <2> QED BY <1>5, <2>1, <2>2, EncodeTraces DEF f
  <1>11. Leads(to, from, StepsBack(m, qs, After(from)))
    BY <1>4, <1>10, StepsBackMore, LeadsMore
  <1> QED BY <1>5, <1>6, <1>7, <1>9, <1>11, LeadsOver, LeadsMore

-----------------------------------------------------------------------------
(***************************************************************************)
(* The invariant.  CacheInv: in every model of what is asserted for good,  *)
(* the reader of a counterexample finds its way where the engine no longer *)
(* works, behind the target and in front of the start of the region, and   *)
(* the input takes it.  ErrorRead: a verdict Fail comes with what it finds *)
(* when nothing of the graph is left to the region.                        *)
(***************************************************************************)
CacheInv ==
    /\ encodings \in Nat /\ encodings > 0 /\ GoodScopes(preds, encodings)
    /\ pc \in {"errorField", "remove", "sort", "eager", "eagerInline"} => preds = <<EmptyScope>>
    /\ pc \in {"under", "start"} => Readable(asserted, preds, top, bottom, encodings)
    /\ pc = "over" => Readable(asserted, preds, lca[1], lca[2], encodings)
    /\ pc = "inline" => /\ Len(preds) > 1
                        /\ Readable(Popped, ButLast(preds), lca[1], lca[2], encodings)

ErrorRead ==
    verdict = "Fail" =>
      /\ pc = "done" /\ Sorted
      /\ \E m \in Model : /\ cex = ReadCex(m, preds)
                          /\ Leads(error, Entry, StepsBack(m, preds, nodes))

\* Scopes that are pushed onto the cache or inserted into its last scope.
LEMMA GoodScopesFacts ==
    ASSUME NEW ps, NEW n \in Nat, NEW k \in Nat, n <= k, GoodScopes(ps, n), NEW s, GoodScope(s, k)
    PROVE  /\ GoodScopes(ps, k) /\ GoodScopes(Append(ps, s), k) /\ GoodScopes(InsertLast(ps, s), k)
           /\ GoodScope(EmptyScope, k)
  <1>1. /\ ps \in Seq(Scopes) /\ ps # <<>> /\ \A i \in DOMAIN ps : GoodScope(ps[i], n)
        /\ s \in Scopes
    BY DEF GoodScopes, GoodScope
  <1>2. ASSUME NEW i \in DOMAIN ps PROVE GoodScope(ps[i], k)
    <2>1. GoodScope(ps[i], n)
      BY <1>1
    <2>2. \A l \in DOMAIN ps[i] : ps[i][l].disc \in Nat
      BY <2>1, ScopeFacts DEF GoodScope, Cachable
    <2>3. ASSUME NEW l \in DOMAIN ps[i] PROVE ps[i][l].disc < k
      BY <2>1, <2>2 DEF GoodScope
    <2> QED BY <2>1, <2>3 DEF GoodScope
  <1>3. GoodScopes(Append(ps, s), k)
    <2> DEFINE qs == Append(ps, s)
    <2>1. qs \in Seq(Scopes) /\ qs # <<>> /\ \A i \in DOMAIN qs : qs[i] = s \/ (i \in DOMAIN ps /\ qs[i] = ps[i])
      BY <1>1
    <2> HIDE DEF qs
    <2> QED BY <1>2, <2>1 DEF GoodScopes, qs
  <1>4. GoodScopes(InsertLast(ps, s), k)
    <2> DEFINE qs == InsertLast(ps, s)
               c == Len(ps)
               new == Insert(ps[c], s)
    <2>0. c \in DOMAIN ps /\ ps[c] \in Scopes /\ DOMAIN ps = 1 .. c /\ c \in Nat
      BY <1>1
    <2>1. /\ new \in Scopes /\ DOMAIN new = DOMAIN ps[c] \cup DOMAIN s
          /\ \A l \in DOMAIN s : new[l] = s[l]
          /\ \A l \in DOMAIN ps[c] \ DOMAIN s : new[l] = ps[c][l]
      <3>1. PICK o \in Scopes : o = ps[c]
        BY <2>0
      <3>2. /\ Insert(o, s) \in Scopes /\ DOMAIN Insert(o, s) = DOMAIN o \cup DOMAIN s
            /\ \A l \in DOMAIN s : Insert(o, s)[l] = s[l]
            /\ \A l \in DOMAIN o \ DOMAIN s : Insert(o, s)[l] = o[l]
        BY <1>1, InsertFacts
      <3> QED BY <3>1, <3>2
    <2> HIDE DEF new
    <2>2. GoodScope(new, k)
      <3>1. GoodScope(ps[c], k)
        BY <1>2, <2>0
      <3> QED BY <2>1, <3>1 DEF GoodScope
    <2>3. qs = [ps EXCEPT ![c] = new]
      BY DEF InsertLast, new
    <2> HIDE DEF qs
    <2>4. qs \in Seq(Scopes) /\ DOMAIN qs = 1 .. c /\ qs # <<>>
      BY <1>1, <2>0, <2>1, <2>3
    <2>5. \A i \in DOMAIN qs : qs[i] = new \/ (i \in DOMAIN ps /\ qs[i] = ps[i])
      BY <2>0, <2>3
    <2> QED BY <1>2, <2>2, <2>4, <2>5 DEF GoodScopes, qs
  <1>5. GoodScope(EmptyScope, k)
    BY ScopeFacts DEF GoodScope
  <1> QED BY <1>1, <1>2, <1>3, <1>4, <1>5 DEF GoodScopes


-----------------------------------------------------------------------------
(* What the steps keep of it *)

\* The graph grows, its order is kept, and at most calls are taken out.
GraphGrows ==
    /\ nodes \subseteq nodes' /\ UNCHANGED error
    /\ \A e \in edges : ~IsCall(e) => e \in edges'
    /\ \A k, l \in nodes : /\ locNum[k] <= locNum[l] => locNum'[k] <= locNum'[l]
                           /\ locNum[k] < locNum[l] => locNum'[k] < locNum'[l]

\* Inlining lets it grow.
LEMMA InlineGrows ==
    ASSUME GraphInv, OrderInv, SortsInv, NEW c \in CallEdges, InlineCallIntoRoot(c), UNCHANGED error
    PROVE  GraphGrows
  <1> DEFINE pos == locNum[c.dst]
             sorted == topoSort[c.callee]
             len == Len(sorted)
  <1>1. /\ c.callee \in Procs \ {Main} /\ c.dst \in nodes /\ nextLoc \in Nat
        /\ \A l \in nodes : l \in Nat /\ l < nextLoc
    BY DEF GraphInv, CallEdges
  <1>2. IsTopologicalOrder(sorted, LocsOf(prog[c.callee]), EdgesOf(prog[c.callee]))
    BY <1>1 DEF SortsInv
  <1>3. len \in Nat
    BY <1>2 DEF IsTopologicalOrder
  <1>4. pos \in Nat /\ \A l \in nodes : locNum[l] \in Nat
    BY <1>1, NumberFacts
  <1>5. /\ edges' = (edges \ {c}) \cup InlinedEdges(c) /\ nodes \subseteq nodes'
    BY InlineEdges
  <1>6. \A l \in nodes' : locNum'[l] = IF l >= nextLoc THEN pos - 1 + PositionOf(sorted, l - nextLoc)
                                      ELSE Shifted(locNum[l], pos, len)
    BY DEF InlineCallIntoRoot
  <1> HIDE DEF pos, len
  <1>7. \A l \in nodes : locNum'[l] = IF locNum[l] < pos THEN locNum[l] ELSE locNum[l] + len
    <2> SUFFICES ASSUME NEW l \in nodes PROVE locNum'[l] = IF locNum[l] < pos THEN locNum[l] ELSE locNum[l] + len
      OBVIOUS
    <2>1. l \in nodes' /\ ~(l >= nextLoc)
      BY <1>1, <1>5
    <2>2. locNum'[l] = Shifted(locNum[l], pos, len)
      BY <1>6, <2>1
    <2> QED BY <2>2 DEF Shifted
  <1>8. \A k, l \in nodes : /\ locNum[k] <= locNum[l] => locNum'[k] <= locNum'[l]
                            /\ locNum[k] < locNum[l] => locNum'[k] < locNum'[l]
    BY <1>3, <1>4, <1>7
  <1>9. \A e \in edges : ~IsCall(e) => e \in edges'
    BY <1>5 DEF CallEdges
  <1> QED BY <1>5, <1>8, <1>9 DEF GraphGrows

\* What is readable in a graph is readable when it has grown ...
LEMMA ReadableKept ==
    ASSUME GraphGrows, NEW fs, NEW ps, NEW a \in nodes, NEW b \in nodes, NEW n, Readable(fs, ps, a, b, n)
    PROVE  Readable(fs, ps, a, b, n)'
  <1>1. /\ nodes \subseteq nodes' /\ UNCHANGED error
        /\ \A e \in edges : ~IsCall(e) => e \in edges'
        /\ UpTo(a) \subseteq UpTo(a)' /\ After(b) \subseteq After(b)'
    BY DEF GraphGrows, UpTo, After
  <1>2. ASSUME NEW m, NEW p, IsStepBack(m, ps, p) PROVE IsStepBack(m, ps, p)'
    BY <1>1, <1>2 DEF IsStepBack, Takes, IsCall
  <1>3. ASSUME NEW m, NEW L, NEW K, L \subseteq K
        PROVE  StepsBack(m, ps, L) \subseteq StepsBack(m, ps, K)'
    <2> SUFFICES ASSUME NEW p \in L \X nodes, IsStepBack(m, ps, p)
                 PROVE  [src |-> p[1], dst |-> p[2]] \in StepsBack(m, ps, K)'
      BY DEF StepsBack
    <2>1. p \in K \X nodes' /\ IsStepBack(m, ps, p)'
      BY <1>1, <1>2, <1>3
    <2> QED BY <2>1 DEF StepsBack
  <1> SUFFICES ASSUME NEW m \in Models(fs)
               PROVE  /\ Made(m, n)
                      /\ Leads(a, Entry, StepsBack(m, ps, UpTo(a))')
                      /\ Leads(error', b, StepsBack(m, ps, After(b))')
    BY DEF Readable
  <1>4. /\ Made(m, n) /\ Leads(a, Entry, StepsBack(m, ps, UpTo(a)))
        /\ Leads(error, b, StepsBack(m, ps, After(b)))
    BY DEF Readable
  <1>5. StepsBack(m, ps, UpTo(a)) \subseteq StepsBack(m, ps, UpTo(a))'
    <2>1. PICK L, K : L = UpTo(a) /\ K = UpTo(a)'
      OBVIOUS
    <2>2. StepsBack(m, ps, L) \subseteq StepsBack(m, ps, K)'
      BY <1>1, <1>3, <2>1
    <2>3. StepsBack(m, ps, K)' = StepsBack(m, ps, UpTo(a))'
      BY <2>1 DEF StepsBack
    <2> QED BY <2>1, <2>2, <2>3
  <1>6. StepsBack(m, ps, After(b)) \subseteq StepsBack(m, ps, After(b))'
    <2>1. PICK L, K : L = After(b) /\ K = After(b)'
      OBVIOUS
    <2>2. StepsBack(m, ps, L) \subseteq StepsBack(m, ps, K)'
      BY <1>1, <1>3, <2>1
    <2>3. StepsBack(m, ps, K)' = StepsBack(m, ps, After(b))'
      BY <2>1 DEF StepsBack
    <2> QED BY <2>1, <2>2, <2>3
  <1> QED BY <1>1, <1>4, <1>5, <1>6, LeadsMore

\* ... and scopes stay good.
LEMMA ScopesKept ==
    ASSUME nodes \subseteq nodes', NEW ps, NEW n, GoodScopes(ps, n)
    PROVE  GoodScopes(ps, n)'
  BY DEF GoodScopes, GoodScope

\* The cache starts empty, and with nothing asserted there is nothing to read.
StartsReadable ==
    /\ \A n \in Nat : GoodScopes(<<EmptyScope>>, n)
    /\ \A ps, n, b : b = error => Readable(<<>>, ps, Entry, b, n)

LEMMA StartIsReadable == StartsReadable
  <1>1. ASSUME NEW n \in Nat PROVE GoodScopes(<<EmptyScope>>, n)
    <2>1. EmptyScope \in Scopes /\ DOMAIN EmptyScope = {}
      BY ScopeFacts
    <2> HIDE DEF EmptyScope
    <2>2. /\ <<EmptyScope>> \in Seq(Scopes) /\ <<EmptyScope>> # <<>>
          /\ \A i \in DOMAIN <<EmptyScope>> : <<EmptyScope>>[i] = EmptyScope
      BY <2>1
    <2>3. GoodScope(EmptyScope, n)
      BY <2>1 DEF GoodScope
    <2> QED BY <2>2, <2>3 DEF GoodScopes
  <1>2. ASSUME NEW ps, NEW n PROVE Readable(<<>>, ps, Entry, error, n)
    <2> SUFFICES ASSUME NEW m \in Models(<<>>)
                 PROVE  /\ Made(m, n)
                        /\ Leads(Entry, Entry, StepsBack(m, ps, UpTo(Entry)))
                        /\ Leads(error, error, StepsBack(m, ps, After(error)))
      BY DEF Readable
    <2>1. m.disc = {}
      BY ModelsEmpty DEF NoChoices
    <2> QED BY <2>1, LeadsSelf DEF Made
  <1> QED BY <1>1, <1>2 DEF StartsReadable

\* Initially nothing is asserted and nothing is known.
LEMMA CacheInit == Init => CacheInv /\ ErrorRead
  <1> SUFFICES ASSUME Init PROVE CacheInv /\ ErrorRead
    OBVIOUS
  <1>1. /\ pc = "errorField" /\ verdict = "Running" /\ preds = <<EmptyScope>> /\ encodings = 1
    BY DEF Init
  <1>2. GoodScopes(<<EmptyScope>>, 1)
    BY StartIsReadable DEF StartsReadable
  <1> QED BY <1>1, <1>2 DEF CacheInv, ErrorRead

\* The steps before the loop leave the cache empty.
LEMMA CacheEarly ==
    ASSUME CacheInv, pc \in {"errorField", "remove", "sort", "eager"},
           UNCHANGED <<asserted, preds, encodings>>,
           \/ pc' \in {"remove", "sort", "eager", "eagerInline", "done"}
           \/ pc' = "under" /\ asserted' = <<>> /\ top' = Entry /\ bottom' = error'
    PROVE  CacheInv'
  <1>1. preds = <<EmptyScope>> /\ encodings \in Nat /\ encodings > 0
    BY DEF CacheInv
  <1>2. PICK n, ps : n = encodings /\ ps = <<EmptyScope>>
    OBVIOUS
  <1>3. StartsReadable'
    BY StartIsReadable, PTL
  <1>4. GoodScopes(ps, n)'
    BY <1>1, <1>2, <1>3 DEF StartsReadable
  <1>5. ps = preds' /\ n = encodings'
    BY <1>1, <1>2
  <1>6. GoodScopes(preds, encodings)'
    BY <1>4, <1>5 DEF GoodScopes, GoodScope
  <1>7. CASE pc' \in {"remove", "sort", "eager", "eagerInline", "done"}
    BY <1>1, <1>6, <1>7 DEF CacheInv
  <1>8. CASE pc' = "under" /\ asserted' = <<>> /\ top' = Entry /\ bottom' = error'
    <2>1. PICK fs, a, b : fs = <<>> /\ a = Entry /\ b = error'
      OBVIOUS
    <2>2. Readable(fs, ps, a, b, n)'
      BY <1>3, <2>1 DEF StartsReadable
    <2>3. Readable(asserted, preds, top, bottom, encodings)'
      BY <1>5, <1>8, <2>1, <2>2 DEF Readable, Made, StepsBack, UpTo, After
    <2> QED BY <1>1, <1>6, <1>8, <2>3 DEF CacheInv
  <1> QED BY <1>7, <1>8

\* A graph that stays the same has grown, and is read the same way.
LEMMA SameReading ==
    ASSUME UNCHANGED <<nodes, edges, locNum, error>>
    PROVE  /\ GraphGrows
           /\ \A m, ps : ReadCex(m, ps)' = ReadCex(m, ps)
           /\ \A m, ps, L : StepsBack(m, ps, L)' = StepsBack(m, ps, L)
  <1>1. GraphGrows
    BY DEF GraphGrows
  <1>2. \A m, ps : ReadCex(m, ps)' = ReadCex(m, ps)
    BY DEF ReadCex
  <1>3. \A m, ps, p : IsStepBack(m, ps, p)' <=> IsStepBack(m, ps, p)
    BY DEF IsStepBack, Takes, IsCall
  <1>4. \A m, ps, L : StepsBack(m, ps, L)' = StepsBack(m, ps, L)
    BY <1>3 DEF StepsBack
  <1> QED BY <1>1, <1>2, <1>4

\* What the cache has after an insertion, a push, and both.
LEMMA StoresFacts ==
    ASSUME NEW ps \in Seq(Scopes), ps # <<>>, NEW s \in Scopes
    PROVE  /\ Stores(InsertLast(ps, s), ps, s) /\ Stores(Append(ps, s), ps, s)
           /\ Stores(Append(InsertLast(ps, s), EmptyScope), ps, s)
  <1>1. Stores(InsertLast(ps, s), ps, s)
    BY CacheInsert DEF Stores
  <1>2. Stores(Append(ps, s), ps, s)
    BY CacheAppend DEF Stores
  <1>3. Stores(Append(InsertLast(ps, s), EmptyScope), ps, s)
    <2> DEFINE qs == InsertLast(ps, s)
    <2>1. qs \in Seq(Scopes) /\ EmptyScope \in Scopes /\ DOMAIN EmptyScope = {}
      BY CacheInsert, ScopeFacts
    <2> HIDE DEF qs
    <2>2. \A l : SameAt(qs, Append(qs, EmptyScope), l)
      BY <2>1, CacheAppend
    <2>3. Stores(qs, ps, s)
      BY <1>1 DEF qs
    <2> QED BY <2>2, <2>3 DEF Stores, SameAt, CachedAs, qs
  <1> QED BY <1>1, <1>2, <1>3

\* Pushing two encodings that are inserted into one scope.
LEMMA PushInsert ==
    ASSUME NEW ps \in Seq(Scopes), NEW s \in Scopes, NEW t \in Scopes
    PROVE  Append(ps, Insert(s, t)) = InsertLast(Append(ps, s), t)
  <1> DEFINE qs == Append(ps, s)
             st == Insert(s, t)
             n == Len(ps) + 1
  <1>1. st \in Scopes
    BY InsertFacts
  <1>2. /\ qs \in Seq(Scopes) /\ Len(qs) = n /\ qs[n] = s /\ n \in Nat
        /\ DOMAIN qs = 1 .. n /\ DOMAIN ps = 1 .. n - 1 /\ \A i \in 1 .. n - 1 : qs[i] = ps[i]
    OBVIOUS
  <1>3. InsertLast(qs, t) = [qs EXCEPT ![n] = st]
    BY <1>2 DEF InsertLast
  <1> HIDE DEF st, qs
  <1> DEFINE rs == Append(ps, st)
             us == [qs EXCEPT ![n] = st]
  <1>4. rs \in Seq(Scopes) /\ DOMAIN rs = 1 .. n /\ rs[n] = st /\ \A i \in 1 .. n - 1 : rs[i] = ps[i]
    BY <1>1
  <1>5. us \in Seq(Scopes) /\ DOMAIN us = 1 .. n
    BY <1>1, <1>2
  <1>6. \A i \in 1 .. n : us[i] = rs[i]
    BY <1>2, <1>4
  <1> HIDE DEF rs, us, n
  <1>7. rs = [i \in 1 .. n |-> rs[i]] /\ us = [i \in 1 .. n |-> us[i]]
    BY <1>4, <1>5
  <1>8. rs = us
    BY <1>6, <1>7
  <1> QED BY <1>3, <1>8 DEF rs, us, st, qs

\* Between the ends of a region the order goes forward.
LEMMA RegionForward ==
    ASSUME GraphInv, OrderInv, NEW a, NEW b, a \in nodes, Leads(a, b, edges)
    PROVE  b \in nodes /\ locNum[a] <= locNum[b]
  BY LeadsForward

-----------------------------------------------------------------------------
(* The steps of the loop *)

\* Inlining keeps what is readable.
LEMMA CacheInline ==
    ASSUME Inv, SoundInv, CacheInv, pc \in {"eagerInline", "inline"},
           NEW c \in CallEdges, InlineCallIntoRoot(c), UNCHANGED <<pc, error, solverVars, lca>>
    PROVE  CacheInv'
  <1>1. /\ GraphInv /\ OrderInv /\ SortsInv
    BY DEF Inv, EarlyInv
  <1>2. GraphGrows
    BY <1>1, InlineGrows
  <1>3. UNCHANGED <<asserted, marks, preds, encodings>>
    BY DEF solverVars
  <1>4. PICK n, ps, qs, fs, a, b : /\ n = encodings /\ ps = preds /\ qs = ButLast(preds) /\ fs = Popped
                                   /\ a = lca[1] /\ b = lca[2]
    OBVIOUS
  <1>5. GoodScopes(ps, n)'
    <2>1. GoodScopes(ps, n) /\ nodes \subseteq nodes'
      BY <1>2, <1>4 DEF CacheInv, GraphGrows
    <2> QED BY <2>1, ScopesKept
  <1>6. GoodScopes(preds, encodings)'
    <2>1. ps = preds' /\ n = encodings'
      BY <1>3, <1>4
    <2> QED BY <1>5, <2>1 DEF GoodScopes, GoodScope
  <1>7. ASSUME pc = "inline" PROVE Len(preds') > 1 /\ Readable(Popped, ButLast(preds), lca[1], lca[2], encodings)'
    <2>1. Len(preds) > 1 /\ Readable(fs, qs, a, b, n)
      BY <1>4, <1>7 DEF CacheInv
    <2>2. a \in nodes /\ b \in nodes
      BY <1>4, <1>7 DEF SoundInv, RegionInv, Between
    <2>3. Readable(fs, qs, a, b, n)'
      BY <1>2, <2>1, <2>2, ReadableKept
    <2>4. fs = Popped' /\ qs = ButLast(preds)' /\ a = lca'[1] /\ b = lca'[2] /\ n = encodings'
      BY <1>3, <1>4 DEF Popped, ButLast
    <2>5. Readable(Popped, ButLast(preds), lca[1], lca[2], encodings)'
      <3> HIDE DEF Popped, ButLast
      <3> QED BY <2>3, <2>4 DEF Readable, Made, StepsBack, UpTo, After
    <2> QED BY <1>3, <2>1, <2>5
  <1> QED BY <1>3, <1>6, <1>7 DEF CacheInv

\* The under-approximation takes no call.  If it fails, what it stores is in the
\* region; if not, a model of it can be read from the error goal to the entry.
LEMMA CacheUnder ==
    ASSUME Inv, SoundInv, EdgeInv, CacheInv, ErrorRead, UnderApproximate
    PROVE  CacheInv' /\ ErrorRead'
  <1> DEFINE cs == Approximate(calls, {})
             enc == Encode(top, bottom, cs, encodings)
             fs == Append(asserted, enc.formula)
             ps == InsertLast(preds, enc.preds)
             qs == Append(ps, EmptyScope)
  <1>1. /\ pc = "under" /\ encodings' = encodings + 1
        /\ UNCHANGED <<nodes, edges, topo, locNum, error, top, bottom>>
    BY DEF UnderApproximate, fixedVars
  <1>2. \/ /\ asserted' = fs /\ preds' = qs /\ pc' = "done"
           /\ \E m \in Models(fs) : cex' = ReadCex(m, qs)
        \/ preds' = ps /\ pc' = "start" /\ UNCHANGED <<verdict, asserted>>
    BY DEF UnderApproximate, Finish, Push
  <1>3. GraphInv /\ OrderInv /\ CallInv /\ Sorted
    BY <1>1, LoopFacts DEF Inv, EarlyInv
  <1>4. PICK a, b, n, f, p : /\ a = top /\ b = bottom /\ n = encodings
                             /\ f = enc.formula /\ p = enc.preds
    OBVIOUS
  <1>5. /\ n \in Nat /\ n > 0 /\ GoodScopes(preds, n) /\ Readable(asserted, preds, a, b, n)
        /\ asserted \in Seq(Formula) /\ preds \in Seq(Scopes) /\ preds # <<>> /\ verdict # "Fail"
    BY <1>1, <1>4 DEF CacheInv, SoundInv, SolverInv, GoodScopes, ErrorRead
  <1>6. a \in nodes /\ b \in nodes /\ locNum[a] <= locNum[b]
    <2>1. a \in nodes /\ Leads(a, b, edges)
      BY <1>1, <1>4 DEF SoundInv, RegionInv, Between
    <2> QED BY <1>3, <2>1, RegionForward
  <1> HIDE DEF cs
  <1>7. f \in Formula /\ GoodScope(p, n + 1) /\ DOMAIN p \subseteq Stretch(a, b) /\ p \in Scopes
    BY <1>3, <1>4, <1>5, <1>6, EncodeIs, EncodePreds DEF GoodScope
  <1>8. GoodScopes(ps, n + 1) /\ GoodScopes(qs, n + 1)
    <2>1. GoodScopes(ps, n + 1) /\ GoodScope(EmptyScope, n + 1)
      BY <1>4, <1>5, <1>7, GoodScopesFacts
    <2> HIDE DEF ps
    <2> QED BY <1>5, <2>1, GoodScopesFacts
  <1>9. Stores(ps, preds, p) /\ Stores(qs, preds, p)
    BY <1>4, <1>5, <1>7, StoresFacts
  <1> HIDE DEF ps
  <1>10. GoodScopes(preds, encodings)'
    <2>1. PICK rs \in {ps, qs} : preds' = rs
      BY <1>2
    <2>2. GoodScopes(rs, n + 1)
      BY <1>8, <2>1
    <2>3. GoodScopes(rs, n + 1)'
      BY <1>1, <2>2, ScopesKept
    <2>4. rs = preds' /\ n + 1 = encodings'
      BY <1>1, <1>4, <2>1
    <2> QED BY <2>3, <2>4 DEF GoodScopes, GoodScope
  <1>11. encodings' \in Nat /\ encodings' > 0
    BY <1>1, <1>4, <1>5
  <1>12. CASE preds' = ps /\ pc' = "start" /\ UNCHANGED <<verdict, asserted>>
    <2>1. \A l \in UpTo(a) \cup After(b) : SameAt(preds, ps, l)
      <3>1. \A l \in nodes : locNum[l] \in Nat
        BY <1>3, NumberFacts
      <3> QED BY <1>6, <1>7, <1>9, <3>1 DEF UpTo, After, Stretch, Stores
    <2>2. Readable(asserted, ps, a, b, n + 1)
      BY <1>5, <2>1, ReadableSame
    <2>3. PICK gs, rs : gs = asserted /\ rs = ps
      OBVIOUS
    <2>4. Readable(gs, rs, a, b, n + 1)'
      BY <1>1, <1>6, <2>2, <2>3, SameReading, ReadableKept
    <2>5. gs = asserted' /\ rs = preds' /\ a = top' /\ b = bottom' /\ n + 1 = encodings'
      BY <1>1, <1>4, <1>12, <2>3
    <2>6. Readable(asserted, preds, top, bottom, encodings)'
      BY <2>4, <2>5 DEF Readable, Made, StepsBack, UpTo, After
    <2> QED BY <1>5, <1>10, <1>11, <1>12, <2>6 DEF CacheInv, ErrorRead
  <1>13. CASE /\ asserted' = fs /\ preds' = qs /\ pc' = "done"
              /\ \E m \in Models(fs) : cex' = ReadCex(m, qs)
    <2>1. PICK m \in Models(fs) : cex' = ReadCex(m, qs)
      BY <1>13
    <2>2. NoCalls(a, b, cs)
      <3>1. \A e \in CallEdges : e.id \in DOMAIN calls
        BY <1>3 DEF CallInv
      <3>2. \A e \in CallEdges : \A w : ~HoldsFor(e, w, cs)
        BY <3>1 DEF HoldsFor, Approximate, CallEdges, cs
      <3> QED BY <3>2 DEF NoCalls
    <2>3. Readable(fs, qs, b, b, n + 1)
      <3>1. Readable(Append(asserted, Encode(a, b, cs, n).formula), qs, b, b, n + 1)
        <4>1. Stores(qs, preds, Encode(a, b, cs, n).preds)
          BY <1>4, <1>9
        <4>2. locNum[b] <= locNum[b]
          BY <1>3, <1>6, NumberFacts
        <4> HIDE DEF qs
        <4> QED BY <1>3, <1>5, <1>6, <2>2, <4>1, <4>2, ReadBefore
      <3> QED BY <1>4, <3>1
    <2>4. /\ Leads(b, Entry, StepsBack(m, qs, UpTo(b))) /\ Leads(error, b, StepsBack(m, qs, After(b)))
      BY <2>3 DEF Readable
    <2>5. UpTo(b) \subseteq nodes /\ After(b) \subseteq nodes
      BY DEF UpTo, After
    <2>6. Leads(error, Entry, StepsBack(m, qs, nodes))
      <3>1. Leads(b, Entry, StepsBack(m, qs, nodes))
        BY <2>4, <2>5, StepsBackMore, LeadsMore
      <3>2. Leads(error, b, StepsBack(m, qs, nodes))
        BY <2>4, <2>5, StepsBackMore, LeadsMore
      <3> QED BY <3>1, <3>2, LeadsOver
    <2>7. m \in Model
      <3>1. fs \in Seq(Formula)
        BY <1>4, <1>5, <1>7
      <3> HIDE DEF fs
      <3> QED BY <3>1, ModelsIs
    <2>8. PICK rs, L : rs = qs /\ L = nodes
      OBVIOUS
    <2> HIDE DEF fs, qs
    <2>9. ReadCex(m, rs)' = ReadCex(m, rs) /\ StepsBack(m, rs, L)' = StepsBack(m, rs, L)
      BY <1>1, SameReading
    <2>10. cex' = ReadCex(m, preds)'
      <3>1. rs = preds'
        BY <1>13, <2>8
      <3>2. ReadCex(m, preds)' = ReadCex(m, rs)'
        BY <3>1 DEF ReadCex
      <3> QED BY <2>1, <2>8, <2>9, <3>2
    <2>11. Leads(error, Entry, StepsBack(m, preds, nodes))'
      <3>1. rs = preds' /\ L = nodes'
        BY <1>1, <1>13, <2>8
      <3>2. StepsBack(m, preds, nodes)' = StepsBack(m, rs, L)'
        BY <3>1 DEF StepsBack
      <3>3. StepsBack(m, preds, nodes)' = StepsBack(m, qs, nodes)
        BY <2>8, <2>9, <3>2
      <3> QED BY <1>1, <2>6, <3>3
    <2>12. Sorted'
      BY <1>1, <1>3 DEF Sorted
    <2> QED BY <1>10, <1>11, <1>13, <2>7, <2>10, <2>11, <2>12 DEF CacheInv, ErrorRead
  <1> QED BY <1>2, <1>12, <1>13

\* The same graph has the same to read, and the same scopes are good.
LEMMA SameReadable ==
    ASSUME UNCHANGED <<nodes, edges, locNum, error>>
    PROVE  /\ \A fs, ps, a, b, n : Readable(fs, ps, a, b, n)' <=> Readable(fs, ps, a, b, n)
           /\ \A ps, n : GoodScopes(ps, n)' <=> GoodScopes(ps, n)
  <1>1. \A m, ps, L : StepsBack(m, ps, L)' = StepsBack(m, ps, L)
    BY SameReading
  <1>2. \A a : UpTo(a)' = UpTo(a) /\ After(a)' = After(a)
    BY DEF UpTo, After
  <1>3. ASSUME NEW m, NEW ps, NEW a
        PROVE  /\ StepsBack(m, ps, UpTo(a))' = StepsBack(m, ps, UpTo(a))
               /\ StepsBack(m, ps, After(a))' = StepsBack(m, ps, After(a))
    <2>1. PICK L, K : L = UpTo(a) /\ K = After(a)
      OBVIOUS
    <2>2. StepsBack(m, ps, UpTo(a))' = StepsBack(m, ps, L)' /\ StepsBack(m, ps, After(a))' = StepsBack(m, ps, K)'
      <3>1. UpTo(a)' = L /\ After(a)' = K
        BY <1>2, <2>1
      <3> HIDE DEF UpTo, After
      <3> QED BY <3>1 DEF StepsBack
    <2> QED BY <1>1, <2>1, <2>2
  <1>4. ASSUME NEW fs, NEW ps, NEW a, NEW b, NEW n PROVE Readable(fs, ps, a, b, n)' <=> Readable(fs, ps, a, b, n)
    BY <1>3 DEF Readable
  <1>5. ASSUME NEW ps, NEW n PROVE GoodScopes(ps, n)' <=> GoodScopes(ps, n)
    BY DEF GoodScopes, GoodScope
  <1> QED BY <1>4, <1>5

\* What holds of the new values of the variables holds of the variables.
LEMMA ReadablePrime ==
    ASSUME NEW fs, NEW ps, NEW a, NEW b, NEW n, UNCHANGED <<nodes, edges, locNum, error>>,
           Readable(fs, ps, a, b, n), GoodScopes(ps, n), fs = asserted', ps = preds', n = encodings'
    PROVE  /\ GoodScopes(preds, encodings)'
           /\ a = top' /\ b = bottom' => Readable(asserted, preds, top, bottom, encodings)'
           /\ a = lca'[1] /\ b = lca'[2] => Readable(asserted, preds, lca[1], lca[2], encodings)'
  <1>1. Readable(fs, ps, a, b, n)' /\ GoodScopes(ps, n)'
    BY SameReadable
  <1>2. GoodScopes(preds, encodings)'
    BY <1>1 DEF GoodScopes, GoodScope
  <1>3. ASSUME a = top', b = bottom' PROVE Readable(asserted, preds, top, bottom, encodings)'
    BY <1>1, <1>3, ZenonT(60) DEF Readable, Made, StepsBack, UpTo, After
  <1>4. ASSUME a = lca'[1], b = lca'[2] PROVE Readable(asserted, preds, lca[1], lca[2], encodings)'
    BY <1>1, <1>4, ZenonT(60) DEF Readable, Made, StepsBack, UpTo, After
  <1> QED BY <1>2, <1>3, <1>4

\* Skipping the under-approximation changes nothing of it.
LEMMA CacheSkip ==
    ASSUME CacheInv, SkipUnderApproximation
    PROVE  CacheInv'
  <1>1. /\ pc = "under" /\ pc' = "start"
        /\ UNCHANGED <<nodes, edges, locNum, error, asserted, preds, encodings, top, bottom>>
    BY DEF SkipUnderApproximation, graphVars, solverVars, fixedVars
  <1>2. PICK fs, ps, a, b, n : fs = asserted /\ ps = preds /\ a = top /\ b = bottom /\ n = encodings
    OBVIOUS
  <1>3. Readable(fs, ps, a, b, n) /\ GoodScopes(ps, n) /\ n \in Nat /\ n > 0
    BY <1>1, <1>2 DEF CacheInv
  <1>4. fs = asserted' /\ ps = preds' /\ a = top' /\ b = bottom' /\ n = encodings'
    BY <1>1, <1>2
  <1>5. GoodScopes(preds, encodings)' /\ Readable(asserted, preds, top, bottom, encodings)'
    BY <1>1, <1>3, <1>4, ReadablePrime
  <1> QED BY <1>1, <1>3, <1>4, <1>5 DEF CacheInv

\* Dropping the scope of the over-approximation gives back the cache below it.
LEMMA CacheFinish ==
    ASSUME CacheInv, FinishInlining
    PROVE  CacheInv'
  <1>1. /\ pc = "inline" /\ pc' = "under" /\ asserted' = Popped /\ preds' = ButLast(preds)
        /\ top' = lca[1] /\ bottom' = lca[2]
        /\ UNCHANGED <<nodes, edges, locNum, error, encodings>>
    BY DEF FinishInlining, graphVars, fixedVars
  <1>2. PICK fs, ps, a, b, n : /\ fs = Popped /\ ps = ButLast(preds) /\ a = lca[1] /\ b = lca[2]
                               /\ n = encodings
    OBVIOUS
  <1>3. Readable(fs, ps, a, b, n) /\ n \in Nat /\ n > 0
    BY <1>1, <1>2 DEF CacheInv
  <1>4. GoodScopes(ps, n)
    <2> DEFINE k == Len(preds) - 1
    <2>1. /\ preds \in Seq(Scopes) /\ \A i \in DOMAIN preds : GoodScope(preds[i], n)
          /\ k \in Nat /\ k > 0 /\ k \in 0 .. Len(preds)
      BY <1>1, <1>2 DEF CacheInv, GoodScopes
    <2>2. ps = SubSeq(preds, 1, k)
      BY <1>2 DEF ButLast
    <2>3. ps \in Seq(Scopes)
      BY <2>1, <2>2, PrefixOfSeq
    <2>4. DOMAIN ps = 1 .. k /\ \A i \in 1 .. k : ps[i] = preds[i] /\ i \in DOMAIN preds
      BY <2>1, <2>2
    <2> HIDE DEF k
    <2> QED BY <2>1, <2>3, <2>4 DEF GoodScopes
  <1>5. fs = asserted' /\ ps = preds' /\ a = top' /\ b = bottom' /\ n = encodings'
    BY <1>1, <1>2
  <1>6. GoodScopes(preds, encodings)' /\ Readable(asserted, preds, top, bottom, encodings)'
    BY <1>1, <1>3, <1>4, <1>5, ReadablePrime
  <1> QED BY <1>1, <1>3, <1>5, <1>6 DEF CacheInv

\* What lies before the new start and behind the new target is asserted for
\* good, and no call is taken there.
LEMMA CacheStart ==
    ASSUME Inv, SoundInv, EdgeInv, CacheInv, SetStartAndTarget
    PROVE  CacheInv'
  <1> DEFINE new == FindCommonCallAncestor(top, bottom)
             d1 == new[1]
             d2 == new[2]
             e1 == Encode(top, d1, calls, encodings)
             e2 == Encode(d2, bottom, calls, encodings + 1)
             fs == asserted \o <<e1.formula, e2.formula>>
  <1>1. /\ pc = "start" /\ UNCHANGED <<nodes, edges, locNum, error, calls, top, bottom>>
    BY DEF SetStartAndTarget, fixedVars, graphVars
  <1>2. GraphInv /\ OrderInv /\ CallInv
    BY <1>1, LoopFacts
  <1>3. PICK a, b, n : a = top /\ b = bottom /\ n = encodings
    OBVIOUS
  <1>4. /\ n \in Nat /\ n > 0 /\ GoodScopes(preds, n) /\ Readable(asserted, preds, a, b, n)
        /\ asserted \in Seq(Formula) /\ preds \in Seq(Scopes) /\ preds # <<>> /\ Between(a, b)
    BY <1>1, <1>3 DEF CacheInv, SoundInv, SolverInv, RegionInv, GoodScopes
  <1>5. a \in nodes /\ b \in nodes /\ \A l \in nodes : locNum[l] \in Nat
    BY <1>2, <1>4, NumberFacts DEF Between
  <1>6. CASE d1 = Null
    <2> DEFINE qs == Append(preds, EmptyScope)
    <2>1. /\ lca' = <<top, bottom>> /\ pc' = "over" /\ preds' = qs
          /\ UNCHANGED <<asserted, encodings>>
      BY <1>6 DEF SetStartAndTarget
    <2>2. EmptyScope \in Scopes /\ DOMAIN EmptyScope = {} /\ GoodScope(EmptyScope, n)
      BY ScopeFacts DEF GoodScope
    <2>3. GoodScopes(qs, n)
      BY <1>4, <2>2, GoodScopesFacts
    <2>4. Readable(asserted, qs, a, b, n)
      <3>1. \A l : SameAt(preds, qs, l)
        BY <1>4, <2>2, CacheAppend
      <3> HIDE DEF qs
      <3> QED BY <1>4, <3>1, ReadableSame
    <2>5. PICK gs, rs : gs = asserted /\ rs = qs
      OBVIOUS
    <2>6. a = lca'[1] /\ b = lca'[2] /\ gs = asserted' /\ rs = preds' /\ n = encodings'
      BY <1>3, <2>1, <2>5
    <2>7. Readable(gs, rs, a, b, n) /\ GoodScopes(rs, n)
      BY <2>3, <2>4, <2>5
    <2>8. GoodScopes(preds, encodings)' /\ Readable(asserted, preds, lca[1], lca[2], encodings)'
      BY <1>1, <2>6, <2>7, ReadablePrime
    <2> QED BY <1>4, <2>1, <2>6, <2>8 DEF CacheInv
  <1>7. CASE d1 # Null /\ d2 = Null
    <2>1. pc' = "done" /\ UNCHANGED <<preds, encodings>>
      BY <1>7 DEF SetStartAndTarget, Finish, solverVars
    <2>2. PICK rs : rs = preds
      OBVIOUS
    <2>3. GoodScopes(rs, n)'
      BY <1>1, <1>4, <2>2, SameReadable
    <2>4. rs = preds' /\ n = encodings'
      BY <1>3, <2>1, <2>2
    <2>5. GoodScopes(preds, encodings)'
      BY <2>3, <2>4 DEF GoodScopes, GoodScope
    <2> QED BY <1>4, <2>1, <2>4, <2>5 DEF CacheInv
  <1>8. CASE d1 # Null /\ d2 # Null
    <2>1. /\ asserted' = fs /\ lca' = new /\ encodings' = encodings + 2 /\ pc' \in {"over", "done"}
          /\ preds' = Append(preds, Insert(e1.preds, e2.preds))
      BY <1>8 DEF SetStartAndTarget, Finish
    <2>2. /\ Between(d1, d2) /\ Leads(a, d1, edges) /\ Leads(d2, b, edges)
      BY <1>2, <1>3, <1>4, <1>8, AncestorCases
    <2>3. PICK x, y : x = d1 /\ y = d2
      OBVIOUS
    <2>4. lca'[1] = x /\ lca'[2] = y /\ Between(x, y) /\ Leads(a, x, edges) /\ Leads(y, b, edges)
      BY <2>1, <2>2, <2>3
    <2>5. PICK f1, f2, p1, p2 : /\ f1 = e1.formula /\ f2 = e2.formula /\ p1 = e1.preds /\ p2 = e2.preds
      OBVIOUS
    <2> DEFINE ps == Append(preds, p1)
               qs == InsertLast(ps, p2)
               gs == Append(asserted, f1)
               hs == Append(gs, f2)
    <2>6. /\ e1 = Encode(a, x, calls, n) /\ e2 = Encode(y, b, calls, n + 1)
      BY <1>3, <2>3
    <2>7. /\ asserted' = asserted \o <<f1, f2>> /\ preds' = Append(preds, Insert(p1, p2))
      BY <2>1, <2>5
    <2> HIDE DEF new, d1, d2
    <2>8. /\ x \in nodes /\ y \in nodes /\ locNum[a] <= locNum[x] /\ locNum[x] <= locNum[y] /\ locNum[y] <= locNum[b]
          /\ locNum[x] <= locNum[b]
      <3>1. x \in nodes /\ y \in nodes /\ Leads(x, y, edges)
        BY <2>4 DEF Between
      <3>2. locNum[a] <= locNum[x] /\ locNum[x] <= locNum[y] /\ locNum[y] <= locNum[b]
        BY <1>2, <1>5, <2>4, <3>1, RegionForward
      <3>3. locNum[x] \in Nat /\ locNum[y] \in Nat /\ locNum[b] \in Nat
        BY <1>5, <3>1
      <3> QED BY <3>1, <3>2, <3>3
    <2> HIDE DEF e1, e2
    <2>9. /\ f1 \in Formula /\ GoodScope(p1, n + 1) /\ p1 \in Scopes
          /\ f2 \in Formula /\ GoodScope(p2, n + 1 + 1) /\ p2 \in Scopes /\ n + 1 \in Nat
      <3>1. f1 \in Formula /\ GoodScope(p1, n + 1)
        BY <1>2, <1>4, <1>5, <2>5, <2>6, <2>8, EncodeIs, EncodePreds
      <3>2. n + 1 \in Nat
        BY <1>4
      <3>3. f2 \in Formula /\ GoodScope(p2, n + 1 + 1)
        BY <1>2, <1>5, <2>5, <2>6, <2>8, <3>2, EncodeIs, EncodePreds
      <3> QED BY <3>1, <3>2, <3>3 DEF GoodScope
    <2>10. /\ ps \in Seq(Scopes) /\ ps # <<>> /\ GoodScopes(ps, n + 1)
      BY <1>4, <2>9, GoodScopesFacts
    <2>11. GoodScopes(qs, n + 1 + 1)
      <3> HIDE DEF ps
      <3>1. n + 1 + 1 \in Nat /\ n + 1 <= n + 1 + 1
        BY <1>4
      <3> QED BY <2>9, <2>10, <3>1, GoodScopesFacts
    <2>12. Stores(ps, preds, p1) /\ Stores(qs, ps, p2)
      <3>1. Stores(ps, preds, p1)
        BY <1>4, <2>9, StoresFacts
      <3> HIDE DEF ps
      <3>2. Stores(qs, ps, p2)
        BY <2>9, <2>10, StoresFacts
      <3> QED BY <3>1, <3>2
    <2> HIDE DEF ps
    <2>13. NoCalls(a, x, calls) /\ NoCalls(y, b, calls)
      <3>1. ASSUME NEW c \in CallEdges
            PROVE  /\ locNum[x] < locNum[c.dst] /\ locNum[c.src] < locNum[y]
                   /\ locNum[c.dst] \in Nat /\ locNum[c.src] \in Nat
        <4>1. Leads(x, c.src, edges) /\ Leads(c.dst, y, edges)
          BY <2>4 DEF Between
        <4>2. c.src \in nodes /\ c.dst \in nodes /\ locNum[c.src] < locNum[c.dst]
          BY <1>2, NumberFacts DEF CallEdges
        <4>3. locNum[x] <= locNum[c.src] /\ locNum[c.dst] <= locNum[y]
          BY <1>2, <2>8, <4>1, <4>2, RegionForward
        <4> QED BY <1>5, <2>8, <4>2, <4>3
      <3> QED BY <1>5, <2>8, <3>1 DEF NoCalls, Stretch
    <2>14. Readable(gs, ps, x, b, n + 1)
      <3>1. Readable(Append(asserted, Encode(a, x, calls, n).formula), ps, x, b, n + 1)
        <4>1. Stores(ps, preds, Encode(a, x, calls, n).preds)
          BY <2>5, <2>6, <2>12
        <4> QED BY <1>2, <1>4, <1>5, <2>8, <2>13, <4>1, ReadBefore
      <3> QED BY <2>5, <2>6, <3>1
    <2>15. gs \in Seq(Formula)
      BY <1>4, <2>9
    <2> HIDE DEF gs, qs
    <2>16. Readable(hs, qs, x, y, n + 1 + 1)
      <3>1. Readable(Append(gs, Encode(y, b, calls, n + 1).formula), qs, x, y, n + 1 + 1)
        <4>1. Stores(qs, ps, Encode(y, b, calls, n + 1).preds)
          BY <2>5, <2>6, <2>12
        <4>2. n + 1 > 0
          BY <1>4
        <4> QED BY <1>2, <1>5, <2>8, <2>9, <2>10, <2>13, <2>14, <2>15, <4>1, <4>2, ReadAfter
      <3> QED BY <2>5, <2>6, <3>1
    <2>17. preds' = qs
      BY <1>4, <2>7, <2>9, PushInsert DEF qs, ps
    <2>18. asserted' = hs
      BY <1>4, <2>7, <2>9 DEF gs
    <2>19. PICK us, rs, k : us = hs /\ rs = qs /\ k = n + 1 + 1
      OBVIOUS
    <2>20. us = asserted' /\ rs = preds' /\ k = encodings'
      BY <1>3, <1>4, <2>1, <2>17, <2>18, <2>19
    <2>21. Readable(us, rs, x, y, k) /\ GoodScopes(rs, k)
      BY <2>11, <2>16, <2>19
    <2>22. GoodScopes(preds, encodings)' /\ Readable(asserted, preds, lca[1], lca[2], encodings)'
      BY <1>1, <2>4, <2>20, <2>21, ReadablePrime
    <2>23. encodings' \in Nat /\ encodings' > 0
      BY <1>4, <2>19, <2>20
    <2> QED BY <2>1, <2>22, <2>23 DEF CacheInv
  <1> QED BY <1>6, <1>7, <1>8

\* The over-approximation is recorded in a scope of its own.
LEMMA CacheOver ==
    ASSUME Inv, SoundInv, EdgeInv, CacheInv, OverApproximate
    PROVE  CacheInv'
  <1> DEFINE cs == Approximate(calls, Cheap(calls, bound))
             enc == Encode(lca[1], lca[2], cs, encodings)
  <1>1. /\ pc = "over" /\ encodings' = encodings + 1
        /\ UNCHANGED <<nodes, edges, locNum, error, lca>>
    BY DEF OverApproximate, fixedVars
  <1>2. PICK a, b, n, f, p, gs, ps : /\ a = lca[1] /\ b = lca[2] /\ n = encodings
                                     /\ f = enc.formula /\ p = enc.preds /\ gs = asserted /\ ps = preds
    OBVIOUS
  <1>3. \/ /\ asserted' = Append(gs, f) /\ marks' = Append(marks, Len(gs)) /\ preds' = Append(ps, p)
           /\ pc' = "inline"
        \/ top' = a /\ bottom' = b /\ asserted' = gs /\ preds' = ps /\ pc' = "under"
        \/ preds' = Append(ps, p) /\ pc' = "done"
    BY <1>2 DEF OverApproximate, Push, Finish
  <1>4. GraphInv /\ OrderInv /\ CallInv
    BY <1>1, LoopFacts
  <1>5. /\ n \in Nat /\ n > 0 /\ GoodScopes(ps, n) /\ Readable(gs, ps, a, b, n)
        /\ gs \in Seq(Formula) /\ marks \in Seq(Nat) /\ ps \in Seq(Scopes) /\ ps # <<>> /\ Between(a, b)
    BY <1>1, <1>2 DEF CacheInv, SoundInv, SolverInv, RegionInv, GoodScopes
  <1>6. a \in nodes /\ b \in nodes /\ locNum[a] <= locNum[b]
    <2>1. a \in nodes /\ Leads(a, b, edges)
      BY <1>5 DEF Between
    <2> QED BY <1>4, <2>1, RegionForward
  <1>7. f \in Formula /\ GoodScope(p, n + 1) /\ p \in Scopes
    <2> HIDE DEF cs
    <2>1. f = Encode(a, b, cs, n).formula /\ p = Encode(a, b, cs, n).preds
      BY <1>2
    <2>2. Encode(a, b, cs, n).formula \in Formula
      BY <1>4, <1>5, <1>6, EncodeIs
    <2>3. GoodScope(Encode(a, b, cs, n).preds, n + 1)
      BY ONLY <1>4, <1>5, <1>6, EncodePreds, EdgeInv
    <2> QED BY <2>1, <2>2, <2>3 DEF GoodScope
  <1> HIDE DEF enc
  <1>8. GoodScopes(ps, n + 1) /\ GoodScopes(Append(ps, p), n + 1) /\ n + 1 \in Nat /\ n <= n + 1 /\ n + 1 > 0
    BY <1>5, <1>7, GoodScopesFacts
  <1>9. Readable(gs, ps, a, b, n + 1)
    <2>1. \A l : SameAt(ps, ps, l)
      BY DEF SameAt
    <2> QED BY <1>5, <1>8, <2>1, ReadableSame
  <1>10. PICK k : k = n + 1
    OBVIOUS
  <1>11. k = encodings' /\ Readable(gs, ps, a, b, k)' /\ GoodScopes(ps, k)' /\ GoodScopes(Append(ps, p), k)'
    BY <1>1, <1>2, <1>8, <1>9, <1>10, SameReadable
  <1>12. CASE /\ asserted' = Append(gs, f) /\ marks' = Append(marks, Len(gs)) /\ preds' = Append(ps, p)
              /\ pc' = "inline"
    <2>1. Popped' = gs
      <3>1. Append(marks, Len(gs))[Len(Append(marks, Len(gs)))] = Len(gs)
        BY <1>5
      <3>2. Popped' = SubSeq(Append(gs, f), 1, Len(gs))
        BY <1>12, <3>1 DEF Popped
      <3> QED BY <1>5, <1>7, <3>2, PopAfterAppend
    <2>2. ButLast(preds)' = ps /\ Len(preds') > 1
      <3>1. Len(Append(ps, p)) = Len(ps) + 1 /\ Len(ps) \in Nat /\ Len(ps) > 0
        BY <1>5
      <3>2. SubSeq(Append(ps, p), 1, Len(ps)) = ps
        BY <1>5, <1>7
      <3>3. Len(ps) + 1 - 1 = Len(ps)
        BY <3>1
      <3> QED BY <1>12, <3>1, <3>2, <3>3 DEF ButLast
    <2>3. a = lca'[1] /\ b = lca'[2]
      BY <1>1, <1>2
    <2>4. Readable(Popped, ButLast(preds), lca[1], lca[2], encodings)'
      <3> HIDE DEF Popped, ButLast
      <3> QED BY <1>11, <2>1, <2>2, <2>3 DEF Readable, Made, StepsBack, UpTo, After
    <2>5. GoodScopes(preds, encodings)'
      BY <1>11, <1>12 DEF GoodScopes, GoodScope
    <2> QED BY <1>8, <1>10, <1>11, <1>12, <2>2, <2>4, <2>5 DEF CacheInv
  <1>13. CASE top' = a /\ bottom' = b /\ asserted' = gs /\ preds' = ps /\ pc' = "under"
    <2>1. GoodScopes(preds, encodings)'
      BY <1>11, <1>13 DEF GoodScopes, GoodScope
    <2>2. Readable(asserted, preds, top, bottom, encodings)'
      BY <1>11, <1>13 DEF Readable, Made, StepsBack, UpTo, After
    <2> QED BY <1>8, <1>10, <1>11, <1>13, <2>1, <2>2 DEF CacheInv
  <1>14. CASE preds' = Append(ps, p) /\ pc' = "done"
    <2>1. GoodScopes(preds, encodings)'
      BY <1>11, <1>14 DEF GoodScopes, GoodScope
    <2> QED BY <1>8, <1>10, <1>11, <1>14, <2>1 DEF CacheInv
  <1> QED BY <1>3, <1>12, <1>13, <1>14

\* Nothing that happens keeps what is said of a verdict, unless it is given.
LEMMA ErrorKept ==
    ASSUME ErrorRead, UNCHANGED verdict,
           pc # "done" \/ UNCHANGED <<pc, topo, nodes, edges, locNum, error, preds, cex>>
    PROVE  ErrorRead'
  <1>1. CASE verdict = "Fail"
    <2>1. pc = "done" /\ UNCHANGED <<pc, topo, nodes, edges, locNum, error, preds, cex>>
      BY <1>1 DEF ErrorRead
    <2>2. PICK m \in Model : cex = ReadCex(m, preds) /\ Leads(error, Entry, StepsBack(m, preds, nodes))
      BY <1>1 DEF ErrorRead
    <2>3. PICK ps, L : ps = preds /\ L = nodes
      OBVIOUS
    <2>4. ReadCex(m, ps)' = ReadCex(m, ps) /\ StepsBack(m, ps, L)' = StepsBack(m, ps, L)
      BY <2>1, SameReading
    <2>5. ps = preds' /\ L = nodes'
      BY <2>1, <2>3
    <2>6. ReadCex(m, preds)' = ReadCex(m, ps)' /\ StepsBack(m, preds, nodes)' = StepsBack(m, ps, L)'
      BY <2>5 DEF ReadCex, StepsBack
    <2>7. /\ cex' = ReadCex(m, preds)'
          /\ Leads(error, Entry, StepsBack(m, preds, nodes))'
      BY <2>1, <2>2, <2>3, <2>4, <2>6
    <2> QED BY <1>1, <2>1, <2>7 DEF ErrorRead, Sorted
  <1>2. CASE verdict # "Fail"
    BY <1>2 DEF ErrorRead
  <1> QED BY <1>1, <1>2

\* Every step keeps the invariant.
LEMMA CacheNext ==
    ASSUME Inv, SoundInv, EdgeInv, CacheInv, ErrorRead, [Next]_vars
    PROVE  CacheInv' /\ ErrorRead'
  <1> USE DEF graphVars, solverVars, fixedVars, loopVars
  <1>1. CASE InitializeErrorField
    <2>1. /\ pc = "errorField" /\ pc' \in {"remove", "done"} /\ UNCHANGED <<asserted, preds, encodings>>
          /\ verdict' \in {verdict, "Success"}
      BY <1>1 DEF InitializeErrorField, Finish
    <2> QED BY <2>1, CacheEarly, ErrorKept DEF ErrorRead
  <1>2. CASE RemoveIrrelevantLocations
    <2>1. pc = "remove" /\ pc' = "sort" /\ UNCHANGED <<asserted, preds, encodings, verdict>>
      BY <1>2 DEF RemoveIrrelevantLocations
    <2> QED BY <2>1, CacheEarly, ErrorKept
  <1>3. CASE CreateTopologicalSorts
    <2>1. /\ pc = "sort" /\ pc' \in {"eager", "done"} /\ UNCHANGED <<asserted, preds, encodings>>
          /\ verdict' \in {verdict, "Unknown"}
      BY <1>3 DEF CreateTopologicalSorts, Finish
    <2> QED BY <2>1, CacheEarly, ErrorKept DEF ErrorRead
  <1>4. CASE EagerIteration
    <2>1. /\ pc = "eager" /\ UNCHANGED <<asserted, preds, encodings>>
          /\ \/ pc' \in {"eagerInline", "done"}
             \/ pc' = "under" /\ top' = Entry /\ bottom' = error'
          /\ verdict' \in {verdict, "BoundReached"}
      BY <1>4 DEF EagerIteration, Finish
    <2>2. asserted = <<>>
      BY <2>1 DEF SoundInv, SolverInv
    <2> QED BY <2>1, <2>2, CacheEarly, ErrorKept DEF ErrorRead
  <1>5. CASE EagerInline
    <2>1. pc = "eagerInline" /\ UNCHANGED <<solverVars, error, lca, verdict>>
      BY <1>5 DEF EagerInline
    <2>2. CASE openCalls = {}
      <3>1. pc' = "eager" /\ UNCHANGED graphVars
        BY <1>5, <2>2 DEF EagerInline
      <3>2. PICK n, ps : n = encodings /\ ps = preds
        OBVIOUS
      <3>3. GoodScopes(ps, n) /\ n \in Nat /\ n > 0 /\ ps = <<EmptyScope>>
        BY <2>1, <3>2 DEF CacheInv
      <3>4. GoodScopes(ps, n)'
        BY <2>1, <3>1, <3>3, SameReadable
      <3>5. ps = preds' /\ n = encodings'
        BY <2>1, <3>2
      <3>6. GoodScopes(preds, encodings)'
        BY <3>4, <3>5 DEF GoodScopes, GoodScope
      <3>7. CacheInv'
        BY <3>1, <3>3, <3>5, <3>6 DEF CacheInv
      <3> QED BY <2>1, <3>7, ErrorKept
    <2>3. CASE openCalls # {}
      <3>1. UNCHANGED pc /\ \E c \in CallEdges : InlineCallIntoRoot(c)
        BY <1>5, <2>3 DEF EagerInline
      <3> QED BY <2>1, <3>1, CacheInline, ErrorKept
    <2> QED BY <2>2, <2>3
  <1>6. CASE UnderApproximate
    BY <1>6, CacheUnder
  <1>7. CASE SkipUnderApproximation
    <2>1. pc = "under" /\ UNCHANGED verdict
      BY <1>7 DEF SkipUnderApproximation
    <2> QED BY <1>7, <2>1, CacheSkip, ErrorKept
  <1>8. CASE SetStartAndTarget
    <2>1. pc = "start" /\ verdict' \in {verdict, "Success", "Abort"}
      BY <1>8 DEF SetStartAndTarget, Finish
    <2> QED BY <1>8, <2>1, CacheStart, ErrorKept DEF ErrorRead
  <1>9. CASE OverApproximate
    <2>1. pc = "over" /\ verdict' \in {verdict, "Success", "BoundReached", "Abort"}
      BY <1>9 DEF OverApproximate, Finish
    <2> QED BY <1>9, <2>1, CacheOver, ErrorKept DEF ErrorRead
  <1>10. CASE InlineNext
    <2>1. pc = "inline" /\ UNCHANGED <<pc, solverVars, error, lca, verdict>> /\ \E c \in CallEdges : InlineCallIntoRoot(c)
      BY <1>10 DEF InlineNext
    <2> QED BY <2>1, CacheInline, ErrorKept
  <1>11. CASE FinishInlining
    <2>1. pc = "inline" /\ UNCHANGED verdict
      BY <1>11 DEF FinishInlining
    <2> QED BY <1>11, <2>1, CacheFinish, ErrorKept
  <1>12. CASE Done \/ UNCHANGED vars
    <2>1. /\ UNCHANGED <<pc, verdict, topo, nodes, edges, locNum, error, preds, cex>>
          /\ UNCHANGED <<asserted, marks, encodings, top, bottom, lca>>
      BY <1>12 DEF Done, vars
    <2>2. ErrorRead'
      BY <2>1, ErrorKept
    <2>3. PICK n, fs, gs, ps, qs, a, b, c, d : /\ n = encodings /\ fs = asserted /\ gs = Popped /\ ps = preds
                                              /\ qs = ButLast(preds) /\ a = top /\ b = bottom
                                              /\ c = lca[1] /\ d = lca[2]
      OBVIOUS
    <2>4. /\ n = encodings' /\ fs = asserted' /\ gs = Popped' /\ ps = preds' /\ qs = ButLast(preds)'
          /\ a = top' /\ b = bottom' /\ c = lca'[1] /\ d = lca'[2]
      BY <2>1, <2>3 DEF Popped, ButLast
    <2>5. /\ GoodScopes(ps, n)' <=> GoodScopes(ps, n)
          /\ Readable(fs, ps, a, b, n)' <=> Readable(fs, ps, a, b, n)
          /\ Readable(fs, ps, c, d, n)' <=> Readable(fs, ps, c, d, n)
          /\ Readable(gs, qs, c, d, n)' <=> Readable(gs, qs, c, d, n)
      BY <2>1, SameReadable
    <2> HIDE DEF Popped, ButLast
    <2>6. /\ GoodScopes(ps, n)' <=> GoodScopes(preds, encodings)'
          /\ Readable(fs, ps, a, b, n)' <=> Readable(asserted, preds, top, bottom, encodings)'
          /\ Readable(fs, ps, c, d, n)' <=> Readable(asserted, preds, lca[1], lca[2], encodings)'
          /\ Readable(gs, qs, c, d, n)' <=> Readable(Popped, ButLast(preds), lca[1], lca[2], encodings)'
      BY <2>4 DEF GoodScopes, GoodScope, Readable, Made, StepsBack, UpTo, After
    <2>7. CacheInv'
      BY <2>1, <2>3, <2>5, <2>6 DEF CacheInv
    <2> QED BY <2>2, <2>7
  <1> QED BY <1>1, <1>2, <1>3, <1>4, <1>5, <1>6, <1>7, <1>8, <1>9, <1>10, <1>11, <1>12 DEF Next

-----------------------------------------------------------------------------
(* Reading a counterexample *)

\* ReadCex is the last value of a function that satisfies its equation.
WalkOn(q, k, m, ps) ==
    IF \/ Len(q) < k - 1
       \/ Known(ps, q[Len(q)]) = {}
       \/ PredecessorsIn(m, ps, q[Len(q)]) = {}
    THEN q
    ELSE Append(q, CHOOSE s \in PredecessorsIn(m, ps, q[Len(q)]) : TRUE)

AreWalks(W, m, ps) ==
    W = [k \in 1 .. Cardinality(nodes) |-> IF k = 1 THEN <<error>> ELSE WalkOn(W[k - 1], k, m, ps)]

Walks == Seq(nodes) \ {<<>>}

\* A walk stays in the graph.
LEMMA WalkOnType ==
    ASSUME NEW m, NEW ps, NEW n, GoodScopes(ps, n), NEW k, NEW q \in Walks
    PROVE  WalkOn(q, k, m, ps) \in Walks
  <1> DEFINE l == q[Len(q)]
  <1>1. q \in Seq(nodes) /\ Len(q) \in Nat /\ Len(q) > 0 /\ l \in nodes
    BY DEF Walks
  <1> HIDE DEF l
  <1>2. CASE Known(ps, l) # {} /\ PredecessorsIn(m, ps, l) # {}
    <2>1. ps \in Seq(Scopes) /\ \A i \in DOMAIN ps : GoodScope(ps[i], n)
      BY DEF GoodScopes
    <2>2. /\ Highest(Known(ps, l)) \in DOMAIN ps /\ l \in DOMAIN ps[Highest(Known(ps, l))]
      BY <1>2, <2>1, KnownFacts
    <2>3. PredecessorsIn(m, ps, l) \subseteq nodes
      BY <2>1, <2>2 DEF PredecessorsIn, GoodScope
    <2>4. PICK s : s = CHOOSE x \in PredecessorsIn(m, ps, l) : TRUE
      OBVIOUS
    <2>5. s \in nodes
      BY <1>2, <2>3, <2>4
    <2>6. Append(q, s) \in Seq(nodes) /\ Append(q, s) # <<>>
      <3>1. Append(q, s) \in Seq(nodes) /\ Len(Append(q, s)) = Len(q) + 1
        BY <1>1, <2>5
      <3> QED BY <1>1, <3>1
    <2>7. WalkOn(q, k, m, ps) = IF Len(q) < k - 1 THEN q ELSE Append(q, s)
      BY <1>2, <2>4 DEF WalkOn, l
    <2> QED BY <2>6, <2>7 DEF Walks
  <1>3. CASE ~(Known(ps, l) # {} /\ PredecessorsIn(m, ps, l) # {})
    BY <1>3 DEF WalkOn, l
  <1> QED BY <1>2, <1>3

\* There is such a function, and its values are walks.
LEMMA WalksAre ==
    ASSUME NEW m, NEW ps, NEW n, GoodScopes(ps, n), error \in nodes,
           Cardinality(nodes) \in Nat, Cardinality(nodes) > 0
    PROVE  \E W \in [1 .. Cardinality(nodes) -> Walks] :
              AreWalks(W, m, ps) /\ ReadCex(m, ps) = [input |-> m.input, locs |-> W[Cardinality(nodes)]]
  <1> DEFINE N == Cardinality(nodes)
             c == <<error>>
             st == [p \in (1 .. N) \X Walks |-> WalkOn(p[2], p[1], m, ps)]
             Is(W) == W = [k \in 1 .. N |->
                             IF k = 1 THEN <<error>>
                             ELSE LET q == W[k - 1]
                                      l == q[Len(q)]
                                  IN  IF \/ Len(q) < k - 1
                                         \/ Known(ps, l) = {}
                                         \/ PredecessorsIn(m, ps, l) = {}
                                      THEN q
                                      ELSE Append(q, CHOOSE s \in PredecessorsIn(m, ps, l) : TRUE)]
  <1>0. N \in Nat /\ 1 <= N /\ N > 0
    OBVIOUS
  <1>1. c \in Walks
    BY DEF Walks
  <1>2. ASSUME NEW i \in 1 .. N, NEW q \in Walks
        PROVE  st[<<i, q>>] = WalkOn(q, i, m, ps) /\ st[<<i, q>>] \in Walks
    <2>1. st[<<i, q>>] = WalkOn(q, i, m, ps)
      OBVIOUS
    <2>2. WalkOn(q, i, m, ps) \in Walks
      BY WalkOnType
    <2> QED BY <2>1, <2>2
  <1>3. \A W : Is(W) <=> AreWalks(W, m, ps)
    BY DEF AreWalks, WalkOn
  <1> HIDE DEF c, st, N, Is
  <1>4. \A i \in 1 + 1 .. N : \A q \in Walks : st[<<i, q>>] \in Walks
    <2>1. \A i \in 1 + 1 .. N : i \in 1 .. N
      BY <1>0
    <2> QED BY <1>2, <2>1
  <1>5. PICK W \in [1 .. N -> Walks] : GoesUp(W, 1, N, c, st)
    BY <1>0, <1>1, <1>4, RecursionUp
  <1>6. ASSUME NEW V, AreWalks(V, m, ps) PROVE V \in [1 .. N -> Walks]
    <2>1. V = [k \in 1 .. N |-> IF k = 1 THEN c ELSE WalkOn(V[k - 1], k, m, ps)]
      BY <1>6 DEF AreWalks, N, c
    <2> DEFINE S == {i \in 1 .. N : V[i] \in Walks}
    <2>2. 1 <= N => 1 \in S
      BY <1>0, <1>1, <2>1
    <2>3. ASSUME NEW i \in 1 .. N, i \in S, i < N PROVE i + 1 \in S
      <3>1. i + 1 \in 1 .. N /\ i + 1 # 1 /\ i + 1 - 1 = i
        BY <1>0, <2>3
      <3>2. V[i + 1] = WalkOn(V[i], i + 1, m, ps)
        BY <2>1, <3>1
      <3> QED BY <2>3, <3>1, <3>2, WalkOnType
    <2> HIDE DEF S
    <2>4. 1 .. N \subseteq S
      BY <1>0, <2>2, <2>3, IntervalInduction
    <2>5. \A i \in 1 .. N : V[i] \in Walks
      BY <2>4 DEF S
    <2>6. V = [k \in 1 .. N |-> V[k]]
      BY <2>1
    <2> QED BY <2>5, <2>6
  <1>7. AreWalks(W, m, ps)
    <2>1. ASSUME NEW k \in 1 .. N, k # 1 PROVE W[k] = WalkOn(W[k - 1], k, m, ps)
      <3>1. k - 1 \in 1 .. N
        BY <1>0, <2>1
      <3>2. W[k] = st[<<k, W[k - 1]>>] /\ W[k - 1] \in Walks
        BY <1>5, <2>1, <3>1 DEF GoesUp
      <3> QED BY <1>2, <3>2
    <2>2. W[1] = c
      BY <1>0, <1>5 DEF GoesUp
    <2>3. W = [k \in 1 .. N |-> IF k = 1 THEN c ELSE WalkOn(W[k - 1], k, m, ps)]
      BY <1>5, <2>1, <2>2
    <2> QED BY <2>3 DEF AreWalks, N, c
  <1> DEFINE Q == CHOOSE V : Is(V)
  <1>8. Is(Q)
    BY <1>3, <1>7
  <1>9. ReadCex(m, ps) = [input |-> m.input, locs |-> Q[N]]
    BY DEF ReadCex, Is, N
  <1> HIDE DEF Q
  <1>10. AreWalks(Q, m, ps)
    BY <1>3, <1>8
  <1>11. Q \in [1 .. N -> Walks]
    BY <1>6, <1>10
  <1> QED BY <1>9, <1>10, <1>11 DEF N

\* A walk of the reader: at most k locations from the error goal on, back over
\* transitions that the input takes.  It has come to the entry, or it is still
\* on its way and as long as it can be.
IsWalk(q, k, m, ps) ==
    /\ q[1] = error /\ Len(q) <= k
    /\ \A i \in 1 .. Len(q) - 1 : Takes(m.input, q[i + 1], q[i])
    /\ Leads(q[Len(q)], Entry, StepsBack(m, ps, nodes))
    /\ q[Len(q)] = Entry \/ (Len(q) = k /\ locNum[q[Len(q)]] + k <= Len(topo) + 1)

\* A way back to the entry starts with the only step the reader can take.
LEMMA BackStep ==
    ASSUME GraphInv, OrderInv, NEW m, NEW ps, NEW l \in nodes, l # Entry,
           Leads(l, Entry, StepsBack(m, ps, nodes))
    PROVE  \E s \in nodes : /\ Known(ps, l) # {} /\ PredecessorsIn(m, ps, l) = {s}
                            /\ Takes(m.input, s, l) /\ locNum[s] < locNum[l]
                            /\ Leads(s, Entry, StepsBack(m, ps, nodes))
  <1> DEFINE E == StepsBack(m, ps, nodes)
  <1>1. PICK e \in E : e.src = l /\ Leads(e.dst, Entry, E)
    <2> HIDE DEF E
    <2> QED BY LeadsFirst DEF E
  <1>2. PICK s : s = e.dst
    OBVIOUS
  <1>3. s \in nodes /\ IsStepBack(m, ps, <<l, s>>)
    BY <1>1, <1>2, StepBackIs
  <1>4. Known(ps, l) # {} /\ PredecessorsIn(m, ps, l) = {s} /\ Takes(m.input, s, l)
    <2>1. <<l, s>>[1] = l /\ <<l, s>>[2] = s
      OBVIOUS
    <2> QED BY <1>3, <2>1 DEF IsStepBack
  <1>5. locNum[s] < locNum[l]
    BY <1>4 DEF Takes, OrderInv
  <1> QED BY <1>1, <1>2, <1>3, <1>4, <1>5

\* Nothing is known of the entry, so there a walk ends.
LEMMA EntryUnknown ==
    ASSUME NEW ps, NEW n, GoodScopes(ps, n)
    PROVE  Known(ps, Entry) = {}
  BY DEF Known, GoodScopes, GoodScope

\* The reader's next step.
LEMMA WalkStep ==
    ASSUME GraphInv, OrderInv, NEW m, NEW ps, NEW n, GoodScopes(ps, n),
           NEW k \in Nat, NEW q \in Walks, IsWalk(q, k, m, ps)
    PROVE  IsWalk(WalkOn(q, k + 1, m, ps), k + 1, m, ps)
  <1> DEFINE l == q[Len(q)]
  <1>1. /\ q \in Seq(nodes) /\ Len(q) \in Nat /\ Len(q) > 0 /\ l \in nodes /\ Len(q) <= k
        /\ Len(q) < k + 1 - 1 <=> Len(q) < k
    BY DEF Walks, IsWalk
  <1> HIDE DEF l
  <1>2. CASE l = Entry
    <2>1. WalkOn(q, k + 1, m, ps) = q
      BY <1>2, EntryUnknown DEF WalkOn, l
    <2> QED BY <1>1, <1>2, <2>1 DEF IsWalk, l
  <1>3. CASE l # Entry
    <2>1. Len(q) = k /\ locNum[l] + k <= Len(topo) + 1 /\ Leads(l, Entry, StepsBack(m, ps, nodes))
      BY <1>3 DEF IsWalk, l
    <2>2. PICK s \in nodes : /\ Known(ps, l) # {} /\ PredecessorsIn(m, ps, l) = {s}
                             /\ Takes(m.input, s, l) /\ locNum[s] < locNum[l]
                             /\ Leads(s, Entry, StepsBack(m, ps, nodes))
      BY <1>1, <1>3, <2>1, BackStep
    <2>3. WalkOn(q, k + 1, m, ps) = Append(q, s)
      <3>1. PredecessorsIn(m, ps, l) # {} /\ (CHOOSE x \in PredecessorsIn(m, ps, l) : TRUE) = s
        BY <2>2
      <3>2. ~(Len(q) < k + 1 - 1)
        BY <1>1, <2>1
      <3> QED BY <2>2, <3>1, <3>2 DEF WalkOn, l
    <2> DEFINE r == Append(q, s)
    <2>4. /\ Len(r) = k + 1 /\ r[Len(r)] = s
          /\ \A i \in 1 .. Len(q) : r[i] = q[i]
      BY <1>1, <2>1
    <2>5. r[1] = error
      BY <1>1, <2>4 DEF IsWalk
    <2>6. r[Len(q)] = l /\ r[Len(q) + 1] = s
      BY <1>1, <2>1, <2>4 DEF l
    <2> HIDE DEF r
    <2>7. ASSUME NEW i \in 1 .. Len(r) - 1 PROVE Takes(m.input, r[i + 1], r[i])
      <3>1. i \in 1 .. Len(q)
        BY <1>1, <2>1, <2>4
      <3>2. CASE i = Len(q)
        BY <2>2, <2>6, <3>2
      <3>3. CASE i # Len(q)
        <4>1. i \in 1 .. Len(q) - 1 /\ i + 1 \in 1 .. Len(q)
          BY <1>1, <3>1, <3>3
        <4>2. r[i] = q[i] /\ r[i + 1] = q[i + 1]
          BY <2>4, <3>1, <4>1
        <4> QED BY <4>1, <4>2 DEF IsWalk
      <3> QED BY <3>2, <3>3
    <2>8. locNum[s] + (k + 1) <= Len(topo) + 1
      <3>1. locNum[s] \in Nat /\ locNum[l] \in Nat /\ Len(topo) \in Nat
        BY <1>1, NumberFacts
      <3> QED BY <2>1, <2>2, <3>1
    <2>9. IsWalk(r, k + 1, m, ps)
      BY <2>2, <2>4, <2>5, <2>7, <2>8 DEF IsWalk
    <2> QED BY <2>3, <2>9 DEF r
  <1> QED BY <1>2, <1>3

\* What the reader reads when a way leads back to the entry: a way through the
\* graph, from the error goal back to the entry, that the input takes.
LEMMA ReadsBack ==
    ASSUME GraphInv, OrderInv, EdgeInv, error \in nodes, NEW m, NEW ps, NEW n, GoodScopes(ps, n),
           Leads(error, Entry, StepsBack(m, ps, nodes))
    PROVE  \E q \in Seq(nodes) :
              /\ ReadCex(m, ps) = [input |-> m.input, locs |-> q]
              /\ Len(q) > 1 /\ q[1] = error /\ q[Len(q)] = Entry
              /\ \A i \in 1 .. Len(q) - 1 : Takes(m.input, q[i + 1], q[i])
  <1> DEFINE N == Cardinality(nodes)
  <1>1. N = Len(topo) /\ N \in Nat
    BY LocationsCount
  <1>2. N > 0 /\ locNum[error] \in 1 .. N
    BY <1>1, NumberFacts
  <1> HIDE DEF N
  <1>3. PICK W \in [1 .. N -> Walks] :
          AreWalks(W, m, ps) /\ ReadCex(m, ps) = [input |-> m.input, locs |-> W[N]]
    BY <1>1, <1>2, WalksAre DEF N
  <1>4. W = [k \in 1 .. N |-> IF k = 1 THEN <<error>> ELSE WalkOn(W[k - 1], k, m, ps)]
    BY <1>3 DEF AreWalks, N
  <1> DEFINE S == {k \in 1 .. N : IsWalk(W[k], k, m, ps)}
  <1>5. 1 <= N => 1 \in S
    <2>1. 1 \in 1 .. N /\ W[1] = <<error>>
      BY <1>1, <1>2, <1>4
    <2> DEFINE q == <<error>>
    <2>2. Len(q) = 1 /\ q[1] = error
      OBVIOUS
    <2>3. locNum[error] + 1 <= Len(topo) + 1
      BY <1>1, <1>2
    <2> HIDE DEF q
    <2>4. IsWalk(q, 1, m, ps)
      BY <2>2, <2>3 DEF IsWalk
    <2> QED BY <2>1, <2>4 DEF q
  <1>6. ASSUME NEW k \in 1 .. N, k \in S, k < N PROVE k + 1 \in S
    <2>1. k + 1 \in 1 .. N /\ k + 1 # 1 /\ k + 1 - 1 = k /\ k \in Nat
      BY <1>1, <1>6
    <2>2. W[k + 1] = WalkOn(W[k], k + 1, m, ps)
      BY <1>4, <2>1
    <2>3. W[k] \in Walks
      BY <1>3
    <2>4. IsWalk(W[k + 1], k + 1, m, ps)
      BY <1>6, <2>1, <2>2, <2>3, WalkStep
    <2> QED BY <2>1, <2>4
  <1>7. 1 .. N \subseteq S
    <2> HIDE DEF S
    <2> QED BY <1>1, <1>5, <1>6, IntervalInduction
  <1>8. PICK q \in Walks : q = W[N] /\ IsWalk(q, N, m, ps)
    <2>1. N \in 1 .. N
      BY <1>1, <1>2
    <2>2. IsWalk(W[N], N, m, ps)
      BY <1>7, <2>1
    <2> QED BY <1>3, <2>1, <2>2
  <1>9. q \in Seq(nodes) /\ Len(q) \in Nat /\ Len(q) > 0 /\ q[Len(q)] \in nodes
    BY DEF Walks
  <1>10. q[Len(q)] = Entry
    <2> SUFFICES ASSUME q[Len(q)] # Entry PROVE FALSE
      OBVIOUS
    <2> DEFINE l == q[Len(q)]
    <2>1. l \in nodes /\ l # Entry /\ Leads(l, Entry, StepsBack(m, ps, nodes)) /\ locNum[l] + N <= Len(topo) + 1
      BY <1>8, <1>9 DEF IsWalk
    <2> HIDE DEF l
    <2>2. PICK s \in nodes : locNum[s] < locNum[l]
      BY <2>1, BackStep
    <2>3. locNum[s] \in 1 .. Len(topo) /\ locNum[l] \in 1 .. Len(topo)
      BY <2>1, <2>2, NumberFacts
    <2> QED BY <1>1, <2>1, <2>2, <2>3
  <1>11. q[1] = error /\ error # Entry
    BY <1>8 DEF IsWalk, EdgeInv
  <1>12. Len(q) > 1
    BY <1>9, <1>10, <1>11
  <1> QED BY <1>3, <1>8, <1>9, <1>10, <1>11, <1>12 DEF IsWalk

-----------------------------------------------------------------------------
(* What the interpreter makes of it *)

\* A step of the interpreter makes a stack of a stack.
LEMMA StackStepsType ==
    ASSUME prog \in Programs, NEW st \in Stacks, NEW at
    PROVE  StackSteps(st, at) \subseteq Stacks
  <1> DEFINE f == st[Len(st)]
             below == ButLast(st)
             Taking == {e \in EdgesOf(prog[f.proc]) : e.src = f.loc /\ f.in \in e.guard}
             New(e) == <<Frame(f.proc, e.dst, f.in), Frame(e.callee, Entry, e.arg[f.in])>>
             here == {Append(below, Frame(f.proc, at[2], f.in)) :
                        e \in {e \in Taking : ~IsCall(e) /\ <<f.proc, e.dst>> = at}}
             calling == {below \o New(e) : e \in {e \in Taking : IsCall(e) /\ <<e.callee, Entry>> = at}}
             returning == IF Len(st) > 1 /\ f.loc = Exit
                          THEN {s \in {below} : <<s[Len(s)].proc, s[Len(s)].loc>> = at} ELSE {}
  <1>1. StackSteps(st, at) = here \cup calling \cup returning
    BY DEF StackSteps
  <1>2. /\ st \in Seq(Frames) /\ Len(st) \in Nat /\ Len(st) > 0 /\ f \in Frames
        /\ f.proc \in Procs /\ f.in \in World
    <2>1. st \in Seq(Frames) /\ Len(st) \in Nat /\ Len(st) > 0
      BY DEF Stacks
    <2>2. f \in Frames
      BY <2>1
    <2> HIDE DEF f
    <2> QED BY <2>1, <2>2 DEF Frames
  <1>3. below \in Seq(Frames) /\ Len(below) = Len(st) - 1
    <2>1. PICK k \in Nat : k = Len(st) - 1
      BY <1>2
    <2>2. SubSeq(st, 1, k) \in Seq(Frames) /\ Len(SubSeq(st, 1, k)) = k
      BY <1>2, <2>1
    <2> QED BY <2>1, <2>2 DEF ButLast
  <1> HIDE DEF f, below
  <1>4. ASSUME NEW e \in Taking
        PROVE  /\ e.dst \in Nat /\ e.callee \in Procs \cup {NoProc} /\ e.arg[f.in] \in World
    <2>1. PICK k \in DOMAIN prog[f.proc].edges : e = prog[f.proc].edges[k]
      BY DEF EdgesOf
    <2> QED BY <1>2, <2>1, TransitionFacts
  <1> HIDE DEF Taking
  <1>5. ASSUME NEW x \in here PROVE x \in Stacks
    <2>1. PICK e \in Taking : <<f.proc, e.dst>> = at /\ x = Append(below, Frame(f.proc, at[2], f.in))
      OBVIOUS
    <2>2. at[2] = e.dst
      <3>1. <<f.proc, e.dst>>[2] = e.dst
        OBVIOUS
      <3> QED BY <2>1, <3>1
    <2>3. Frame(f.proc, at[2], f.in) \in Frames
      BY <1>2, <1>4, <2>2 DEF Frame, Frames
    <2>4. PICK g \in Frames : g = Frame(f.proc, at[2], f.in)
      BY <2>3
    <2>5. Append(below, g) \in Seq(Frames) /\ Len(Append(below, g)) = Len(below) + 1
      BY <1>3
    <2>6. Append(below, g) # <<>>
      BY <1>2, <1>3, <2>5
    <2> QED BY <2>1, <2>4, <2>5, <2>6 DEF Stacks
  <1>6. ASSUME NEW x \in calling PROVE x \in Stacks
    <2>1. PICK e \in Taking : IsCall(e) /\ x = below \o New(e)
      OBVIOUS
    <2>2. PICK g, h : g = Frame(f.proc, e.dst, f.in) /\ h = Frame(e.callee, Entry, e.arg[f.in])
      OBVIOUS
    <2>3. g \in Frames /\ h \in Frames
      BY <1>2, <1>4, <2>1, <2>2 DEF Frame, Frames, IsCall, Entry
    <2>4. x = below \o <<g, h>>
      BY <2>1, <2>2
    <2> HIDE DEF New, calling
    <2>5. <<g, h>> \in Seq(Frames) /\ Len(<<g, h>>) = 2
      BY <2>3
    <2>6. x \in Seq(Frames) /\ Len(x) = Len(below) + 2
      BY <1>3, <2>4, <2>5
    <2> QED BY <1>2, <1>3, <2>6 DEF Stacks
  <1>7. ASSUME NEW x \in returning PROVE x \in Stacks
    <2>1. x = below /\ Len(st) > 1
      OBVIOUS
    <2>2. below # <<>>
      BY <1>2, <1>3, <2>1
    <2> QED BY <1>3, <2>1, <2>2 DEF Stacks
  <1> QED BY <1>1, <1>5, <1>6, <1>7

\* Runs is the last value of a function that satisfies its equation.
StartStacks(q, w) == {s \in {<<Frame(Main, Entry, w)>>} : q[1] = <<Main, Entry>>}

AreRuns(R, q, w) ==
    R = [k \in 1 .. Len(q) |-> IF k = 1 THEN StartStacks(q, w)
                               ELSE UNION {StackSteps(st, q[k]) : st \in R[k - 1]}]

\* There is such a function.
LEMMA RunsAre ==
    ASSUME prog \in Programs, NEW q, Len(q) \in Nat, Len(q) > 0, NEW w \in World
    PROVE  \E R : AreRuns(R, q, w) /\ Runs(q, w) = R[Len(q)]
  <1> DEFINE n == Len(q)
             V == SUBSET Stacks
             c == StartStacks(q, w)
             On(x, k) == UNION {StackSteps(st, q[k]) : st \in x}
             t == [p \in (1 .. n) \X V |-> On(p[2], p[1])]
             Is(R) == R = [k \in 1 .. n |-> IF k = 1 THEN {s \in {<<Frame(Main, Entry, w)>>} : q[1] = <<Main, Entry>>}
                                            ELSE UNION {StackSteps(st, q[k]) : st \in R[k - 1]}]
  <1>0. n \in Nat /\ 1 <= n
    OBVIOUS
  <1>1. c \in V
    <2>1. Frame(Main, Entry, w) \in Frames
      BY ProcsAssumption DEF Frame, Frames, Entry
    <2>2. PICK f \in Frames : f = Frame(Main, Entry, w)
      BY <2>1
    <2>3. <<f>> \in Seq(Frames) /\ <<f>> # <<>>
      OBVIOUS
    <2> QED BY <2>2, <2>3 DEF StartStacks, Stacks
  <1>2. ASSUME NEW i \in 1 .. n, NEW x \in V
        PROVE  t[<<i, x>>] = On(x, i) /\ t[<<i, x>>] \in V
    <2>1. t[<<i, x>>] = On(x, i)
      OBVIOUS
    <2>2. ASSUME NEW st \in x PROVE StackSteps(st, q[i]) \subseteq Stacks
      BY StackStepsType
    <2>3. On(x, i) \in V
      BY <2>2
    <2> QED BY <2>1, <2>3
  <1>3. \A R : Is(R) <=> AreRuns(R, q, w)
    BY DEF AreRuns, StartStacks
  <1> HIDE DEF c, t, n, V, Is, On
  <1>4. \A i \in 1 + 1 .. n : \A x \in V : t[<<i, x>>] \in V
    <2>1. \A i \in 1 + 1 .. n : i \in 1 .. n
      BY <1>0
    <2> QED BY <1>2, <2>1
  <1>5. PICK R \in [1 .. n -> V] : GoesUp(R, 1, n, c, t)
    BY <1>0, <1>1, <1>4, RecursionUp
  <1>6. AreRuns(R, q, w)
    <2>1. ASSUME NEW k \in 1 .. n, k # 1 PROVE R[k] = On(R[k - 1], k)
      <3>1. k - 1 \in 1 .. n
        BY <1>0, <2>1
      <3>2. R[k] = t[<<k, R[k - 1]>>] /\ R[k - 1] \in V
        BY <1>5, <2>1, <3>1 DEF GoesUp
      <3> QED BY <1>2, <3>2
    <2>2. R[1] = c
      BY <1>0, <1>5 DEF GoesUp
    <2>3. R = [k \in 1 .. n |-> IF k = 1 THEN c ELSE On(R[k - 1], k)]
      BY <1>5, <2>1, <2>2
    <2> QED BY <2>3 DEF AreRuns, n, c, On
  <1> DEFINE Q == CHOOSE U : Is(U)
  <1>7. Is(Q)
    BY <1>3, <1>6
  <1>8. Runs(q, w) = Q[n]
    BY DEF Runs, Is, n
  <1> HIDE DEF Q
  <1>9. AreRuns(Q, q, w)
    BY <1>3, <1>7
  <1> QED BY <1>8, <1>9 DEF n

\* A way back from the error goal, read from its end, is a run of the program.
LEMMA WayIsRun ==
    ASSUME GraphInv, EdgeInv, NEW S, IsStackMap(S), NEW w \in World, NEW q \in Seq(nodes),
           Len(q) > 1, q[1] = error, q[Len(q)] = Entry,
           \A i \in 1 .. Len(q) - 1 : Takes(w, q[i + 1], q[i])
    PROVE  LET run == [k \in 1 .. Len(q) - 1 |-> SourceOf(q[Len(q) + 1 - k])]
           IN  /\ S[q[2]][w] \in Runs(run, w)
               /\ TopFrame(S[q[2]][w]).loc \in prog[TopFrame(S[q[2]][w]).proc].err
  <1> DEFINE n == Len(q)
             run == [k \in 1 .. n - 1 |-> SourceOf(q[n + 1 - k])]
  <1>1. n \in Nat /\ n > 1 /\ n - 1 \in Nat /\ prog \in Programs /\ \A i \in 1 .. n : q[i] \in nodes
    BY DEF GraphInv
  <1>2. /\ \A k \in 1 .. n - 1 : run[k] = SourceOf(q[n + 1 - k])
        /\ Len(run) = n - 1
    BY <1>1
  <1> HIDE DEF n, run
  <1>3. PICK R : AreRuns(R, run, w) /\ Runs(run, w) = R[n - 1]
    BY <1>1, <1>2, RunsAre
  <1>4. R = [k \in 1 .. n - 1 |-> IF k = 1 THEN StartStacks(run, w)
                                  ELSE UNION {StackSteps(st, run[k]) : st \in R[k - 1]}]
    BY <1>2, <1>3 DEF AreRuns
  <1>5. ASSUME NEW i \in 1 .. n - 1
        PROVE  \E e \in edges : /\ e.src = q[i + 1] /\ e.dst = q[i] /\ Performs(S, e, w)
                                /\ ~IsCall(e) /\ q[i + 1] # error
    <2>1. PICK e \in edges : e.src = q[i + 1] /\ e.dst = q[i] /\ ~IsCall(e) /\ w \in e.guard
      BY DEF Takes, n
    <2>2. e.src # error
      BY <2>1 DEF EdgeInv
    <2> QED BY <2>1, <2>2 DEF IsStackMap
  <1> DEFINE T == {k \in 1 .. n - 1 : S[q[n + 1 - k]][w] \in R[k]}
  <1>6. 1 <= n - 1 => 1 \in T
    <2>1. 1 \in 1 .. n - 1 /\ n + 1 - 1 = n
      BY <1>1
    <2>2. q[n] = Entry /\ Entry \in nodes \ {error}
      BY <1>1 DEF n, EdgeInv
    <2>3. /\ S[Entry][w] = <<Frame(Main, Entry, w)>>
          /\ IsAt(S[Entry][w], SourceOf(Entry))
      BY <2>2 DEF IsStackMap
    <2>4. SourceOf(Entry) = <<Main, Entry>>
      <3> DEFINE f == Frame(Main, Entry, w)
      <3>1. f.proc = Main /\ f.loc = Entry
        BY DEF Frame
      <3> HIDE DEF f
      <3>2. <<f>>[Len(<<f>>)] = f
        OBVIOUS
      <3> QED BY <2>3, <3>1, <3>2 DEF IsAt, TopFrame, f
    <2>5. run[1] = <<Main, Entry>>
      BY <1>2, <2>1, <2>2, <2>4
    <2>6. R[1] = StartStacks(run, w)
      BY <1>4, <2>1
    <2>7. S[q[n + 1 - 1]][w] \in R[1]
      BY <2>1, <2>2, <2>3, <2>5, <2>6 DEF StartStacks
    <2> QED BY <2>1, <2>7
  <1>7. ASSUME NEW k \in 1 .. n - 1, k \in T, k < n - 1 PROVE k + 1 \in T
    <2>1. PICK j \in 2 .. n - 1 : j = n - k
      BY <1>1, <1>7
    <2>2. /\ n + 1 - k = j + 1 /\ n + 1 - (k + 1) = j /\ j - 1 \in 1 .. n - 1 /\ j \in 1 .. n - 1
          /\ k + 1 \in 1 .. n - 1 /\ k + 1 # 1 /\ k + 1 - 1 = k /\ j - 1 + 1 = j
      BY <1>1, <1>7, <2>1
    <2>3. PICK e \in edges : e.src = q[j + 1] /\ e.dst = q[j] /\ Performs(S, e, w) /\ ~IsCall(e)
      BY <1>5, <2>2
    <2>4. q[j] # error
      BY <1>5, <2>2
    <2>5. S[q[j]][w] \in StackSteps(S[q[j + 1]][w], SourceOf(q[j]))
      BY <2>3, <2>4 DEF Performs
    <2>6. run[k + 1] = SourceOf(q[j])
      BY <1>2, <2>2
    <2>7. R[k + 1] = UNION {StackSteps(st, run[k + 1]) : st \in R[k]}
      BY <1>4, <2>2
    <2>8. S[q[j + 1]][w] \in R[k]
      BY <1>7, <2>2
    <2>9. S[q[j]][w] \in R[k + 1]
      BY <2>5, <2>6, <2>7, <2>8
    <2> QED BY <2>2, <2>9
  <1>8. S[q[2]][w] \in R[n - 1]
    <2>1. 1 .. n - 1 \subseteq T
      <3> HIDE DEF T
      <3> QED BY <1>1, <1>6, <1>7, IntervalInduction
    <2>2. n - 1 \in 1 .. n - 1 /\ n + 1 - (n - 1) = 2
      BY <1>1
    <2>3. n - 1 \in T
      BY <2>1, <2>2
    <2> QED BY <2>2, <2>3
  <1>9. TopFrame(S[q[2]][w]).loc \in prog[TopFrame(S[q[2]][w]).proc].err
    <2>1. 1 \in 1 .. n - 1 /\ 1 + 1 = 2
      BY <1>1
    <2>2. PICK e \in edges : e.src = q[2] /\ e.dst = q[1] /\ Performs(S, e, w) /\ ~IsCall(e)
      BY <1>5, <2>1
    <2> QED BY <2>2 DEF Performs
  <1> QED BY <1>3, <1>8, <1>9 DEF run, n

\* So what is read with a verdict Fail is a run to an error location.
LEMMA ReadIsReal ==
    ASSUME Inv, EdgeInv, StackInv, CacheInv, ErrorRead
    PROVE  FailIsReal
  <1> SUFFICES ASSUME verdict = "Fail" PROVE FailIsReal
    BY DEF FailIsReal
  <1>1. GraphInv /\ OrderInv /\ error \in nodes /\ GoodScopes(preds, encodings)
    BY DEF ErrorRead, Inv, ErrorIsLast, CacheInv
  <1>2. PICK m \in Model : cex = ReadCex(m, preds) /\ Leads(error, Entry, StepsBack(m, preds, nodes))
    BY DEF ErrorRead
  <1>3. PICK q \in Seq(nodes) :
              /\ ReadCex(m, preds) = [input |-> m.input, locs |-> q]
              /\ Len(q) > 1 /\ q[1] = error /\ q[Len(q)] = Entry
              /\ \A i \in 1 .. Len(q) - 1 : Takes(m.input, q[i + 1], q[i])
    BY <1>1, <1>2, ReadsBack
  <1>4. cex.input = m.input /\ cex.locs = q /\ m.input \in World
    BY <1>2, <1>3 DEF Model
  <1>5. PICK S : IsStackMap(S)
    BY DEF StackInv
  <1> DEFINE run == [k \in 1 .. Len(q) - 1 |-> SourceOf(q[Len(q) + 1 - k])]
             st == S[q[2]][m.input]
  <1>6. st \in Runs(run, m.input) /\ TopFrame(st).loc \in prog[TopFrame(st).proc].err
    BY <1>1, <1>3, <1>4, <1>5, WayIsRun
  <1> HIDE DEF st
  <1> QED BY <1>3, <1>4, <1>6 DEF FailIsReal, TopFrame

\* In every execution, a verdict Fail comes with a run of the program, from
\* the entry of main, through calls and returns that the input really takes,
\* to an error location.
THEOREM ReportedErrorsAreReal == Spec => []FailIsReal
  <1>1. Spec => []EdgeInv
    BY EdgeInit, EdgeNext, Invariance, PTL DEF Spec
  <1>2. Spec => []StackInv
    BY <1>1, StackInit, StackNext, Invariance, PTL DEF Spec
  <1>3. Spec => [](CacheInv /\ ErrorRead)
    BY <1>1, CacheInit, CacheNext, Invariance, Soundness, PTL DEF Spec
  <1> QED BY <1>1, <1>2, <1>3, ReadIsReal, Invariance, PTL

-----------------------------------------------------------------------------
(* Types *)

(***************************************************************************)
(* What the other invariants leave of the types.  StatusInv: check()       *)
(* returns when it has a verdict, and only then.  ApproxInv: the records   *)
(* of the calls.  ScopesInv: a scope of the solver has one of the          *)
(* predecessor cache, and the cache has its root besides.  LoopInv: the    *)
(* variables of the loop.                                                  *)
(***************************************************************************)
StatusInv == pc \in Steps /\ verdict \in Statuses /\ (pc = "done") = (verdict # "Running")
ApproxInv == /\ ~Sorted => DOMAIN calls = {}
             /\ \A i \in DOMAIN calls : calls[i].approx \in BOOLEAN
ScopesInv == Len(preds) = Len(marks) + 1
LoopInv == /\ openCalls \subseteq Nat /\ work \in Seq(Nat)
           /\ bound \in Nat /\ unhandled \in Nat /\ skipUnderApprox \in BOOLEAN
TypeInv == StatusInv /\ ApproxInv /\ ScopesInv /\ LoopInv

\* Initially.
LEMMA TypeInit == Init => TypeInv
  <1> SUFFICES ASSUME Init PROVE TypeInv
    OBVIOUS
  <1>1. StatusInv
    BY DEF Init, StatusInv, Steps, Statuses
  <1>2. ApproxInv
    BY DEF Init, ApproxInv, EmptyScope
  <1>3. ScopesInv
    <2>1. preds = <<EmptyScope>> /\ marks = <<>>
      BY DEF Init
    <2> QED BY <2>1 DEF ScopesInv
  <1>4. LoopInv
    <2>1. openCalls = {} /\ work = <<>> /\ bound = 0 /\ unhandled = 0 /\ skipUnderApprox = FALSE
      BY DEF Init
    <2>2. <<>> \in Seq(Nat)
      OBVIOUS
    <2>3. work \in Seq(Nat)
      BY <2>1, <2>2
    <2> QED BY <2>1, <2>3 DEF LoopInv
  <1> QED BY <1>1, <1>2, <1>3, <1>4 DEF TypeInv

\* check() returns when it has a verdict.
LEMMA StatusNext ==
    ASSUME StatusInv, [Next]_vars
    PROVE  StatusInv'
  <1> USE DEF StatusInv, Steps, Statuses, Finish
  <1>1. CASE InitializeErrorField \/ RemoveIrrelevantLocations \/ CreateTopologicalSorts
    BY <1>1 DEF InitializeErrorField, RemoveIrrelevantLocations, CreateTopologicalSorts
  <1>2. CASE EagerIteration \/ EagerInline
    BY <1>2 DEF EagerIteration, EagerInline
  <1>3. CASE UnderApproximate
    BY <1>3 DEF UnderApproximate
  <1>4. CASE SkipUnderApproximation \/ InlineNext \/ FinishInlining
    BY <1>4 DEF SkipUnderApproximation, InlineNext, FinishInlining
  <1>5. CASE SetStartAndTarget
    BY <1>5 DEF SetStartAndTarget
  <1>6. CASE OverApproximate
    BY <1>6 DEF OverApproximate
  <1>7. CASE Done \/ UNCHANGED vars
    BY <1>7 DEF Done, vars
  <1> QED BY <1>1, <1>2, <1>3, <1>4, <1>5, <1>6, <1>7 DEF Next

\* The calls of a sorted graph have finitely many identities.
LEMMA CallIds ==
    ASSUME GraphInv, CallInv
    PROVE  DOMAIN calls \subseteq Nat /\ IsFiniteSet(DOMAIN calls)
  <1>1. nextEdge \in Nat /\ DOMAIN calls \subseteq 0 .. nextEdge
    BY DEF GraphInv, CallInv, CallEdges
  <1>2. IsFiniteSet(0 .. nextEdge)
    BY <1>1, FS_Interval
  <1> QED BY <1>1, <1>2, FS_Subset

\* What approximating and inlining make of the records of the calls.
LEMMA ApproximateFacts ==
    ASSUME NEW cs, NEW S
    PROVE  /\ DOMAIN Approximate(cs, S) = DOMAIN cs
           /\ \A i \in DOMAIN cs : Approximate(cs, S)[i].approx \in BOOLEAN
  <1>1. DOMAIN Approximate(cs, S) = DOMAIN cs
    BY DEF Approximate
  <1>2. ASSUME NEW i \in DOMAIN cs PROVE Approximate(cs, S)[i].approx = (i \in S)
    BY DEF Approximate
  <1>3. \A i : (i \in S) \in BOOLEAN
    OBVIOUS
  <1> QED BY <1>1, <1>2, <1>3

LEMMA InlineApproximations ==
    ASSUME GraphInv, CallInv, ApproxInv, NEW c \in CallEdges, InlineCallIntoRoot(c)
    PROVE  \A i \in DOMAIN calls' : calls'[i].approx \in BOOLEAN
  <1> DEFINE new == {CopyId(c, k) : k \in CopiedCalls(c)}
             Longer(i) == Append(calls[c.id].chain, prog[c.callee].edges[i - CopyId(c, 0)].callee)
  <1>1. calls' = [i \in Remaining(calls, c.id) \cup new |->
                    IF i <= nextEdge THEN calls[i] ELSE [approx |-> FALSE, chain |-> Longer(i)]]
    BY DEF InlineCallIntoRoot
  <1>2. ASSUME NEW i \in new PROVE ~(i <= nextEdge)
    <2>1. PICK k \in CopiedCalls(c) : i = CopyId(c, k)
      OBVIOUS
    <2>2. nextEdge \in Nat /\ prog[c.callee].n \in Nat /\ prog[c.callee].n >= 2 /\ k \in Nat
      BY CfaFacts DEF GraphInv, CallEdges, CopiedCalls
    <2>3. i = nextEdge + prog[c.callee].n + k
      BY <2>1 DEF CopyId
    <2> DEFINE n == prog[c.callee].n
    <2> HIDE DEF n
    <2> QED BY <2>2, <2>3 DEF n
  <1> HIDE DEF new, Longer
  <1>3. ASSUME NEW i \in DOMAIN calls' PROVE calls'[i].approx \in BOOLEAN
    <2>1. CASE i <= nextEdge
      <3>1. i \in DOMAIN calls
        BY <1>1, <1>2, <2>1 DEF Remaining
      <3> QED BY <1>1, <2>1, <3>1 DEF ApproxInv
    <2>2. CASE ~(i <= nextEdge)
      BY <1>1, <2>2
    <2> QED BY <2>1, <2>2
  <1> QED BY <1>3

\* The records of the calls stay what they are.
LEMMA ApproxNext ==
    ASSUME Inv, Inv', ApproxInv, [Next]_vars
    PROVE  ApproxInv'
  <1> USE DEF graphVars
  <1>1. CASE UNCHANGED <<topo, calls>>
    BY <1>1 DEF ApproxInv, Sorted
  <1>2. CASE \E c \in CallEdges : InlineCallIntoRoot(c) /\ UNCHANGED pc /\ pc \in {"eagerInline", "inline"}
    <2>1. GraphInv /\ CallInv
      BY <1>2 DEF Inv, EarlyInv
    <2>2. Sorted'
      BY <1>2 DEF Inv, EarlyInv
    <2> QED BY <1>2, <2>1, <2>2, InlineApproximations DEF ApproxInv
  <1>3. CASE \E S : calls' = Approximate(calls, S) /\ UNCHANGED topo
    BY <1>3, ApproximateFacts DEF ApproxInv, Sorted
  <1>4. CASE CreateTopologicalSorts
    <2>1. PICK s : IsTopologicalOrder(s, nodes, edges) /\ topo' = s
      BY <1>4 DEF CreateTopologicalSorts
    <2>2. error \in nodes
      BY <1>4 DEF CreateTopologicalSorts, Inv, EarlyInv
    <2>3. PICK k \in DOMAIN s : s[k] = error
      BY <2>1, <2>2 DEF IsTopologicalOrder
    <2>4. Sorted'
      BY <2>1, <2>3 DEF Sorted
    <2>5. \A i \in DOMAIN calls' : calls'[i].approx = FALSE
      BY <1>4 DEF CreateTopologicalSorts
    <2> QED BY <2>4, <2>5 DEF ApproxInv
  <1>5. CASE InitializeErrorField \/ RemoveIrrelevantLocations \/ EagerIteration
    BY <1>1, <1>5 DEF InitializeErrorField, RemoveIrrelevantLocations, EagerIteration
  <1>6. CASE EagerInline
    BY <1>1, <1>2, <1>6 DEF EagerInline
  <1>7. CASE UnderApproximate \/ OverApproximate
    BY <1>3, <1>7 DEF UnderApproximate, OverApproximate
  <1>8. CASE SkipUnderApproximation \/ SetStartAndTarget \/ FinishInlining
    BY <1>1, <1>8 DEF SkipUnderApproximation, SetStartAndTarget, FinishInlining
  <1>9. CASE InlineNext
    BY <1>2, <1>9 DEF InlineNext
  <1>10. CASE Done \/ UNCHANGED vars
    BY <1>1, <1>10 DEF Done, vars
  <1> QED BY <1>4, <1>5, <1>6, <1>7, <1>8, <1>9, <1>10 DEF Next

\* The lengths of lists.
LEMMA ListLengths ==
    ASSUME NEW T, NEW s \in Seq(T), NEW x
    PROVE  /\ Len(Append(s, x)) = Len(s) + 1 /\ Len(s) \in Nat
           /\ s # <<>> => Len(InsertLast(s, x)) = Len(s) /\ InsertLast(s, x) \in Seq(T \cup {Insert(s[Len(s)], x)})
           /\ s # <<>> => Len(ButLast(s)) = Len(s) - 1 /\ ButLast(s) \in Seq(T)
  <1>1. s \in Seq(T \cup {x}) /\ Len(s) \in Nat
    OBVIOUS
  <1>2. Len(Append(s, x)) = Len(s) + 1
    BY <1>1
  <1>3. ASSUME s # <<>>
        PROVE  Len(InsertLast(s, x)) = Len(s) /\ InsertLast(s, x) \in Seq(T \cup {Insert(s[Len(s)], x)})
    <2> DEFINE y == Insert(s[Len(s)], x)
    <2>1. InsertLast(s, x) = [s EXCEPT ![Len(s)] = y]
      BY <1>1, <1>3 DEF InsertLast
    <2> HIDE DEF y
    <2> DEFINE r == [s EXCEPT ![Len(s)] = y]
    <2>2. s \in Seq(T \cup {y})
      OBVIOUS
    <2>3. r \in Seq(T \cup {y}) /\ Len(r) = Len(s)
      BY <1>1, <1>3, <2>2
    <2> QED BY <2>1, <2>3 DEF y
  <1>4. ASSUME s # <<>> PROVE Len(ButLast(s)) = Len(s) - 1 /\ ButLast(s) \in Seq(T)
    <2>1. PICK k \in Nat : k = Len(s) - 1
      BY <1>1, <1>4
    <2>2. SubSeq(s, 1, k) \in Seq(T) /\ Len(SubSeq(s, 1, k)) = k
      BY <1>1, <2>1
    <2> QED BY <2>1, <2>2 DEF ButLast
  <1> QED BY <1>1, <1>2, <1>3, <1>4

\* A scope of the solver has one of the predecessor cache.
LEMMA ScopesNext ==
    ASSUME SoundInv, CacheInv, ScopesInv, [Next]_vars
    PROVE  ScopesInv'
  <1>0. /\ preds \in Seq(Scopes) /\ preds # <<>> /\ marks \in Seq(Nat) /\ Len(marks) \in Nat
        /\ Len(preds) = Len(marks) + 1
    BY DEF SoundInv, SolverInv, CacheInv, GoodScopes, ScopesInv
  <1>1. CASE UNCHANGED <<preds, marks>>
    BY <1>1 DEF ScopesInv
  <1>2. CASE \E x, y : preds' = Append(preds, x) /\ marks' = Append(marks, y)
    <2>1. PICK x, y : preds' = Append(preds, x) /\ marks' = Append(marks, y)
      BY <1>2
    <2>2. Len(preds') = Len(preds) + 1 /\ Len(marks') = Len(marks) + 1
      BY <1>0, <2>1, ListLengths
    <2> QED BY <1>0, <2>2 DEF ScopesInv
  <1>3. CASE \E x : preds' = InsertLast(preds, x) /\ UNCHANGED marks
    <2>1. PICK x : preds' = InsertLast(preds, x) /\ UNCHANGED marks
      BY <1>3
    <2>2. Len(preds') = Len(preds)
      BY <1>0, <2>1, ListLengths
    <2> QED BY <1>0, <2>1, <2>2 DEF ScopesInv
  <1>4. CASE \E x, y, z : preds' = Append(InsertLast(preds, x), z) /\ marks' = Append(marks, y)
    <2>1. PICK x, y, z : preds' = Append(InsertLast(preds, x), z) /\ marks' = Append(marks, y)
      BY <1>4
    <2>2. PICK T, ps : ps = InsertLast(preds, x) /\ Len(ps) = Len(preds) /\ ps \in Seq(T)
      BY <1>0, ListLengths
    <2>3. preds' = Append(ps, z)
      BY <2>1, <2>2
    <2>4. Len(preds') = Len(ps) + 1
      BY <2>2, <2>3, ListLengths
    <2>5. Len(marks') = Len(marks) + 1
      BY <1>0, <2>1, ListLengths
    <2> QED BY <1>0, <2>2, <2>4, <2>5 DEF ScopesInv
  <1>5. CASE InitializeErrorField \/ RemoveIrrelevantLocations \/ CreateTopologicalSorts
    BY <1>1, <1>5 DEF InitializeErrorField, RemoveIrrelevantLocations, CreateTopologicalSorts, solverVars
  <1>6. CASE EagerIteration \/ EagerInline \/ SkipUnderApproximation \/ InlineNext
    BY <1>1, <1>6 DEF EagerIteration, EagerInline, SkipUnderApproximation, InlineNext, solverVars
  <1>7. CASE UnderApproximate
    <2>1. PICK x : \/ preds' = Append(InsertLast(preds, x), EmptyScope) /\ marks' = Append(marks, Len(asserted))
                   \/ preds' = InsertLast(preds, x) /\ UNCHANGED marks
      BY <1>7 DEF UnderApproximate, Push
    <2> QED BY <1>3, <1>4, <2>1
  <1>8. CASE SetStartAndTarget
    <2>1. \/ \E x : preds' = Append(preds, x) /\ marks' = Append(marks, Len(asserted))
          \/ UNCHANGED <<preds, marks>>
      BY <1>8 DEF SetStartAndTarget, Push, solverVars
    <2> QED BY <1>1, <1>2, <2>1
  <1>9. CASE OverApproximate
    <2>1. \/ \E x : preds' = Append(preds, x) /\ marks' = Append(marks, Len(asserted))
          \/ UNCHANGED <<preds, marks>>
      BY <1>9 DEF OverApproximate, Push
    <2> QED BY <1>1, <1>2, <2>1
  <1>10. CASE FinishInlining
    <2>1. preds' = ButLast(preds) /\ marks' = ButLast(marks)
      BY <1>10 DEF FinishInlining
    <2>2. marks # <<>>
      BY <1>10 DEF FinishInlining, SoundInv, SolverInv
    <2>3. Len(preds') = Len(preds) - 1 /\ Len(marks') = Len(marks) - 1
      BY <1>0, <2>1, <2>2, ListLengths
    <2> QED BY <1>0, <2>3 DEF ScopesInv
  <1>11. CASE Done \/ UNCHANGED vars
    BY <1>1, <1>11 DEF Done, vars, solverVars
  <1> QED BY <1>5, <1>6, <1>7, <1>8, <1>9, <1>10, <1>11 DEF Next

-----------------------------------------------------------------------------
(* The list of calls to inline *)

\* Filtered is the last value of a function that satisfies its equation.
KeepOn(x, k, q, S) == IF q[k] \in S THEN Append(x, q[k]) ELSE x

\* What is filtered out of a list is a list.
LEMMA FilteredType ==
    ASSUME NEW q, Len(q) \in Nat, NEW S
    PROVE  Filtered(q, S) \in Seq(S)
  <1> DEFINE n == Len(q)
             V == Seq(S)
             t == [p \in (1 .. n) \X V |-> KeepOn(p[2], p[1], q, S)]
             Is(F) == F = [k \in 0 .. n |-> IF k = 0 THEN <<>>
                                            ELSE IF q[k] \in S THEN Append(F[k - 1], q[k]) ELSE F[k - 1]]
             With(F) == F = [k \in 0 .. n |-> IF k = 0 THEN <<>> ELSE KeepOn(F[k - 1], k, q, S)]
  <1>0. n \in Nat /\ 0 \in Nat /\ 0 <= n /\ <<>> \in V
    OBVIOUS
  <1>1. ASSUME NEW i, NEW x \in V PROVE KeepOn(x, i, q, S) \in V
    BY DEF KeepOn
  <1>2. ASSUME NEW i \in 1 .. n, NEW x \in V PROVE t[<<i, x>>] = KeepOn(x, i, q, S) /\ t[<<i, x>>] \in V
    BY <1>1
  <1>3. \A F : Is(F) <=> With(F)
    BY DEF KeepOn
  <1> HIDE DEF t, n, V, Is
  <1>4. \A i \in 0 + 1 .. n : \A x \in V : t[<<i, x>>] \in V
    <2>1. \A i \in 0 + 1 .. n : i \in 1 .. n
      BY <1>0
    <2> QED BY <1>2, <2>1
  <1>5. PICK F \in [0 .. n -> V] : GoesUp(F, 0, n, <<>>, t)
    BY <1>0, <1>4, RecursionUp
  <1>6. With(F)
    <2>1. ASSUME NEW k \in 0 .. n, k # 0 PROVE F[k] = KeepOn(F[k - 1], k, q, S)
      <3>1. k - 1 \in 0 .. n /\ k \in 1 .. n
        BY <1>0, <2>1
      <3>2. F[k] = t[<<k, F[k - 1]>>] /\ F[k - 1] \in V
        BY <1>5, <2>1, <3>1 DEF GoesUp
      <3> QED BY <1>2, <3>1, <3>2
    <2>2. F[0] = <<>>
      BY <1>0, <1>5 DEF GoesUp
    <2> QED BY <1>5, <2>1, <2>2
  <1> DEFINE Q == CHOOSE G : Is(G)
  <1>7. Is(Q)
    BY <1>3, <1>6
  <1>8. Filtered(q, S) = Q[n]
    BY DEF Filtered, Is, n
  <1> HIDE DEF Q
  <1>9. Q = [k \in 0 .. n |-> IF k = 0 THEN <<>> ELSE KeepOn(Q[k - 1], k, q, S)]
    BY <1>3, <1>7
  <1> DEFINE I == {i \in 0 .. n : Q[i] \in V}
  <1>10. 0 <= n => 0 \in I
    BY <1>0, <1>9
  <1>11. ASSUME NEW i \in 0 .. n, i \in I, i < n PROVE i + 1 \in I
    <2>1. i + 1 \in 0 .. n /\ i + 1 # 0 /\ i + 1 - 1 = i
      BY <1>0, <1>11
    <2>2. Q[i + 1] = KeepOn(Q[i], i + 1, q, S)
      BY <1>9, <2>1
    <2> QED BY <1>1, <1>11, <2>1, <2>2
  <1>12. Q[n] \in V
    <2> HIDE DEF I
    <2>1. 0 .. n \subseteq I
      BY <1>0, <1>10, <1>11, IntervalInduction
    <2>2. n \in 0 .. n
      BY <1>0
    <2> QED BY <2>1, <2>2 DEF I
  <1> QED BY <1>8, <1>12 DEF V

\* A list of elements of a set is one of elements of a larger set.
LEMMA ListsOfMore ==
    ASSUME NEW S, NEW T, S \subseteq T, NEW s \in Seq(S)
    PROVE  s \in Seq(T)
  <1>1. Len(s) \in Nat /\ s \in [1 .. Len(s) -> S]
    OBVIOUS
  <1>2. s \in [1 .. Len(s) -> T]
    BY <1>1
  <1> QED BY <1>1, <1>2, SeqDef

\* What reading a counterexample gives has a length.
LEMMA ReadCexLength ==
    ASSUME GraphInv, OrderInv, error \in nodes, NEW m, NEW ps, NEW n, GoodScopes(ps, n)
    PROVE  Len(ReadCex(m, ps).locs) \in Nat
  <1> DEFINE N == Cardinality(nodes)
  <1>1. N \in Nat /\ N > 0
    <2>1. N = Len(topo) /\ N \in Nat
      BY LocationsCount
    <2>2. locNum[error] \in 1 .. Len(topo)
      BY NumberFacts
    <2> QED BY <2>1, <2>2
  <1>2. PICK W \in [1 .. N -> Walks] : ReadCex(m, ps) = [input |-> m.input, locs |-> W[N]]
    BY <1>1, WalksAre
  <1> HIDE DEF N
  <1>3. W[N] \in Walks
    BY <1>1, <1>2
  <1>4. Len(W[N]) \in Nat
    BY <1>3 DEF Walks
  <1> QED BY <1>2, <1>4

\* The calls of a counterexample that are open are calls.
LEMMA OpenCallsType ==
    ASSUME NEW c, Len(c.locs) \in Nat, NEW os, os \subseteq Nat
    PROVE  FindOpenCallsInCex(c, os) \in Seq(Nat)
  <1> DEFINE n == Len(c.locs)
             q == [k \in 1 .. n - 1 |-> CexEdge(c.locs[k + 1], c.locs[k]).id]
  <1>1. Len(q) \in Nat
    <2>1. PICK k : k = IF n = 0 THEN 0 ELSE n - 1
      OBVIOUS
    <2>2. k \in Nat /\ 1 .. n - 1 = 1 .. k
      BY <2>1
    <2>3. DOMAIN q = 1 .. k
      BY <2>2
    <2> HIDE DEF q
    <2> QED BY <2>2, <2>3, LenProperties
  <1> HIDE DEF q
  <1>2. Filtered(q, os) \in Seq(os)
    BY <1>1, FilteredType
  <1>3. Filtered(q, os) \in Seq(Nat)
    BY <1>2, ListsOfMore
  <1> QED BY <1>3 DEF FindOpenCallsInCex, q

\* The variables of the loop.
LEMMA LoopNext ==
    ASSUME Inv, Inv', SoundInv, EdgeInv, CacheInv, CacheInv', LoopInv, [Next]_vars
    PROVE  LoopInv'
  <1> USE DEF loopVars
  <1>1. CASE InitializeErrorField \/ RemoveIrrelevantLocations
    BY <1>1 DEF InitializeErrorField, RemoveIrrelevantLocations, LoopInv
  <1>2. CASE CreateTopologicalSorts
    BY <1>2 DEF CreateTopologicalSorts, LoopInv
  <1>3. CASE EagerIteration
    <2>1. /\ openCalls' \in {openCalls, Cheap(calls, bound)}
          /\ UNCHANGED <<work, bound, unhandled, skipUnderApprox>>
      BY <1>3 DEF EagerIteration
    <2>2. GraphInv /\ CallInv
      BY <1>3 DEF EagerIteration, Inv, EarlyInv
    <2>3. Cheap(calls, bound) \subseteq Nat
      BY <2>2, CallIds DEF Cheap
    <2> QED BY <2>1, <2>3 DEF LoopInv
  <1>4. CASE EagerInline
    <2>1. /\ openCalls' \subseteq openCalls /\ bound' \in {bound, bound + 1}
          /\ UNCHANGED <<work, unhandled, skipUnderApprox>>
      BY <1>4 DEF EagerInline
    <2> QED BY <2>1 DEF LoopInv
  <1>5. CASE UnderApproximate
    BY <1>5 DEF UnderApproximate, LoopInv
  <1>6. CASE SkipUnderApproximation
    BY <1>6 DEF SkipUnderApproximation, LoopInv
  <1>7. CASE SetStartAndTarget
    BY <1>7 DEF SetStartAndTarget, LoopInv
  <1>8. CASE OverApproximate
    <2> DEFINE open == Cheap(calls, bound)
    <2>1. /\ pc = "over" /\ UNCHANGED <<nodes, edges, topo, locNum, error>>
          /\ openCalls' = open /\ unhandled' = Cardinality(Unhandled(calls, open))
          /\ bound' \in {bound, bound + 1} /\ skipUnderApprox' \in {skipUnderApprox, TRUE}
          /\ \/ UNCHANGED work
             \/ /\ work' = FindOpenCallsInCex(cex', open)
                /\ \E m : cex' = ReadCex(m, preds')
      BY <1>8 DEF OverApproximate, fixedVars
    <2>2. GraphInv /\ CallInv /\ OrderInv
      BY <2>1, LoopFacts
    <2>3. error \in nodes
      BY <2>1 DEF Inv, EarlyInv
    <2>4. open \subseteq Nat /\ Cardinality(Unhandled(calls, open)) \in Nat
      <3>1. DOMAIN calls \subseteq Nat /\ IsFiniteSet(DOMAIN calls)
        BY <2>2, CallIds
      <3>2. open \subseteq DOMAIN calls /\ Unhandled(calls, open) \subseteq DOMAIN calls
        BY DEF Cheap, Unhandled
      <3> HIDE DEF open
      <3>3. IsFiniteSet(Unhandled(calls, open))
        BY <3>1, <3>2, FS_Subset
      <3> QED BY <3>1, <3>2, <3>3, FS_CardinalityType
    <2> HIDE DEF open
    <2>5. openCalls' \subseteq Nat /\ unhandled' \in Nat /\ bound' \in Nat /\ skipUnderApprox' \in BOOLEAN
      <3>1. bound' \in Nat /\ openCalls' \subseteq Nat /\ unhandled' \in Nat
        BY <2>1, <2>4 DEF LoopInv
      <3>2. skipUnderApprox' \in BOOLEAN
        BY <2>1 DEF LoopInv
      <3> QED BY <3>1, <3>2
    <2>6. CASE UNCHANGED work
      <3>1. work' \in Seq(Nat)
        BY <2>6 DEF LoopInv
      <3> QED BY <2>5, <3>1 DEF LoopInv
    <2>7. CASE work' = FindOpenCallsInCex(cex', open) /\ \E m : cex' = ReadCex(m, preds')
      <3>1. PICK ps, n : ps = preds' /\ n = encodings'
        OBVIOUS
      <3>2. GoodScopes(ps, n)
        BY <2>1, <3>1 DEF CacheInv, GoodScopes, GoodScope
      <3>3. PICK m : cex' = ReadCex(m, ps)
        BY <2>7, <3>1
      <3>4. Len(cex'.locs) \in Nat
        BY <2>2, <2>3, <3>2, <3>3, ReadCexLength
      <3>5. PICK c : c = cex'
        OBVIOUS
      <3>6. FindOpenCallsInCex(c, open) \in Seq(Nat)
        BY <2>4, <3>4, <3>5, OpenCallsType
      <3>7. work' \in Seq(Nat)
        BY <2>7, <3>5, <3>6
      <3> QED BY <2>5, <3>7 DEF LoopInv
    <2> QED BY <2>1, <2>6, <2>7
  <1>9. CASE InlineNext
    <2>0. PICK c \in CallEdges : \E new, q :
              /\ openCalls' = openCalls \ {c.id} /\ pc' = "inline"
              /\ work # <<>> /\ work' = ButLast(work) \o Filtered(q, new)
              /\ new \subseteq DOMAIN calls'
              /\ q = [k \in DOMAIN prog[c.callee].edges |-> CopyId(c, k)]
              /\ UNCHANGED <<bound, unhandled, skipUnderApprox>>
      BY <1>9 DEF InlineNext, Cheap
    <2>1. PICK new, q :
            /\ openCalls' = openCalls \ {c.id} /\ pc' = "inline"
            /\ work # <<>> /\ work' = ButLast(work) \o Filtered(q, new)
            /\ new \subseteq DOMAIN calls'
            /\ q = [k \in DOMAIN prog[c.callee].edges |-> CopyId(c, k)]
            /\ UNCHANGED <<bound, unhandled, skipUnderApprox>>
      BY <2>0
    <2>2. DOMAIN calls' \subseteq Nat
      <3>1. GraphInv' /\ CallInv'
        BY <2>1 DEF Inv, EarlyInv
      <3>2. DOMAIN calls' = {e.id : e \in CallEdges'} /\ \A e \in CallEdges' : e.id \in Nat
        BY <3>1 DEF CallInv, CallEdges, GraphInv
      <3> QED BY <3>2
    <2>3. Len(q) \in Nat
      <3>1. GraphInv
        BY DEF Inv
      <3>2. prog[c.callee].edges \in Seq(Transition)
        BY <3>1, CfaFacts DEF GraphInv, CallEdges
      <3>3. PICK k \in Nat : DOMAIN q = 1 .. k
        BY <2>1, <3>2
      <3>4. Len(q) = k
        BY <2>1, <3>3, LenProperties
      <3> QED BY <3>4
    <2>4. Filtered(q, new) \in Seq(Nat)
      <3>1. Filtered(q, new) \in Seq(new)
        BY <2>3, FilteredType
      <3>2. new \subseteq Nat
        BY <2>1, <2>2
      <3> QED BY <3>1, <3>2, ListsOfMore
    <2>5. ButLast(work) \in Seq(Nat)
      BY <2>1, ListLengths DEF LoopInv
    <2>6. work' \in Seq(Nat)
      BY <2>1, <2>4, <2>5
    <2> QED BY <2>1, <2>6 DEF LoopInv
  <1>10. CASE FinishInlining
    BY <1>10 DEF FinishInlining, LoopInv
  <1>11. CASE Done \/ UNCHANGED vars
    BY <1>11 DEF Done, vars, LoopInv
  <1> QED BY <1>1, <1>2, <1>3, <1>4, <1>5, <1>6, <1>7, <1>8, <1>9, <1>10, <1>11 DEF Next

\* Together with the other invariants these are the types.
LEMMA TypesFollow ==
    ASSUME Inv, SoundInv, EdgeInv, CacheInv, TypeInv
    PROVE  TypeOK
  <1>1. /\ pc \in Steps /\ verdict \in Statuses /\ (pc = "done") = (verdict # "Running")
        /\ Len(preds) = Len(marks) + 1
    BY DEF TypeInv, StatusInv, ScopesInv
  <1>2. /\ openCalls \subseteq Nat /\ work \in Seq(Nat)
        /\ bound \in Nat /\ unhandled \in Nat /\ skipUnderApprox \in BOOLEAN
    BY DEF TypeInv, LoopInv
  <1>3. /\ prog \in Programs /\ nextLoc \in Nat /\ nextEdge \in Nat /\ nodes \subseteq Nat
    BY DEF Inv, GraphInv
  <1>4. edges \subseteq Edge /\ error \in Nat \cup {Null} /\ encodings \in Nat /\ unknowns \in Nat
    BY DEF EdgeInv, SoundInv, SolverInv
  <1>5. topo \in Seq(Nat)
    <2>1. CASE Sorted
      <3>1. topo \in Seq(nodes)
        BY <2>1 DEF Inv, OrderInv
      <3> QED BY <1>3, <3>1, ListsOfMore
    <2>2. CASE ~Sorted
      <3>1. <<>> \in Seq(Nat)
        OBVIOUS
      <3> QED BY <2>2, <3>1 DEF Sorted
    <2> QED BY <2>1, <2>2
  <1>6. ASSUME NEW i \in DOMAIN calls
        PROVE  calls[i].approx \in BOOLEAN /\ calls[i].chain \in Seq(Procs)
    <2>1. calls[i].approx \in BOOLEAN /\ Sorted
      BY DEF TypeInv, ApproxInv
    <2>2. CallInv
      BY <2>1 DEF Inv
    <2> QED BY <2>1, <2>2 DEF CallInv
  <1> QED BY <1>1, <1>2, <1>3, <1>4, <1>5, <1>6 DEF TypeOK

\* In every execution, the state of the engine has the types of its C++
\* fields, the solver has one scope less than the predecessor cache, and
\* check() returns when it has a verdict.
THEOREM EngineTypes == Spec => []TypeOK
  <1>1. Spec => []EdgeInv
    BY EdgeInit, EdgeNext, Invariance, PTL DEF Spec
  <1>2. Spec => []CacheInv
    BY <1>1, CacheInit, CacheNext, Invariance, Soundness, PTL DEF Spec
  <1>3. TypeInv /\ Inv /\ Inv' /\ SoundInv /\ EdgeInv /\ CacheInv /\ CacheInv' /\ [Next]_vars => TypeInv'
    BY StatusNext, ApproxNext, ScopesNext, LoopNext DEF TypeInv
  <1>4. Spec => []TypeInv
    BY <1>1, <1>2, <1>3, TypeInit, Invariance, Soundness, PTL DEF Spec
  <1> QED BY <1>1, <1>2, <1>4, TypesFollow, Invariance, Soundness, PTL

=============================================================================
